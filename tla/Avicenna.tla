------------------------------- MODULE Avicenna -------------------------------
(***************************************************************************)
(* The Avicenna replica (src/src/avicenna/avicenna.go): normal-case        *)
(* ordering of the real and the mock log, and rotation of the coordinator. *)
(*                                                                         *)
(* One action is one pass of run()'s select: a message, a batch or a       *)
(* suspicion is taken from its channel and its handler runs to the end.    *)
(* The batcher goroutine runs beside it.                                   *)
(*                                                                         *)
(* TCP and one dispatching goroutine per peer make every message type a    *)
(* FIFO channel for each pair of replicas, with no order between types;    *)
(* Rotates are sent by a goroutine for each peer and have no order at all. *)
(* Messages are neither lost nor duplicated; a slow or stopped replica is  *)
(* one whose actions are not taken.                                        *)
(***************************************************************************)
EXTENDS AvicennaLog

CONSTANTS
    MaxPhase,   \* bound: phases 0 .. MaxPhase
    Arrivals,   \* bound: the commands that reach each replica
    Suspicions  \* bound: the <<replica, phase>> whose detector may fire

ASSUME MaxPhaseAssumption == MaxPhase \in Nat
ASSUME ArrivalsAssumption == Arrivals \in [Replica -> SUBSET Cmds]
ASSUME SuspicionsAssumption == Suspicions \subseteq (Replica \X (0 .. MaxPhase))

Phase == 0 .. MaxPhase

VARIABLES
    phase,                   \* the replica's phase
    sentForPhase,            \* it broadcast its Rotate for the phase
    rotateMessages,          \* RotateMessages and RotateMessagesMock
    panicked,                \* the panic that stopped the process, or "no"
    instanceSpace,           \* the real log
    committedUpTo,
    latestCmdSeen,
    instanceSpaceMock,       \* the mock log
    mockCommittedUpTo,
    latestCmdSeenMock,
    globalMaxCommittedGhost,
    unbatched,               \* commands the batcher has not consumed yet
    batchedCmdsChan,         \* batched, waiting for the main loop
    acceptExecTimeChan, acceptChan, acceptReplyChan, commitChan,
                             \* [receiver][sender]: FIFO
    rotateChan,              \* Rotates in flight or put back
    rotated,                 \* history: who sent a Rotate for which phase
    votes,                   \* history: AcceptReplies sent for the real log
    decided                  \* history: commits on a quorum of AcceptReplies

rotationVars == <<phase, sentForPhase, rotateMessages, rotateChan, rotated>>
realVars     == <<instanceSpace, committedUpTo, latestCmdSeen>>
mockVars     == <<instanceSpaceMock, mockCommittedUpTo, latestCmdSeenMock,
                  globalMaxCommittedGhost>>
clientVars   == <<unbatched, batchedCmdsChan>>
channels     == <<acceptExecTimeChan, acceptChan, acceptReplyChan, commitChan>>
history      == <<votes, decided>>
vars == <<rotationVars, realVars, mockVars, clientVars, channels, history,
          panicked>>

-----------------------------------------------------------------------------
(* Roles and guards *)

IsCoordinator(r) == r = Coordinator(phase[r])
IsMockCoordinator(r) == r = MockCoordinator(phase[r])
IsStandby(r) == r \in Standbys(phase[r])

Alive(r) == panicked[r] = "no"

\* mutant: the main loop keeps serving after its Rotate
ServingAlways(r) == Alive(r)

\* once it sent its Rotate, run() only takes Rotates and suspicions
Serving(r) == Alive(r) /\ ~sentForPhase[r]

Others(r) == Replica \ {r}

\* bcastAcceptMsg skips the standbys
Acceptors(r) == Others(r) \ Standbys(phase[r])

Panic(r, where) == panicked' = [panicked EXCEPT ![r] = where]

-----------------------------------------------------------------------------
(* Channels *)

\* message sequence ms from s appended to the channel of every d in dsts
Sent(chan, s, dsts, ms) ==
    [d \in Replica |-> IF d \in dsts THEN [chan[d] EXCEPT ![s] = @ \o ms]
                                     ELSE chan[d]]

Received(chan, r, s) == [chan EXCEPT ![r][s] = Tail(@)]

\* r puts the message it took from s back at the end of its channel: behind
\* those messages of s that have arrived
PutBack(chan, r, s) ==
    LET q == chan[r][s]
    IN  {[chan EXCEPT ![r][s] = SubSeq(q, 2, i) \o <<q[1]>>
                                \o SubSeq(q, i + 1, Len(q))] : i \in DOMAIN q}

\* an Accept of a single instance
Only(i, cmds) == [j \in {i} |-> cmds]

AcceptMsg(r, accept) == [phase |-> phase[r], accept |-> accept]
Reply(p, i, mock) == [phase |-> p, inst |-> i, mock |-> mock]
CommitMsg(i, cmds, mock, max) ==
    [inst |-> i, cmds |-> cmds, mock |-> mock, globalMax |-> max]

\* mutant: replies for the instances after those accepted
RepliesOffByOne(p, insts, mock) ==
    LET at == Ascending(insts)
    IN  [k \in DOMAIN at |-> Reply(p, at[k] + 1, mock)]

\* one AcceptReply per instance, in the order of the instances
Replies(p, insts, mock) ==
    LET at == Ascending(insts)
    IN  [k \in DOMAIN at |-> Reply(p, at[k], mock)]

-----------------------------------------------------------------------------
(* Clients and batching *)

\* a client's commands arrive in the order in which it sent them
InOrder(cmds, waiting) ==
    \A c \in cmds, d \in waiting : (d[1] = c[1] /\ d[2] < c[2]) => d \in cmds

\* clockChan ticks: the batcher hands over what it collected if the replica
\* has a leading role, and drops it if not
ClientBatch(r) ==
    /\ Alive(r)
    /\ \E cmds \in SUBSET unbatched[r] \ {{}} :
        /\ InOrder(cmds, unbatched[r])
        /\ unbatched' = [unbatched EXCEPT ![r] = @ \ cmds]
        /\ batchedCmdsChan' =
             IF IsCoordinator(r) \/ IsMockCoordinator(r)
             THEN [batchedCmdsChan EXCEPT ![r] = @ \union cmds]
             ELSE batchedCmdsChan
    /\ UNCHANGED <<rotationVars, realVars, mockVars, channels, history,
                   panicked>>

\* hangleProposeBatch: all waiting batches become the next instance
HandleProposeBatch(r) ==
    LET cmds   == batchedCmdsChan[r]
        doMock == cmds \cap Ghost # {}
        real   == NextNil(instanceSpace[r])
        mock   == NextNil(instanceSpaceMock[r])
        leads  == IsCoordinator(r)
        mocks  == ~leads /\ doMock /\ IsMockCoordinator(r)
    IN
    /\ Serving(r)
    /\ cmds # {}
    /\ real < MaxInst
    /\ doMock => mock < MaxInst
    /\ batchedCmdsChan' = [batchedCmdsChan EXCEPT ![r] = {}]
    /\ instanceSpace' = [instanceSpace EXCEPT ![r][real] =
            NewInstance(IF leads THEN "ACCEPTED" ELSE "RECEIVED", cmds)]
    /\ instanceSpaceMock' =
            IF doMock
            THEN [instanceSpaceMock EXCEPT ![r][mock] =
                    NewInstance(IF mocks THEN "MOCKACCEPTED" ELSE "RECEIVED",
                                cmds)]
            ELSE instanceSpaceMock
    /\ acceptExecTimeChan' =
            CASE leads -> Sent(acceptExecTimeChan, r, Acceptors(r),
                               <<AcceptMsg(r, Only(real, cmds))>>)
              [] mocks -> Sent(acceptExecTimeChan, r, Others(r),
                               <<AcceptMsg(r, Only(mock, cmds))>>)
              [] OTHER -> acceptExecTimeChan
    /\ UNCHANGED <<rotationVars, committedUpTo, latestCmdSeen,
                   mockCommittedUpTo, latestCmdSeenMock,
                   globalMaxCommittedGhost, unbatched, acceptChan,
                   acceptReplyChan, commitChan, history, panicked>>
-----------------------------------------------------------------------------
(* Accepting *)

\* the message r is about to take from s
Next1(chan, r, s) == Head(chan[r][s])

Vote(r, p, i, cmds) == [replica |-> r, phase |-> p, inst |-> i, cmds |-> cmds]

\* both Accept handlers of the mock log, and the one of AcceptExecTime for
\* the real log, serve the replica's own phase only
AcceptExecTimeIgnored(r, s) ==
    /\ Serving(r)
    /\ acceptExecTimeChan[r][s] # <<>>
    /\ LET m == Next1(acceptExecTimeChan, r, s)
       IN  m.phase < phase[r] \/ (m.phase = phase[r] /\ IsStandby(r))
    /\ acceptExecTimeChan' = Received(acceptExecTimeChan, r, s)
    /\ UNCHANGED <<rotationVars, realVars, mockVars, clientVars, acceptChan,
                   acceptReplyChan, commitChan, history, panicked>>

AcceptExecTimeAhead(r, s) ==
    /\ Serving(r)
    /\ acceptExecTimeChan[r][s] # <<>>
    /\ Next1(acceptExecTimeChan, r, s).phase > phase[r]
    /\ acceptExecTimeChan' \in PutBack(acceptExecTimeChan, r, s)
    /\ UNCHANGED <<rotationVars, realVars, mockVars, clientVars, acceptChan,
                   acceptReplyChan, commitChan, history, panicked>>

\* handleRealAcceptExecTime
RealAcceptExecTime(r, s) ==
    LET m     == Next1(acceptExecTimeChan, r, s)
        log   == instanceSpace[r]
        i     == CHOOSE j \in DOMAIN m.accept : TRUE
        blank == BlankUpTo(log, i)
        voted == Votes(blank, {i}, "COMMITTED")
    IN
    /\ Serving(r)
    /\ acceptExecTimeChan[r][s] # <<>>
    /\ s = Coordinator(m.phase)
    /\ m.phase = phase[r] /\ ~IsStandby(r)
    /\ acceptExecTimeChan' = Received(acceptExecTimeChan, r, s)
    /\ instanceSpace' = [instanceSpace EXCEPT ![r] =
                            Accepted(blank, voted, m.accept, "ACCEPTED")]
    /\ latestCmdSeen' = [latestCmdSeen EXCEPT ![r] =
            IF voted = {} THEN @
            ELSE AddToQueue(@, Overwritten(log, i, m.accept))]
    /\ acceptReplyChan' = Sent(acceptReplyChan, r, {s},
                               Replies(m.phase, voted, FALSE))
    /\ votes' = votes \union {Vote(r, m.phase, j, m.accept[j]) : j \in voted}
    /\ UNCHANGED <<rotationVars, committedUpTo, mockVars, clientVars,
                   acceptChan, commitChan, decided, panicked>>

\* handleMockAcceptExecTime: a nil instance is created alone, with no
\* commands
MockAcceptExecTime(r, s) ==
    LET m     == Next1(acceptExecTimeChan, r, s)
        log   == instanceSpaceMock[r]
        i     == CHOOSE j \in DOMAIN m.accept : TRUE
        voted == Votes(log, {i}, "MOCKCOMMITTED")
    IN
    /\ Serving(r)
    /\ acceptExecTimeChan[r][s] # <<>>
    /\ s # Coordinator(m.phase)
    /\ m.phase = phase[r] /\ ~IsStandby(r)
    /\ acceptExecTimeChan' = Received(acceptExecTimeChan, r, s)
    /\ instanceSpaceMock' = [instanceSpaceMock EXCEPT ![r] =
                                Accepted(log, voted, m.accept, "MOCKACCEPTED")]
    /\ latestCmdSeenMock' = [latestCmdSeenMock EXCEPT ![r] =
            IF voted = {} THEN @
            ELSE DeleteFromQueue(AddToQueue(@, log[i].cmds), m.accept[i])]
    /\ acceptReplyChan' = Sent(acceptReplyChan, r, {s},
                               Replies(m.phase, voted, TRUE))
    /\ UNCHANGED <<rotationVars, realVars, mockCommittedUpTo,
                   globalMaxCommittedGhost, clientVars, acceptChan,
                   commitChan, history, panicked>>

\* handleMockAccept and handleRealAccept: stale, or a standby
AcceptIgnored(r, s) ==
    /\ Serving(r)
    /\ acceptChan[r][s] # <<>>
    /\ LET m == Next1(acceptChan, r, s)
       IN  \/ m.phase < phase[r]
           \/ /\ r \in Standbys(m.phase)
              /\ m.phase = phase[r] \/ s = Coordinator(m.phase)
    /\ acceptChan' = Received(acceptChan, r, s)
    /\ UNCHANGED <<rotationVars, realVars, mockVars, clientVars,
                   acceptExecTimeChan, acceptReplyChan, commitChan, history,
                   panicked>>

\* handleMockAccept of a later phase
MockAcceptAhead(r, s) ==
    /\ Serving(r)
    /\ acceptChan[r][s] # <<>>
    /\ LET m == Next1(acceptChan, r, s)
       IN  m.phase > phase[r] /\ s # Coordinator(m.phase)
    /\ acceptChan' \in PutBack(acceptChan, r, s)
    /\ UNCHANGED <<rotationVars, realVars, mockVars, clientVars,
                   acceptExecTimeChan, acceptReplyChan, commitChan, history,
                   panicked>>

\* the rest of a long Accept that met a hole is put back with its beginning
TakeAccept(r, s, wholly) ==
    acceptChan' \in IF wholly THEN {Received(acceptChan, r, s)}
                              ELSE PutBack(acceptChan, r, s)

\* handleRealAccept: a later phase is accepted too, and phase stays
RealAccept(r, s) ==
    LET m     == Next1(acceptChan, r, s)
        log   == instanceSpace[r]
        insts == Acceptable(log, m.accept)
        voted == Votes(log, insts, "COMMITTED")
    IN
    /\ Serving(r)
    /\ acceptChan[r][s] # <<>>
    /\ s = Coordinator(m.phase)
    /\ m.phase >= phase[r] /\ r \notin Standbys(m.phase)
    /\ TakeAccept(r, s, insts = DOMAIN m.accept)
    /\ instanceSpace' = [instanceSpace EXCEPT ![r] =
                            Accepted(log, voted, m.accept, "ACCEPTED")]
    /\ latestCmdSeen' = [latestCmdSeen EXCEPT ![r] =
            AddToQueue(@, UNION {Overwritten(log, i, m.accept) : i \in voted})]
    /\ acceptReplyChan' = Sent(acceptReplyChan, r, {s},
                               Replies(m.phase, voted, FALSE))
    /\ votes' = votes \union {Vote(r, m.phase, i, m.accept[i]) : i \in voted}
    /\ UNCHANGED <<rotationVars, committedUpTo, mockVars, clientVars,
                   acceptExecTimeChan, commitChan, decided, panicked>>

\* handleMockAccept
MockAccept(r, s) ==
    LET m     == Next1(acceptChan, r, s)
        log   == instanceSpaceMock[r]
        insts == Acceptable(log, m.accept)
        voted == Votes(log, insts, "MOCKCOMMITTED")
    IN
    /\ Serving(r)
    /\ acceptChan[r][s] # <<>>
    /\ s # Coordinator(m.phase)
    /\ m.phase = phase[r] /\ ~IsStandby(r)
    /\ TakeAccept(r, s, insts = DOMAIN m.accept)
    /\ instanceSpaceMock' = [instanceSpaceMock EXCEPT ![r] =
                                Accepted(log, voted, m.accept, "MOCKACCEPTED")]
    /\ latestCmdSeenMock' = [latestCmdSeenMock EXCEPT ![r] =
                                MockQueueAfter(@, log, voted, m.accept)]
    /\ acceptReplyChan' = Sent(acceptReplyChan, r, {s},
                               Replies(m.phase, voted, TRUE))
    /\ UNCHANGED <<rotationVars, realVars, mockCommittedUpTo,
                   globalMaxCommittedGhost, clientVars, acceptExecTimeChan,
                   commitChan, history, panicked>>

-----------------------------------------------------------------------------
(* Committing *)

\* mutant: the commands of the commit are not taken over
CommittedKeepingCmds(log, i, cmds, status) == [log EXCEPT ![i].status = status]

\* commit and mockCommit: set the commands and the status of the instance
Committed(log, i, cmds, status) ==
    [log EXCEPT ![i] = [@ EXCEPT !.status = status, !.cmds = cmds]]

\* mutant: replies of other phases are counted
AnyReply(r, reply) == TRUE

\* handleAcceptReply: only replies of the replica's phase are counted
CurrentReply(r, reply) == reply.phase = phase[r]

AcceptReplyIgnored(r, s) ==
    /\ Serving(r)
    /\ acceptReplyChan[r][s] # <<>>
    /\ ~CurrentReply(r, Next1(acceptReplyChan, r, s))
    /\ acceptReplyChan' = Received(acceptReplyChan, r, s)
    /\ UNCHANGED <<rotationVars, realVars, mockVars, clientVars,
                   acceptExecTimeChan, acceptChan, commitChan, history,
                   panicked>>

\* handleAcceptReplyReal
RealAcceptReply(r, s) ==
    LET m       == Next1(acceptReplyChan, r, s)
        i       == m.inst
        log     == [instanceSpace[r] EXCEPT ![i] = Counted(@)]
        commits == /\ log[i].status # "COMMITTED"
                   /\ EnoughAccepts(log[i].accepts)
        cmds    == log[i].cmds
        new     == IF commits THEN Committed(log, i, cmds, "COMMITTED") ELSE log
    IN
    /\ Serving(r)
    /\ acceptReplyChan[r][s] # <<>>
    /\ CurrentReply(r, m) /\ ~m.mock
    /\ acceptReplyChan' = Received(acceptReplyChan, r, s)
    /\ IF IsNil(instanceSpace[r], i)
       THEN /\ Panic(r, "nil instance in handleAcceptReply")
            /\ UNCHANGED <<realVars, commitChan, decided>>
       ELSE /\ instanceSpace' = [instanceSpace EXCEPT ![r] = new]
            /\ committedUpTo' = [committedUpTo EXCEPT ![r] =
                                    CommittedPrefix(new, @, "COMMITTED")]
            /\ latestCmdSeen' = [latestCmdSeen EXCEPT ![r] =
                                    IF commits THEN AddToQueue(@, cmds) ELSE @]
            /\ commitChan' = IF commits
                             THEN Sent(commitChan, r, Others(r),
                                       <<CommitMsg(i, cmds, FALSE, 0)>>)
                             ELSE commitChan
            /\ decided' = IF commits
                          THEN decided \union {Vote(r, phase[r], i, cmds)}
                          ELSE decided
            /\ UNCHANGED panicked
    /\ UNCHANGED <<rotationVars, mockVars, clientVars, acceptExecTimeChan,
                   acceptChan, votes>>

\* updateGobalMaxCommitGhost: the run of fully accepted instances from i on
GlobalMaxFrom(log, i) ==
    CHOOSE n \in i .. MaxInst - 1 :
        /\ \A j \in i + 1 .. n : log[j].accepts = (N \div 2) + 1
        /\ n + 1 < MaxInst => log[n + 1].accepts # (N \div 2) + 1

\* handleAcceptReplyMock
MockAcceptReply(r, s) ==
    LET m       == Next1(acceptReplyChan, r, s)
        i       == m.inst
        log     == [instanceSpaceMock[r] EXCEPT ![i] = Counted(@)]
        commits == /\ log[i].status # "MOCKCOMMITTED"
                   /\ EnoughAccepts(log[i].accepts)
        cmds    == log[i].cmds
        new     == IF commits THEN Committed(log, i, cmds, "MOCKCOMMITTED")
                              ELSE log
        max     == globalMaxCommittedGhost[r]
    IN
    /\ Serving(r)
    /\ acceptReplyChan[r][s] # <<>>
    /\ CurrentReply(r, m) /\ m.mock
    /\ acceptReplyChan' = Received(acceptReplyChan, r, s)
    /\ IF IsNil(instanceSpaceMock[r], i)
       THEN /\ Panic(r, "nil instance in handleAcceptReply for a MockAccept")
            /\ UNCHANGED <<mockVars, commitChan>>
       ELSE /\ instanceSpaceMock' = [instanceSpaceMock EXCEPT ![r] = new]
            /\ mockCommittedUpTo' = [mockCommittedUpTo EXCEPT ![r] =
                                CommittedPrefix(new, @, "MOCKCOMMITTED")]
            /\ latestCmdSeenMock' = [latestCmdSeenMock EXCEPT ![r] =
                                IF commits THEN DeleteFromQueue(@, cmds) ELSE @]
            /\ globalMaxCommittedGhost' = [globalMaxCommittedGhost EXCEPT ![r] =
                    IF /\ log[i].status = "MOCKCOMMITTED"
                       /\ log[i].accepts = (N \div 2) + 1
                       /\ max = i - 1
                    THEN GlobalMaxFrom(log, i) ELSE @]
            /\ commitChan' = IF commits
                             THEN Sent(commitChan, r, Others(r),
                                       <<CommitMsg(i, cmds, TRUE, max)>>)
                             ELSE commitChan
            /\ UNCHANGED panicked
    /\ UNCHANGED <<rotationVars, realVars, clientVars, acceptExecTimeChan,
                   acceptChan, history>>

WrongSize == "Commit message had wrong size commands instance"

\* handleRealCommit: no phase is checked.  A coordinator that learns of a
\* commit proposes its queue - which the commit has just added to.
RealCommit(r, s) ==
    LET m     == Next1(commitChan, r, s)
        i     == m.inst
        log   == instanceSpace[r]
        new   == Committed(log, i, m.cmds, "COMMITTED")
        queue == AddToQueue(latestCmdSeen[r], log[i].cmds \union m.cmds)
        next  == NextNil(new)
        proposes == IsCoordinator(r) /\ queue # {}
    IN
    /\ Serving(r)
    /\ commitChan[r][s] # <<>>
    /\ ~m.mock
    /\ commitChan' = Received(commitChan, r, s)
    /\ IF log[i].status = "COMMITTED"
       THEN /\ IF Cardinality(m.cmds) # Cardinality(log[i].cmds)
               THEN Panic(r, WrongSize) ELSE UNCHANGED panicked
            /\ UNCHANGED <<realVars, acceptChan>>
       ELSE /\ proposes => next < MaxInst
            /\ instanceSpace' = [instanceSpace EXCEPT ![r] =
                    IF proposes
                    THEN [new EXCEPT ![next] = NewInstance("ACCEPTED", queue)]
                    ELSE new]
            /\ committedUpTo' = [committedUpTo EXCEPT ![r] =
                                    CommittedPrefix(new, @, "COMMITTED")]
            /\ latestCmdSeen' = [latestCmdSeen EXCEPT ![r] =
                                    IF proposes THEN {} ELSE queue]
            /\ acceptChan' = IF proposes
                             THEN Sent(acceptChan, r, Acceptors(r),
                                       <<AcceptMsg(r, Only(next, queue))>>)
                             ELSE acceptChan
            /\ UNCHANGED panicked
    /\ UNCHANGED <<rotationVars, mockVars, clientVars, acceptExecTimeChan,
                   acceptReplyChan, history>>

\* handleMockCommit
MockCommit(r, s) ==
    LET m     == Next1(commitChan, r, s)
        i     == m.inst
        log   == instanceSpaceMock[r]
        new   == Committed(log, i, m.cmds, "MOCKCOMMITTED")
        queue == DeleteFromQueue(AddToQueue(latestCmdSeenMock[r], log[i].cmds),
                                 m.cmds)
        next  == NextNil(new)
        proposes == IsMockCoordinator(r) /\ queue # {}
    IN
    /\ Serving(r)
    /\ commitChan[r][s] # <<>>
    /\ m.mock
    /\ commitChan' = Received(commitChan, r, s)
    /\ globalMaxCommittedGhost' = [globalMaxCommittedGhost EXCEPT ![r] =
                                        m.globalMax]
    /\ IF log[i].status = "MOCKCOMMITTED"
       THEN /\ IF Cardinality(m.cmds) # Cardinality(log[i].cmds)
               THEN Panic(r, WrongSize) ELSE UNCHANGED panicked
            /\ UNCHANGED <<instanceSpaceMock, mockCommittedUpTo,
                           latestCmdSeenMock, acceptChan>>
       ELSE /\ proposes => next < MaxInst
            /\ instanceSpaceMock' = [instanceSpaceMock EXCEPT ![r] =
                    IF proposes
                    THEN [new EXCEPT ![next] =
                            NewInstance("MOCKACCEPTED", queue)]
                    ELSE new]
            /\ mockCommittedUpTo' = [mockCommittedUpTo EXCEPT ![r] =
                                CommittedPrefix(new, @, "MOCKCOMMITTED")]
            /\ latestCmdSeenMock' = [latestCmdSeenMock EXCEPT ![r] =
                                        IF proposes THEN {} ELSE queue]
            /\ acceptChan' = IF proposes
                             THEN Sent(acceptChan, r, Acceptors(r),
                                       <<AcceptMsg(r, Only(next, queue))>>)
                             ELSE acceptChan
            /\ UNCHANGED panicked
    /\ UNCHANGED <<rotationVars, realVars, clientVars, acceptExecTimeChan,
                   acceptReplyChan, history>>

-----------------------------------------------------------------------------
(* Rotation: sending a Rotate *)

OwnReport(r) ==
    [real |-> Report(instanceSpace[r], 0, "ACCEPTED", "COMMITTED"),
     mock |-> Report(instanceSpaceMock[r], globalMaxCommittedGhost[r],
                     "MOCKACCEPTED", "MOCKCOMMITTED")]

Reports(log, first, status) ==
    \E i \in first .. NextNil(log) - 1 : log[i].status = status

StandbyAccepted == "standby replica has an instance with status ACCEPTED"

\* the panics of bcastRotate; a negative length panics in make
RotatePanic(r) ==
    LET first == globalMaxCommittedGhost[r]
    IN  CASE first > NextNil(instanceSpaceMock[r]) -> "makeslice"
          [] IsStandby(r) /\ Reports(instanceSpace[r], 0, "ACCEPTED") ->
                StandbyAccepted
          [] IsStandby(r) /\ Reports(instanceSpaceMock[r], first,
                                     "MOCKACCEPTED") -> StandbyAccepted
          [] OTHER -> "no"

RotateMsg(r, d) ==
    [phase |-> phase[r], src |-> r, dst |-> d, report |-> OwnReport(r)]

\* bcastRotate sends nothing before the warm-up of run(), or the ROTATION_DELAY
\* after the last Rotate, is over.  A call that finds it over sends and starts a
\* new delay, so every call may find it either way: "sends" says which.

\* what a Rotate broadcast now adds to the network and to the history.  A
\* Rotate of an earlier phase than the receiver's is dropped without a trace
\* by handleRotate: it is removed as soon as it is stale (here, and below
\* where a phase ends).
RotatesSent(r, sends) ==
    IF sends THEN {RotateMsg(r, d) : d \in {x \in Others(r) :
                                                phase[x] <= phase[r]}}
             ELSE {}
RotatedNow(r, sends) == IF sends THEN {<<r, phase[r]>>} ELSE {}

\* trackRotate: a second Rotate of a sender replaces the first
Track(messages, s, report) ==
    [x \in DOMAIN messages \union {s} |-> IF x = s THEN report
                                                   ELSE messages[x]]

\* RotateMessages once bcastRotate has returned
TrackedOwn(r, sends) ==
    IF sends THEN Track(rotateMessages[r], r, OwnReport(r))
             ELSE rotateMessages[r]

\* slowdownChan and the progress timer.  The quorum that the own Rotate may
\* complete is not acted on: trackRotate's result is discarded.
Suspect(r) ==
    /\ Serving(r)
    /\ <<r, phase[r]>> \in Suspicions
    /\ IF RotatePanic(r) # "no"
       THEN /\ Panic(r, RotatePanic(r))
            /\ UNCHANGED rotationVars
       ELSE /\ rotateMessages' = [rotateMessages EXCEPT ![r] =
                                        TrackedOwn(r, TRUE)]
            /\ rotateChan' = rotateChan \union RotatesSent(r, TRUE)
            /\ rotated' = rotated \union RotatedNow(r, TRUE)
            /\ sentForPhase' = [sentForPhase EXCEPT ![r] = TRUE]
            /\ UNCHANGED <<phase, panicked>>
    /\ UNCHANGED <<realVars, mockVars, clientVars, channels, history>>

-----------------------------------------------------------------------------
(* Rotation: handleRotate *)

\* a Rotate makes the receiver send its own first, and that panics
RotatePanics(r, m) ==
    /\ Alive(r)
    /\ m.dst = r /\ m.phase = phase[r]
    /\ ~sentForPhase[r]
    /\ RotatePanic(r) # "no"
    /\ rotateChan' = rotateChan \ {m}
    /\ Panic(r, RotatePanic(r))
    /\ UNCHANGED <<phase, sentForPhase, rotateMessages, rotated, realVars,
                   mockVars, clientVars, channels, history>>

\* a Rotate of r's phase that lets it send its own, and the map after it
RotateOfPhase(r, m, sends) ==
    /\ Alive(r)
    /\ m.dst = r /\ m.phase = phase[r]
    /\ sends => ~sentForPhase[r] /\ RotatePanic(r) = "no"

RotateMessagesAfter(r, m, sends) ==
    IF m.src \in Standbys(phase[r]) THEN TrackedOwn(r, sends)
    ELSE Track(TrackedOwn(r, sends), m.src, m.report)

\* mutant: the number of Rotates is not looked at
CompletesAtOnce(r, m, sends) == m.src \notin Standbys(phase[r])

\* m is handled and a quorum is now processed; a standby's Rotate never does
CompletesQuorum(r, m, sends) ==
    /\ m.src \notin Standbys(phase[r])
    /\ RotateQuorum(phase[r], DOMAIN RotateMessagesAfter(r, m, sends))

\* the Rotates to r of phases before p
Stale(r, p) == {m \in rotateChan : m.dst = r /\ m.phase < p}

\* m is tracked and r stays in its phase
StaysInPhase(r, m, sends) ==
    /\ rotateMessages' = [rotateMessages EXCEPT ![r] =
                            RotateMessagesAfter(r, m, sends)]
    /\ sentForPhase' = [sentForPhase EXCEPT ![r] = @ \/ sends]
    /\ UNCHANGED phase

HandleRotate(r, m, sends) ==
    /\ RotateOfPhase(r, m, sends)
    /\ ~CompletesQuorum(r, m, sends)
    /\ rotateChan' = (rotateChan \ {m}) \union RotatesSent(r, sends)
    /\ rotated' = rotated \union RotatedNow(r, sends)
    /\ StaysInPhase(r, m, sends)
    /\ UNCHANGED <<realVars, mockVars, clientVars, channels, history, panicked>>

\* A Rotate of a later phase: r goes to that phase if its committed log covers
\* what the Rotate starts with; otherwise the Rotate is put back, in a channel
\* without order, and handled again and again.
RotateAhead(r, m) ==
    LET First(f) == CHOOSE i \in DOMAIN f : \A j \in DOMAIN f : i <= j
        real == m.report.real
        mock == m.report.mock
    IN
    /\ Alive(r)
    /\ m.dst = r /\ m.phase > phase[r]
    /\ \/ DOMAIN real # {} /\ First(real) <= committedUpTo[r]
       \/ /\ DOMAIN real = {} /\ DOMAIN mock # {}
          /\ First(mock) <= mockCommittedUpTo[r]
    /\ phase' = [phase EXCEPT ![r] = m.phase]
    /\ sentForPhase' = [sentForPhase EXCEPT ![r] = FALSE]
    /\ rotateMessages' = [rotateMessages EXCEPT ![r] =
                            Track(<<>>, m.src, m.report)]
    /\ rotateChan' = rotateChan \ (Stale(r, m.phase) \union {m})
    /\ UNCHANGED <<rotated, realVars, mockVars, clientVars,
                   channels, history, panicked>>

-----------------------------------------------------------------------------
(* Rotation: a quorum of Rotates, processRotateQuorum *)

\* the commits r broadcasts for the instances of order, in that order
CommitsFor(order, insts, md, mock, max) ==
    LET at == Ascending({k \in DOMAIN order : order[k] \in insts})
    IN  [k \in DOMAIN at |->
            CommitMsg(order[at[k]], md[order[at[k]]].cmds, mock, max)]

\* order up to its first member of stop
Until(order, stop) ==
    SubSeq(order, 1,
           CHOOSE n \in 0 .. Len(order) :
                /\ \A k \in 1 .. n : order[k] \notin stop
                /\ n < Len(order) => order[n + 1] \in stop)

\* committed instances are rebroadcast when the quorum has them committed too;
\* in the mock log the status tested for is never set
RealCommitted(log, md, order) ==
    CommitsOnRotate(log, md, order, "ACCEPTED")
    \union {i \in DOMAIN md : /\ md[i].status = "COMMITTED"
                              /\ log[i].status = "COMMITTED"}

\* goToPhase and, in the new phase, bcastLongAccept and bcastLongMockAccept,
\* on the logs and queues that processRotateQuorum leaves
BeginPhase(r, p, log, mockLog, queue, mockQueue) ==
    LET upTo   == committedUpTo'[r]
        leads  == r = Coordinator(p)
        mocks  == r = MockCoordinator(p)
        real   == LongAccept(log, upTo, queue, batchedCmdsChan[r], "ACCEPTED")
        mock   == LongAccept(mockLog, mockCommittedUpTo'[r], mockQueue, {},
                             "MOCKACCEPTED")
        accept == IF leads THEN real.accept ELSE mock.accept
    IN
    /\ p <= MaxPhase
    /\ leads => real.fits
    /\ mocks => mock.fits
    /\ phase' = [phase EXCEPT ![r] = p]
    /\ sentForPhase' = [sentForPhase EXCEPT ![r] = FALSE]
    /\ rotateMessages' = [rotateMessages EXCEPT ![r] = <<>>]
    /\ instanceSpace' = [instanceSpace EXCEPT ![r] =
                            IF leads THEN real.log ELSE log]
    /\ instanceSpaceMock' = [instanceSpaceMock EXCEPT ![r] =
                                IF mocks THEN mock.log ELSE mockLog]
    /\ latestCmdSeen' = [latestCmdSeen EXCEPT ![r] =
                            IF leads THEN {} ELSE queue]
    /\ latestCmdSeenMock' = [latestCmdSeenMock EXCEPT ![r] =
                                IF mocks THEN {} ELSE mockQueue]
    /\ batchedCmdsChan' = [batchedCmdsChan EXCEPT ![r] =
                            IF leads THEN {} ELSE @]
    /\ acceptChan' = IF (leads \/ mocks) /\ DOMAIN accept # {}
                     THEN Sent(acceptChan, r, Others(r),
                               <<[phase |-> p, accept |-> accept]>>)
                     ELSE acceptChan

\* processRotateQuorum panics: r is stopped with the logs it had
StopsInRotation(r, m, sends) ==
    /\ StaysInPhase(r, m, sends)
    /\ UNCHANGED <<realVars, mockVars, batchedCmdsChan, acceptChan>>

\* processRotateQuorum on the merged maps, iterated in orders ro and mo; the
\* commits are sent on the way, also when a later instance panics
ProcessRotateQuorum(r, m, sends, md, mdMock, ro, mo) ==
    LET log      == instanceSpace[r]
        mockLog  == instanceSpaceMock[r]
        bad      == RotateConflicts(log, md, {"COMMITTED", "ACCEPTED"})
        badMock  == RotateConflicts(mockLog, mdMock, {"MOCKACCEPTED"})
        commits  == CommitsOnRotate(log, md, ro, "ACCEPTED")
        mocks    == CommitsOnRotate(mockLog, mdMock, mo, "MOCKACCEPTED")
        afterRO  == RealAfterRotate(log, md, ro)
        afterMO  == MockAfterRotate(mockLog, mdMock, mo)
        done     == Until(ro, bad)
        doneMock == IF bad = {} THEN Until(mo, badMock) ELSE <<>>
    IN
    /\ commitChan' = Sent(commitChan, r, Others(r),
            CommitsFor(done, RealCommitted(log, md, ro), md, FALSE, 0)
            \o CommitsFor(doneMock, mocks, mdMock, TRUE,
                          globalMaxCommittedGhost[r]))
    /\ IF bad # {} \/ badMock # {}
       THEN /\ Panic(r, "locally accepted or committed, but receive commit")
            /\ StopsInRotation(r, m, sends)
       ELSE /\ committedUpTo' = [committedUpTo EXCEPT ![r] =
                                    CommittedPrefix(afterRO, @, "COMMITTED")]
            /\ mockCommittedUpTo' = [mockCommittedUpTo EXCEPT ![r] =
                                CommittedPrefix(afterMO, @, "MOCKCOMMITTED")]
            /\ BeginPhase(r, phase[r] + 1,
                  RealAfterMockRotate(afterRO, mockLog, mdMock, mo), afterMO,
                  AddToQueue(latestCmdSeen[r],
                             UNION {md[i].cmds : i \in commits}),
                  DeleteFromQueue(latestCmdSeenMock[r],
                                  UNION {mdMock[i].cmds : i \in mocks}))
            /\ UNCHANGED <<globalMaxCommittedGhost, panicked>>

\* the two createRotateMetadataMap panic or merge what is reported
MergeReports(r, m, sends, real, mock) ==
    \/ /\ MergePanics(real) \/ MergePanics(mock)
       /\ Panic(r, "accepted, but also accepted or committed otherwise")
       /\ StopsInRotation(r, m, sends)
       /\ UNCHANGED commitChan
    \/ \E md \in Merged(real, "real"), mdMock \in Merged(mock, "mock") :
         \E ro \in Orders(DOMAIN md), mo \in Orders(DOMAIN mdMock) :
            ProcessRotateQuorum(r, m, sends, md, mdMock, ro, mo)

\* the log reports (of field "real" or "mock") that are merged: not the one of
\* a replica that is a standby itself
MergedReports(messages, p, field) ==
    [s \in DOMAIN messages \ Standbys(p) |-> messages[s][field]]

\* the Rotate that completes the quorum
CompleteRotation(r, m, sends) ==
    /\ RotateOfPhase(r, m, sends)
    /\ CompletesQuorum(r, m, sends)
    /\ rotateChan' = (rotateChan \ Stale(r, phase[r] + 1))
                      \union RotatesSent(r, sends)
    /\ rotated' = rotated \union RotatedNow(r, sends)
    /\ LET messages == RotateMessagesAfter(r, m, sends)
       IN  MergeReports(r, m, sends,
                        MergedReports(messages, phase[r], "real"),
                        MergedReports(messages, phase[r], "mock"))
    /\ UNCHANGED <<unbatched, acceptExecTimeChan, acceptReplyChan, history>>

-----------------------------------------------------------------------------
(* The specification *)

\* each process starts in phase 0 ...
InitPhase ==
    /\ phase = [r \in Replica |-> 0]
    /\ rotated = {}

\* ... with empty logs ...
InitLog ==
    /\ instanceSpace = [r \in Replica |-> [i \in Inst |-> NilInstance]]
    /\ committedUpTo = [r \in Replica |-> -1]
    /\ latestCmdSeen = [r \in Replica |-> {}]
    /\ votes = {}
    /\ decided = {}

InitMockLog ==
    /\ instanceSpaceMock = [r \in Replica |-> [i \in Inst |-> NilInstance]]
    /\ mockCommittedUpTo = [r \in Replica |-> -1]
    /\ latestCmdSeenMock = [r \in Replica |-> {}]
    /\ globalMaxCommittedGhost = [r \in Replica |-> 0]

\* ... and nothing on its way
InitQuiet ==
    /\ sentForPhase = [r \in Replica |-> FALSE]
    /\ rotateMessages = [r \in Replica |-> <<>>]
    /\ panicked = [r \in Replica |-> "no"]
    /\ batchedCmdsChan = [r \in Replica |-> {}]
    /\ acceptExecTimeChan = [r \in Replica |-> [s \in Replica |-> <<>>]]
    /\ acceptChan = [r \in Replica |-> [s \in Replica |-> <<>>]]
    /\ acceptReplyChan = [r \in Replica |-> [s \in Replica |-> <<>>]]
    /\ commitChan = [r \in Replica |-> [s \in Replica |-> <<>>]]
    /\ rotateChan = {}

Init == InitPhase /\ InitLog /\ InitMockLog /\ InitQuiet /\ unbatched = Arrivals

TakeAcceptExecTime(r, s) ==
    \/ AcceptExecTimeIgnored(r, s)
    \/ AcceptExecTimeAhead(r, s)
    \/ RealAcceptExecTime(r, s)
    \/ MockAcceptExecTime(r, s)

TakeAcceptMsg(r, s) ==
    \/ AcceptIgnored(r, s)
    \/ MockAcceptAhead(r, s)
    \/ RealAccept(r, s)
    \/ MockAccept(r, s)

TakeAcceptReply(r, s) ==
    \/ AcceptReplyIgnored(r, s)
    \/ RealAcceptReply(r, s)
    \/ MockAcceptReply(r, s)

TakeCommit(r, s) ==
    \/ RealCommit(r, s)
    \/ MockCommit(r, s)

TakeRotate(r, m) ==
    \/ RotateAhead(r, m)
    \/ RotatePanics(r, m)
    \/ \E sends \in BOOLEAN : \/ HandleRotate(r, m, sends)
                              \/ CompleteRotation(r, m, sends)

Next ==
    \/ \E r \in Replica : \/ ClientBatch(r)
                          \/ HandleProposeBatch(r)
                          \/ Suspect(r)
    \/ \E r, s \in Replica : \/ TakeAcceptExecTime(r, s)
                             \/ TakeAcceptMsg(r, s)
                             \/ TakeAcceptReply(r, s)
                             \/ TakeCommit(r, s)
    \/ \E r \in Replica, m \in rotateChan : TakeRotate(r, m)

Spec == Init /\ [][Next]_vars

\* The select serves every channel that stays ready, batches are handed
\* over; nothing forces a suspicion.
Fairness ==
    /\ \A r \in Replica : /\ WF_vars(ClientBatch(r))
                          /\ WF_vars(HandleProposeBatch(r))
    /\ \A r, s \in Replica : /\ WF_vars(TakeAcceptExecTime(r, s))
                             /\ WF_vars(TakeAcceptMsg(r, s))
                             /\ WF_vars(TakeAcceptReply(r, s))
                             /\ WF_vars(TakeCommit(r, s))
    /\ \A r, s \in Replica :
            WF_vars(\E m \in rotateChan : m.src = s /\ TakeRotate(r, m))

FairSpec == Spec /\ Fairness

-----------------------------------------------------------------------------
(* Types *)

AcceptMsgs == [phase : Phase, accept : Accepts]
ReplyMsgs == [phase : Phase, inst : Inst, mock : BOOLEAN]
CommitMsgs == [inst : Inst, cmds : SUBSET Cmds, mock : BOOLEAN,
               globalMax : 0 .. MaxInst]
RotateReports == [real : LogReports, mock : LogReports]
RotateMsgs == [phase : Phase, src : Replica, dst : Replica,
               report : RotateReports]
Decisions == [replica : Replica, phase : Phase, inst : Inst, cmds : SUBSET Cmds]

\* the panics a handler may end in
Panics == {"no", WrongSize, StandbyAccepted, "makeslice",
           "nil instance in handleAcceptReply",
           "nil instance in handleAcceptReply for a MockAccept",
           "accepted, but also accepted or committed otherwise",
           "locally accepted or committed, but receive commit"}

RotationTypeOK ==
    /\ phase \in [Replica -> Phase]
    /\ sentForPhase \in [Replica -> BOOLEAN]
    /\ DOMAIN rotateMessages = Replica
    /\ \A r \in Replica : \A s \in DOMAIN rotateMessages[r] :
            s \in Replica /\ rotateMessages[r][s] \in RotateReports
    /\ rotateChan \subseteq RotateMsgs
    /\ rotated \subseteq (Replica \X Phase)

LogTypeOK ==
    /\ instanceSpace \in [Replica -> [Inst -> Entry]]
    /\ committedUpTo \in [Replica -> -1 .. MaxInst - 1]
    /\ latestCmdSeen \in [Replica -> SUBSET Cmds]
    /\ instanceSpaceMock \in [Replica -> [Inst -> Entry]]
    /\ mockCommittedUpTo \in [Replica -> -1 .. MaxInst - 1]
    /\ latestCmdSeenMock \in [Replica -> SUBSET Cmds]
    /\ globalMaxCommittedGhost \in [Replica -> 0 .. MaxInst]
    /\ unbatched \in [Replica -> SUBSET Cmds]
    /\ batchedCmdsChan \in [Replica -> SUBSET Cmds]

ChannelTypeOK ==
    /\ acceptExecTimeChan \in [Replica -> [Replica -> Seq(AcceptMsgs)]]
    /\ acceptChan \in [Replica -> [Replica -> Seq(AcceptMsgs)]]
    /\ acceptReplyChan \in [Replica -> [Replica -> Seq(ReplyMsgs)]]
    /\ commitChan \in [Replica -> [Replica -> Seq(CommitMsgs)]]
    /\ votes \subseteq Decisions
    /\ decided \subseteq Decisions
    /\ panicked \in [Replica -> Panics]

\* Every variable holds a value the code can give it.
TypeOK == RotationTypeOK /\ LogTypeOK /\ ChannelTypeOK

-----------------------------------------------------------------------------
(* Properties: rotation *)

Rotators(p) == {r \in Replica : <<r, p>> \in rotated}

\* A replica is past a phase only if a quorum of Rotates for that phase was
\* sent: neither handleRotate's quorum nor its jump to a later phase lets a
\* single suspicious replica move the others on.
PhaseBacked ==
    \A r \in Replica : \A p \in 0 .. phase[r] - 1 : RotateQuorum(p, Rotators(p))

\* setupConfigurations makes every replica a standby of the first Armageddon
\* phase, so no quorum ever leaves it.
ArmageddonIsTerminal == \A r \in Replica : phase[r] <= N

\* Nobody has left the first phase, whatever Rotates are on their way.
FirstPhase == \A r \in Replica : phase[r] = 0

\* What createRotateMetadataMap is given when a quorum of Rotates ends the first
\* phase has every instance committed there, accepted or committed, under its
\* commands; in whatever order the map is built it keeps them, without a panic.
ChosenIsMerged ==
    FirstPhase =>
        \A r \in Replica, m \in rotateChan, sends \in BOOLEAN :
            (RotateOfPhase(r, m, sends) /\ CompletesQuorum(r, m, sends)) =>
                LET reports == MergedReports(RotateMessagesAfter(r, m, sends),
                                             phase[r], "real")
                IN  /\ ~MergePanics(reports)
                    /\ \A md \in Merged(reports, "real"), d \in decided :
                            /\ d.inst \in DOMAIN md
                            /\ md[d.inst].cmds = d.cmds
                            /\ md[d.inst].status \in {"ACCEPTED", "COMMITTED"}

\* After its Rotate for a phase a replica accepts nothing in that phase: what
\* the Rotate reports is all it will ever have accepted there.
NoVoteAfterRotate ==
    [][\A v \in votes' \ votes : <<v.replica, v.phase>> \notin rotated]_vars

-----------------------------------------------------------------------------
(* Properties: the logs *)

\* the commands r has committed as instance i
HasCommitted(r, i) == instanceSpace[r][i].status = "COMMITTED"
HasMockCommitted(r, i) == instanceSpaceMock[r][i].status = "MOCKCOMMITTED"

\* No two replicas commit different commands as the same instance.
Agreement ==
    \A r, s \in Replica, i \in Inst :
        (HasCommitted(r, i) /\ HasCommitted(s, i))
            => instanceSpace[r][i].cmds = instanceSpace[s][i].cmds

\* The same for the mock log.
MockAgreement ==
    \A r, s \in Replica, i \in Inst :
        (HasMockCommitted(r, i) /\ HasMockCommitted(s, i))
            => instanceSpaceMock[r][i].cmds = instanceSpaceMock[s][i].cmds

\* What handleAcceptReplyReal commits was accepted, in this phase, with these
\* commands, by a majority: the coordinator and replicas that voted for it.
CommitHasQuorum ==
    \A d \in decided :
        LET voters == {v.replica : v \in {w \in votes :
                            w.phase = d.phase /\ w.inst = d.inst
                                              /\ w.cmds = d.cmds}}
        IN  2 * Cardinality(voters \union {d.replica}) > N

\* The coordinator of a later phase has, in its own log, every instance that
\* was committed on a quorum before: the quorum of Rotates hands it over.
ChosenIsKept ==
    \A d \in decided, r \in Replica :
        (IsCoordinator(r) /\ phase[r] > d.phase) =>
            /\ instanceSpace[r][d.inst].status \in {"ACCEPTED", "COMMITTED"}
            /\ instanceSpace[r][d.inst].cmds = d.cmds

\* executeCommands runs the instances up to committedUpTo: all are committed.
ExecutablePrefix ==
    \A r \in Replica : \A i \in 0 .. committedUpTo[r] : HasCommitted(r, i)

\* No replica runs into one of its own sanity checks.
NoPanic == \A r \in Replica : panicked[r] = "no"

\* Committed instances stay committed with the same commands.
CommittedIsStable ==
    [][\A r \in Replica, i \in Inst :
        HasCommitted(r, i) => /\ HasCommitted(r, i)'
                              /\ instanceSpace'[r][i].cmds =
                                    instanceSpace[r][i].cmds]_vars

-----------------------------------------------------------------------------
(* Properties: the real log implements ReplicatedLog *)

chosen == {<<d.inst, d.cmds>> : d \in decided}
learned == [r \in Replica |->
    {<<i, instanceSpace[r][i].cmds>> : i \in {j \in Inst : HasCommitted(r, j)}}]

Log == INSTANCE ReplicatedLog WITH chosen <- chosen, learned <- learned

\* Whatever the handlers do, the committed instances of the replicas evolve as
\* those of one log in which an instance is chosen once and for all.
ImplementsLog == Log!Spec

-----------------------------------------------------------------------------
(* Properties: progress, while no replica is suspected *)

\* r can execute command c
CanExecute(r, c) == \E i \in 0 .. committedUpTo[r] : c \in instanceSpace[r][i].cmds

\* What the coordinator's batcher hands to the main loop is, in the end, in the
\* committed prefix of every replica.
BatchesGetExecuted ==
    \A r \in Replica, c \in Cmds :
        (IsCoordinator(r) /\ c \in batchedCmdsChan[r])
            ~> \A s \in Replica : CanExecute(s, c)

\* A ghost command batched by the mock coordinator is mock-committed by every
\* replica: the mock protocol too can be measured at all of them.
GhostsGetCommitted ==
    \A r \in Replica, c \in Ghost :
        (IsMockCoordinator(r) /\ c \in batchedCmdsChan[r])
            ~> \A s \in Replica : \E i \in Inst :
                    HasMockCommitted(s, i) /\ c \in instanceSpaceMock[s][i].cmds

\* Once a quorum of replicas gave up on a phase, all of them leave it.
RotationCompletes ==
    \A p \in 0 .. MaxPhase - 1 :
        RotateQuorum(p, Rotators(p)) ~> \A r \in Replica : phase[r] > p
=============================================================================
