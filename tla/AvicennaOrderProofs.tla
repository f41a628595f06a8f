------------------------- MODULE AvicennaOrderProofs -------------------------
(***************************************************************************)
(* The order of the real log as long as no replica has left phase 0,       *)
(* whatever Rotates are on their way: for any number of replicas, any      *)
(* clients' commands and any bounds.  Replica 0 then coordinates the real  *)
(* log and replica 1 the mock log.                                         *)
(***************************************************************************)
EXTENDS AvicennaProofs, AvicennaTypeProofs

-----------------------------------------------------------------------------
(* Phase 0 *)

LEMMA FirstRoles ==
    /\ 0 \in Replica /\ 1 \in Replica
    /\ Coordinator(0) = 0 /\ MockCoordinator(0) = 1
    /\ 0 \notin Standbys(0) /\ 1 \notin Standbys(0)
<1>1. 0 \in Replica /\ 1 \in Replica
  BY NAssumption DEF Replica
<1>2. ~IsArmageddon(0) /\ ConfigIndex(0) = 0 /\ (0 + 1) % N = 1
  BY NAssumption DEF IsArmageddon, ConfigIndex
<1>3. Standbys(0) \subseteq Idle(0)
  BY <1>1, <1>2 DEF Standbys, ConfigStandbys
<1>4. 0 \notin Idle(0) /\ 1 \notin Idle(0)
  BY <1>2 DEF Idle
<1> QED
  BY <1>1, <1>2, <1>3, <1>4 DEF Coordinator, MockCoordinator

LEMMA FirstPhaseRoles ==
    ASSUME FirstPhase, NEW r \in Replica
    PROVE  /\ IsCoordinator(r) <=> r = 0
           /\ IsMockCoordinator(r) <=> r = 1
           /\ IsStandby(r) <=> r \in Standbys(0)
           /\ Acceptors(r) = Others(r) \ Standbys(0)
  BY FirstRoles
     DEF FirstPhase, IsCoordinator, IsMockCoordinator, IsStandby, Acceptors

\* what the steps of a replica in its phase are: those of the handlers, those
\* that leave logs and channels alone (the batcher's, the detector's and those
\* of a Rotate that completes no quorum), and the Rotate that does
Handles(r) ==
    \/ HandleProposeBatch(r)
    \/ \E s \in Replica : \/ TakeAcceptExecTime(r, s)
                          \/ TakeAcceptMsg(r, s)
                          \/ TakeAcceptReply(r, s)
                          \/ TakeCommit(r, s)

Watches(r) == ClientBatch(r) \/ Suspect(r)

AwaitsQuorum(r) == \E m \in rotateChan :
    \/ RotatePanics(r, m)
    \/ \E sends \in BOOLEAN : HandleRotate(r, m, sends)

Completes(r) ==
    \E m \in rotateChan, sends \in BOOLEAN : CompleteRotation(r, m, sends)

LogsRest == UNCHANGED <<realVars, mockVars, channels, history>>

LEMMA OthersRest ==
    ASSUME NEW r \in Replica, Watches(r) \/ AwaitsQuorum(r)
    PROVE  LogsRest /\ phase' = phase
<1>1. CASE Watches(r)
  BY <1>1 DEF Watches, ClientBatch, Suspect, rotationVars, LogsRest
<1>2. CASE AwaitsQuorum(r)
  BY <1>2 DEF AwaitsQuorum, RotatePanics, HandleRotate, StaysInPhase, LogsRest
<1> QED
  BY <1>1, <1>2

LEMMA FirstPhaseSteps ==
    ASSUME TypeOK, Next, FirstPhase'
    PROVE  /\ FirstPhase
           /\ \E r \in Replica : \/ Handles(r)
                                 \/ Watches(r) \/ AwaitsQuorum(r)
                                 \/ Completes(r) /\ phase' = phase
<1>1. \A r \in Replica : phase[r] \in Nat /\ phase'[r] = 0
  BY DEF TypeOK, RotationTypeOK, Phase, FirstPhase
<1>2. ASSUME phase' = phase
      PROVE  FirstPhase
  BY <1>2 DEF FirstPhase
<1>3. ASSUME NEW r \in Replica, Watches(r)
      PROVE  phase' = phase
  BY <1>3, OthersRest
<1>4. ASSUME NEW r \in Replica, HandleProposeBatch(r)
      PROVE  phase' = phase
  BY <1>4 DEF HandleProposeBatch, rotationVars
<1>5. ASSUME NEW r \in Replica, NEW s \in Replica,
             TakeAcceptExecTime(r, s) \/ TakeAcceptMsg(r, s)
      PROVE  phase' = phase
  BY <1>5 DEF TakeAcceptExecTime, TakeAcceptMsg, rotationVars,
     AcceptExecTimeIgnored, AcceptExecTimeAhead, RealAcceptExecTime,
     MockAcceptExecTime, AcceptIgnored, MockAcceptAhead, RealAccept, MockAccept
<1>6. ASSUME NEW r \in Replica, NEW s \in Replica,
             TakeAcceptReply(r, s) \/ TakeCommit(r, s)
      PROVE  phase' = phase
  BY <1>6 DEF TakeAcceptReply, TakeCommit, rotationVars,
     AcceptReplyIgnored, RealAcceptReply, MockAcceptReply, RealCommit, MockCommit
<1>7. ASSUME NEW r \in Replica, NEW m \in rotateChan, TakeRotate(r, m)
      PROVE  phase' = phase /\ (AwaitsQuorum(r) \/ Completes(r))
  <2>1. CASE RotateAhead(r, m)
    <3>1. phase'[r] = m.phase /\ m.phase > phase[r] /\ m.phase \in Nat
      BY <2>1 DEF RotateAhead, TypeOK, RotationTypeOK, RotateMsgs, Phase
    <3> QED
      BY <1>1, <3>1
  <2>2. CASE RotatePanics(r, m)
    BY <2>2, OthersRest DEF AwaitsQuorum
  <2>3. ASSUME NEW sends \in BOOLEAN, HandleRotate(r, m, sends)
        PROVE  phase' = phase /\ AwaitsQuorum(r)
    BY <2>3, OthersRest DEF AwaitsQuorum
  <2>4. ASSUME NEW sends \in BOOLEAN, CompleteRotation(r, m, sends)
        PROVE  phase' = phase
    <3>1. CASE StaysInPhase(r, m, sends)
      BY <3>1 DEF StaysInPhase
    <3>2. CASE phase' = [phase EXCEPT ![r] = phase[r] + 1]
      <4>1. phase'[r] = phase[r] + 1
        BY <3>2 DEF TypeOK, RotationTypeOK
      <4> QED
        BY <1>1, <4>1
    <3> QED
      BY <2>4, <3>1, <3>2, CompleteRotationOutcome
  <2> QED
    BY <1>7, <2>1, <2>2, <2>3, <2>4 DEF TakeRotate, Completes
<1> QED
  BY <1>2, <1>3, <1>4, <1>5, <1>6, <1>7 DEF Next, Handles, Watches

-----------------------------------------------------------------------------
(* Sequences and channels, place by place *)

LEMMA OneMore ==
  ASSUME NEW M, NEW q \in Seq(M), NEW m \in M
  PROVE  /\ q \o <<m>> \in Seq(M)
         /\ Len(q) \in Nat
         /\ Len(q \o <<m>>) = Len(q) + 1
         /\ (q \o <<m>>)[Len(q) + 1] = m
         /\ \A k \in 1 .. Len(q) : (q \o <<m>>)[k] = q[k]
  BY ConcatProperties, LenProperties

LEMMA OneLess ==
  ASSUME NEW M, NEW q \in Seq(M), q # <<>>
  PROVE  /\ Tail(q) \in Seq(M)
         /\ Len(q) \in Nat /\ Len(q) >= 1
         /\ Head(q) = q[1] /\ Head(q) \in M
         /\ Len(Tail(q)) = Len(q) - 1
         /\ \A k \in 1 .. Len(q) - 1 : Tail(q)[k] = q[k + 1]
  BY HeadTailProperties, LenProperties, EmptySeq

\* the places of a queue once a message is added
LEMMA LongerPlaces ==
  ASSUME NEW M, NEW q \in Seq(M), NEW m \in M, NEW t, t = q \o <<m>>
  PROVE  /\ Len(q) \in Nat
         /\ Len(t) = Len(q) + 1
         /\ t[Len(q) + 1] = m
         /\ \A k \in 1 .. Len(q) : t[k] = q[k]
  BY OneMore

\* the places of a queue once its first message is taken
LEMMA TailPlaces ==
  ASSUME NEW M, NEW q \in Seq(M), q # <<>>, NEW t, t = Tail(q)
  PROVE  /\ Len(q) \in Nat /\ 1 \in 1 .. Len(q) /\ Len(t) = Len(q) - 1
         /\ Head(q) = q[1] /\ Head(q) \in M
         /\ \A k \in 1 .. Len(t) : k + 1 \in 1 .. Len(q) /\ t[k] = q[k + 1]
<1>1. /\ Len(q) \in Nat /\ Len(q) >= 1
      /\ Head(q) = q[1] /\ Head(q) \in M
      /\ Len(t) = Len(q) - 1
      /\ \A k \in 1 .. Len(q) - 1 : t[k] = q[k + 1]
  BY OneLess
<1> QED
  BY <1>1

LEMMA SentAt ==
  ASSUME NEW M, NEW chan \in Channel(M), NEW s \in Replica, NEW dsts, NEW ms,
         NEW d \in Replica, NEW x \in Replica
  PROVE  Sent(chan, s, dsts, ms)[d][x] =
            IF d \in dsts /\ x = s THEN chan[d][x] \o ms ELSE chan[d][x]
  BY DEF Sent, Channel

LEMMA ReceivedAt ==
  ASSUME NEW M, NEW chan \in Channel(M), NEW r \in Replica, NEW s \in Replica,
         NEW d \in Replica, NEW x \in Replica
  PROVE  Received(chan, r, s)[d][x] =
            IF d = r /\ x = s THEN Tail(chan[d][x]) ELSE chan[d][x]
  BY DEF Received, Channel

\* chan[d][x] holds only what K[d][x] allows
Within(chan, K) == \A d, x \in Replica : chan[d][x] \in Seq(K[d][x])

LEMMA SentWithin ==
  ASSUME NEW M, NEW chan \in Channel(M), NEW K, Within(chan, K),
         NEW s \in Replica, NEW dsts, NEW ms,
         \A d \in dsts \cap Replica : ms \in Seq(K[d][s])
  PROVE  Within(Sent(chan, s, dsts, ms), K)
<1> SUFFICES ASSUME NEW d \in Replica, NEW x \in Replica
             PROVE  Sent(chan, s, dsts, ms)[d][x] \in Seq(K[d][x])
  BY DEF Within
<1>1. chan[d][x] \in Seq(K[d][x])
  BY DEF Within
<1>2. CASE d \in dsts /\ x = s
  <2>1. chan[d][x] \o ms \in Seq(K[d][x])
    BY <1>1, <1>2, ConcatProperties
  <2> QED
    BY <1>2, <2>1, SentAt
<1>3. CASE ~(d \in dsts /\ x = s)
  BY <1>1, <1>3, SentAt
<1> QED
  BY <1>2, <1>3

LEMMA ReceivedWithin ==
  ASSUME NEW M, NEW chan \in Channel(M), NEW K, Within(chan, K),
         NEW r \in Replica, NEW s \in Replica, chan[r][s] # <<>>
  PROVE  /\ Next1(chan, r, s) \in K[r][s]
         /\ Within(Received(chan, r, s), K)
<1>1. chan[r][s] \in Seq(K[r][s])
  BY DEF Within
<1>2. Head(chan[r][s]) \in K[r][s] /\ Tail(chan[r][s]) \in Seq(K[r][s])
  BY <1>1, OneLess
<1>3. Within(Received(chan, r, s), K)
  BY <1>2, ReceivedAt DEF Within
<1> QED
  BY <1>2, <1>3 DEF Next1

-----------------------------------------------------------------------------
(* What travels where: the two coordinators send Accepts and commits of     *)
(* their log, each gets the replies to its own, and no Accept is sent with  *)
(* more than one instance.                                                  *)

AcceptKinds == [r \in Replica |-> [s \in Replica |->
    IF s \in {0, 1} /\ r # s THEN {m \in AcceptMsgs : m.phase = 0} ELSE {}]]
ReplyKinds == [r \in Replica |-> [s \in Replica |->
    IF r \in {0, 1} THEN {m \in ReplyMsgs : m.phase = 0 /\ m.mock = (r = 1)}
                    ELSE {}]]
CommitKinds == [r \in Replica |-> [s \in Replica |->
    IF s \in {0, 1} /\ r # s THEN {m \in CommitMsgs : m.mock = (s = 1)}
                             ELSE {}]]

Traffic == /\ Within(acceptExecTimeChan, AcceptKinds)
           /\ Within(acceptReplyChan, ReplyKinds)
           /\ Within(commitChan, CommitKinds)
           /\ \A r, s \in Replica : acceptChan[r][s] = <<>>

LEMMA TrafficInit == Init => Traffic
<1>1. ASSUME NEW K PROVE <<>> \in Seq(K)
  OBVIOUS
<1> QED
  BY <1>1 DEF Traffic, Within, Init, InitQuiet

LEMMA TrafficNext ==
    ASSUME Within(acceptExecTimeChan', AcceptKinds),
           Within(acceptReplyChan', ReplyKinds),
           Within(commitChan', CommitKinds),
           \A r, s \in Replica : acceptChan'[r][s] = <<>>
    PROVE  Traffic'
  BY DEF Traffic, Within, AcceptKinds, ReplyKinds, CommitKinds

LEMMA TrafficUnchanged == Traffic /\ UNCHANGED channels => Traffic'
  BY TrafficNext DEF Traffic, channels

LEMMA TakenAccept ==
    ASSUME TypeOK, Traffic, NEW r \in Replica, NEW s \in Replica,
           acceptExecTimeChan[r][s] # <<>>
    PROVE  /\ Next1(acceptExecTimeChan, r, s) \in AcceptMsgs
           /\ Next1(acceptExecTimeChan, r, s).phase = 0
           /\ s \in {0, 1} /\ r # s
           /\ Within(Received(acceptExecTimeChan, r, s), AcceptKinds)
<1>1. Next1(acceptExecTimeChan, r, s) \in AcceptKinds[r][s]
  BY ChannelTypes, ReceivedWithin DEF Traffic
<1>2. Within(Received(acceptExecTimeChan, r, s), AcceptKinds)
  BY ChannelTypes, ReceivedWithin DEF Traffic
<1> QED
  BY <1>1, <1>2 DEF AcceptKinds

LEMMA TakenReply ==
    ASSUME TypeOK, Traffic, NEW r \in Replica, NEW s \in Replica,
           acceptReplyChan[r][s] # <<>>
    PROVE  /\ Next1(acceptReplyChan, r, s) \in ReplyMsgs
           /\ Next1(acceptReplyChan, r, s).phase = 0
           /\ r \in {0, 1}
           /\ Next1(acceptReplyChan, r, s).mock = (r = 1)
           /\ Within(Received(acceptReplyChan, r, s), ReplyKinds)
<1>1. Next1(acceptReplyChan, r, s) \in ReplyKinds[r][s]
  BY ChannelTypes, ReceivedWithin DEF Traffic
<1>2. Within(Received(acceptReplyChan, r, s), ReplyKinds)
  BY ChannelTypes, ReceivedWithin DEF Traffic
<1> QED
  BY <1>1, <1>2 DEF ReplyKinds

LEMMA TakenCommit ==
    ASSUME TypeOK, Traffic, NEW r \in Replica, NEW s \in Replica,
           commitChan[r][s] # <<>>
    PROVE  /\ Next1(commitChan, r, s) \in CommitMsgs
           /\ s \in {0, 1} /\ r # s
           /\ Next1(commitChan, r, s).mock = (s = 1)
           /\ Within(Received(commitChan, r, s), CommitKinds)
<1>1. Next1(commitChan, r, s) \in CommitKinds[r][s]
  BY ChannelTypes, ReceivedWithin DEF Traffic
<1>2. Within(Received(commitChan, r, s), CommitKinds)
  BY ChannelTypes, ReceivedWithin DEF Traffic
<1> QED
  BY <1>1, <1>2 DEF CommitKinds

\* An Accept of phase 0 goes from a coordinator to others ...
LEMMA AcceptSentWithin ==
    ASSUME TypeOK, Traffic, NEW r \in {0, 1}, phase[r] = 0,
           NEW dsts \in SUBSET Others(r),
           NEW i \in Inst, NEW cmds \in SUBSET Cmds
    PROVE  Within(Sent(acceptExecTimeChan, r, dsts,
                       <<AcceptMsg(r, Only(i, cmds))>>), AcceptKinds)
<1> DEFINE m == AcceptMsg(r, Only(i, cmds))
<1>1. r \in Replica
  BY FirstRoles
<1>2. <<m>> \in Seq(AcceptMsgs)
  BY <1>1, AcceptMsgType
<1>3. m \in AcceptMsgs
  <2>1. Head(<<m>>) \in AcceptMsgs
    <3> HIDE DEF m
    <3> QED
      BY <1>2, HeadTailProperties
  <2> QED
    BY <2>1
<1>4. m.phase = 0
  BY DEF AcceptMsg
<1>5. \A d \in dsts \cap Replica : <<m>> \in Seq(AcceptKinds[d][r])
  <2> HIDE DEF m
  <2> QED
    BY <1>1, <1>3, <1>4, OneMessage DEF AcceptKinds, Others
<1> HIDE DEF m
<1>6. Within(Sent(acceptExecTimeChan, r, dsts, <<m>>), AcceptKinds)
  BY <1>1, <1>5, ChannelTypes, SentWithin DEF Traffic
<1> QED
  BY <1>6 DEF m

\* ... replies go back to it ...
LEMMA RepliesSentWithin ==
    ASSUME TypeOK, Traffic, NEW r \in Replica, NEW s \in {0, 1},
           NEW insts \in SUBSET Inst, NEW mock \in BOOLEAN, mock <=> s = 1
    PROVE  Within(Sent(acceptReplyChan, r, {s}, Replies(0, insts, mock)),
                  ReplyKinds)
<1>1. s \in Replica /\ 0 \in Phase
  BY FirstRoles, MaxPhaseAssumption DEF Phase
<1>2. Replies(0, insts, mock) \in Seq(ReplyMsgs)
  BY <1>1, RepliesType
<1> DEFINE ms == Replies(0, insts, mock)
<1>3. \A k \in DOMAIN ms : ms[k].phase = 0 /\ ms[k].mock = mock
  BY DEF Replies, Reply
<1>4. ms \in Seq(ReplyKinds[s][r])
  <2> HIDE DEF ms
  <2>1. /\ Len(ms) \in Nat /\ DOMAIN ms = 1 .. Len(ms)
        /\ \A k \in 1 .. Len(ms) : ms[k] \in ReplyMsgs
    BY <1>2, LenProperties, ElementOfSeq DEF ms
  <2>2. ReplyKinds[s][r] = {m \in ReplyMsgs : m.phase = 0 /\ m.mock = (s = 1)}
    BY <1>1 DEF ReplyKinds
  <2>3. ms = [k \in 1 .. Len(ms) |-> ms[k]]
    BY <1>2, <2>1 DEF ms
  <2>4. ms \in [1 .. Len(ms) -> ReplyKinds[s][r]]
    BY <1>3, <2>1, <2>2, <2>3
  <2> QED
    BY <2>1, <2>4, EnumeratedSeq
<1> HIDE DEF ms
<1>5. Within(Sent(acceptReplyChan, r, {s}, ms), ReplyKinds)
  BY <1>1, <1>4, ChannelTypes, SentWithin DEF Traffic
<1> QED
  BY <1>5 DEF ms

\* ... and commits to all others.
LEMMA CommitSentWithin ==
    ASSUME TypeOK, Traffic, NEW r \in {0, 1}, NEW i \in Inst,
           NEW cmds \in SUBSET Cmds, NEW mock \in BOOLEAN, mock <=> r = 1,
           NEW max \in 0 .. MaxInst
    PROVE  Within(Sent(commitChan, r, Others(r),
                       <<CommitMsg(i, cmds, mock, max)>>), CommitKinds)
<1> DEFINE m == CommitMsg(i, cmds, mock, max)
<1>1. r \in Replica
  BY FirstRoles
<1>2. m \in CommitMsgs
  BY CommitMsgType
<1>3. m.mock = (r = 1)
  BY DEF CommitMsg
<1> HIDE DEF m
<1>4. \A d \in Others(r) \cap Replica : <<m>> \in Seq(CommitKinds[d][r])
  BY <1>1, <1>2, <1>3, OneMessage DEF CommitKinds, Others
<1>5. Within(Sent(commitChan, r, Others(r), <<m>>), CommitKinds)
  BY <1>1, <1>4, ChannelTypes, SentWithin DEF Traffic
<1> QED
  BY <1>5 DEF m

LEMMA ProposeTraffic ==
    ASSUME TypeOK, FirstPhase, Traffic,
           NEW r \in Replica, HandleProposeBatch(r)
    PROVE  Traffic'
<1> DEFINE cmds   == batchedCmdsChan[r]
           doMock == cmds \cap Ghost # {}
           real   == NextNil(instanceSpace[r])
           mock   == NextNil(instanceSpaceMock[r])
           leads  == IsCoordinator(r)
           mocks  == ~leads /\ doMock /\ IsMockCoordinator(r)
<1>1. /\ cmds \in SUBSET Cmds /\ phase[r] = 0
      /\ real \in Nat /\ mock \in Nat
  BY LocalTypes, NextNilType, MaxInstAssumption DEF FirstPhase
<1>2. real \in Inst /\ (doMock => mock \in Inst)
  BY <1>1, MaxInstAssumption DEF HandleProposeBatch, Inst
<1>3. UNCHANGED <<acceptChan, acceptReplyChan, commitChan>>
  BY DEF HandleProposeBatch
<1>4. acceptExecTimeChan' =
            CASE leads -> Sent(acceptExecTimeChan, r, Acceptors(r),
                               <<AcceptMsg(r, Only(real, cmds))>>)
              [] mocks -> Sent(acceptExecTimeChan, r, Others(r),
                               <<AcceptMsg(r, Only(mock, cmds))>>)
              [] OTHER -> acceptExecTimeChan
  BY DEF HandleProposeBatch
<1>5. Within(acceptExecTimeChan', AcceptKinds)
  <2>1. CASE leads
    <3>1. r = 0 /\ Acceptors(r) \in SUBSET Others(r)
      BY <2>1, FirstPhaseRoles
    <3>2. Within(Sent(acceptExecTimeChan, r, Acceptors(r),
                      <<AcceptMsg(r, Only(real, cmds))>>), AcceptKinds)
      <4> HIDE DEF cmds, real
      <4> QED
        BY <1>1, <1>2, <3>1, AcceptSentWithin
    <3> QED
      BY <1>4, <2>1, <3>2
  <2>2. CASE mocks
    <3>1. r = 1
      BY <2>2, FirstPhaseRoles
    <3>2. Within(Sent(acceptExecTimeChan, r, Others(r),
                      <<AcceptMsg(r, Only(mock, cmds))>>), AcceptKinds)
      <4>1. mock \in Inst
        BY <1>2, <2>2
      <4> HIDE DEF cmds, mock
      <4> QED
        BY <1>1, <3>1, <4>1, AcceptSentWithin
    <3> QED
      BY <1>4, <2>2, <3>2
  <2>3. CASE ~leads /\ ~mocks
    BY <1>4, <2>3 DEF Traffic
  <2> QED
    BY <2>1, <2>2, <2>3
<1> QED
  BY <1>3, <1>5, TrafficNext DEF Traffic

LEMMA TakeAcceptExecTimeTraffic ==
    ASSUME TypeOK, FirstPhase, Traffic,
           NEW r \in Replica, NEW s \in Replica, TakeAcceptExecTime(r, s)
    PROVE  Traffic' /\ ~AcceptExecTimeAhead(r, s)
<1> DEFINE m == Next1(acceptExecTimeChan, r, s)
<1>1. acceptExecTimeChan[r][s] # <<>> /\ UNCHANGED <<acceptChan, commitChan>>
  BY DEF TakeAcceptExecTime, AcceptExecTimeIgnored, AcceptExecTimeAhead,
     RealAcceptExecTime, MockAcceptExecTime
<1>2. /\ m \in AcceptMsgs /\ m.phase = 0 /\ phase[r] = 0
      /\ s \in {0, 1} /\ r # s
      /\ Within(Received(acceptExecTimeChan, r, s), AcceptKinds)
  BY <1>1, TakenAccept DEF FirstPhase
<1>3. ~AcceptExecTimeAhead(r, s)
  BY <1>2 DEF AcceptExecTimeAhead
<1>4. acceptExecTimeChan' = Received(acceptExecTimeChan, r, s)
  BY <1>3 DEF TakeAcceptExecTime, AcceptExecTimeIgnored,
     RealAcceptExecTime, MockAcceptExecTime
<1>5. ASSUME NEW log, NEW mock, NEW committed
      PROVE  Votes(log, {CHOOSE j \in DOMAIN m.accept : TRUE}, committed)
                \in SUBSET Inst
  BY <1>2, AcceptMessage DEF Votes
<1>6. Within(acceptReplyChan', ReplyKinds)
  <2>1. CASE AcceptExecTimeIgnored(r, s)
    BY <2>1 DEF AcceptExecTimeIgnored, Traffic
  <2>2. CASE RealAcceptExecTime(r, s)
    <3>1. PICK insts \in SUBSET Inst :
            acceptReplyChan' = Sent(acceptReplyChan, r, {s},
                                    Replies(m.phase, insts, FALSE))
      BY <1>5, <2>2 DEF RealAcceptExecTime
    <3>2. s = 0
      BY <1>2, <2>2, FirstRoles DEF RealAcceptExecTime
    <3>3. FALSE \in BOOLEAN /\ ~(s = 1)
      BY <3>2
    <3>4. Within(Sent(acceptReplyChan, r, {s}, Replies(0, insts, FALSE)),
                 ReplyKinds)
      BY <1>2, <3>3, RepliesSentWithin
    <3> QED
      BY <1>2, <3>1, <3>4
  <2>3. CASE MockAcceptExecTime(r, s)
    <3>1. PICK insts \in SUBSET Inst :
            acceptReplyChan' = Sent(acceptReplyChan, r, {s},
                                    Replies(m.phase, insts, TRUE))
      BY <1>5, <2>3 DEF MockAcceptExecTime
    <3>2. s = 1
      BY <1>2, <2>3, FirstRoles DEF MockAcceptExecTime
    <3> HIDE DEF m
    <3> QED
      BY <1>2, <3>1, <3>2, RepliesSentWithin
  <2> QED
    BY <1>3, <2>1, <2>2, <2>3 DEF TakeAcceptExecTime
<1> QED
  BY <1>1, <1>2, <1>3, <1>4, <1>6, TrafficNext
     DEF Traffic

LEMMA NoAcceptMsg ==
    ASSUME Traffic, NEW r \in Replica, NEW s \in Replica
    PROVE  ~TakeAcceptMsg(r, s)
  BY DEF Traffic, TakeAcceptMsg, AcceptIgnored, MockAcceptAhead, RealAccept,
     MockAccept

LEMMA CountedCmds ==
    ASSUME NEW log \in Logs, NEW i \in Inst
    PROVE  /\ [log EXCEPT ![i] = Counted(@)][i].cmds = log[i].cmds
           /\ log[i].cmds \in SUBSET Cmds
  BY DEF Logs, Entry, Counted

\* every reply counts, at the coordinator whose log it is about
LEMMA TakeAcceptReplyTraffic ==
    ASSUME TypeOK, FirstPhase, Traffic,
           NEW r \in Replica, NEW s \in Replica, TakeAcceptReply(r, s)
    PROVE  /\ Traffic'
           /\ \/ r = 0 /\ RealAcceptReply(r, s)
              \/ r = 1 /\ MockAcceptReply(r, s)
<1> DEFINE m == Next1(acceptReplyChan, r, s)
<1>1. /\ acceptReplyChan[r][s] # <<>>
      /\ UNCHANGED <<acceptExecTimeChan, acceptChan>>
      /\ acceptReplyChan' = Received(acceptReplyChan, r, s)
  BY DEF TakeAcceptReply, AcceptReplyIgnored, RealAcceptReply, MockAcceptReply
<1>2. /\ m \in ReplyMsgs /\ m.phase = 0 /\ phase[r] = 0
      /\ r \in {0, 1} /\ m.mock = (r = 1)
      /\ Within(Received(acceptReplyChan, r, s), ReplyKinds)
  BY <1>1, TakenReply DEF FirstPhase
<1>3. m.inst \in Inst
  BY <1>2 DEF ReplyMsgs
<1>4. \/ r = 0 /\ RealAcceptReply(r, s)
      \/ r = 1 /\ MockAcceptReply(r, s)
  BY <1>2 DEF TakeAcceptReply, AcceptReplyIgnored, CurrentReply,
     RealAcceptReply, MockAcceptReply
<1>5. Within(commitChan', CommitKinds)
  <2>1. CASE UNCHANGED commitChan
    BY <2>1 DEF Traffic
  <2>2. CASE r = 0 /\ RealAcceptReply(r, s) /\ ~UNCHANGED commitChan
    <3> DEFINE cmds == [instanceSpace[r] EXCEPT ![m.inst] = Counted(@)][m.inst].cmds
    <3>1. commitChan' = Sent(commitChan, r, Others(r),
                             <<CommitMsg(m.inst, cmds, FALSE, 0)>>)
      BY <2>2 DEF RealAcceptReply
    <3>2. cmds \in SUBSET Cmds
      BY <1>3, LocalTypes, CountedCmds
    <3>3. 0 \in 0 .. MaxInst
      BY MaxInstAssumption
    <3>4. FALSE \in BOOLEAN /\ r \in {0, 1} /\ ~(r = 1)
      BY <2>2
    <3> HIDE DEF cmds, m
    <3> QED
      BY <1>3, <3>1, <3>2, <3>3, <3>4, CommitSentWithin
  <2>3. CASE r = 1 /\ MockAcceptReply(r, s) /\ ~UNCHANGED commitChan
    <3> DEFINE cmds == [instanceSpaceMock[r] EXCEPT ![m.inst] = Counted(@)][m.inst].cmds
    <3>1. commitChan' = Sent(commitChan, r, Others(r),
                             <<CommitMsg(m.inst, cmds, TRUE,
                                         globalMaxCommittedGhost[r])>>)
      BY <2>3 DEF MockAcceptReply
    <3>2. cmds \in SUBSET Cmds
      BY <1>3, LocalTypes, CountedCmds
    <3>3. globalMaxCommittedGhost[r] \in 0 .. MaxInst
      BY LocalTypes
    <3> HIDE DEF cmds, m
    <3> QED
      BY <1>3, <2>3, <3>1, <3>2, <3>3, CommitSentWithin
  <2> QED
    BY <1>4, <2>1, <2>2, <2>3
<1> QED
  BY <1>1, <1>2, <1>4, <1>5, TrafficNext
     DEF Traffic

\* commits go to replicas that have no role in the log they are about
LEMMA TakeCommitTraffic ==
    ASSUME TypeOK, FirstPhase, Traffic,
           NEW r \in Replica, NEW s \in Replica, TakeCommit(r, s)
    PROVE  /\ Traffic'
           /\ \/ s = 0 /\ ~IsCoordinator(r) /\ RealCommit(r, s)
              \/ s = 1 /\ ~IsMockCoordinator(r) /\ MockCommit(r, s)
<1> DEFINE m == Next1(commitChan, r, s)
<1>1. /\ commitChan[r][s] # <<>>
      /\ UNCHANGED <<acceptExecTimeChan, acceptReplyChan>>
      /\ commitChan' = Received(commitChan, r, s)
  BY DEF TakeCommit, RealCommit, MockCommit
<1>2. /\ s \in {0, 1} /\ r # s /\ m.mock = (s = 1)
      /\ Within(Received(commitChan, r, s), CommitKinds)
  BY <1>1, TakenCommit
<1>3. \/ s = 0 /\ ~IsCoordinator(r) /\ RealCommit(r, s)
      \/ s = 1 /\ ~IsMockCoordinator(r) /\ MockCommit(r, s)
  BY <1>2, FirstPhaseRoles DEF TakeCommit, RealCommit, MockCommit
<1>4. acceptChan' = acceptChan
  BY <1>3 DEF RealCommit, MockCommit
<1> QED
  BY <1>1, <1>2, <1>3, <1>4, TrafficNext
     DEF Traffic

-----------------------------------------------------------------------------
(* The first nil instance, the committed prefix and single replies, by what *)
(* is chosen                                                                *)

LEMMA NextNilProperties ==
  ASSUME NEW log \in Logs
  PROVE  /\ NextNil(log) \in 0 .. MaxInst
         /\ \A i \in 0 .. NextNil(log) - 1 : ~IsNil(log, i)
         /\ NextNil(log) < MaxInst => IsNil(log, NextNil(log))
<1> DEFINE S == {n \in 0 .. MaxInst : n < MaxInst => IsNil(log, n)}
<1>1. MaxInst \in S /\ S \subseteq Nat
  BY MaxInstAssumption
<1>2. PICK n \in S : \A m \in S : n <= m
  BY <1>1, LeastNatural
<1>3. ASSUME NEW i \in 0 .. n - 1
      PROVE  ~IsNil(log, i)
  BY <1>2, MaxInstAssumption
<1> QED
  BY <1>2, <1>3 DEF NextNil

LEMMA NextNilIs ==
  ASSUME NEW log, NEW n \in 0 .. MaxInst,
         \A i \in 0 .. n - 1 : ~IsNil(log, i),
         n < MaxInst => IsNil(log, n)
  PROVE  NextNil(log) = n
<1>1. ASSUME NEW m \in 0 .. MaxInst,
             \A i \in 0 .. m - 1 : ~IsNil(log, i), m < MaxInst => IsNil(log, m)
      PROVE  m = n
  BY <1>1, MaxInstAssumption
<1> QED
  BY <1>1 DEF NextNil

LEMMA CommittedPrefixProperties ==
  ASSUME NEW log \in Logs, NEW upTo \in -1 .. MaxInst - 1, NEW status
  PROVE  \A i \in upTo + 1 .. CommittedPrefix(log, upTo, status) :
            log[i].status = status
<1> DEFINE S == {n \in upTo .. MaxInst - 1 :
                    n + 1 < MaxInst => log[n + 1].status # status}
<1>1. MaxInst - 1 \in S /\ \A n \in S : n \in Int /\ upTo <= n
  BY MaxInstAssumption
<1>2. PICK n \in S : \A m \in S : n <= m
  <2> HIDE DEF S
  <2> QED
    BY <1>1, LeastInteger
<1>3. ASSUME NEW i \in upTo + 1 .. n
      PROVE  log[i].status = status
  <2>1. i - 1 \in upTo .. MaxInst - 1 /\ ~ (n <= i - 1) /\ (i - 1) + 1 = i
    BY <1>2, MaxInstAssumption
  <2> QED
    BY <1>2, <2>1
<1>4. \E k \in upTo .. MaxInst - 1 :
        /\ \A i \in upTo + 1 .. k : log[i].status = status
        /\ k + 1 < MaxInst => log[k + 1].status # status
  BY <1>2, <1>3
<1> QED
  BY <1>4 DEF CommittedPrefix

LEMMA OneReply ==
  ASSUME NEW p, NEW i \in Inst, NEW mock
  PROVE  Replies(p, {i}, mock) = <<Reply(p, i, mock)>>
<1> DEFINE at == Ascending({i})
<1>1. Cardinality({i}) = 1
  BY FS_Singleton
<1>2. MaxInst - 1 \in Nat /\ {i} \in SUBSET (0 .. MaxInst - 1)
  BY MaxInstAssumption DEF Inst
<1>3. at \in [1 .. 1 -> {i}]
  BY <1>1, <1>2, AscendingType
<1> HIDE DEF at
<1>4. DOMAIN at = 1 .. 1 /\ at[1] = i
  BY <1>3
<1>5. [k \in DOMAIN at |-> Reply(p, at[k], mock)] = <<Reply(p, i, mock)>>
  BY <1>4
<1> QED
  BY <1>5 DEF at, Replies

LEMMA NoReply ==
  ASSUME NEW p, NEW mock
  PROVE  Replies(p, {}, mock) = <<>>
<1> DEFINE at == Ascending({})
<1>1. Cardinality({}) = 0
  BY FS_EmptySet
<1>2. 0 \in Nat /\ {} \in SUBSET (0 .. 0)
  OBVIOUS
<1>3. at \in [1 .. 0 -> {}]
  BY <1>1, <1>2, AscendingType
<1> HIDE DEF at
<1>4. DOMAIN at = {}
  BY <1>3
<1>5. [k \in DOMAIN at |-> Reply(p, at[k], mock)] = <<>>
  BY <1>4
<1> QED
  BY <1>5 DEF at, Replies

LEMMA OnlyInstance ==
  ASSUME NEW i, NEW cmds
  PROVE  /\ (CHOOSE j \in DOMAIN Only(i, cmds) : TRUE) = i
         /\ Only(i, cmds)[i] = cmds
  BY DEF Only

-----------------------------------------------------------------------------
(* The inductive invariant of the real log *)

\* those that bcastAccept reaches
Followers == Others(0) \ Standbys(0)

\* how many instances the coordinator has proposed, and how many of them r has
\* taken from its channel
Waiting(r) == acceptExecTimeChan[r][0]
Proposed == NextNil(instanceSpace[0])
Delivered(r) == Proposed - Len(Waiting(r))

Cmds0(i) == instanceSpace[0][i].cmds
Proposal(i) == [phase |-> 0, accept |-> Only(i, Cmds0(i))]

\* the coordinator's log is a row of proposals
CoordinatorLog == \A i \in Inst :
    /\ i < Proposed => instanceSpace[0][i].status \in {"ACCEPTED", "COMMITTED"}
    /\ i >= Proposed => IsNil(instanceSpace[0], i)

\* the channel to a follower holds the last proposals, in order
ProposalsInOrder == \A r \in Replica :
    /\ Len(Waiting(r)) <= Proposed
    /\ r \notin Followers => Waiting(r) = <<>>
    /\ \A k \in 1 .. Len(Waiting(r)) :
           Waiting(r)[k] = Proposal(Delivered(r) + k - 1)

\* what a follower was given is in its log
FollowersKeepUp == \A r \in Followers, i \in Inst :
    i < Delivered(r) => ~IsNil(instanceSpace[r], i)

\* a vote is for a proposal the voter was given
VotesForProposals == \A v \in votes :
    /\ v.replica \in Followers /\ v.phase = 0
    /\ v.inst < Delivered(v.replica)
    /\ v.cmds = Cmds0(v.inst)

\* the replies under way are of votes, in order, one for each
RepliesInOrder == \A s \in Replica : \A k \in 1 .. Len(acceptReplyChan[0][s]) :
    /\ Vote(s, 0, acceptReplyChan[0][s][k].inst,
            Cmds0(acceptReplyChan[0][s][k].inst)) \in votes
    /\ \A j \in 1 .. k - 1 :
           acceptReplyChan[0][s][j].inst < acceptReplyChan[0][s][k].inst

\* the voters for instance i whose reply has been counted
Backers(i) == {s \in Followers :
    /\ \E v \in votes : v.replica = s /\ v.inst = i
    /\ \A k \in 1 .. Len(acceptReplyChan[0][s]) :
            acceptReplyChan[0][s][k].inst # i}

AcceptsAreBacked == \A i \in Inst :
    instanceSpace[0][i].accepts <= Cardinality(Backers(i))

Ordering == /\ CoordinatorLog
            /\ ProposalsInOrder
            /\ FollowersKeepUp
            /\ VotesForProposals
            /\ RepliesInOrder
            /\ AcceptsAreBacked

\* commits are made by the coordinator
DecidedIsCommitted ==
    /\ \A d \in decided : HasCommitted(0, d.inst)
                          /\ d = Vote(0, 0, d.inst, Cmds0(d.inst))
    /\ \A i \in Inst : HasCommitted(0, i) => Vote(0, 0, i, Cmds0(i)) \in decided

CommitsWereDecided == \A r \in Replica : \A k \in 1 .. Len(commitChan[r][0]) :
    /\ HasCommitted(0, commitChan[r][0][k].inst)
    /\ commitChan[r][0][k].cmds = Cmds0(commitChan[r][0][k].inst)

CommittedAsDecided == \A r \in Replica, i \in Inst :
    HasCommitted(r, i) => /\ HasCommitted(0, i)
                          /\ instanceSpace[r][i].cmds = Cmds0(i)

Deciding == /\ CommitHasQuorum
            /\ DecidedIsCommitted
            /\ CommitsWereDecided
            /\ CommittedAsDecided
            /\ ExecutablePrefix

RealInv == Ordering /\ Deciding

LEMMA RealInit == Init /\ TypeOK => RealInv
<1> SUFFICES ASSUME Init, TypeOK PROVE RealInv
  OBVIOUS
<1>1. /\ \A r \in Replica, i \in Inst : instanceSpace[r][i] = NilInstance
      /\ \A r \in Replica : committedUpTo[r] = -1
      /\ votes = {} /\ decided = {}
      /\ \A r, s \in Replica : /\ acceptExecTimeChan[r][s] = <<>>
                               /\ acceptReplyChan[r][s] = <<>>
                               /\ commitChan[r][s] = <<>>
  BY DEF Init, InitLog, InitQuiet
<1>2. 0 \in Replica /\ Followers \subseteq Replica
  BY FirstRoles DEF Followers, Others
<1>3. \A i \in Inst : IsNil(instanceSpace[0], i)
  BY <1>1, <1>2 DEF IsNil, NilInstance, NewInstance
<1>4. Proposed = 0
  <2>1. 0 \in 0 .. MaxInst /\ (0 < MaxInst => 0 \in Inst)
    BY MaxInstAssumption DEF Inst
  <2> QED
    BY <1>3, <2>1, NextNilIs DEF Proposed
<1>5. Len(<<>>) = 0
  OBVIOUS
<1>6. \A r \in Replica : Delivered(r) = 0
  BY <1>1, <1>2, <1>4, <1>5 DEF Delivered, Waiting
<1>7. CoordinatorLog
  BY <1>3, <1>4 DEF CoordinatorLog, Inst
<1>8. ProposalsInOrder
  BY <1>1, <1>2, <1>4, <1>5 DEF ProposalsInOrder, Waiting
<1>9. FollowersKeepUp
  BY <1>2, <1>6 DEF FollowersKeepUp, Inst
<1>10. VotesForProposals
  BY <1>1 DEF VotesForProposals
<1>11. RepliesInOrder
  BY <1>1, <1>2, <1>5 DEF RepliesInOrder
<1>12. AcceptsAreBacked
  <2>1. ASSUME NEW i \in Inst
        PROVE  Backers(i) = {} /\ instanceSpace[0][i].accepts = 0
    BY <1>1, <1>2 DEF Backers, NilInstance, NewInstance
  <2> QED
    BY <2>1, FS_EmptySet DEF AcceptsAreBacked
<1>13. \A r \in Replica, i \in Inst : ~HasCommitted(r, i)
  BY <1>1 DEF HasCommitted, NilInstance, NewInstance
<1>14. DecidedIsCommitted /\ CommittedAsDecided /\ CommitHasQuorum
  BY <1>1, <1>2, <1>13 DEF DecidedIsCommitted, CommittedAsDecided, CommitHasQuorum
<1>15. CommitsWereDecided
  BY <1>1, <1>2, <1>5 DEF CommitsWereDecided
<1>16. ExecutablePrefix
  BY <1>1 DEF ExecutablePrefix
<1> QED
  BY <1>7, <1>8, <1>9, <1>10, <1>11, <1>12, <1>14, <1>15, <1>16
     DEF RealInv, Ordering, Deciding

-----------------------------------------------------------------------------
(* Facts about a state in which the invariant holds *)

LEMMA RealTypes ==
    ASSUME TypeOK
    PROVE  /\ 0 \in Replica /\ Followers \subseteq Replica \ {0}
           /\ instanceSpace[0] \in Logs
           /\ Proposed \in 0 .. MaxInst
           /\ \A r \in Replica : /\ Waiting(r) \in Seq(AcceptMsgs)
                                 /\ Len(Waiting(r)) \in Nat
                                 /\ acceptReplyChan[0][r] \in Seq(ReplyMsgs)
                                 /\ commitChan[r][0] \in Seq(CommitMsgs)
<1>1. 0 \in Replica /\ Followers \subseteq Replica \ {0}
  BY FirstRoles DEF Followers, Others
<1>2. instanceSpace[0] \in Logs /\ Proposed \in 0 .. MaxInst
  BY <1>1, LocalTypes, NextNilType DEF Proposed
<1>3. ASSUME NEW r \in Replica
      PROVE  /\ Waiting(r) \in Seq(AcceptMsgs)
             /\ acceptReplyChan[0][r] \in Seq(ReplyMsgs)
             /\ commitChan[r][0] \in Seq(CommitMsgs)
  BY <1>1, ChannelTypes DEF Channel, Waiting
<1>4. \A r \in Replica : Len(Waiting(r)) \in Nat
  BY <1>3, LenProperties
<1> QED
  BY <1>1, <1>2, <1>3, <1>4

\* the messages at the places of the coordinator's channels
LEMMA RealPlaces ==
    ASSUME TypeOK, NEW r \in Replica
    PROVE  /\ \A k \in 1 .. Len(acceptReplyChan[0][r]) :
                    acceptReplyChan[0][r][k] \in ReplyMsgs
           /\ \A k \in 1 .. Len(commitChan[r][0]) :
                    commitChan[r][0][k] \in CommitMsgs
           /\ Len(acceptReplyChan[0][r]) \in Nat /\ Len(commitChan[r][0]) \in Nat
  BY RealTypes, ElementOfSeq, LenProperties

LEMMA BackersFinite ==
    ASSUME NEW i
    PROVE  IsFiniteSet(Backers(i)) /\ Cardinality(Backers(i)) \in Nat
           /\ Backers(i) \subseteq Replica \ {0}
<1>1. Backers(i) \subseteq Replica \ {0}
  BY DEF Backers, Followers, Others
<1> QED
  BY <1>1, ReplicasFinite, FS_Subset, FS_CardinalityType

\* committed instances are among the proposed ones
LEMMA CommittedIsProposed ==
    ASSUME TypeOK, CoordinatorLog, NEW i \in Inst, HasCommitted(0, i)
    PROVE  i < Proposed
  BY RealTypes DEF CoordinatorLog, HasCommitted, IsNil, Inst

-----------------------------------------------------------------------------
(* Steps that commit nothing keep what is known about commits *)

Stays(r, i) == /\ HasCommitted(r, i) <=> instanceSpace'[r][i].status = "COMMITTED"
               /\ HasCommitted(r, i) => instanceSpace'[r][i].cmds = instanceSpace[r][i].cmds

VotersFor(d) == {v.replica : v \in {w \in votes : /\ w.phase = d.phase
                                                  /\ w.inst = d.inst
                                                  /\ w.cmds = d.cmds}}

LEMMA MajorityGrows ==
    ASSUME NEW S, NEW T, S \subseteq T, T \subseteq Replica, 2 * Cardinality(S) > N
    PROVE  2 * Cardinality(T) > N
<1>1. IsFiniteSet(T) /\ IsFiniteSet(S) /\ Cardinality(S) <= Cardinality(T)
  <2>1. IsFiniteSet(T)
    BY ReplicasFinite, FS_Subset
  <2> QED
    BY <2>1, FS_Subset
<1>2. Cardinality(S) \in Nat /\ Cardinality(T) \in Nat
  BY <1>1, FS_CardinalityType
<1> QED
  BY <1>1, <1>2, NAssumption

LEMMA QuorumsKept ==
    ASSUME TypeOK', CommitHasQuorum, votes \subseteq votes',
           NEW d \in decided, d.replica \in Replica
    PROVE  2 * Cardinality(VotersFor(d)' \union {d.replica}) > N
<1>1. VotersFor(d) \subseteq VotersFor(d)'
  BY DEF VotersFor
<1>2. VotersFor(d)' \subseteq Replica
  <2>1. \A v \in votes' : v.replica \in Replica
    BY DEF TypeOK, ChannelTypeOK, Decisions
  <2> QED
    BY <2>1 DEF VotersFor
<1>3. 2 * Cardinality(VotersFor(d) \union {d.replica}) > N
  BY DEF CommitHasQuorum, VotersFor
<1> QED
  BY <1>1, <1>2, <1>3, MajorityGrows

LEMMA DecidingKept ==
    ASSUME TypeOK, TypeOK', Deciding,
           \A r \in Replica, i \in Inst : Stays(r, i),
           votes \subseteq votes', UNCHANGED <<decided, committedUpTo>>,
           \A r \in Replica : commitChan'[r][0] = commitChan[r][0]
    PROVE  Deciding'
<1> USE DEF Stays
<1>1. 0 \in Replica
  BY FirstRoles
<1>2. \A d \in decided : d.replica \in Replica /\ d.inst \in Inst
  BY DEF TypeOK, ChannelTypeOK, Decisions
<1>3. CommitHasQuorum'
  BY <1>2, QuorumsKept DEF CommitHasQuorum, VotersFor, Deciding
<1>4. DecidedIsCommitted'
  BY <1>1, <1>2 DEF Deciding, DecidedIsCommitted, HasCommitted, Cmds0
<1>5. CommitsWereDecided'
  <2> SUFFICES ASSUME NEW r \in Replica, NEW k \in 1 .. Len(commitChan[r][0])
               PROVE  LET m == commitChan[r][0][k]
                      IN  /\ instanceSpace'[0][m.inst].status = "COMMITTED"
                          /\ m.cmds = instanceSpace'[0][m.inst].cmds
    BY SMTT(30) DEF CommitsWereDecided, HasCommitted, Cmds0
  <2>1. commitChan[r][0][k].inst \in Inst
    BY RealPlaces DEF CommitMsgs
  <2>2. /\ HasCommitted(0, commitChan[r][0][k].inst)
        /\ commitChan[r][0][k].cmds = instanceSpace[0][commitChan[r][0][k].inst].cmds
    BY DEF Deciding, CommitsWereDecided, Cmds0
  <2> QED
    BY <1>1, <2>1, <2>2
<1>6. CommittedAsDecided'
  BY <1>1 DEF Deciding, CommittedAsDecided, HasCommitted, Cmds0
<1>7. ExecutablePrefix'
  <2> SUFFICES ASSUME NEW r \in Replica, NEW i \in 0 .. committedUpTo[r]
               PROVE  instanceSpace'[r][i].status = "COMMITTED"
    BY DEF ExecutablePrefix, HasCommitted
  <2>1. i \in Inst
    BY LocalTypes, MaxInstAssumption DEF Inst
  <2> QED
    BY <2>1 DEF Deciding, ExecutablePrefix
<1> QED
  BY <1>3, <1>4, <1>5, <1>6, <1>7 DEF Deciding

-----------------------------------------------------------------------------
(* Steps that propose, deliver and reply nothing keep the order *)

LEMMA OrderKept ==
    ASSUME TypeOK, TypeOK', Ordering,
           \A i \in Inst :
              /\ instanceSpace'[0][i] = instanceSpace[0][i]
              /\ \A r \in Replica : IsNil(instanceSpace'[r], i)
                                        => IsNil(instanceSpace[r], i),
           \A r \in Replica : /\ acceptExecTimeChan'[r][0] = acceptExecTimeChan[r][0]
                              /\ acceptReplyChan'[0][r] = acceptReplyChan[0][r],
           votes' = votes
    PROVE  Ordering'
<1>1. instanceSpace'[0] = instanceSpace[0]
  <2>1. instanceSpace[0] \in [Inst -> Entry] /\ instanceSpace'[0] \in [Inst -> Entry]
    BY FirstRoles DEF TypeOK, LogTypeOK
  <2> QED
    BY <2>1
<1>2. /\ Proposed' = Proposed
      /\ \A r \in Replica : Waiting(r)' = Waiting(r) /\ Delivered(r)' = Delivered(r)
      /\ \A i : Cmds0(i)' = Cmds0(i) /\ Proposal(i)' = Proposal(i)
  BY <1>1 DEF Proposed, Waiting, Delivered, Cmds0, Proposal
<1>3. CoordinatorLog'
  BY <1>1, <1>2 DEF Ordering, CoordinatorLog, IsNil
<1>4. ProposalsInOrder'
  BY <1>2 DEF Ordering, ProposalsInOrder
<1>5. FollowersKeepUp'
  BY <1>2, RealTypes DEF Ordering, FollowersKeepUp
<1>6. VotesForProposals'
  BY <1>2, RealTypes DEF Ordering, VotesForProposals
<1>7. RepliesInOrder'
  BY <1>2 DEF Ordering, RepliesInOrder
<1>8. AcceptsAreBacked'
  <2>1. ASSUME NEW i PROVE Backers(i)' = Backers(i)
    BY RealTypes DEF Backers
  <2> QED
    BY <1>1, <2>1 DEF Ordering, AcceptsAreBacked
<1> QED
  BY <1>3, <1>4, <1>5, <1>6, <1>7, <1>8 DEF Ordering

-----------------------------------------------------------------------------
(* The coordinator proposes its batch                                       *)

\* the only entry of the real logs that changes
Writes(r, i, e) == \A x \in Replica, j \in Inst :
    instanceSpace'[x][j] = IF x = r /\ j = i THEN e ELSE instanceSpace[x][j]

Proposes(cmds) ==
    /\ Proposed \in Inst
    /\ Writes(0, Proposed, NewInstance("ACCEPTED", cmds))
    /\ \A r \in Replica : acceptExecTimeChan'[r][0] =
            IF r \in Followers
            THEN Waiting(r) \o <<[phase |-> 0, accept |-> Only(Proposed, cmds)]>>
            ELSE Waiting(r)
    /\ UNCHANGED <<acceptReplyChan, commitChan, votes, decided, committedUpTo>>

LEMMA ProposesInOrder ==
    ASSUME TypeOK, TypeOK', CoordinatorLog, ProposalsInOrder, NEW cmds,
           Proposes(cmds)
    PROVE  /\ Proposed' = Proposed + 1
           /\ \A i \in Inst : i < Proposed => Cmds0(i)' = Cmds0(i)
           /\ \A r \in Followers : Delivered(r)' = Delivered(r)
           /\ CoordinatorLog' /\ ProposalsInOrder'
<1>0. PICK n : n = Proposed
  OBVIOUS
<1>1. /\ n \in Inst /\ n \in Nat /\ 0 \in Replica /\ n + 1 \in 0 .. MaxInst
      /\ \A i \in Inst : i # n => instanceSpace'[0][i] = instanceSpace[0][i]
      /\ instanceSpace'[0][n].status = "ACCEPTED" /\ instanceSpace'[0][n].cmds = cmds
  BY <1>0, RealTypes, MaxInstAssumption DEF Proposes, Writes, NewInstance, Inst
<1>2. \A i \in Inst : i < n \/ i = n \/ i >= n + 1
  BY <1>1 DEF Inst
<1>3. ASSUME NEW i \in Inst
      PROVE  /\ i < n + 1 => instanceSpace'[0][i].status \in {"ACCEPTED", "COMMITTED"}
             /\ i >= n + 1 => IsNil(instanceSpace'[0], i)
  <2>1. CASE i = n
    BY <1>1, <2>1
  <2>2. CASE i # n
    <3>1. instanceSpace'[0][i] = instanceSpace[0][i]
      BY <1>1, <2>2
    <3>2. /\ i < n + 1 => i < n
          /\ i >= n + 1 => i >= n
      BY <1>1, <2>2 DEF Inst
    <3> QED
      BY <1>0, <3>1, <3>2 DEF CoordinatorLog, IsNil
  <2> QED
    BY <2>1, <2>2
<1>4. Proposed' = n + 1
  <2>1. ASSUME NEW i \in 0 .. (n + 1) - 1
        PROVE  ~IsNil(instanceSpace'[0], i)
    <3>1. i \in Inst /\ i < n + 1
      BY <1>1, MaxInstAssumption DEF Inst
    <3> QED
      BY <1>3, <3>1 DEF IsNil
  <2>2. n + 1 < MaxInst => IsNil(instanceSpace'[0], n + 1)
    BY <1>1, <1>3, MaxInstAssumption DEF Inst
  <2>3. NextNil(instanceSpace'[0]) = n + 1
    BY <1>1, <2>1, <2>2, NextNilIs
  <2> QED
    BY <2>3 DEF Proposed
<1>5. \A i \in Inst : i < n => Cmds0(i)' = Cmds0(i)
  BY <1>1 DEF Cmds0, Inst
<1> DEFINE m == [phase |-> 0, accept |-> Only(n, cmds)]
<1>6. ASSUME NEW r \in Followers
      PROVE  /\ r \in Replica
             /\ Len(Waiting(r)) \in Nat /\ Len(Waiting(r)') = Len(Waiting(r)) + 1
             /\ \A k \in 1 .. Len(Waiting(r)) : Waiting(r)'[k] = Waiting(r)[k]
             /\ Waiting(r)'[Len(Waiting(r)) + 1] = m
  <2>1. r \in Replica /\ Waiting(r) \in Seq(AcceptMsgs)
        /\ Waiting(r)' = Waiting(r) \o <<m>>
    BY <1>0, RealTypes DEF Proposes, Waiting
  <2>2. Waiting(r) \in Seq(AcceptMsgs \union {m})
    <3> HIDE DEF m
    <3> QED
      BY <2>1, SeqMonotonic
  <2> HIDE DEF m
  <2> QED
    BY <2>1, <2>2, OneMore
<1>7. \A r \in Followers : Delivered(r)' = Delivered(r)
  BY <1>0, <1>1, <1>4, <1>6 DEF Delivered
<1>8. CoordinatorLog'
  BY <1>3, <1>4 DEF CoordinatorLog
<1>9. ProposalsInOrder'
  <2>1. ASSUME NEW r \in Replica, r \notin Followers
        PROVE  Waiting(r)' = <<>>
    <3>1. Waiting(r) = <<>>
      BY <2>1 DEF ProposalsInOrder
    <3> QED
      BY <2>1, <3>1 DEF Proposes, Waiting
  <2>2. ASSUME NEW r \in Followers
        PROVE  Len(Waiting(r)') <= Proposed'
    <3>1. Len(Waiting(r)) <= n
      BY <1>0, <1>6 DEF ProposalsInOrder
    <3> QED
      BY <1>1, <1>4, <1>6, <3>1
  <2>3. ASSUME NEW r \in Followers, NEW k \in 1 .. Len(Waiting(r)')
        PROVE  Waiting(r)'[k] = Proposal(Delivered(r) + k - 1)'
    <3>1. CASE k = Len(Waiting(r)) + 1
      <4>1. Delivered(r)' + k - 1 = n
        BY <1>0, <1>1, <1>6, <1>7, <3>1 DEF Delivered
      <4>2. Cmds0(n)' = cmds
        BY <1>1 DEF Cmds0
      <4> QED
        BY <1>6, <3>1, <4>1, <4>2 DEF Proposal
    <3>2. CASE k \in 1 .. Len(Waiting(r))
      <4>0. PICK i : i = Delivered(r) + k - 1
        OBVIOUS
      <4>1. i \in Inst /\ i < n
        <5>1. Len(Waiting(r)) <= n
          BY <1>0, <1>6 DEF ProposalsInOrder
        <5>2. Len(Waiting(r)) \in Nat /\ i = n - Len(Waiting(r)) + k - 1
          BY <1>0, <1>6, <4>0 DEF Delivered
        <5>3. n \in 0 .. MaxInst - 1
          BY <1>1 DEF Inst
        <5> QED
          BY <3>2, <5>1, <5>2, <5>3, MaxInstAssumption DEF Inst
      <4>2. Waiting(r)[k] = Proposal(i)
        BY <1>6, <3>2, <4>0 DEF ProposalsInOrder
      <4>3. Delivered(r)' + k - 1 = i
        BY <1>7, <4>0
      <4>4. Proposal(i)' = Proposal(i)
        BY <1>5, <4>1 DEF Proposal
      <4> QED
        BY <1>6, <3>2, <4>2, <4>3, <4>4
    <3> QED
      BY <1>6, <3>1, <3>2
  <2>4. \A r \in Replica \ Followers : Len(Waiting(r)') = 0
    BY <2>1
  <2>5. Followers' = Followers
    BY DEF Followers, Others
  <2> QED
    BY <1>1, <1>4, <2>1, <2>2, <2>3, <2>4, <2>5 DEF ProposalsInOrder
<1> QED
  BY <1>0, <1>4, <1>5, <1>7, <1>8, <1>9

LEMMA ProposesKeeps ==
    ASSUME TypeOK, TypeOK', RealInv, NEW cmds, Proposes(cmds)
    PROVE  RealInv' /\ \A r \in Replica, i \in Inst : Stays(r, i)
<1>1. /\ Ordering /\ Deciding
      /\ CoordinatorLog /\ ProposalsInOrder
  BY DEF RealInv, Ordering
<1>2. /\ Proposed' = Proposed + 1
      /\ \A i \in Inst : i < Proposed => Cmds0(i)' = Cmds0(i)
      /\ \A r \in Followers : Delivered(r)' = Delivered(r)
      /\ CoordinatorLog' /\ ProposalsInOrder'
  BY <1>1, ProposesInOrder
<1>3. /\ Followers' = Followers /\ Followers \subseteq Replica \ {0}
      /\ 0 \in Replica /\ Proposed \in Inst /\ Proposed \in Nat
      /\ \A x \in Replica, j \in Inst : ~(x = 0 /\ j = Proposed) =>
                    instanceSpace'[x][j] = instanceSpace[x][j]
      /\ instanceSpace'[0][Proposed] = NewInstance("ACCEPTED", cmds)
      /\ UNCHANGED <<acceptReplyChan, commitChan, votes, decided, committedUpTo>>
  BY RealTypes DEF Proposes, Writes, Followers, Others
<1>4. FollowersKeepUp'
  BY <1>1, <1>2, <1>3 DEF Ordering, FollowersKeepUp, IsNil
<1>5. ASSUME NEW v \in votes
      PROVE  v.inst \in Inst /\ v.inst < Proposed
  <2>1. v.inst \in Inst
    BY DEF TypeOK, ChannelTypeOK, Decisions
  <2>2. v.replica \in Followers /\ v.inst < Delivered(v.replica)
    BY <1>1 DEF Ordering, VotesForProposals
  <2>3. Delivered(v.replica) <= Proposed /\ Delivered(v.replica) \in Int
    BY <1>3, <2>2, RealTypes DEF Delivered
  <2> QED
    BY <1>3, <2>1, <2>2, <2>3 DEF Inst
<1>6. VotesForProposals'
  BY <1>1, <1>2, <1>3, <1>5 DEF Ordering, VotesForProposals
<1>7. RepliesInOrder'
  <2> SUFFICES ASSUME NEW s \in Replica, NEW k \in 1 .. Len(acceptReplyChan[0][s])
               PROVE  \A i : i = acceptReplyChan[0][s][k].inst
                                => Vote(s, 0, i, Cmds0(i)') \in votes
    BY <1>1, <1>3 DEF Ordering, RepliesInOrder
  <2> TAKE i
  <2> HAVE i = acceptReplyChan[0][s][k].inst
  <2>1. Vote(s, 0, i, Cmds0(i)) \in votes
    BY <1>1 DEF Ordering, RepliesInOrder
  <2>2. i \in Inst /\ i < Proposed
    BY <1>5, <2>1 DEF Vote
  <2> QED
    BY <1>2, <2>1, <2>2
<1>8. AcceptsAreBacked'
  <2>1. \A i : Backers(i)' = Backers(i)
    BY <1>3 DEF Backers
  <2>2. ASSUME NEW i \in Inst
        PROVE  instanceSpace'[0][i].accepts <= Cardinality(Backers(i))
    <3>1. CASE i = Proposed
      BY <1>3, <3>1, BackersFinite DEF NewInstance
    <3>2. CASE i # Proposed
      BY <1>1, <1>3, <3>2 DEF Ordering, AcceptsAreBacked
    <3> QED
      BY <3>1, <3>2
  <2> QED
    BY <2>1, <2>2 DEF AcceptsAreBacked
<1>9. \A r \in Replica, i \in Inst : Stays(r, i)
  <2>1. ~HasCommitted(0, Proposed)
    BY <1>1, <1>3 DEF CoordinatorLog, HasCommitted, IsNil
  <2>2. instanceSpace'[0][Proposed].status # "COMMITTED"
    BY <1>3 DEF NewInstance
  <2> QED
    BY <1>3, <2>1, <2>2 DEF Stays, HasCommitted
<1>10. Deciding'
  BY <1>1, <1>3, <1>9, DecidingKept
<1> QED
  BY <1>2, <1>4, <1>6, <1>7, <1>8, <1>9, <1>10 DEF RealInv, Ordering

-----------------------------------------------------------------------------
(* A replica without the role puts its batch into its first nil instance    *)

ReceivesBatch(r) ==
    /\ r # 0
    /\ \E i \in Inst : \E e :
                          /\ IsNil(instanceSpace[r], i)
                          /\ e.status \notin {"NIL", "ACCEPTED", "COMMITTED"}
                          /\ Writes(r, i, e)
    /\ \A x \in Replica : acceptExecTimeChan'[x][0] = acceptExecTimeChan[x][0]
    /\ UNCHANGED <<acceptReplyChan, commitChan, votes, decided, committedUpTo>>

LEMMA ReceivesBatchKeeps ==
    ASSUME TypeOK, TypeOK', RealInv, NEW r \in Replica, ReceivesBatch(r)
    PROVE  RealInv' /\ \A x \in Replica, i \in Inst : Stays(x, i)
<1>0. PICK i \in Inst : \E e : /\ IsNil(instanceSpace[r], i)
                              /\ e.status \notin {"NIL", "ACCEPTED", "COMMITTED"}
                              /\ Writes(r, i, e)
  BY DEF ReceivesBatch
<1>1. PICK e : /\ IsNil(instanceSpace[r], i)
               /\ e.status \notin {"NIL", "ACCEPTED", "COMMITTED"}
               /\ Writes(r, i, e)
  BY <1>0
<1>2. /\ 0 \in Replica /\ r # 0
      /\ instanceSpace'[r][i].status \notin {"NIL", "COMMITTED"}
      /\ \A x \in Replica, j \in Inst : ~(x = r /\ j = i) =>
                instanceSpace'[x][j] = instanceSpace[x][j]
  BY <1>1, FirstRoles DEF ReceivesBatch, Writes
<1>3. \A x \in Replica, j \in Inst : Stays(x, j)
  BY <1>1, <1>2 DEF Stays, HasCommitted, IsNil
<1>4. \A j \in Inst :
        /\ instanceSpace'[0][j] = instanceSpace[0][j]
        /\ \A x \in Replica : IsNil(instanceSpace'[x], j)
                                => IsNil(instanceSpace[x], j)
  BY <1>2 DEF IsNil
<1>5. Ordering'
  BY <1>4, OrderKept DEF ReceivesBatch, RealInv
<1>6. Deciding'
  BY <1>3, DecidingKept DEF ReceivesBatch, RealInv
<1> QED
  BY <1>3, <1>5, <1>6 DEF RealInv

-----------------------------------------------------------------------------
(* A follower learns of a commit                                            *)

Keeps(r, i) == HasCommitted(r, i) =>
    /\ instanceSpace'[r][i].status = "COMMITTED"
    /\ instanceSpace'[r][i].cmds = instanceSpace[r][i].cmds

\* committedUpTo goes on over committed instances only
PrefixGrows == \A x \in Replica :
    \A j \in committedUpTo[x] + 1 .. committedUpTo'[x] :
        instanceSpace'[x][j].status = "COMMITTED"

Learns(r) ==
    /\ r # 0 /\ commitChan[r][0] # <<>>
    /\ \E e : /\ e.status = "COMMITTED"
              /\ Writes(r, Head(commitChan[r][0]).inst, e)
              /\ IF HasCommitted(r, Head(commitChan[r][0]).inst)
                 THEN e.cmds = instanceSpace[r][Head(commitChan[r][0]).inst].cmds
                 ELSE e.cmds = Head(commitChan[r][0]).cmds
    /\ \A x \in Replica :
          /\ acceptExecTimeChan'[x][0] = acceptExecTimeChan[x][0]
          /\ commitChan'[x][0] = IF x = r THEN Tail(commitChan[x][0])
                                          ELSE commitChan[x][0]
    /\ PrefixGrows
    /\ UNCHANGED <<acceptReplyChan, votes, decided>>

LEMMA PrefixKept ==
    ASSUME TypeOK, TypeOK', ExecutablePrefix, PrefixGrows,
           \A r \in Replica, i \in Inst : Keeps(r, i)
    PROVE  ExecutablePrefix'
<1> SUFFICES ASSUME NEW r \in Replica, NEW i \in 0 .. committedUpTo'[r]
             PROVE  instanceSpace'[r][i].status = "COMMITTED"
  BY DEF ExecutablePrefix, HasCommitted
<1>1. committedUpTo[r] \in -1 .. MaxInst - 1 /\ committedUpTo'[r] \in -1 .. MaxInst - 1
  BY DEF TypeOK, LogTypeOK
<1>2. CASE i <= committedUpTo[r]
  <2>1. i \in Inst /\ i \in 0 .. committedUpTo[r]
    BY <1>1, <1>2, MaxInstAssumption DEF Inst
  <2> QED
    BY <2>1 DEF ExecutablePrefix, Keeps
<1>3. CASE ~(i <= committedUpTo[r])
  <2>1. i \in committedUpTo[r] + 1 .. committedUpTo'[r]
    BY <1>1, <1>3
  <2> QED
    BY <2>1 DEF PrefixGrows
<1> QED
  BY <1>2, <1>3

LEMMA LearnsKeeps ==
    ASSUME TypeOK, TypeOK', RealInv, NEW r \in Replica, Learns(r)
    PROVE  RealInv' /\ \A x \in Replica, j \in Inst : Keeps(x, j)
<1>0. PICK m, i : m = Head(commitChan[r][0]) /\ i = m.inst
  OBVIOUS
<1>1. /\ 0 \in Replica /\ r # 0 /\ m \in CommitMsgs /\ i \in Inst
      /\ Len(commitChan[r][0]) \in Nat /\ 1 \in 1 .. Len(commitChan[r][0])
      /\ m = commitChan[r][0][1]
      /\ \A k \in 1 .. Len(commitChan'[r][0]) :
            /\ k + 1 \in 1 .. Len(commitChan[r][0])
            /\ commitChan'[r][0][k] = commitChan[r][0][k + 1]
  <2>1. commitChan[r][0] \in Seq(CommitMsgs) /\ commitChan[r][0] # <<>>
        /\ commitChan'[r][0] = Tail(commitChan[r][0])
    BY RealTypes DEF Learns
  <2>2. m \in CommitMsgs
    BY <1>0, <2>1, TailPlaces
  <2>3. m.inst \in Inst
    BY <2>2 DEF CommitMsgs
  <2> QED
    BY <1>0, <2>1, <2>2, <2>3, FirstRoles, TailPlaces DEF Learns
<1>2. HasCommitted(0, i) /\ m.cmds = Cmds0(i)
  BY <1>0, <1>1 DEF RealInv, Deciding, CommitsWereDecided
<1>3. /\ instanceSpace'[r][i].status = "COMMITTED"
      /\ instanceSpace'[r][i].cmds = IF HasCommitted(r, i)
                                     THEN instanceSpace[r][i].cmds ELSE m.cmds
      /\ \A x \in Replica, j \in Inst : ~(x = r /\ j = i) =>
                instanceSpace'[x][j] = instanceSpace[x][j]
  BY <1>0, <1>1 DEF Learns, Writes
<1>4. \A x \in Replica, j \in Inst : Keeps(x, j)
  BY <1>3 DEF Keeps, HasCommitted
<1>5. \A j \in Inst :
        /\ instanceSpace'[0][j] = instanceSpace[0][j]
        /\ HasCommitted(0, j)' = HasCommitted(0, j) /\ Cmds0(j)' = Cmds0(j)
        /\ \A x \in Replica : IsNil(instanceSpace'[x], j)
                                => IsNil(instanceSpace[x], j)
  BY <1>1, <1>3 DEF IsNil, HasCommitted, Cmds0
<1>6. Ordering'
  BY <1>5, OrderKept DEF Learns, RealInv
<1>7. CommitHasQuorum'
  BY DEF Learns, RealInv, Deciding, CommitHasQuorum
<1>8. DecidedIsCommitted'
  <2>1. \A d \in decided : d.inst \in Inst
    BY DEF TypeOK, ChannelTypeOK, Decisions
  <2> QED
    BY <1>5, <2>1 DEF Learns, RealInv, Deciding, DecidedIsCommitted
<1>9. CommitsWereDecided'
  <2> SUFFICES ASSUME NEW x \in Replica, NEW k \in 1 .. Len(commitChan'[x][0])
               PROVE  /\ HasCommitted(0, commitChan[x][0][k].inst)'
                      /\ (commitChan[x][0][k].cmds = Cmds0(commitChan[x][0][k].inst))'
    BY DEF CommitsWereDecided
  <2>0. PICK n, j : n = commitChan'[x][0][k] /\ j = n.inst
    OBVIOUS
  <2>1. PICK l \in 1 .. Len(commitChan[x][0]) : n = commitChan[x][0][l]
    BY <1>1, <2>0 DEF Learns
  <2>2. HasCommitted(0, j) /\ n.cmds = Cmds0(j)
    BY <2>0, <2>1 DEF RealInv, Deciding, CommitsWereDecided
  <2>3. j \in Inst
    BY <2>0, <2>1, RealPlaces DEF CommitMsgs
  <2> QED
    BY <1>5, <2>0, <2>2, <2>3 DEF HasCommitted, Cmds0
<1>10. CommittedAsDecided'
  <2> SUFFICES ASSUME NEW x \in Replica, NEW j \in Inst,
                      instanceSpace'[x][j].status = "COMMITTED"
               PROVE  HasCommitted(0, j) /\ instanceSpace'[x][j].cmds = Cmds0(j)
    BY <1>5 DEF CommittedAsDecided, HasCommitted
  <2>1. CASE HasCommitted(x, j)
    BY <1>4, <2>1 DEF RealInv, Deciding, CommittedAsDecided, Keeps
  <2>2. CASE ~HasCommitted(x, j)
    <3>1. x = r /\ j = i
      BY <1>3, <2>2 DEF HasCommitted
    <3> QED
      BY <1>2, <1>3, <2>2, <3>1
  <2> QED
    BY <2>1, <2>2
<1>11. ExecutablePrefix'
  BY <1>4, PrefixKept DEF Learns, RealInv, Deciding
<1> QED
  BY <1>4, <1>6, <1>7, <1>8, <1>9, <1>10, <1>11 DEF RealInv, Deciding

-----------------------------------------------------------------------------
(* A follower takes a proposal and accepts it, or has it committed already  *)

AcceptsProposal(r, i) ==
    /\ ~HasCommitted(r, i)
    /\ \E e : /\ e.status = "ACCEPTED" /\ e.cmds = Cmds0(i)
              /\ Writes(r, i, e)
    /\ \A x \in Replica : acceptReplyChan'[0][x] =
            IF x = r THEN acceptReplyChan[0][x] \o <<Reply(0, i, FALSE)>>
                     ELSE acceptReplyChan[0][x]
    /\ votes' = votes \union {Vote(r, 0, i, Cmds0(i))}

SkipsProposal(r, i) ==
    /\ HasCommitted(r, i)
    /\ \A x \in Replica, j \in Inst : instanceSpace'[x][j] = instanceSpace[x][j]
    /\ \A x \in Replica : acceptReplyChan'[0][x] = acceptReplyChan[0][x]
    /\ votes' = votes

Takes(r) ==
    /\ r \in Followers /\ Waiting(r) # <<>>
    /\ \A x \in Replica : acceptExecTimeChan'[x][0] =
            IF x = r THEN Tail(Waiting(x)) ELSE Waiting(x)
    /\ AcceptsProposal(r, Delivered(r)) \/ SkipsProposal(r, Delivered(r))
    /\ UNCHANGED <<commitChan, decided, committedUpTo>>

\* the proposal at the head of the channel
LEMMA FirstProposal ==
    ASSUME TypeOK, ProposalsInOrder, NEW r \in Replica, Waiting(r) # <<>>
    PROVE  /\ r \in Followers
           /\ Delivered(r) \in Inst /\ Delivered(r) < Proposed
           /\ Head(Waiting(r)) = Proposal(Delivered(r))
           /\ Len(Tail(Waiting(r))) = Len(Waiting(r)) - 1
           /\ \A k \in 1 .. Len(Tail(Waiting(r))) :
                Tail(Waiting(r))[k] = Proposal(Delivered(r) + 1 + k - 1)
<1> DEFINE q == Waiting(r)
           D == Delivered(r)
<1>1. /\ Len(q) \in Nat /\ 1 \in 1 .. Len(q) /\ Len(Tail(q)) = Len(q) - 1
      /\ Head(q) = q[1]
      /\ \A k \in 1 .. Len(Tail(q)) : k + 1 \in 1 .. Len(q) /\ Tail(q)[k] = q[k + 1]
  BY RealTypes, TailPlaces
<1>2. /\ r \in Followers /\ Len(q) <= Proposed
      /\ \A k \in 1 .. Len(q) : q[k] = Proposal(D + k - 1)
  BY DEF ProposalsInOrder
<1>3. D = Proposed - Len(q) /\ Proposed \in 0 .. MaxInst
  BY RealTypes DEF Delivered
<1>4. D \in Inst /\ D < Proposed
  BY <1>1, <1>2, <1>3, MaxInstAssumption DEF Inst
<1> HIDE DEF q, D
<1>5. Head(q) = Proposal(D)
  <2>1. D + 1 - 1 = D
    BY <1>4 DEF Inst
  <2> QED
    BY <1>1, <1>2, <2>1
<1>6. \A k \in 1 .. Len(Tail(q)) : Tail(q)[k] = Proposal(D + 1 + k - 1)
  <2>1. \A k \in 1 .. Len(Tail(q)) : D + (k + 1) - 1 = D + 1 + k - 1
    BY <1>1, <1>4 DEF Inst
  <2> QED
    BY <1>1, <1>2, <2>1
<1> QED
  BY <1>1, <1>2, <1>4, <1>5, <1>6 DEF q, D

LEMMA TakesKeeps ==
    ASSUME TypeOK, TypeOK', RealInv, NEW r \in Replica, Takes(r)
    PROVE  RealInv' /\ \A x \in Replica, j \in Inst : Stays(x, j)
<1>0. PICK i, n : i = Delivered(r) /\ n = Proposed
  OBVIOUS
<1>1. /\ Ordering /\ Deciding /\ CoordinatorLog /\ ProposalsInOrder
      /\ RepliesInOrder /\ VotesForProposals /\ FollowersKeepUp
  BY DEF RealInv, Ordering
<1>2. /\ 0 \in Replica /\ r \in Followers /\ r # 0 /\ Followers' = Followers
      /\ Followers \subseteq Replica
      /\ i \in Inst /\ i < n /\ n \in Nat
  BY <1>0, <1>1, RealTypes, FirstProposal DEF Takes, Followers, Others
<1>3. /\ Waiting(r) # <<>> /\ Waiting(r)' = Tail(Waiting(r))
      /\ \A x \in Replica : x # r => Waiting(x)' = Waiting(x)
  BY DEF Takes, Waiting
<1>4. AcceptsProposal(r, i) \/ SkipsProposal(r, i)
  BY <1>0 DEF Takes
\* the log of the coordinator stays, that of r gains an instance
<1>5. /\ \A j \in Inst : instanceSpace'[0][j] = instanceSpace[0][j]
      /\ \A x \in Replica, j \in Inst :
            /\ ~(x = r /\ j = i) => instanceSpace'[x][j] = instanceSpace[x][j]
            /\ ~IsNil(instanceSpace[x], j) => ~IsNil(instanceSpace'[x], j)
      /\ ~IsNil(instanceSpace'[r], i)
  BY <1>2, <1>4 DEF AcceptsProposal, SkipsProposal, Writes, IsNil, HasCommitted
<1>6. \A x \in Replica, j \in Inst : Stays(x, j)
  BY <1>4, <1>5 DEF AcceptsProposal, SkipsProposal, Writes, Stays, HasCommitted
<1>7. instanceSpace'[0] = instanceSpace[0]
  <2>1. instanceSpace[0] \in [Inst -> Entry] /\ instanceSpace'[0] \in [Inst -> Entry]
    BY FirstRoles DEF TypeOK, LogTypeOK
  <2> QED
    BY <1>5, <2>1
<1>8. /\ Proposed' = n
      /\ \A j : Cmds0(j)' = Cmds0(j) /\ Proposal(j)' = Proposal(j)
  BY <1>0, <1>7 DEF Proposed, Cmds0, Proposal
<1>9. /\ Delivered(r)' = i + 1
      /\ \A x \in Replica : x # r => Delivered(x)' = Delivered(x)
  <2>1. Len(Tail(Waiting(r))) = Len(Waiting(r)) - 1 /\ Len(Waiting(r)) \in Nat
    BY <1>1, <1>3, FirstProposal, RealTypes
  <2> QED
    BY <1>0, <1>2, <1>3, <1>8, <2>1 DEF Delivered
<1>10. CoordinatorLog'
  BY <1>0, <1>1, <1>7, <1>8 DEF CoordinatorLog, IsNil
<1>11. ProposalsInOrder'
  <2>1. /\ Len(Tail(Waiting(r))) <= n
        /\ \A k \in 1 .. Len(Tail(Waiting(r))) :
                Tail(Waiting(r))[k] = Proposal(i + 1 + k - 1)
    <3>1. Len(Waiting(r)) <= n /\ Len(Waiting(r)) \in Nat
      BY <1>0, <1>1, RealTypes DEF ProposalsInOrder
    <3>2. /\ Len(Tail(Waiting(r))) = Len(Waiting(r)) - 1
          /\ \A k \in 1 .. Len(Tail(Waiting(r))) :
                Tail(Waiting(r))[k] = Proposal(Delivered(r) + 1 + k - 1)
      BY <1>1, <1>3, FirstProposal
    <3>3. Len(Tail(Waiting(r))) <= n
      BY <1>2, <3>1, <3>2
    <3> QED
      BY <1>0, <3>2, <3>3
  <2>2. ASSUME NEW x \in Replica
        PROVE  /\ Len(Waiting(x)') <= n
               /\ x \notin Followers => Waiting(x)' = <<>>
               /\ \A k \in 1 .. Len(Waiting(x)') :
                    Waiting(x)'[k] = Proposal(Delivered(x)' + k - 1)
    <3>1. CASE x = r
      <4>1. Waiting(x)' = Tail(Waiting(r)) /\ Delivered(x)' = i + 1
        BY <1>3, <1>9, <3>1
      <4> QED
        BY <1>2, <2>1, <3>1, <4>1
    <3>2. CASE x # r
      BY <1>0, <1>1, <1>3, <1>9, <3>2 DEF ProposalsInOrder
    <3> QED
      BY <3>1, <3>2
  <2> QED
    BY <1>2, <1>8, <2>2 DEF ProposalsInOrder
<1>12. FollowersKeepUp'
  <2> SUFFICES ASSUME NEW x \in Followers, NEW j \in Inst, j < Delivered(x)'
               PROVE  ~IsNil(instanceSpace'[x], j)
    BY <1>2 DEF FollowersKeepUp
  <2>1. CASE x = r /\ j = i
    BY <1>5, <2>1
  <2>2. CASE ~(x = r /\ j = i)
    <3>1. j < Delivered(x)
      BY <1>0, <1>2, <1>9, <2>2 DEF Inst
    <3> QED
      BY <1>1, <1>2, <1>5, <3>1 DEF FollowersKeepUp
  <2> QED
    BY <2>1, <2>2
\* a vote for i is new
<1>13. ASSUME NEW v \in votes
       PROVE  /\ v.replica \in Followers /\ v.phase = 0 /\ v.inst \in Inst
              /\ v.inst < Delivered(v.replica)' /\ v.cmds = Cmds0(v.inst)
              /\ v.replica = r => v.inst < i
  <2>1. v.inst \in Inst
    BY DEF TypeOK, ChannelTypeOK, Decisions
  <2>2. /\ v.replica \in Followers /\ v.phase = 0
        /\ v.inst < Delivered(v.replica) /\ v.cmds = Cmds0(v.inst)
    BY <1>1 DEF VotesForProposals
  <2>3. CASE v.replica = r
    BY <1>0, <1>2, <1>9, <2>1, <2>2, <2>3 DEF Inst
  <2>4. CASE v.replica # r
    BY <1>2, <1>9, <2>1, <2>2, <2>4
  <2> QED
    BY <2>1, <2>2, <2>3, <2>4
<1>14. VotesForProposals'
  <2>1. ASSUME NEW v \in votes', v \notin votes
        PROVE  v = Vote(r, 0, i, Cmds0(i))
    BY <1>4, <2>1 DEF AcceptsProposal, SkipsProposal
  <2>2. ASSUME NEW v \in votes'
        PROVE  /\ v.replica \in Followers /\ v.phase = 0
               /\ v.inst < Delivered(v.replica)' /\ v.cmds = Cmds0(v.inst)
    <3>1. CASE v \in votes
      BY <1>13, <3>1
    <3>2. CASE v \notin votes
      <4>1. v.replica = r /\ v.phase = 0 /\ v.inst = i /\ v.cmds = Cmds0(i)
        BY <2>1, <3>2 DEF Vote
      <4> QED
        BY <1>2, <1>9, <4>1 DEF Inst
    <3> QED
      BY <3>1, <3>2
  <2> QED
    BY <1>2, <1>8, <2>2 DEF VotesForProposals
<1>15. votes \subseteq votes'
  BY <1>4 DEF AcceptsProposal, SkipsProposal
<1>16. ASSUME NEW x \in Replica
       PROVE  /\ Len(acceptReplyChan[0][x]) \in Nat
              /\ \/ acceptReplyChan'[0][x] = acceptReplyChan[0][x]
                 \/ /\ x = r /\ Vote(r, 0, i, Cmds0(i)) \in votes'
                    /\ Len(acceptReplyChan'[0][x]) = Len(acceptReplyChan[0][x]) + 1
                    /\ acceptReplyChan'[0][x][Len(acceptReplyChan[0][x]) + 1].inst = i
                    /\ \A k \in 1 .. Len(acceptReplyChan[0][x]) :
                        acceptReplyChan'[0][x][k] = acceptReplyChan[0][x][k]
  <2>1. Len(acceptReplyChan[0][x]) \in Nat /\ acceptReplyChan[0][x] \in Seq(ReplyMsgs)
    BY RealPlaces, RealTypes
  <2>2. CASE x = r /\ AcceptsProposal(r, i)
    <3>1. /\ acceptReplyChan'[0][x] = acceptReplyChan[0][x] \o <<Reply(0, i, FALSE)>>
          /\ Vote(r, 0, i, Cmds0(i)) \in votes'
      BY <2>2 DEF AcceptsProposal
    <3>2. Reply(0, i, FALSE) \in ReplyMsgs /\ Reply(0, i, FALSE).inst = i
      BY <1>2, MaxPhaseAssumption DEF Reply, ReplyMsgs, Phase
    <3>3. PICK q, m, t : /\ q = acceptReplyChan[0][x] /\ m = Reply(0, i, FALSE)
                         /\ t = acceptReplyChan'[0][x]
      OBVIOUS
    <3>4. /\ Len(t) = Len(q) + 1 /\ t[Len(q) + 1] = m
          /\ \A k \in 1 .. Len(q) : t[k] = q[k]
      <4>1. q \in Seq(ReplyMsgs) /\ m \in ReplyMsgs /\ t = q \o <<m>>
        BY <2>1, <3>1, <3>2, <3>3
      <4> QED
        BY <4>1, LongerPlaces
    <3>5. Vote(r, 0, i, Cmds0(i)) \in votes' /\ m.inst = i
      BY <3>1, <3>2, <3>3
    <3> QED
      BY <2>1, <2>2, <3>3, <3>4, <3>5
  <2>3. CASE ~(x = r /\ AcceptsProposal(r, i))
    BY <1>4, <2>1, <2>3 DEF AcceptsProposal, SkipsProposal
  <2> QED
    BY <2>2, <2>3
<1>17. ASSUME NEW x \in Replica, NEW k \in 1 .. Len(acceptReplyChan[0][x])
       PROVE  /\ Vote(x, 0, acceptReplyChan[0][x][k].inst,
                      Cmds0(acceptReplyChan[0][x][k].inst)) \in votes
              /\ x = r => acceptReplyChan[0][x][k].inst < i
  <2>1. Vote(x, 0, acceptReplyChan[0][x][k].inst,
             Cmds0(acceptReplyChan[0][x][k].inst)) \in votes
    BY <1>1 DEF RepliesInOrder
  <2> QED
    BY <1>13, <2>1 DEF Vote
<1>18. RepliesInOrder'
  <2> SUFFICES ASSUME NEW x \in Replica, NEW k \in 1 .. Len(acceptReplyChan'[0][x]),
                      NEW c, c = acceptReplyChan'[0][x][k].inst
               PROVE  /\ Vote(x, 0, c, Cmds0(c)) \in votes'
                      /\ \A j \in 1 .. k - 1 : acceptReplyChan'[0][x][j].inst < c
    BY <1>8 DEF RepliesInOrder
  <2>1. CASE /\ k \in 1 .. Len(acceptReplyChan[0][x])
             /\ \A j \in 1 .. k : acceptReplyChan'[0][x][j] = acceptReplyChan[0][x][j]
    <3>1. k \in 1 .. k /\ \A j \in 1 .. k - 1 : j \in 1 .. k
      BY <1>16
    <3> QED
      BY <1>1, <1>15, <1>17, <2>1, <3>1 DEF RepliesInOrder
  <2>2. CASE /\ x = r /\ k = Len(acceptReplyChan[0][x]) + 1 /\ c = i
             /\ Vote(r, 0, i, Cmds0(i)) \in votes'
             /\ \A j \in 1 .. k - 1 : /\ j \in 1 .. Len(acceptReplyChan[0][x])
                                      /\ acceptReplyChan'[0][x][j] = acceptReplyChan[0][x][j]
    BY <1>17, <2>2
  <2>3. PICK l : l = Len(acceptReplyChan[0][x])
    OBVIOUS
  <2>4. CASE acceptReplyChan'[0][x] = acceptReplyChan[0][x]
    BY <2>1, <2>4
  <2>5. CASE acceptReplyChan'[0][x] # acceptReplyChan[0][x]
    <3>1. /\ x = r /\ Vote(r, 0, i, Cmds0(i)) \in votes' /\ l \in Nat
          /\ Len(acceptReplyChan'[0][x]) = l + 1
          /\ acceptReplyChan'[0][x][l + 1].inst = i
          /\ \A j \in 1 .. l : acceptReplyChan'[0][x][j] = acceptReplyChan[0][x][j]
      BY <1>16, <2>3, <2>5
    <3>2. k \in 1 .. l \/ k = l + 1
      BY <3>1
    <3>3. CASE k \in 1 .. l
      <4>1. \A j \in 1 .. k : j \in 1 .. l
        BY <3>1, <3>3
      <4> QED
        BY <2>1, <2>3, <3>1, <3>3, <4>1
    <3>4. CASE k = l + 1
      <4>1. \A j \in 1 .. k - 1 : j \in 1 .. l
        BY <3>1, <3>4
      <4>2. c = i
        BY <3>1, <3>4
      <4> QED
        BY <2>2, <2>3, <3>1, <3>4, <4>1, <4>2
    <3> QED
      BY <3>2, <3>3, <3>4
  <2> QED
    BY <2>4, <2>5
<1>19. AcceptsAreBacked'
  <2> SUFFICES ASSUME NEW j \in Inst
               PROVE  instanceSpace'[0][j].accepts <= Cardinality(Backers(j)')
    BY DEF AcceptsAreBacked
  <2>1. Backers(j) \subseteq Backers(j)'
    <3> SUFFICES ASSUME NEW s \in Backers(j)
                 PROVE  /\ \E v \in votes' : v.replica = s /\ v.inst = j
                        /\ \A k \in 1 .. Len(acceptReplyChan'[0][s]) :
                                acceptReplyChan'[0][s][k].inst # j
      BY <1>2 DEF Backers
    <3>1. PICK v \in votes : v.replica = s /\ v.inst = j
      BY DEF Backers
    <3>2. s \in Replica /\ (s = r => j < i)
      BY <1>2, <1>13, <3>1
    <3>3. \A k \in 1 .. Len(acceptReplyChan[0][s]) : acceptReplyChan[0][s][k].inst # j
      BY DEF Backers
    <3>4. ASSUME NEW k \in 1 .. Len(acceptReplyChan'[0][s])
          PROVE  acceptReplyChan'[0][s][k].inst # j
      <4>1. CASE k \in 1 .. Len(acceptReplyChan[0][s])
        BY <1>16, <3>2, <3>3, <4>1
      <4>2. CASE k \notin 1 .. Len(acceptReplyChan[0][s])
        <5>1. s = r /\ k = Len(acceptReplyChan[0][s]) + 1
              /\ acceptReplyChan'[0][s][k].inst = i
          <6>1. acceptReplyChan'[0][s] # acceptReplyChan[0][s]
            BY <4>2
          <6>2. /\ s = r /\ Len(acceptReplyChan[0][s]) \in Nat
                /\ Len(acceptReplyChan'[0][s]) = Len(acceptReplyChan[0][s]) + 1
                /\ acceptReplyChan'[0][s][Len(acceptReplyChan[0][s]) + 1].inst = i
            BY <1>16, <3>2, <6>1
          <6>3. k = Len(acceptReplyChan[0][s]) + 1
            BY <4>2, <6>2
          <6> QED
            BY <6>2, <6>3
        <5> QED
          BY <1>2, <3>2, <5>1 DEF Inst
      <4> QED
        BY <4>1, <4>2
    <3> QED
      BY <1>15, <3>1, <3>4
  <2>2. Backers(j)' \subseteq Replica
    BY DEF Backers, Followers, Others
  <2>3. /\ IsFiniteSet(Backers(j)') /\ Cardinality(Backers(j)) <= Cardinality(Backers(j)')
        /\ Cardinality(Backers(j)) \in Nat /\ Cardinality(Backers(j)') \in Nat
    BY <2>1, <2>2, ReplicasFinite, FS_Subset, FS_CardinalityType
  <2>4. instanceSpace[0][j].accepts <= Cardinality(Backers(j))
        /\ instanceSpace[0][j].accepts \in Nat
    <3>1. instanceSpace[0][j].accepts \in Nat
      BY <1>2, LocalTypes, MaxAcceptsType DEF Logs, Entry
    <3> QED
      BY <1>1, <3>1 DEF Ordering, AcceptsAreBacked
  <2> QED
    BY <1>5, <2>3, <2>4
<1>20. Deciding'
  BY <1>1, <1>6, <1>15, DecidingKept DEF Takes
<1> QED
  BY <1>6, <1>10, <1>11, <1>12, <1>14, <1>18, <1>19, <1>20 DEF RealInv, Ordering

-----------------------------------------------------------------------------
(* The coordinator counts a reply, and commits on a majority                *)

Replied(s) == acceptReplyChan[0][s]

CommitsNow(i, e) ==
    /\ e.status = "COMMITTED" /\ EnoughAccepts(e.accepts)
    /\ decided' = decided \union {Vote(0, 0, i, Cmds0(i))}
    /\ \A x \in Replica : commitChan'[x][0] =
            IF x # 0 THEN commitChan[x][0] \o <<CommitMsg(i, Cmds0(i), FALSE, 0)>>
                     ELSE commitChan[x][0]

CommitsNothing(i, e) ==
    /\ e.status = instanceSpace[0][i].status
    /\ decided' = decided
    /\ \A x \in Replica : commitChan'[x][0] = commitChan[x][0]

Counts(s, i, e) ==
    /\ Replied(s) # <<>> /\ i = Head(Replied(s)).inst
    /\ \A x \in Replica : acceptReplyChan'[0][x] =
            IF x = s THEN Tail(Replied(x)) ELSE Replied(x)
    /\ Writes(0, i, e)
    /\ e.cmds = Cmds0(i) /\ e.accepts <= instanceSpace[0][i].accepts + 1
    /\ CommitsNow(i, e) \/ CommitsNothing(i, e)
    /\ PrefixGrows
    /\ UNCHANGED <<acceptExecTimeChan, votes>>

\* the reply at the head of the channel is the voter's only one for i
LEMMA FirstReply ==
    ASSUME TypeOK, Ordering, NEW s \in Replica, Replied(s) # <<>>,
           NEW i, i = Head(Replied(s)).inst
    PROVE  /\ i \in Inst /\ i < Proposed /\ s \in Followers
           /\ Vote(s, 0, i, Cmds0(i)) \in votes
           /\ s \notin Backers(i)
           /\ Len(Replied(s)) \in Nat
           /\ \A k \in 1 .. Len(Tail(Replied(s))) :
                /\ k + 1 \in 1 .. Len(Replied(s))
                /\ Tail(Replied(s))[k] = Replied(s)[k + 1]
                /\ Tail(Replied(s))[k].inst # i
<1>0. PICK q, t : q = Replied(s) /\ t = Tail(q)
  OBVIOUS
<1>1. q \in Seq(ReplyMsgs) /\ q # <<>> /\ t = Tail(q)
  BY <1>0, RealTypes DEF Replied
<1>2. /\ Len(q) \in Nat /\ 1 \in 1 .. Len(q) /\ Head(q) = q[1] /\ Head(q) \in ReplyMsgs
      /\ \A k \in 1 .. Len(t) : k + 1 \in 1 .. Len(q) /\ t[k] = q[k + 1]
  BY <1>1, TailPlaces
<1>3. i = q[1].inst /\ i \in Inst
  BY <1>0, <1>2 DEF ReplyMsgs
<1>4. Vote(s, 0, i, Cmds0(i)) \in votes
  BY <1>0, <1>2, <1>3 DEF Ordering, RepliesInOrder, Replied
<1>5. s \in Followers /\ i < Delivered(s)
  BY <1>4 DEF Ordering, VotesForProposals, Vote
<1>6. i < Proposed
  <2>1. Len(Waiting(s)) \in Nat /\ Proposed \in 0 .. MaxInst
    BY RealTypes
  <2>2. i \in Int
    BY <1>3 DEF Inst
  <2> QED
    BY <1>5, <2>1, <2>2, MaxInstAssumption DEF Delivered
<1>7. s \notin Backers(i)
  BY <1>0, <1>2, <1>3 DEF Backers, Replied
<1>8. ASSUME NEW k \in 1 .. Len(t)
      PROVE  t[k].inst # i
  <2>1. k + 1 \in 1 .. Len(q) /\ t[k] = q[k + 1]
    BY <1>2
  <2>2. 1 \in 1 .. (k + 1) - 1
    OBVIOUS
  <2>3. q[1].inst < q[k + 1].inst
    BY <1>0, <2>1, <2>2 DEF Ordering, RepliesInOrder, Replied
  <2>4. q[1].inst \in Int
    BY <1>3 DEF Inst
  <2> QED
    BY <1>3, <2>1, <2>3, <2>4
<1> QED
  BY <1>0, <1>2, <1>3, <1>4, <1>5, <1>6, <1>7, <1>8

LEMMA CountsOrder ==
    ASSUME TypeOK, TypeOK', Ordering, NEW s \in Replica, NEW i, NEW e,
           Counts(s, i, e)
    PROVE  /\ Ordering'
           /\ i \in Inst
           /\ \A j \in Inst : Cmds0(j)' = Cmds0(j)
           /\ e.accepts \in Nat /\ e.accepts <= Cardinality(Backers(i)')
<1>0. PICK n : n = Proposed
  OBVIOUS
<1>1. /\ i \in Inst /\ i < n /\ s \in Followers /\ s # 0 /\ 0 \in Replica
      /\ Followers \subseteq Replica
      /\ n \in 0 .. MaxInst /\ Vote(s, 0, i, Cmds0(i)) \in votes
      /\ s \notin Backers(i) /\ Followers' = Followers
      /\ \A j \in Inst : j # i => instanceSpace'[0][j] = instanceSpace[0][j]
      /\ \A x \in Replica, j \in Inst :
            x # 0 => instanceSpace'[x][j] = instanceSpace[x][j]
      /\ instanceSpace'[0][i] = e /\ e.cmds = Cmds0(i)
      /\ UNCHANGED <<acceptExecTimeChan, votes>>
  BY <1>0, FirstReply, RealTypes DEF Counts, Writes, Followers, Others
<1>2. e.status \in {"ACCEPTED", "COMMITTED"}
  BY <1>0, <1>1 DEF Counts, CommitsNow, CommitsNothing, Ordering, CoordinatorLog
<1>3. \A j \in Inst : Cmds0(j)' = Cmds0(j)
  BY <1>1 DEF Cmds0
<1>4. \A j \in Inst :
        /\ j < n => instanceSpace'[0][j].status \in {"ACCEPTED", "COMMITTED"}
        /\ j >= n => IsNil(instanceSpace'[0], j)
  <2> SUFFICES ASSUME NEW j \in Inst
               PROVE  /\ j < n => instanceSpace'[0][j].status \in {"ACCEPTED", "COMMITTED"}
                      /\ j >= n => IsNil(instanceSpace'[0], j)
    OBVIOUS
  <2>1. CASE j = i
    BY <1>1, <1>2, <2>1 DEF Inst
  <2>2. CASE j # i
    BY <1>0, <1>1, <2>2 DEF Ordering, CoordinatorLog, IsNil
  <2> QED
    BY <2>1, <2>2
<1>5. Proposed' = n
  <2>1. ASSUME NEW j \in 0 .. n - 1
        PROVE  ~IsNil(instanceSpace'[0], j)
    <3>1. j \in Inst /\ j < n
      BY <1>1, MaxInstAssumption DEF Inst
    <3> QED
      BY <1>4, <3>1 DEF IsNil
  <2>2. n < MaxInst => IsNil(instanceSpace'[0], n)
    BY <1>1, <1>4, MaxInstAssumption DEF Inst
  <2>3. NextNil(instanceSpace'[0]) = n
    BY <1>1, <2>1, <2>2, NextNilIs
  <2> QED
    BY <2>3 DEF Proposed
<1>6. CoordinatorLog'
  BY <1>4, <1>5 DEF CoordinatorLog
<1>7. \A x \in Replica : Waiting(x)' = Waiting(x) /\ Delivered(x)' = Delivered(x)
  BY <1>0, <1>1, <1>5 DEF Waiting, Delivered
<1>8. ProposalsInOrder'
  <2>1. ASSUME NEW x \in Replica, NEW k \in 1 .. Len(Waiting(x)),
               NEW j, j = Delivered(x) + k - 1
        PROVE  Waiting(x)[k] = Proposal(j)'
    <3>1. Waiting(x)[k] = Proposal(j)
      BY <2>1 DEF Ordering, ProposalsInOrder
    <3>2. j \in Inst
      <4>1. Len(Waiting(x)) \in Nat /\ Len(Waiting(x)) <= n
            /\ Delivered(x) = n - Len(Waiting(x))
        BY <1>0, RealTypes DEF Ordering, ProposalsInOrder, Delivered
      <4> QED
        BY <1>1, <2>1, <4>1, MaxInstAssumption DEF Inst
    <3>3. Proposal(j)' = Proposal(j)
      BY <1>3, <3>2 DEF Proposal
    <3> QED
      BY <3>1, <3>3
  <2>2. ASSUME NEW x \in Replica
        PROVE  /\ Len(Waiting(x)') <= Proposed'
               /\ x \notin Followers => Waiting(x)' = <<>>
               /\ \A k \in 1 .. Len(Waiting(x)') :
                    Waiting(x)'[k] = Proposal(Delivered(x) + k - 1)'
    <3>1. Len(Waiting(x)) <= n /\ (x \notin Followers => Waiting(x) = <<>>)
      BY <1>0 DEF Ordering, ProposalsInOrder
    <3>2. \A k \in 1 .. Len(Waiting(x)) :
                Waiting(x)[k] = Proposal(Delivered(x) + k - 1)'
      <4> TAKE k \in 1 .. Len(Waiting(x))
      <4>1. PICK j : j = Delivered(x) + k - 1
        OBVIOUS
      <4>2. Delivered(x)' + k - 1 = j
        BY <1>7, <4>1
      <4> QED
        BY <2>1, <4>1, <4>2
    <3> QED
      BY <1>5, <1>7, <3>1, <3>2
  <2> QED
    BY <1>1, <2>2 DEF ProposalsInOrder
<1>9. FollowersKeepUp'
  BY <1>1, <1>7 DEF Ordering, FollowersKeepUp, IsNil, Followers, Others
<1>10. \A v \in votes : v.inst \in Inst /\ v.replica \in Replica
  BY DEF TypeOK, ChannelTypeOK, Decisions
<1>11. VotesForProposals'
  BY <1>1, <1>3, <1>7, <1>10 DEF Ordering, VotesForProposals
<1>12. ASSUME NEW k \in 1 .. Len(acceptReplyChan'[0][s])
       PROVE  /\ k + 1 \in 1 .. Len(Replied(s))
              /\ acceptReplyChan'[0][s][k] = Replied(s)[k + 1]
              /\ acceptReplyChan'[0][s][k].inst # i
  <2>1. acceptReplyChan'[0][s] = Tail(Replied(s)) /\ Replied(s) # <<>>
        /\ i = Head(Replied(s)).inst /\ s \in Replica
    BY DEF Counts
  <2>2. \A l \in 1 .. Len(Tail(Replied(s))) :
                /\ l + 1 \in 1 .. Len(Replied(s))
                /\ Tail(Replied(s))[l] = Replied(s)[l + 1]
                /\ Tail(Replied(s))[l].inst # i
    BY <2>1, FirstReply
  <2> QED
    BY <1>12, <2>1, <2>2
<1>13. \A x \in Replica : x # s => acceptReplyChan'[0][x] = Replied(x)
  BY DEF Counts
<1>14. RepliesInOrder'
  <2> SUFFICES ASSUME NEW x \in Replica, NEW k \in 1 .. Len(acceptReplyChan'[0][x]),
                      NEW c, c = acceptReplyChan'[0][x][k].inst
               PROVE  /\ Vote(x, 0, c, Cmds0(c)') \in votes
                      /\ \A j \in 1 .. k - 1 : acceptReplyChan'[0][x][j].inst < c
    BY <1>1 DEF RepliesInOrder
  <2>1. /\ Vote(x, 0, c, Cmds0(c)) \in votes
        /\ \A j \in 1 .. k - 1 : acceptReplyChan'[0][x][j].inst < c
    <3>1. CASE x # s
      BY <1>13, <3>1 DEF Ordering, RepliesInOrder, Replied
    <3>2. CASE x = s
      <4>1. k + 1 \in 1 .. Len(Replied(s)) /\ c = Replied(s)[k + 1].inst
        BY <1>12, <3>2
      <4>2. Vote(s, 0, c, Cmds0(c)) \in votes
        BY <4>1 DEF Ordering, RepliesInOrder, Replied
      <4>3. ASSUME NEW j \in 1 .. k - 1
            PROVE  acceptReplyChan'[0][s][j].inst < c
        <5>1. j \in 1 .. Len(acceptReplyChan'[0][s]) /\ j + 1 \in 1 .. (k + 1) - 1
          <6>1. Len(acceptReplyChan'[0][s]) \in Nat
            <7>1. acceptReplyChan'[0][s] \in Seq(ReplyMsgs)
              BY <1>1 DEF TypeOK, ChannelTypeOK
            <7> QED
              BY <7>1, LenProperties
          <6> QED
            BY <3>2, <6>1
        <5>2. acceptReplyChan'[0][s][j] = Replied(s)[j + 1]
          BY <1>12, <5>1
        <5> QED
          BY <4>1, <5>1, <5>2 DEF Ordering, RepliesInOrder, Replied
      <4> QED
        BY <3>2, <4>2, <4>3
    <3> QED
      BY <3>1, <3>2
  <2>2. c \in Inst
    BY <1>10, <2>1 DEF Vote
  <2> QED
    BY <1>3, <2>1, <2>2
\* one reply more is counted for i, that of s
<1>15. ASSUME NEW j
       PROVE  Backers(j) \subseteq Backers(j)'
  <2> SUFFICES ASSUME NEW x \in Backers(j)
               PROVE  /\ x \in Followers
                      /\ \E v \in votes : v.replica = x /\ v.inst = j
                      /\ \A k \in 1 .. Len(acceptReplyChan'[0][x]) :
                            acceptReplyChan'[0][x][k].inst # j
    BY <1>1 DEF Backers
  <2>1. /\ x \in Followers /\ x \in Replica
        /\ \E v \in votes : v.replica = x /\ v.inst = j
        /\ \A k \in 1 .. Len(Replied(x)) : Replied(x)[k].inst # j
    BY <1>1 DEF Backers, Replied
  <2>2. CASE x = s
    BY <1>12, <2>1, <2>2
  <2>3. CASE x # s
    BY <1>13, <2>1, <2>3
  <2> QED
    BY <2>1, <2>2, <2>3
<1>16. s \in Backers(i)'
  <2>1. \E v \in votes : v.replica = s /\ v.inst = i
    BY <1>1 DEF Vote
  <2> QED
    BY <1>1, <1>12, <2>1 DEF Backers
<1>17. ASSUME NEW j
       PROVE  /\ IsFiniteSet(Backers(j)) /\ IsFiniteSet(Backers(j)')
              /\ Cardinality(Backers(j)) \in Nat /\ Cardinality(Backers(j)') \in Nat
              /\ Cardinality(Backers(j)) <= Cardinality(Backers(j)')
  <2>1. Backers(j)' \subseteq Replica
    BY DEF Backers, Followers, Others
  <2> QED
    BY <1>15, <2>1, BackersFinite, ReplicasFinite, FS_Subset, FS_CardinalityType
<1>18. Cardinality(Backers(i)) + 1 <= Cardinality(Backers(i)')
  <2>1. Cardinality(Backers(i) \union {s}) = Cardinality(Backers(i)) + 1
        /\ IsFiniteSet(Backers(i) \union {s})
    BY <1>1, <1>17, FS_AddElement
  <2>2. Backers(i) \union {s} \subseteq Backers(i)'
    BY <1>15, <1>16
  <2> QED
    BY <1>17, <2>1, <2>2, FS_Subset
<1>19. \A j \in Inst : /\ instanceSpace[0][j].accepts \in Nat
                       /\ instanceSpace[0][j].accepts <= Cardinality(Backers(j))
  BY <1>1, LocalTypes, MaxAcceptsType DEF Logs, Entry, Ordering, AcceptsAreBacked
<1>20. e.accepts \in Nat
  <2>1. instanceSpace'[0] \in [Inst -> Entry]
    BY <1>1 DEF TypeOK, LogTypeOK
  <2> QED
    BY <1>1, <2>1, MaxAcceptsType DEF Entry
<1>21. e.accepts <= Cardinality(Backers(i)')
  BY <1>1, <1>17, <1>18, <1>19, <1>20 DEF Counts
<1>22. AcceptsAreBacked'
  <2> SUFFICES ASSUME NEW j \in Inst
               PROVE  instanceSpace'[0][j].accepts <= Cardinality(Backers(j)')
    BY DEF AcceptsAreBacked
  <2>1. CASE j = i
    <3>1. Cardinality(Backers(j)') = Cardinality(Backers(i)')
      BY <2>1
    <3> QED
      BY <1>1, <1>21, <2>1, <3>1
  <2>2. CASE j # i
    BY <1>1, <1>17, <1>19, <2>2
  <2> QED
    BY <2>1, <2>2
<1> QED
  BY <1>1, <1>3, <1>6, <1>8, <1>9, <1>11, <1>14, <1>20, <1>21, <1>22 DEF Ordering

\* the replies counted and the coordinator are a majority that voted
LEMMA CommitQuorum ==
    ASSUME TypeOK', VotesForProposals', NEW i \in Inst, NEW d,
           d.phase = 0 /\ d.inst = i /\ d.cmds = Cmds0(i)',
           NEW a \in Nat, EnoughAccepts(a), a <= Cardinality(Backers(i)')
    PROVE  2 * Cardinality(VotersFor(d)' \union {0}) > N
<1> DEFINE B == Backers(i)'
<1>1. B \subseteq Replica /\ 0 \notin B /\ 0 \in Replica
  BY FirstRoles DEF Backers, Followers, Others
<1>2. IsFiniteSet(B) /\ Cardinality(B) \in Nat
  BY <1>1, ReplicasFinite, FS_Subset, FS_CardinalityType
<1>3. Cardinality(B \union {0}) = Cardinality(B) + 1
  BY <1>1, <1>2, FS_AddElement
<1>4. 2 * Cardinality(B \union {0}) > N
  <2>1. a <= Cardinality(B)
    OBVIOUS
  <2> HIDE DEF B
  <2> QED
    BY <1>2, <1>3, <2>1, NAssumption DEF EnoughAccepts
<1>5. B \subseteq VotersFor(d)'
  BY DEF Backers, VotersFor, VotesForProposals
<1>6. VotersFor(d)' \subseteq Replica
  <2>1. \A v \in votes' : v.replica \in Replica
    BY DEF TypeOK, ChannelTypeOK, Decisions
  <2> QED
    BY <2>1 DEF VotersFor
<1>7. B \union {0} \subseteq VotersFor(d)' \union {0}
      /\ VotersFor(d)' \union {0} \subseteq Replica
  BY <1>1, <1>5, <1>6
<1> HIDE DEF B
<1> QED
  BY <1>4, <1>7, MajorityGrows

LEMMA CountsKeeps ==
    ASSUME TypeOK, TypeOK', RealInv, NEW s \in Replica, NEW i, NEW e,
           Counts(s, i, e)
    PROVE  RealInv' /\ \A x \in Replica, j \in Inst : Keeps(x, j)
<1>1. /\ Ordering' /\ i \in Inst
      /\ \A j \in Inst : Cmds0(j)' = Cmds0(j)
      /\ e.accepts \in Nat /\ e.accepts <= Cardinality(Backers(i)')
  BY CountsOrder DEF RealInv
<1>2. /\ 0 \in Replica
      /\ \A x \in Replica, j \in Inst : ~(x = 0 /\ j = i) =>
                instanceSpace'[x][j] = instanceSpace[x][j]
      /\ instanceSpace'[0][i] = e /\ e.cmds = Cmds0(i)
      /\ CommitsNow(i, e) \/ CommitsNothing(i, e)
      /\ votes' = votes
  BY <1>1, FirstRoles DEF Counts, Writes
<1>3. \A x \in Replica, j \in Inst : Keeps(x, j)
  BY <1>2 DEF Keeps, HasCommitted, Cmds0, CommitsNow, CommitsNothing
<1>4. Deciding
  BY DEF RealInv
<1>5. \A d \in decided : d.inst \in Inst
  BY DEF TypeOK, ChannelTypeOK, Decisions
<1>6. ASSUME NEW j \in Inst
      PROVE  /\ HasCommitted(0, j) => instanceSpace'[0][j].status = "COMMITTED"
             /\ instanceSpace'[0][j].status = "COMMITTED" =>
                    HasCommitted(0, j) \/ (j = i /\ CommitsNow(i, e))
  BY <1>2, <1>3 DEF HasCommitted, Keeps, CommitsNow, CommitsNothing
<1>7. CommitsNow(i, e) => instanceSpace'[0][i].status = "COMMITTED"
  BY <1>2 DEF CommitsNow
<1>8. ASSUME NEW d \in decided', d \notin decided
      PROVE  d = Vote(0, 0, i, Cmds0(i)) /\ CommitsNow(i, e)
  BY <1>2, <1>8 DEF CommitsNow, CommitsNothing
<1>9. CommitHasQuorum'
  <2> SUFFICES ASSUME NEW d \in decided'
               PROVE  2 * Cardinality(VotersFor(d)' \union {d.replica}) > N
    BY DEF CommitHasQuorum, VotersFor
  <2>1. CASE d \in decided
    BY <1>2, <1>4, <2>1 DEF Deciding, CommitHasQuorum, VotersFor
  <2>2. CASE d \notin decided
    <3>1. d = Vote(0, 0, i, Cmds0(i)) /\ EnoughAccepts(e.accepts)
      BY <1>8, <2>2 DEF CommitsNow
    <3>2. d.replica = 0 /\ d.phase = 0 /\ d.inst = i /\ d.cmds = Cmds0(i)'
      BY <1>1, <3>1 DEF Vote
    <3>3. VotesForProposals'
      BY <1>1 DEF Ordering
    <3>4. 2 * Cardinality(VotersFor(d)' \union {0}) > N
      BY <1>1, <3>1, <3>2, <3>3, CommitQuorum
    <3> QED
      BY <3>2, <3>4
  <2> QED
    BY <2>1, <2>2
<1>10. DecidedIsCommitted'
  <2>1. ASSUME NEW d \in decided', NEW j, j = d.inst
        PROVE  instanceSpace'[0][j].status = "COMMITTED" /\ d = Vote(0, 0, j, Cmds0(j)')
    <3>1. CASE d \in decided
      BY <1>1, <1>4, <1>5, <1>6, <2>1, <3>1 DEF Deciding, DecidedIsCommitted
    <3>2. CASE d \notin decided
      <4>1. d = Vote(0, 0, i, Cmds0(i)) /\ CommitsNow(i, e)
        BY <1>8, <3>2
      <4>2. j = i
        BY <2>1, <4>1 DEF Vote
      <4> QED
        BY <1>1, <1>7, <4>1, <4>2
    <3> QED
      BY <3>1, <3>2
  <2>2. ASSUME NEW j \in Inst, instanceSpace'[0][j].status = "COMMITTED"
        PROVE  Vote(0, 0, j, Cmds0(j)') \in decided'
    <3>1. CASE HasCommitted(0, j)
      BY <1>1, <1>2, <1>4, <3>1
         DEF Deciding, DecidedIsCommitted, CommitsNow, CommitsNothing
    <3>2. CASE j = i /\ CommitsNow(i, e)
      BY <1>1, <3>2 DEF CommitsNow
    <3> QED
      BY <1>6, <2>2, <3>1, <3>2
  <2>3. \A d \in decided' : /\ instanceSpace'[0][d.inst].status = "COMMITTED"
                            /\ d = Vote(0, 0, d.inst, Cmds0(d.inst)')
    BY <2>1
  <2> QED
    BY <2>2, <2>3 DEF DecidedIsCommitted, HasCommitted
<1>11. CommitsWereDecided'
  <2> SUFFICES ASSUME NEW x \in Replica, NEW k \in 1 .. Len(commitChan'[x][0]),
                      NEW m, m = commitChan'[x][0][k], NEW j, j = m.inst
               PROVE  /\ instanceSpace'[0][j].status = "COMMITTED"
                      /\ m.cmds = Cmds0(j)'
    BY DEF CommitsWereDecided, HasCommitted
  <2>1. ASSUME k \in 1 .. Len(commitChan[x][0]), m = commitChan[x][0][k]
        PROVE  instanceSpace'[0][j].status = "COMMITTED" /\ m.cmds = Cmds0(j)'
    <3>1. j \in Inst
      BY <2>1, RealPlaces DEF CommitMsgs
    <3>2. HasCommitted(0, j) /\ m.cmds = Cmds0(j)
      BY <1>4, <2>1 DEF Deciding, CommitsWereDecided
    <3> QED
      BY <1>1, <1>6, <3>1, <3>2
  <2>2. CASE commitChan'[x][0] = commitChan[x][0]
    BY <2>1, <2>2
  <2>3. CASE commitChan'[x][0] # commitChan[x][0]
    <3>1. PICK q, n, t : /\ q = commitChan[x][0] /\ t = commitChan'[x][0]
                         /\ n = CommitMsg(i, Cmds0(i), FALSE, 0)
      OBVIOUS
    <3>2. t = q \o <<n>> /\ CommitsNow(i, e)
      BY <1>2, <2>3, <3>1 DEF CommitsNow, CommitsNothing
    <3>3. q \in Seq(CommitMsgs)
      BY <3>1, RealTypes
    <3>4. q \in Seq(CommitMsgs \union {n}) /\ n \in CommitMsgs \union {n}
      BY <3>3, SeqMonotonic
    <3>5. /\ Len(q) \in Nat /\ Len(t) = Len(q) + 1 /\ t[Len(q) + 1] = n
          /\ \A l \in 1 .. Len(q) : t[l] = q[l]
      BY <3>2, <3>4, LongerPlaces
    <3>6. CASE k \in 1 .. Len(q)
      BY <2>1, <3>1, <3>5, <3>6
    <3>7. CASE k = Len(q) + 1
      <4>1. m = n
        BY <3>1, <3>5, <3>7
      <4>2. j = i /\ m.cmds = Cmds0(i)
        BY <3>1, <4>1 DEF CommitMsg
      <4> QED
        BY <1>1, <1>7, <3>2, <4>2
    <3>8. k \in 1 .. Len(q) \/ k = Len(q) + 1
      BY <3>1, <3>5
    <3> QED
      BY <3>6, <3>7, <3>8
  <2> QED
    BY <2>2, <2>3
<1>12. CommittedAsDecided'
  <2> SUFFICES ASSUME NEW x \in Replica, NEW j \in Inst,
                      instanceSpace'[x][j].status = "COMMITTED"
               PROVE  /\ instanceSpace'[0][j].status = "COMMITTED"
                      /\ instanceSpace'[x][j].cmds = Cmds0(j)'
    BY DEF CommittedAsDecided, HasCommitted
  <2>1. CASE x = 0
    BY <2>1 DEF Cmds0
  <2>2. CASE x # 0
    <3>1. HasCommitted(x, j) /\ instanceSpace'[x][j] = instanceSpace[x][j]
      BY <1>2, <2>2 DEF HasCommitted
    <3> QED
      BY <1>1, <1>4, <1>6, <3>1 DEF Deciding, CommittedAsDecided
  <2> QED
    BY <2>1, <2>2
<1>13. ExecutablePrefix'
  BY <1>3, <1>4, PrefixKept DEF Counts, Deciding
<1> QED
  BY <1>1, <1>3, <1>9, <1>10, <1>11, <1>12, <1>13 DEF RealInv, Deciding

-----------------------------------------------------------------------------
(* Every step of phase 0 is one of these, or leaves the real log aside      *)

Aside ==
    /\ UNCHANGED <<instanceSpace, committedUpTo, votes, decided>>
    /\ \A x \in Replica : /\ acceptExecTimeChan'[x][0] = acceptExecTimeChan[x][0]
                          /\ acceptReplyChan'[0][x] = acceptReplyChan[0][x]
                          /\ commitChan'[x][0] = commitChan[x][0]

LEMMA AsideKeeps ==
    ASSUME TypeOK, TypeOK', RealInv, Aside
    PROVE  RealInv' /\ \A x \in Replica, j \in Inst : Keeps(x, j)
<1>1. /\ Ordering /\ Deciding /\ 0 \in Replica
      /\ instanceSpace' = instanceSpace
  BY FirstRoles DEF RealInv, Aside
<1>2. Ordering'
  BY <1>1, OrderKept DEF Aside, IsNil
<1>3. \A x \in Replica, j \in Inst : Stays(x, j) /\ Keeps(x, j)
  BY <1>1 DEF Stays, Keeps, HasCommitted
<1>4. Deciding'
  BY <1>1, <1>3, DecidingKept DEF Aside
<1> QED
  BY <1>2, <1>3, <1>4 DEF RealInv

\* writing one entry of one log
LEMMA WritesOne ==
    ASSUME TypeOK, NEW r \in Replica, NEW i \in Inst, NEW e, NEW new,
           \A j \in Inst : new[j] = IF j = i THEN e ELSE instanceSpace[r][j],
           instanceSpace' = [instanceSpace EXCEPT ![r] = new]
    PROVE  Writes(r, i, e)
  BY DEF TypeOK, LogTypeOK, Writes

LEMMA LeaderBatch ==
    ASSUME TypeOK, FirstPhase, HandleProposeBatch(0)
    PROVE  Proposes(batchedCmdsChan[0])
<1> DEFINE cmds == batchedCmdsChan[0]
<1>1. /\ 0 \in Replica /\ IsCoordinator(0) /\ phase[0] = 0
      /\ Acceptors(0) = Followers /\ Followers \subseteq Replica
  BY FirstRoles, FirstPhaseRoles DEF FirstPhase, Followers, Others
<1>2. Proposed \in Inst
  BY RealTypes, MaxInstAssumption DEF HandleProposeBatch, Proposed, Inst
<1>3. /\ instanceSpace' = [instanceSpace EXCEPT
                             ![0][Proposed] = NewInstance("ACCEPTED", cmds)]
      /\ acceptExecTimeChan' = Sent(acceptExecTimeChan, 0, Followers,
                                    <<AcceptMsg(0, Only(Proposed, cmds))>>)
      /\ UNCHANGED <<acceptReplyChan, commitChan, votes, decided, committedUpTo>>
  BY <1>1 DEF HandleProposeBatch, Proposed, history
<1>4. Writes(0, Proposed, NewInstance("ACCEPTED", cmds))
  <2> DEFINE e == NewInstance("ACCEPTED", cmds)
             new == [instanceSpace[0] EXCEPT ![Proposed] = e]
  <2>1. instanceSpace[0] \in [Inst -> Entry]
    BY <1>1, LocalTypes DEF Logs
  <2>2. \A j \in Inst : new[j] = IF j = Proposed THEN e ELSE instanceSpace[0][j]
    BY <2>1
  <2>3. instanceSpace' = [instanceSpace EXCEPT ![0] = new]
    BY <1>3
  <2> HIDE DEF new, e
  <2>4. Writes(0, Proposed, e)
    BY <1>1, <1>2, <2>2, <2>3, WritesOne
  <2> QED
    BY <2>4 DEF e
<1>5. ASSUME NEW r \in Replica
      PROVE  acceptExecTimeChan'[r][0] =
                IF r \in Followers
                THEN Waiting(r) \o <<[phase |-> 0, accept |-> Only(Proposed, cmds)]>>
                ELSE Waiting(r)
  <2> DEFINE ms == <<[phase |-> 0, accept |-> Only(Proposed, cmds)]>>
  <2>1. acceptExecTimeChan' = Sent(acceptExecTimeChan, 0, Followers, ms)
    BY <1>1, <1>3 DEF AcceptMsg
  <2> HIDE DEF ms
  <2>2. acceptExecTimeChan'[r][0] =
            IF r \in Followers THEN Waiting(r) \o ms ELSE Waiting(r)
    BY <1>1, <2>1, ChannelTypes, SentAt DEF Waiting
  <2> QED
    BY <2>2 DEF ms
<1> HIDE DEF cmds
<1>6. Proposes(cmds)
  BY <1>2, <1>3, <1>4, <1>5 DEF Proposes
<1> QED
  BY <1>6 DEF cmds

LEMMA OtherBatch ==
    ASSUME TypeOK, FirstPhase, NEW r \in Replica, r # 0,
           HandleProposeBatch(r)
    PROVE  ReceivesBatch(r)
<1> DEFINE i == NextNil(instanceSpace[r])
           e == NewInstance("RECEIVED", batchedCmdsChan[r])
<1>1. 0 \in Replica /\ ~IsCoordinator(r) /\ instanceSpace[r] \in [Inst -> Entry]
  BY FirstRoles, FirstPhaseRoles, LocalTypes DEF Logs
<1>2. i \in Inst /\ IsNil(instanceSpace[r], i)
  <2>1. i < MaxInst
    BY DEF HandleProposeBatch
  <2> QED
    BY <2>1, LocalTypes, NextNilProperties, MaxInstAssumption DEF Inst
<1>3. /\ instanceSpace' = [instanceSpace EXCEPT ![r][i] = e]
      /\ UNCHANGED <<acceptReplyChan, commitChan, votes, decided, committedUpTo>>
  BY <1>1 DEF HandleProposeBatch, history
<1>4. e.status \notin {"NIL", "ACCEPTED", "COMMITTED"}
  BY DEF NewInstance
<1>5. ASSUME NEW x \in Replica
      PROVE  acceptExecTimeChan'[x][0] = acceptExecTimeChan[x][0]
  <2>1. \/ acceptExecTimeChan' = acceptExecTimeChan
        \/ \E dsts, ms : acceptExecTimeChan' = Sent(acceptExecTimeChan, r, dsts, ms)
    BY <1>1 DEF HandleProposeBatch
  <2> QED
    BY <1>1, <2>1, ChannelTypes, SentAt
<1> HIDE DEF i, e
<1>6. Writes(r, i, e)
  <2> DEFINE new == [instanceSpace[r] EXCEPT ![i] = e]
  <2>1. \A j \in Inst : new[j] = IF j = i THEN e ELSE instanceSpace[r][j]
    BY <1>1
  <2>2. instanceSpace' = [instanceSpace EXCEPT ![r] = new]
    BY <1>3
  <2> HIDE DEF new
  <2> QED
    BY <1>2, <2>1, <2>2, WritesOne
<1> QED
  BY <1>2, <1>3, <1>4, <1>5, <1>6 DEF ReceivesBatch

\* what a follower without holes below i makes of the proposal for i
LEMMA ProposalAccepted ==
    ASSUME NEW log \in Logs, NEW i \in Inst, NEW cmds, NEW accept,
           accept = Only(i, cmds),
           \A j \in Inst : j < i => ~IsNil(log, j),
           NEW blank, blank = BlankUpTo(log, i),
           NEW voted, voted = Votes(blank, {i}, "COMMITTED"),
           NEW new, new = Accepted(blank, voted, accept, "ACCEPTED")
    PROVE  /\ log[i].status = "COMMITTED" =>
                 voted = {} /\ \A j \in Inst : new[j] = log[j]
           /\ log[i].status # "COMMITTED" =>
                 /\ voted = {i}
                 /\ \E e : /\ e.status = "ACCEPTED" /\ e.cmds = cmds
                           /\ \A j \in Inst : new[j] = IF j = i THEN e ELSE log[j]
<1>1. /\ \A j \in Inst : j # i => blank[j] = log[j]
      /\ IsNil(log, i) => blank[i] = NewInstance("NULL", {})
      /\ ~IsNil(log, i) => blank[i] = log[i]
  <2>1. CASE ~IsNil(log, i)
    BY <2>1 DEF BlankUpTo
  <2>2. CASE IsNil(log, i)
    <3>1. i \in 0 .. MaxInst /\ \A j \in 0 .. i - 1 : j \in Inst /\ j < i
      BY MaxInstAssumption DEF Inst
    <3>2. NextNil(log) = i
      BY <2>2, <3>1, NextNilIs
    <3>3. blank = [j \in Inst |-> IF j \in i .. i THEN NewInstance("NULL", {}) ELSE log[j]]
      BY <2>2, <3>2 DEF BlankUpTo
    <3>4. \A j \in Inst : j \in i .. i <=> j = i
      BY DEF Inst
    <3> QED
      BY <2>2, <3>3, <3>4
  <2> QED
    BY <2>1, <2>2
<1>2. blank[i].status = "COMMITTED" <=> log[i].status = "COMMITTED"
  BY <1>1 DEF IsNil, NewInstance
<1>3. blank[i] \in Entry
  <2>1. log[i] \in Entry /\ NewInstance("NULL", {}) \in Entry
    BY NewInstanceType DEF Logs, Status
  <2> QED
    BY <1>1, <2>1
<1>4. CASE log[i].status = "COMMITTED"
  <2>1. voted = {} /\ ~IsNil(log, i)
    BY <1>2, <1>4 DEF Votes, IsNil
  <2> QED
    BY <1>1, <1>4, <2>1 DEF Accepted
<1>5. CASE log[i].status # "COMMITTED"
  <2>1. voted = {i}
    BY <1>2, <1>5 DEF Votes
  <2> DEFINE e == [blank[i] EXCEPT !.status = "ACCEPTED", !.cmds = accept[i]]
  <2>2. e.status = "ACCEPTED" /\ e.cmds = cmds
    BY <1>3 DEF Entry, Only
  <2>3. \A j \in Inst : new[j] = IF j = i THEN e ELSE log[j]
    BY <1>1, <2>1 DEF Accepted
  <2> HIDE DEF e
  <2> QED
    BY <1>5, <2>1, <2>2, <2>3
<1> QED
  BY <1>4, <1>5

LEMMA FollowerTakes ==
    ASSUME TypeOK, FirstPhase, RealInv,
           NEW r \in Replica, RealAcceptExecTime(r, 0)
    PROVE  Takes(r)
<1>0. PICK i, cmds : i = Delivered(r) /\ cmds = Cmds0(i)
  OBVIOUS
<1> DEFINE m == Next1(acceptExecTimeChan, r, 0)
<1>1. /\ 0 \in Replica /\ Waiting(r) # <<>> /\ Head(Waiting(r)) = m
      /\ Ordering /\ ProposalsInOrder /\ FollowersKeepUp
  BY FirstRoles DEF RealInv, Ordering, Waiting, Next1, RealAcceptExecTime
<1>2. /\ r \in Followers /\ i \in Inst /\ i < Proposed
      /\ m = [phase |-> 0, accept |-> Only(i, cmds)]
  <2>1. Head(Waiting(r)) = Proposal(i) /\ r \in Followers
        /\ i \in Inst /\ i < Proposed
    BY <1>0, <1>1, FirstProposal
  <2> QED
    BY <1>0, <1>1, <2>1 DEF Proposal
<1>3. /\ m.phase = 0 /\ m.accept = Only(i, cmds) /\ m.accept[i] = cmds
      /\ (CHOOSE j \in DOMAIN m.accept : TRUE) = i
  BY <1>2, OnlyInstance
<1> DEFINE log   == instanceSpace[r]
           blank == BlankUpTo(log, i)
           voted == Votes(blank, {i}, "COMMITTED")
           new   == Accepted(blank, voted, m.accept, "ACCEPTED")
<1>4. /\ acceptExecTimeChan' = Received(acceptExecTimeChan, r, 0)
      /\ instanceSpace' = [instanceSpace EXCEPT ![r] = new]
      /\ acceptReplyChan' = Sent(acceptReplyChan, r, {0}, Replies(0, voted, FALSE))
      /\ votes' = votes \union {Vote(r, 0, j, m.accept[j]) : j \in voted}
      /\ UNCHANGED <<commitChan, decided, committedUpTo>>
  BY <1>3 DEF RealAcceptExecTime
<1>5. /\ HasCommitted(r, i) =>
                 voted = {} /\ \A j \in Inst : new[j] = log[j]
      /\ ~HasCommitted(r, i) =>
                 /\ voted = {i}
                 /\ \E e : /\ e.status = "ACCEPTED" /\ e.cmds = cmds
                           /\ \A j \in Inst : new[j] = IF j = i THEN e ELSE log[j]
  <2>1. log \in Logs
    BY LocalTypes
  <2>2. \A j \in Inst : j < i => ~IsNil(log, j)
    BY <1>0, <1>1, <1>2 DEF FollowersKeepUp
  <2>3. PICK a, b, v, w : a = m.accept /\ b = blank /\ v = voted /\ w = new
    OBVIOUS
  <2>4. /\ log[i].status = "COMMITTED" =>
                 v = {} /\ \A j \in Inst : w[j] = log[j]
        /\ log[i].status # "COMMITTED" =>
                 /\ v = {i}
                 /\ \E e : /\ e.status = "ACCEPTED" /\ e.cmds = cmds
                           /\ \A j \in Inst : w[j] = IF j = i THEN e ELSE log[j]
    <3>1. /\ a = Only(i, cmds) /\ b = BlankUpTo(log, i)
          /\ v = Votes(b, {i}, "COMMITTED") /\ w = Accepted(b, v, a, "ACCEPTED")
      BY <1>3, <2>3
    <3> HIDE DEF m, log, blank, voted, new
    <3> QED
      BY <1>2, <2>1, <2>2, <3>1, ProposalAccepted
  <2> QED
    BY <2>3, <2>4 DEF HasCommitted
<1>6. \A x \in Replica : acceptExecTimeChan'[x][0] =
            IF x = r THEN Tail(Waiting(x)) ELSE Waiting(x)
  BY <1>1, <1>4, ChannelTypes, ReceivedAt DEF Waiting
<1>7. \A x \in Replica : acceptReplyChan'[0][x] =
            IF x = r THEN acceptReplyChan[0][x] \o Replies(0, voted, FALSE)
                     ELSE acceptReplyChan[0][x]
  <2> DEFINE ms == Replies(0, voted, FALSE)
  <2>1. acceptReplyChan' = Sent(acceptReplyChan, r, {0}, ms)
    BY <1>4
  <2> HIDE DEF ms
  <2>2. acceptReplyChan \in Channel(ReplyMsgs) /\ 0 \in {0}
    BY ChannelTypes
  <2>3. ASSUME NEW x \in Replica
        PROVE  Sent(acceptReplyChan, r, {0}, ms)[0][x] =
                IF 0 \in {0} /\ x = r THEN acceptReplyChan[0][x] \o ms
                                    ELSE acceptReplyChan[0][x]
    BY <1>1, <2>2, SentAt
  <2>4. \A x \in Replica : acceptReplyChan'[0][x] =
            IF x = r THEN acceptReplyChan[0][x] \o ms ELSE acceptReplyChan[0][x]
    BY <2>1, <2>3
  <2> QED
    BY <2>4 DEF ms
<1> HIDE DEF m, blank, voted, new
<1>8. CASE HasCommitted(r, i)
  <2>1. Replies(0, voted, FALSE) = <<>> /\ votes' = votes
    BY <1>4, <1>5, <1>8, NoReply
  <2>2. \A x \in Replica : acceptReplyChan'[0][x] = acceptReplyChan[0][x]
    BY <1>7, <2>1, RealTypes, ConcatEmptySeq
  <2>3. \A x \in Replica, j \in Inst : instanceSpace'[x][j] = instanceSpace[x][j]
    BY <1>4, <1>5, <1>8 DEF TypeOK, LogTypeOK
  <2>4. SkipsProposal(r, i)
    BY <1>8, <2>1, <2>2, <2>3 DEF SkipsProposal
  <2> QED
    BY <1>0, <1>1, <1>2, <1>4, <1>6, <2>4 DEF Takes
<1>9. CASE ~HasCommitted(r, i)
  <2>1. PICK e : /\ e.status = "ACCEPTED" /\ e.cmds = cmds
                 /\ \A j \in Inst : new[j] = IF j = i THEN e ELSE log[j]
    BY <1>5, <1>9
  <2>2. Writes(r, i, e)
    BY <1>2, <1>4, <2>1, WritesOne
  <2>3. Replies(0, voted, FALSE) = <<Reply(0, i, FALSE)>>
        /\ votes' = votes \union {Vote(r, 0, i, Cmds0(i))}
    <3>1. voted = {i} /\ m.accept[i] = Cmds0(i)
      BY <1>0, <1>3, <1>5, <1>9
    <3>2. {Vote(r, 0, j, m.accept[j]) : j \in voted} = {Vote(r, 0, i, Cmds0(i))}
      BY <3>1
    <3> QED
      BY <1>2, <1>4, <3>1, <3>2, OneReply
  <2>4. AcceptsProposal(r, i)
    BY <1>0, <1>7, <1>9, <2>1, <2>2, <2>3 DEF AcceptsProposal
  <2> QED
    BY <1>0, <1>1, <1>2, <1>4, <1>6, <2>4 DEF Takes
<1> QED
  BY <1>8, <1>9

LEMMA AcceptEffect ==
    ASSUME TypeOK, FirstPhase, Traffic, RealInv,
           NEW r \in Replica, NEW s \in Replica, TakeAcceptExecTime(r, s)
    PROVE  Takes(r) \/ Aside
<1> DEFINE m == Next1(acceptExecTimeChan, r, s)
<1>1. acceptExecTimeChan[r][s] # <<>>
  BY DEF TakeAcceptExecTime, AcceptExecTimeIgnored, AcceptExecTimeAhead,
     RealAcceptExecTime, MockAcceptExecTime
<1>2. m.phase = 0 /\ phase[r] = 0 /\ s \in {0, 1} /\ r # s /\ 0 \in Replica
      /\ Coordinator(m.phase) = 0
  BY <1>1, TakenAccept, FirstRoles DEF FirstPhase
<1>3. CASE RealAcceptExecTime(r, s)
  <2>1. s = 0
    BY <1>2, <1>3 DEF RealAcceptExecTime
  <2> QED
    BY <1>3, <2>1, FollowerTakes
<1>4. CASE AcceptExecTimeIgnored(r, s) \/ MockAcceptExecTime(r, s)
  <2>1. s # 0
    <3>1. CASE AcceptExecTimeIgnored(r, s)
      <4>1. IsStandby(r)
        BY <1>2, <3>1 DEF AcceptExecTimeIgnored
      <4>2. r \in Standbys(0)
        BY <4>1, FirstPhaseRoles
      <4>3. r \notin Followers
        BY <4>2 DEF Followers
      <4>4. Waiting(r) = <<>>
        BY <4>3 DEF RealInv, Ordering, ProposalsInOrder
      <4> QED
        BY <1>1, <4>4 DEF Waiting
    <3>2. CASE MockAcceptExecTime(r, s)
      BY <1>2, <3>2 DEF MockAcceptExecTime
    <3> QED
      BY <1>4, <3>1, <3>2
  <2>2. \A x \in Replica : acceptExecTimeChan'[x][0] = acceptExecTimeChan[x][0]
    <3>1. acceptExecTimeChan' = Received(acceptExecTimeChan, r, s)
      BY <1>4 DEF AcceptExecTimeIgnored, MockAcceptExecTime
    <3> QED
      BY <1>2, <2>1, <3>1, ChannelTypes, ReceivedAt
  <2>3. \A x \in Replica : acceptReplyChan'[0][x] = acceptReplyChan[0][x]
    <3>1. \/ acceptReplyChan' = acceptReplyChan
          \/ \E ms : acceptReplyChan' = Sent(acceptReplyChan, r, {s}, ms)
      BY <1>4 DEF AcceptExecTimeIgnored, MockAcceptExecTime
    <3>2. 0 \notin {s}
      BY <2>1
    <3>3. ASSUME NEW ms, NEW x \in Replica
          PROVE  Sent(acceptReplyChan, r, {s}, ms)[0][x] =
                    IF 0 \in {s} /\ x = r THEN acceptReplyChan[0][x] \o ms
                                          ELSE acceptReplyChan[0][x]
      BY <1>2, ChannelTypes, SentAt
    <3> QED
      BY <3>1, <3>2, <3>3
  <2>4. UNCHANGED <<instanceSpace, committedUpTo, votes, decided, commitChan>>
    BY <1>4 DEF AcceptExecTimeIgnored, MockAcceptExecTime, realVars, history
  <2>5. Aside
    BY <2>2, <2>3, <2>4 DEF Aside
  <2> QED
    BY <2>5
<1> QED
  BY <1>3, <1>4, TakeAcceptExecTimeTraffic DEF TakeAcceptExecTime

\* no nil instance is met when a reply is counted
LEMMA CoordinatorCounts ==
    ASSUME TypeOK, FirstPhase, RealInv,
           NEW s \in Replica, RealAcceptReply(0, s)
    PROVE  /\ \E i, e : Counts(s, i, e)
           /\ UNCHANGED panicked
<1> DEFINE m == Next1(acceptReplyChan, 0, s)
<1>0. PICK i : i = m.inst
  OBVIOUS
<1>1. /\ 0 \in Replica /\ phase[0] = 0 /\ instanceSpace[0] \in Logs
      /\ Replied(s) # <<>> /\ i = Head(Replied(s)).inst /\ Ordering
  BY <1>0, FirstRoles, LocalTypes
     DEF FirstPhase, RealInv, Replied, Next1, RealAcceptReply
<1>2. i \in Inst /\ i < Proposed
  BY <1>1, FirstReply
<1>3. instanceSpace[0][i].status \in {"ACCEPTED", "COMMITTED"}
      /\ ~IsNil(instanceSpace[0], i)
  BY <1>1, <1>2 DEF Ordering, CoordinatorLog, IsNil
<1> DEFINE log     == [instanceSpace[0] EXCEPT ![i] = Counted(@)]
           commits == /\ log[i].status # "COMMITTED"
                      /\ EnoughAccepts(log[i].accepts)
           cmds    == log[i].cmds
           new     == IF commits THEN Committed(log, i, cmds, "COMMITTED") ELSE log
           e       == new[i]
<1>4. /\ acceptReplyChan' = Received(acceptReplyChan, 0, s)
      /\ instanceSpace' = [instanceSpace EXCEPT ![0] = new]
      /\ committedUpTo' = [committedUpTo EXCEPT ![0] =
                              CommittedPrefix(new, @, "COMMITTED")]
      /\ commitChan' = IF commits
                       THEN Sent(commitChan, 0, Others(0),
                                 <<CommitMsg(i, cmds, FALSE, 0)>>)
                       ELSE commitChan
      /\ decided' = IF commits THEN decided \union {Vote(0, 0, i, cmds)}
                    ELSE decided
      /\ UNCHANGED <<panicked, acceptExecTimeChan, votes>>
  <2>1. /\ acceptReplyChan' = Received(acceptReplyChan, 0, s)
        /\ UNCHANGED <<acceptExecTimeChan, votes>>
    BY DEF RealAcceptReply
  <2> QED
    BY <1>0, <1>1, <1>3, <2>1 DEF RealAcceptReply
<1>5. /\ log \in Logs
      /\ log[i].status = instanceSpace[0][i].status
      /\ cmds = Cmds0(i)
      /\ log[i].accepts <= instanceSpace[0][i].accepts + 1
      /\ \A j \in Inst : j # i => log[j] = instanceSpace[0][j]
  <2>1. instanceSpace[0][i] \in Entry /\ instanceSpace[0] \in [Inst -> Entry]
    BY <1>1, <1>2 DEF Logs
  <2>2. log[i] = Counted(instanceSpace[0][i])
    BY <1>2, <2>1
  <2>3. log \in Logs
    BY <1>1, <1>2, CountedLog
  <2> QED
    BY <1>2, <2>1, <2>2, <2>3, MaxAcceptsType DEF Entry, Counted, Cmds0
<1>6. /\ \A j \in Inst : new[j] = IF j = i THEN e ELSE instanceSpace[0][j]
      /\ e.cmds = Cmds0(i) /\ e.accepts = log[i].accepts
      /\ e.status = IF commits THEN "COMMITTED" ELSE instanceSpace[0][i].status
      /\ new \in Logs
  <2>1. log \in [Inst -> Entry] /\ log[i] \in Entry
    BY <1>2, <1>5 DEF Logs
  <2>2. CASE commits
    <3>1. new = [log EXCEPT ![i] = [log[i] EXCEPT !.status = "COMMITTED", !.cmds = cmds]]
      <4> HIDE DEF log
      <4> QED
        BY <2>1, <2>2 DEF Committed
    <3>2. cmds \in SUBSET Cmds
      BY <2>1 DEF Entry
    <3>3. [log[i] EXCEPT !.status = "COMMITTED", !.cmds = cmds] \in Entry
      <4> HIDE DEF log, cmds
      <4> QED
        BY <2>1, <3>2 DEF Entry, Status
    <3> HIDE DEF log, cmds, new
    <3>4. new \in [Inst -> Entry]
      BY <2>1, <3>1, <3>3
    <3> QED
      BY <1>2, <1>5, <2>1, <2>2, <3>1, <3>4 DEF Entry, Logs
  <2>3. CASE ~commits
    <3> HIDE DEF log, cmds
    <3> QED
      BY <1>5, <2>3 DEF cmds
  <2> QED
    BY <2>2, <2>3
<1> HIDE DEF log, new, e
<1>7. Writes(0, i, e)
  <2>1. /\ instanceSpace' = [instanceSpace EXCEPT ![0] = new]
        /\ \A j \in Inst : new[j] = IF j = i THEN e ELSE instanceSpace[0][j]
    BY <1>4, <1>6
  <2>2. 0 \in Replica /\ i \in Inst
    BY <1>1, <1>2
  <2> QED
    BY <2>1, <2>2, WritesOne
<1>8. CommitsNow(i, e) \/ CommitsNothing(i, e)
  <2>1. CASE commits
    <3>1. decided' = decided \union {Vote(0, 0, i, Cmds0(i))}
      BY <1>4, <1>5, <2>1
    <3>2. PICK ms : ms = <<CommitMsg(i, Cmds0(i), FALSE, 0)>>
      OBVIOUS
    <3>3. commitChan' = Sent(commitChan, 0, Others(0), ms)
      BY <1>4, <1>5, <2>1, <3>2
    <3>4. \A x \in Replica : commitChan'[x][0] =
                IF x # 0 THEN commitChan[x][0] \o ms ELSE commitChan[x][0]
      BY <1>1, <3>3, ChannelTypes, SentAt DEF Others
    <3>5. e.status = "COMMITTED" /\ EnoughAccepts(e.accepts)
      BY <1>6, <2>1
    <3>6. CommitsNow(i, e)
      BY <3>1, <3>2, <3>4, <3>5 DEF CommitsNow
    <3> QED
      BY <3>6
  <2>2. CASE ~commits
    <3>1. CommitsNothing(i, e)
      BY <1>4, <1>6, <2>2 DEF CommitsNothing
    <3> QED
      BY <3>1
  <2> QED
    BY <2>1, <2>2
<1>9. PrefixGrows
  <2> SUFFICES ASSUME NEW x \in Replica,
                      NEW j \in committedUpTo[x] + 1 .. committedUpTo'[x]
               PROVE  instanceSpace'[x][j].status = "COMMITTED"
    BY DEF PrefixGrows
  <2>1. committedUpTo[x] \in -1 .. MaxInst - 1
    BY LocalTypes
  <2>2. CASE x = 0
    <3>1. committedUpTo'[0] = CommittedPrefix(new, committedUpTo[0], "COMMITTED")
          /\ instanceSpace'[0] = new
      BY <1>1, <1>4 DEF TypeOK, LogTypeOK
    <3> QED
      BY <1>6, <2>1, <2>2, <3>1, CommittedPrefixProperties
  <2>3. CASE x # 0
    <3>1. committedUpTo'[x] = committedUpTo[x]
      BY <1>4, <2>3 DEF TypeOK, LogTypeOK
    <3> QED
      BY <2>1, <3>1, MaxInstAssumption
  <2> QED
    BY <2>2, <2>3
<1>10. \A x \in Replica : acceptReplyChan'[0][x] =
            IF x = s THEN Tail(Replied(x)) ELSE Replied(x)
  <2>1. acceptReplyChan \in Channel(ReplyMsgs)
        /\ acceptReplyChan' = Received(acceptReplyChan, 0, s)
    BY <1>4, ChannelTypes
  <2> QED
    BY <1>1, <2>1, ReceivedAt DEF Replied
<1> HIDE DEF cmds
<1>11. Counts(s, i, e)
  BY <1>1, <1>4, <1>5, <1>6, <1>7, <1>8, <1>9, <1>10 DEF Counts
<1> QED
  BY <1>4, <1>11

LEMMA ReplyEffect ==
    ASSUME TypeOK, FirstPhase, Traffic, RealInv,
           NEW r \in Replica, NEW s \in Replica, TakeAcceptReply(r, s)
    PROVE  (\E i, e : Counts(s, i, e)) \/ Aside
<1>1. CASE r = 0 /\ RealAcceptReply(r, s)
  BY <1>1, CoordinatorCounts
<1>2. CASE r = 1 /\ MockAcceptReply(r, s)
  <2>1. /\ acceptReplyChan' = Received(acceptReplyChan, 1, s)
        /\ \/ commitChan' = commitChan
           \/ \E ms : commitChan' = Sent(commitChan, 1, Others(1), ms)
        /\ UNCHANGED <<instanceSpace, committedUpTo, votes, decided,
                       acceptExecTimeChan>>
    BY <1>2 DEF MockAcceptReply, realVars, history
  <2>2. 0 \in Replica /\ 1 \in Replica
    BY FirstRoles
  <2>3. \A x \in Replica : acceptReplyChan'[0][x] = acceptReplyChan[0][x]
    <3>1. \A x \in Replica : Received(acceptReplyChan, 1, s)[0][x] =
              IF 0 = 1 /\ x = s THEN Tail(acceptReplyChan[0][x])
                                ELSE acceptReplyChan[0][x]
      BY <2>2, ChannelTypes, ReceivedAt
    <3> QED
      BY <2>1, <3>1
  <2>4. \A x \in Replica : commitChan'[x][0] = commitChan[x][0]
    <3>1. ASSUME NEW ms, NEW x \in Replica
          PROVE  Sent(commitChan, 1, Others(1), ms)[x][0] = commitChan[x][0]
      BY <2>2, ChannelTypes, SentAt
    <3> QED
      BY <2>1, <3>1
  <2>5. Aside
    BY <2>1, <2>3, <2>4 DEF Aside
  <2> QED
    BY <2>5
<1> QED
  BY <1>1, <1>2, TakeAcceptReplyTraffic

LEMMA FollowerLearns ==
    ASSUME TypeOK, NEW r \in Replica, r # 0, ~IsCoordinator(r), RealCommit(r, 0)
    PROVE  Learns(r)
<1> DEFINE m == Next1(commitChan, r, 0)
           log == instanceSpace[r]
<1>0. PICK i, cmds : i = m.inst /\ cmds = m.cmds
  OBVIOUS
<1>1. /\ 0 \in Replica /\ log \in Logs /\ commitChan[r][0] # <<>>
      /\ i = Head(commitChan[r][0]).inst /\ cmds = Head(commitChan[r][0]).cmds
      /\ commitChan' = Received(commitChan, r, 0)
      /\ UNCHANGED <<acceptExecTimeChan, acceptReplyChan, votes, decided>>
  BY <1>0, FirstRoles, LocalTypes DEF RealCommit, Next1, history
<1>2. i \in Inst /\ cmds \in SUBSET Cmds
  <2>1. Head(commitChan[r][0]) \in CommitMsgs
    <3>1. commitChan[r][0] \in Seq(CommitMsgs)
      BY RealTypes
    <3> QED
      BY <1>1, <3>1, OneLess
  <2> QED
    BY <1>1, <2>1 DEF CommitMsgs
<1>3. \A x \in Replica :
          commitChan'[x][0] = IF x = r THEN Tail(commitChan[x][0])
                                       ELSE commitChan[x][0]
  <2>1. \A x \in Replica : Received(commitChan, r, 0)[x][0] =
            IF x = r /\ 0 = 0 THEN Tail(commitChan[x][0]) ELSE commitChan[x][0]
    BY <1>1, ChannelTypes, ReceivedAt
  <2> QED
    BY <1>1, <2>1
<1>4. \A x \in Replica : committedUpTo[x] \in -1 .. MaxInst - 1
  BY LocalTypes
<1>5. CASE log[i].status = "COMMITTED"
  <2>1. UNCHANGED <<instanceSpace, committedUpTo>>
    BY <1>0, <1>5 DEF RealCommit, realVars
  <2>2. Writes(r, i, log[i])
    BY <2>1 DEF Writes
  <2>3. PrefixGrows
    BY <1>4, <2>1, MaxInstAssumption DEF PrefixGrows
  <2>4. \E e : /\ e.status = "COMMITTED" /\ Writes(r, i, e)
               /\ IF HasCommitted(r, i) THEN e.cmds = instanceSpace[r][i].cmds
                                        ELSE e.cmds = cmds
    BY <1>5, <2>2 DEF HasCommitted
  <2> QED
    BY <1>1, <1>3, <2>3, <2>4 DEF Learns
<1>6. CASE log[i].status # "COMMITTED"
  <2> DEFINE new == Committed(log, i, cmds, "COMMITTED")
             e   == [log[i] EXCEPT !.status = "COMMITTED", !.cmds = cmds]
  <2>1. /\ instanceSpace' = [instanceSpace EXCEPT ![r] = new]
        /\ committedUpTo' = [committedUpTo EXCEPT ![r] =
                                CommittedPrefix(new, @, "COMMITTED")]
    BY <1>0, <1>6 DEF RealCommit
  <2>2. log[i] \in Entry /\ log \in [Inst -> Entry]
    BY <1>1, <1>2 DEF Logs
  <2>3. e \in Entry /\ e.status = "COMMITTED" /\ e.cmds = cmds
    BY <1>2, <2>2 DEF Entry, Status
  <2>4. /\ \A j \in Inst : new[j] = IF j = i THEN e ELSE log[j]
        /\ new \in Logs
    <3>1. new = [log EXCEPT ![i] = e]
      <4> HIDE DEF log
      <4> QED
        BY <1>2, <2>2 DEF Committed
    <3> HIDE DEF new, e, log
    <3> QED
      BY <1>2, <2>2, <2>3, <3>1 DEF Logs
  <2> HIDE DEF new, e
  <2>5. Writes(r, i, e)
    BY <1>2, <2>1, <2>4, WritesOne
  <2>6. PrefixGrows
    <3> SUFFICES ASSUME NEW x \in Replica,
                        NEW j \in committedUpTo[x] + 1 .. committedUpTo'[x]
                 PROVE  instanceSpace'[x][j].status = "COMMITTED"
      BY DEF PrefixGrows
    <3>1. CASE x = r
      <4>1. committedUpTo'[r] = CommittedPrefix(new, committedUpTo[r], "COMMITTED")
            /\ instanceSpace'[r] = new
        BY <2>1 DEF TypeOK, LogTypeOK
      <4> QED
        BY <1>4, <2>4, <3>1, <4>1, CommittedPrefixProperties
    <3>2. CASE x # r
      <4>1. committedUpTo'[x] = committedUpTo[x]
        BY <2>1, <3>2 DEF TypeOK, LogTypeOK
      <4> QED
        BY <1>4, <4>1, MaxInstAssumption
    <3> QED
      BY <3>1, <3>2
  <2>7. \E f : /\ f.status = "COMMITTED" /\ Writes(r, i, f)
               /\ IF HasCommitted(r, i) THEN f.cmds = instanceSpace[r][i].cmds
                                        ELSE f.cmds = cmds
    BY <1>6, <2>3, <2>5 DEF HasCommitted
  <2> QED
    BY <1>1, <1>3, <2>6, <2>7 DEF Learns
<1> QED
  BY <1>5, <1>6

LEMMA CommitEffect ==
    ASSUME TypeOK, FirstPhase, Traffic, RealInv,
           NEW r \in Replica, NEW s \in Replica, TakeCommit(r, s)
    PROVE  Learns(r) \/ Aside
<1>1. CASE s = 0 /\ ~IsCoordinator(r) /\ RealCommit(r, s)
  BY <1>1, FirstPhaseRoles, FollowerLearns
<1>2. CASE s = 1 /\ MockCommit(r, s)
  <2>1. /\ commitChan' = Received(commitChan, r, 1)
        /\ UNCHANGED <<instanceSpace, committedUpTo, votes, decided,
                       acceptExecTimeChan, acceptReplyChan>>
    BY <1>2 DEF MockCommit, realVars, history
  <2>2. 0 \in Replica /\ 1 \in Replica
    BY FirstRoles
  <2>3. \A x \in Replica : commitChan'[x][0] = commitChan[x][0]
    <3>1. \A x \in Replica : Received(commitChan, r, 1)[x][0] =
              IF x = r /\ 0 = 1 THEN Tail(commitChan[x][0])
                                ELSE commitChan[x][0]
      BY <2>2, ChannelTypes, ReceivedAt
    <3> QED
      BY <2>1, <3>1
  <2>4. Aside
    BY <2>1, <2>3 DEF Aside
  <2> QED
    BY <2>4
<1> QED
  BY <1>1, <1>2, TakeCommitTraffic

\* what a step of phase 0 does to the real log
RealEffect ==
    \/ Aside
    \/ \E cmds : Proposes(cmds)
    \/ \E r \in Replica : ReceivesBatch(r) \/ Takes(r) \/ Learns(r)
    \/ \E s \in Replica : \E i, e : Counts(s, i, e)

LEMMA HandlerEffect ==
    ASSUME TypeOK, FirstPhase, Traffic, RealInv, NEW r \in Replica, Handles(r)
    PROVE  Traffic' /\ RealEffect
<1>1. CASE HandleProposeBatch(r)
  <2>1. ReceivesBatch(r) \/ \E cmds : Proposes(cmds)
    <3>1. CASE r = 0
      BY <1>1, <3>1, LeaderBatch
    <3>2. CASE r # 0
      BY <1>1, <3>2, OtherBatch
    <3> QED
      BY <3>1, <3>2
  <2> QED
    BY <1>1, <2>1, ProposeTraffic DEF RealEffect
<1>2. ASSUME NEW s \in Replica, TakeAcceptExecTime(r, s)
      PROVE  Traffic' /\ (Takes(r) \/ Aside)
  BY <1>2, TakeAcceptExecTimeTraffic, AcceptEffect
<1>3. ASSUME NEW s \in Replica, TakeAcceptReply(r, s)
      PROVE  Traffic' /\ (Aside \/ \E i, e : Counts(s, i, e))
  BY <1>3, TakeAcceptReplyTraffic, ReplyEffect
<1>4. ASSUME NEW s \in Replica, TakeCommit(r, s)
      PROVE  Traffic' /\ (Learns(r) \/ Aside)
  BY <1>4, TakeCommitTraffic, CommitEffect
<1>5. \A s \in Replica : ~TakeAcceptMsg(r, s)
  BY NoAcceptMsg
<1> QED
  BY <1>1, <1>2, <1>3, <1>4, <1>5 DEF RealEffect, Handles

LEMMA RestEffect ==
    ASSUME Traffic, LogsRest
    PROVE  Traffic' /\ Aside
  BY TrafficUnchanged DEF LogsRest, realVars, channels, history, Aside

LEMMA EffectKeeps ==
    ASSUME TypeOK, TypeOK', RealInv, RealEffect
    PROVE  RealInv' /\ \A x \in Replica, j \in Inst : Keeps(x, j)
<1>1. ASSUME \A x \in Replica, j \in Inst : Stays(x, j)
      PROVE  \A x \in Replica, j \in Inst : Keeps(x, j)
  BY <1>1 DEF Stays, Keeps
<1>2. CASE Aside
  BY <1>2, AsideKeeps
<1>3. CASE \E cmds : Proposes(cmds)
  BY <1>1, <1>3, ProposesKeeps
<1>4. ASSUME NEW r \in Replica, ReceivesBatch(r) \/ Takes(r) \/ Learns(r)
      PROVE  RealInv' /\ \A x \in Replica, j \in Inst : Keeps(x, j)
  BY <1>1, <1>4, ReceivesBatchKeeps, TakesKeeps, LearnsKeeps
<1>5. ASSUME NEW s \in Replica, NEW i, NEW e, Counts(s, i, e)
      PROVE  RealInv' /\ \A x \in Replica, j \in Inst : Keeps(x, j)
  BY <1>5, CountsKeeps
<1> QED
  BY <1>2, <1>3, <1>4, <1>5 DEF RealEffect

-----------------------------------------------------------------------------
(* The real log implements ReplicatedLog                                    *)

LearnedBy(r) ==
    {<<i, instanceSpace[r][i].cmds>> : i \in {j \in Inst : HasCommitted(r, j)}}

LEMMA LearnedIs == learned = [r \in Replica |-> LearnedBy(r)]
  BY DEF learned, LearnedBy

LEMMA SameLearned ==
    ASSUME NEW r, \A i \in Inst : Stays(r, i)
    PROVE  LearnedBy(r)' = LearnedBy(r)
<1>1. \A i \in Inst : HasCommitted(r, i)' <=> HasCommitted(r, i)
  BY DEF Stays, HasCommitted
<1>2. {j \in Inst : HasCommitted(r, j)}' = {j \in Inst : HasCommitted(r, j)}
  BY <1>1
<1>3. \A i \in {j \in Inst : HasCommitted(r, j)} :
        instanceSpace'[r][i].cmds = instanceSpace[r][i].cmds
  BY DEF Stays
<1> QED
  BY <1>2, <1>3 DEF LearnedBy

LEMMA LogStutters ==
    ASSUME \A r \in Replica, i \in Inst : Stays(r, i), decided' = decided
    PROVE  UNCHANGED Log!lvars
<1>1. \A r \in Replica : LearnedBy(r)' = LearnedBy(r)
  BY SameLearned
<1>2. learned' = learned
  BY <1>1 DEF learned, LearnedBy
<1>3. chosen' = chosen
  BY DEF chosen
<1> QED
  BY <1>2, <1>3 DEF Log!lvars

LEMMA OneLearned ==
    ASSUME NEW r \in Replica, NEW i \in Inst, NEW e, Writes(r, i, e),
           e.status = "COMMITTED",
           HasCommitted(r, i) => e.cmds = instanceSpace[r][i].cmds
    PROVE  learned' = [learned EXCEPT ![r] = @ \union {<<i, e.cmds>>}]
<1>1. \A x \in Replica, j \in Inst :
        instanceSpace'[x][j] = IF x = r /\ j = i THEN e ELSE instanceSpace[x][j]
  BY DEF Writes
<1>2. ASSUME NEW x \in Replica, x # r
      PROVE  LearnedBy(x)' = LearnedBy(x)
  <2>1. \A j \in Inst : Stays(x, j)
    BY <1>1, <1>2 DEF Stays, HasCommitted
  <2> QED
    BY <2>1, SameLearned
<1>3. LearnedBy(r)' = LearnedBy(r) \union {<<i, e.cmds>>}
  <2> DEFINE C == {j \in Inst : HasCommitted(r, j)}
             D == {j \in Inst : instanceSpace'[r][j].status = "COMMITTED"}
  <2>1. D = C \union {i}
    BY <1>1 DEF HasCommitted
  <2>2. \A j \in C : instanceSpace'[r][j].cmds = instanceSpace[r][j].cmds
    BY <1>1
  <2>3. instanceSpace'[r][i].cmds = e.cmds
    BY <1>1
  <2>4. LearnedBy(r)' = {<<j, instanceSpace'[r][j].cmds>> : j \in D}
    BY DEF LearnedBy, HasCommitted
  <2>5. LearnedBy(r) = {<<j, instanceSpace'[r][j].cmds>> : j \in C}
    BY <2>2 DEF LearnedBy
  <2> HIDE DEF C, D
  <2> QED
    BY <2>1, <2>3, <2>4, <2>5
<1>4. learned' = [x \in Replica |-> IF x = r THEN LearnedBy(x) \union {<<i, e.cmds>>}
                                            ELSE LearnedBy(x)]
  <2>1. learned' = [x \in Replica |-> LearnedBy(x)']
    BY DEF learned, LearnedBy
  <2> QED
    BY <1>2, <1>3, <2>1
<1> QED
  BY <1>4, LearnedIs

LEMMA ChosenIs ==
    ASSUME DecidedIsCommitted, NEW j \in Inst
    PROVE  /\ HasCommitted(0, j) => <<j, Cmds0(j)>> \in chosen
           /\ \A b \in chosen : b[1] = j => HasCommitted(0, j)
<1>1. HasCommitted(0, j) => <<j, Cmds0(j)>> \in chosen
  <2> SUFFICES ASSUME HasCommitted(0, j)
               PROVE  \E d \in decided : <<j, Cmds0(j)>> = <<d.inst, d.cmds>>
    BY DEF chosen
  <2>1. Vote(0, 0, j, Cmds0(j)) \in decided
    BY DEF DecidedIsCommitted
  <2> QED
    BY <2>1 DEF Vote
<1>2. \A b \in chosen : b[1] = j => HasCommitted(0, j)
  <2> SUFFICES ASSUME NEW d \in decided, d.inst = j
               PROVE  HasCommitted(0, j)
    BY DEF chosen
  <2> QED
    BY DEF DecidedIsCommitted
<1> QED
  BY <1>1, <1>2

\* learning a commit is a Learn of the log ...
LEMMA LearnsIsLearn ==
    ASSUME TypeOK, RealInv, NEW r \in Replica, Learns(r)
    PROVE  Log!Next
<1>0. PICK m, i : m = Head(commitChan[r][0]) /\ i = m.inst
  OBVIOUS
<1>1. PICK e : /\ e.status = "COMMITTED" /\ Writes(r, i, e)
               /\ IF HasCommitted(r, i) THEN e.cmds = instanceSpace[r][i].cmds
                                        ELSE e.cmds = m.cmds
  BY <1>0 DEF Learns
<1>2. /\ i \in Inst /\ HasCommitted(0, i) /\ m.cmds = Cmds0(i)
  <2>1. commitChan[r][0] \in Seq(CommitMsgs) /\ commitChan[r][0] # <<>>
    BY RealTypes DEF Learns
  <2>2. m \in CommitMsgs /\ m = commitChan[r][0][1] /\ 1 \in 1 .. Len(commitChan[r][0])
    BY <1>0, <2>1, OneLess
  <2>3. i \in Inst
    BY <1>0, <2>2 DEF CommitMsgs
  <2> QED
    BY <1>0, <2>2, <2>3 DEF RealInv, Deciding, CommitsWereDecided
<1>3. e.cmds = Cmds0(i)
  BY <1>1, <1>2 DEF RealInv, Deciding, CommittedAsDecided
<1>4. <<i, e.cmds>> \in chosen
  BY <1>2, <1>3, ChosenIs DEF RealInv, Deciding
<1>5. learned' = [learned EXCEPT ![r] = @ \union {<<i, e.cmds>>}]
  BY <1>1, <1>2, OneLearned
<1>6. chosen' = chosen
  BY DEF Learns, chosen
<1>7. Log!Learn(r, {<<i, e.cmds>>})
  BY <1>5, <1>6 DEF Log!Learn
<1> QED
  BY <1>4, <1>7 DEF Log!Next

\* ... and the commit of the coordinator a Choose, if it is the first
LEMMA CountsIsChoose ==
    ASSUME TypeOK, TypeOK', RealInv, NEW s \in Replica, NEW i, NEW e,
           Counts(s, i, e)
    PROVE  Log!Next \/ UNCHANGED Log!lvars
<1>1. /\ i \in Inst /\ 0 \in Replica /\ Writes(0, i, e) /\ e.cmds = Cmds0(i)
      /\ DecidedIsCommitted
      /\ CommitsNow(i, e) \/ CommitsNothing(i, e)
  BY CountsOrder, FirstRoles DEF RealInv, Deciding, Counts
<1>2. \A x \in Replica, j \in Inst :
        instanceSpace'[x][j] = IF x = 0 /\ j = i THEN e ELSE instanceSpace[x][j]
  BY <1>1 DEF Writes
<1>3. CASE CommitsNothing(i, e) \/ (CommitsNow(i, e) /\ HasCommitted(0, i))
  <2>1. decided' = decided
    <3>1. HasCommitted(0, i) => Vote(0, 0, i, Cmds0(i)) \in decided
      BY <1>1 DEF DecidedIsCommitted
    <3> QED
      BY <1>3, <3>1 DEF CommitsNow, CommitsNothing
  <2>2. \A x \in Replica, j \in Inst : Stays(x, j)
    BY <1>1, <1>2, <1>3
       DEF Stays, HasCommitted, CommitsNow, CommitsNothing, Cmds0
  <2> QED
    BY <2>1, <2>2, LogStutters
<1>4. CASE CommitsNow(i, e) /\ ~HasCommitted(0, i)
  <2>1. \A b \in chosen : b[1] # i
    BY <1>1, <1>4, ChosenIs
  <2>2. chosen' = chosen \union {<<i, e.cmds>>}
    <3>1. decided' = decided \union {Vote(0, 0, i, e.cmds)}
      BY <1>1, <1>4 DEF CommitsNow
    <3>2. Vote(0, 0, i, e.cmds).inst = i /\ Vote(0, 0, i, e.cmds).cmds = e.cmds
      BY DEF Vote
    <3>3. PICK v : v = Vote(0, 0, i, e.cmds)
      OBVIOUS
    <3>4. {<<d.inst, d.cmds>> : d \in decided \union {v}}
            = {<<d.inst, d.cmds>> : d \in decided} \union {<<v.inst, v.cmds>>}
      OBVIOUS
    <3> QED
      BY <3>1, <3>2, <3>3, <3>4 DEF chosen
  <2>3. learned' = [learned EXCEPT ![0] = @ \union {<<i, e.cmds>>}]
    BY <1>1, <1>4, OneLearned DEF CommitsNow
  <2>4. Log!Choose(0, i, e.cmds)
    BY <2>1, <2>2, <2>3 DEF Log!Choose
  <2>5. e.cmds \in SUBSET Cmds
    BY <1>1, LocalTypes DEF Logs, Entry, Cmds0
  <2> QED
    BY <1>1, <2>4, <2>5 DEF Log!Next
<1> QED
  BY <1>1, <1>3, <1>4

LEMMA LogStep ==
    ASSUME TypeOK, TypeOK', RealInv, RealEffect
    PROVE  [Log!Next]_(Log!lvars)
<1>1. CASE Aside
  BY <1>1, LogStutters DEF Aside, Stays, HasCommitted
<1>2. ASSUME NEW cmds, Proposes(cmds)
      PROVE  UNCHANGED Log!lvars
  BY <1>2, ProposesKeeps, LogStutters DEF Proposes
<1>3. ASSUME NEW r \in Replica, ReceivesBatch(r) \/ Takes(r)
      PROVE  UNCHANGED Log!lvars
  BY <1>3, ReceivesBatchKeeps, TakesKeeps, LogStutters DEF ReceivesBatch, Takes
<1>4. ASSUME NEW r \in Replica, Learns(r)
      PROVE  Log!Next
  BY <1>4, LearnsIsLearn
<1>5. ASSUME NEW s \in Replica, NEW i, NEW e, Counts(s, i, e)
      PROVE  Log!Next \/ UNCHANGED Log!lvars
  BY <1>5, CountsIsChoose
<1> QED
  BY <1>1, <1>2, <1>3, <1>4, <1>5 DEF RealEffect
=============================================================================
