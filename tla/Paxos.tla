-------------------------------- MODULE Paxos --------------------------------
(***************************************************************************)
(* The Multi-Paxos baseline (src/src/paxos/paxos.go).  One action is one   *)
(* pass of run()'s select; executeCommands is a goroutine beside it.       *)
(*                                                                         *)
(* The batch of an instance is the sequence of its commands.  The Accept   *)
(* and the CommitShort of an instance travel on different channels, so     *)
(* that an instance may be committed before its commands are known.        *)
(***************************************************************************)
EXTENDS GenericReplica

NilInstance ==
    [status |-> "nil", cmds |-> Nil, ballot |-> -1, proposals |-> Nil,
     maxRecvBallot |-> 0, prepareOKs |-> 0, acceptOKs |-> 0, nacks |-> 0]

\* an instance with the bookkeeping of its leader
LedInstance(status, cmds, ballot) ==
    [NilInstance EXCEPT !.status = status, !.cmds = cmds, !.ballot = ballot,
                        !.proposals = cmds]

\* NewReplica, and the first lines of run()
NewReplica(r) ==
    [isLeader |-> r = 0,
     defaultBallot |-> -1,
     crtInstance |-> 0,
     instanceSpace |-> [i \in Inst |-> NilInstance],
     committedUpTo |-> -1,
     execedUpTo |-> -1,          \* i - 1 in executeCommands
     log |-> <<>>]               \* history: the commands executed

Init(f) ==
    /\ InitGeneric(f)
    /\ replica = [r \in Replica |-> NewReplica(r)]

-----------------------------------------------------------------------------
(* Helpers *)

Entry(r, i) == replica[r].instanceSpace[i]

WithEntry(r, i, inst) == [replica[r] EXCEPT !.instanceSpace[i] = inst]

MakeUniqueBallot(r, ballot) == 16 * ballot + r

\* the instance that the loop over crtInstance stops at
NextFree(rep) ==
    CHOOSE i \in rep.crtInstance .. MaxInst :
        /\ i = MaxInst \/ rep.instanceSpace[i].status = "nil"
        /\ \A j \in rep.crtInstance .. i - 1 :
               rep.instanceSpace[j].status # "nil"

\* updateCommittedUpTo
Advanced(rep) ==
    [rep EXCEPT !.committedUpTo =
        CHOOSE u \in rep.committedUpTo .. MaxInst - 1 :
            /\ \A i \in rep.committedUpTo + 1 .. u :
                   rep.instanceSpace[i].status = "COMMITTED"
            /\ u + 1 \in Inst => rep.instanceSpace[u + 1].status # "COMMITTED"]

PrepareMsgs(r, i, ballot) ==
    {[type |-> "Prepare", from |-> r, to |-> q, inst |-> i, ballot |-> ballot] :
        q \in Quorum(r)}

AcceptMsgs(r, dsts, i, ballot, cmds) ==
    {[type |-> "Accept", from |-> r, to |-> q, inst |-> i, ballot |-> ballot,
      cmds |-> cmds] : q \in dsts}

CommitMsgs(r, dsts, i, ballot, cmds) ==
    {[type |-> "Commit", from |-> r, to |-> q, inst |-> i, ballot |-> ballot,
      cmds |-> cmds] : q \in dsts}

\* bcastCommit: those who were sent the Accept get no commands again
BcastCommit(r, i, ballot, cmds) ==
    {[type |-> "CommitShort", from |-> r, to |-> q, inst |-> i,
      ballot |-> ballot] : q \in Quorum(r)}
        \union CommitMsgs(r, Others(r) \ Quorum(r), i, ballot, cmds)

ReplyTo(m, type, ok, ballot, cmds) ==
    [type |-> type, from |-> m.to, to |-> m.from, inst |-> m.inst, ok |-> ok,
     ballot |-> ballot, cmds |-> cmds]

\* the proposals of an instance go back into the queue
Requeued(r, inst) ==
    IF inst.proposals = Nil THEN proposeChan
    ELSE [proposeChan EXCEPT ![r] = @ \o inst.proposals]

-----------------------------------------------------------------------------
(* Clients and the master *)

ClientPropose(r, c) == Propose(r, c)

\* the first leader stops: "crash", at any time; "stop", when it has committed
\* all that it took and its successor has received all that was sent to it
LeaderStops(r) ==
    /\ flags.outages \intersect {"stop", "crash"} # {}
    /\ r = 0 /\ Up(r)
    /\ "crash" \notin flags.outages =>
           /\ proposeChan[r] = <<>>
           /\ \A i \in 0 .. replica[r].crtInstance - 1 :
                  Entry(r, i).status = "COMMITTED"
           /\ \A c \in DOMAIN net : c[2] = r => c[3] # r + 1
    /\ Stop(r)

\* BeTheLeader: the master calls it
BeTheLeader(r) ==
    /\ replica' = [replica EXCEPT ![r].isLeader = TRUE]
    /\ UNCHANGED <<flags, net, proposeChan, answers, unsent, crashed>>

-----------------------------------------------------------------------------
(* Handlers *)

\* a replica that does not lead refuses one proposal at a time
RefusePropose(r) ==
    /\ Up(r) /\ proposeChan[r] # <<>> /\ ~replica[r].isLeader
    /\ proposeChan' = [proposeChan EXCEPT ![r] = Tail(@)]
    /\ answers' = answers \union {<<r, Head(proposeChan[r]), FALSE>>}
    /\ UNCHANGED <<flags, replica, net, unsent, crashed>>

\* a leader that has no ballot yet prepares its first instances, each on its
\* own; later ones go straight to the Accept
HandlePropose(r) ==
    LET rep  == replica[r]
        i    == NextFree(rep)
        cmds == proposeChan[r]
    IN  /\ Up(r) /\ cmds # <<>> /\ rep.isLeader
        /\ i < MaxInst
        /\ IF rep.defaultBallot = -1
           THEN LET b == MakeUniqueBallot(r, 0)
                IN  /\ replica' = [replica EXCEPT ![r] =
                            [WithEntry(r, i, LedInstance("PREPARING", cmds, b))
                                EXCEPT !.crtInstance = i + 1]]
                    /\ net' = Sent(net, PrepareMsgs(r, i, b))
           ELSE LET b == rep.defaultBallot
                IN  /\ replica' = [replica EXCEPT ![r] =
                            [WithEntry(r, i, LedInstance("PREPARED", cmds, b))
                                EXCEPT !.crtInstance = i + 1]]
                    /\ net' = Sent(net, AcceptMsgs(r, Quorum(r), i, b, cmds))
        /\ proposeChan' = [proposeChan EXCEPT ![r] = <<>>]
        /\ UNCHANGED <<flags, answers, unsent, crashed>>

\* the promised ballot is not recorded for an instance that exists
HandlePrepare(r) == \E m \in Inbox(r, "Prepare") :
    LET rep    == replica[r]
        inst   == Entry(r, m.inst)
        known  == inst.status # "nil"
        ballot == IF known THEN inst.ballot ELSE rep.defaultBallot
        cmds   == IF known THEN inst.cmds ELSE <<>>
    IN  /\ Up(r)
        /\ Handled(r,
             IF m.ballot > rep.defaultBallot
             THEN [rep EXCEPT !.defaultBallot = m.ballot] ELSE rep,
             m, {ReplyTo(m, "PrepareReply", m.ballot >= ballot, ballot, cmds)})
        /\ UNCHANGED <<proposeChan, answers>>

\* mutant: even a committed instance is then only accepted
ReacceptedAnew(inst, m) == [inst EXCEPT !.cmds = m.cmds, !.status = "ACCEPTED"]

\* an Accept with the ballot of the instance is taken for a late one
Reaccepted(inst, m) ==
    [inst EXCEPT !.cmds = m.cmds,
                 !.status = IF @ = "COMMITTED" THEN @ ELSE "ACCEPTED"]

HandleAccept(r) == \E m \in Inbox(r, "Accept") :
    LET rep      == replica[r]
        inst     == Entry(r, m.inst)
        accepted == [inst EXCEPT !.cmds = m.cmds, !.ballot = m.ballot,
                                 !.status = "ACCEPTED", !.proposals = Nil]
        Reply(ok, ballot) == {ReplyTo(m, "AcceptReply", ok, ballot, Nil)}
    IN  /\ Up(r)
        /\ \/ /\ inst.status = "nil" /\ m.ballot < rep.defaultBallot
              /\ Handled(r, rep, m, Reply(FALSE, rep.defaultBallot))
              /\ UNCHANGED proposeChan
           \/ /\ inst.status = "nil" /\ m.ballot >= rep.defaultBallot
              /\ Handled(r, WithEntry(r, m.inst, accepted), m,
                         Reply(TRUE, rep.defaultBallot))
              /\ UNCHANGED proposeChan
           \/ /\ inst.status # "nil" /\ inst.ballot > m.ballot
              /\ Handled(r, rep, m, Reply(FALSE, inst.ballot))
              /\ UNCHANGED proposeChan
           \/ /\ inst.status # "nil" /\ inst.ballot < m.ballot
              /\ Handled(r, WithEntry(r, m.inst, accepted), m,
                         Reply(TRUE, m.ballot))
              /\ proposeChan' = Requeued(r, inst)
           \/ /\ inst.status # "nil" /\ inst.ballot = m.ballot
              /\ Handled(r, WithEntry(r, m.inst, Reaccepted(inst, m)), m,
                         Reply(TRUE, rep.defaultBallot))
              /\ UNCHANGED proposeChan
        /\ UNCHANGED answers

\* m commits its instance, with the commands cmds
Commits(r, m, cmds) ==
    LET inst == Entry(r, m.inst)
    IN  /\ Handled(r,
             Advanced(WithEntry(r, m.inst, [inst EXCEPT
                 !.status = "COMMITTED", !.ballot = m.ballot, !.cmds = cmds,
                 !.proposals = Nil])),
             m, {})
        /\ proposeChan' = Requeued(r, inst)
        /\ UNCHANGED answers

HandleCommit(r) == \E m \in Inbox(r, "Commit") :
    Up(r) /\ Commits(r, m, m.cmds)

\* whatever commands the instance has, if any, are the committed ones
HandleCommitShort(r) == \E m \in Inbox(r, "CommitShort") :
    Up(r) /\ Commits(r, m, Entry(r, m.inst).cmds)

\* r, which leads from now on as leads says, takes the PrepareReply m; Accepts
\* are the messages that start the second phase
PrepareReplyStep(r, m, leads, Accepts(_, _, _)) ==
    LET inst   == Entry(r, m.inst)
        newer  == m.ballot > inst.maxRecvBallot
        \* the commands of another leader replace those proposed
        better == [inst EXCEPT !.prepareOKs = @ + 1,
                               !.maxRecvBallot = IF newer THEN m.ballot ELSE @,
                               !.cmds = IF newer THEN m.cmds ELSE @,
                               !.proposals = IF newer THEN Nil ELSE @]
        refused == inst.nacks + 1 >= Half
        worse  == [inst EXCEPT !.nacks = @ + 1,
                               !.maxRecvBallot = IF newer THEN m.ballot ELSE @,
                               !.proposals = IF refused THEN Nil ELSE @]
        Now(i) == [WithEntry(r, m.inst, i) EXCEPT !.isLeader = leads]
    IN  /\ \/ /\ inst.status # "PREPARING"
              /\ Handled(r, Now(inst), m, {})
              /\ UNCHANGED proposeChan
           \/ /\ inst.status = "PREPARING" /\ m.ok
              /\ IF better.prepareOKs + 1 > Half
                 THEN Handled(r,
                        [Now([better EXCEPT !.status = "PREPARED", !.nacks = 0])
                         EXCEPT !.defaultBallot =
                             IF inst.ballot > @ THEN inst.ballot ELSE @],
                        m, Accepts(m.inst, inst.ballot, better.cmds))
                 ELSE Handled(r, Now(better), m, {})
              /\ proposeChan' = IF newer THEN Requeued(r, inst) ELSE proposeChan
           \/ /\ inst.status = "PREPARING" /\ ~m.ok
              /\ Handled(r, Now(worse), m, {})
              /\ proposeChan' = IF refused THEN Requeued(r, inst)
                                ELSE proposeChan
        /\ UNCHANGED answers

HandlePrepareReply(r) == \E m \in Inbox(r, "PrepareReply") :
    /\ Up(r)
    /\ PrepareReplyStep(r, m, replica[r].isLeader,
           LAMBDA i, b, cmds : AcceptMsgs(r, Quorum(r), i, b, cmds))

\* the clients of an instance that just committed are answered, unless they
\* wait for its execution
CommitAnswers(r, inst) ==
    IF flags.dreply \/ inst.proposals = Nil THEN {}
    ELSE {<<r, inst.cmds[k], TRUE>> : k \in DOMAIN inst.cmds}

\* r takes the AcceptReply m; commits are the messages of a commit
AcceptReplyStep(r, m, leads, commits) ==
    LET inst   == Entry(r, m.inst)
        agreed == [inst EXCEPT !.acceptOKs = @ + 1]
        denied == [inst EXCEPT !.nacks = @ + 1,
                               !.maxRecvBallot = IF m.ballot > @ THEN m.ballot
                                                 ELSE @]
        Now(i) == [WithEntry(r, m.inst, i) EXCEPT !.isLeader = leads]
    IN  /\ \/ /\ inst.status \notin {"PREPARED", "ACCEPTED"}
              /\ Handled(r, Now(inst), m, {})
              /\ UNCHANGED answers
           \/ /\ inst.status \in {"PREPARED", "ACCEPTED"} /\ m.ok
              /\ IF agreed.acceptOKs + 1 > Half
                 THEN /\ Handled(r,
                           Advanced(Now([agreed EXCEPT !.status = "COMMITTED"])),
                           m, commits)
                      /\ answers' = answers \union CommitAnswers(r, inst)
                 ELSE /\ Handled(r, Now(agreed), m, {})
                      /\ UNCHANGED answers
           \/ /\ inst.status \in {"PREPARED", "ACCEPTED"} /\ ~m.ok
              /\ Handled(r, Now(denied), m, {})
              /\ UNCHANGED answers
        /\ UNCHANGED proposeChan

HandleAcceptReply(r) == \E m \in Inbox(r, "AcceptReply") :
    LET inst == Entry(r, m.inst)
    IN  /\ Up(r)
        /\ AcceptReplyStep(r, m, replica[r].isLeader,
               BcastCommit(r, m.inst, inst.ballot, inst.cmds))

\* executeCommands waits at an instance whose commands are unknown
CanExecute(r) ==
    LET i == replica[r].execedUpTo + 1
    IN  i <= replica[r].committedUpTo /\ Entry(r, i).cmds # Nil

\* executeCommands, one instance
Execute(r) ==
    LET rep  == replica[r]
        i    == rep.execedUpTo + 1
        inst == Entry(r, i)
    IN  /\ Up(r)
        /\ CanExecute(r)
        /\ replica' = [replica EXCEPT ![r].execedUpTo = i,
                                      ![r].log = @ \o inst.cmds]
        /\ answers' = answers \union
             IF ~flags.dreply \/ inst.proposals = Nil THEN {}
             ELSE {<<r, inst.cmds[k], TRUE>> : k \in DOMAIN inst.cmds}
        /\ UNCHANGED <<flags, proposeChan, net, unsent, crashed>>

Next == \E r \in Replica :
    \/ \E c \in Cmds : ClientPropose(r, c)
    \/ LeaderStops(r)
    \/ RefusePropose(r)
    \/ HandlePropose(r)
    \/ HandlePrepare(r)
    \/ HandleAccept(r)
    \/ HandleCommit(r)
    \/ HandleCommitShort(r)
    \/ HandlePrepareReply(r)
    \/ HandleAcceptReply(r)
    \/ Execute(r)

-----------------------------------------------------------------------------
(* What the log promises *)

Learned(r) ==
    {<<i, Values(Entry(r, i).cmds)>> :
        i \in {j \in Inst : /\ Entry(r, j).status = "COMMITTED"
                            /\ Entry(r, j).cmds # Nil}}

Refused == {a[2] : a \in {b \in answers : ~b[3]}}

\* Once all that was sent has been handled, every replica has executed the
\* same commands in the same order, each of those that a leader took, once.
Settled ==
    (Quiet /\ \A r \in Replica : Up(r) => ~CanExecute(r)) =>
        \A r, s \in {q \in Replica : Up(q)} :
            /\ Values(replica[r].log) = DOMAIN flags.cmds \ (unsent \union Refused)
            /\ Len(replica[r].log) = Cardinality(Values(replica[r].log))
            /\ replica[r].log = replica[s].log
=============================================================================
