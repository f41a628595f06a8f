--------------------------------- MODULE Fvc ---------------------------------
(***************************************************************************)
(* Multi-Paxos with fast view change (src/src/fvc/fvc.go), derived from    *)
(* the Multi-Paxos baseline.  Proposals go through a batcher; the leader   *)
(* of the next view prepares in a goroutine of its own (startViewChange),  *)
(* and Commits carry the commands.                                         *)
(***************************************************************************)
EXTENDS GenericReplica, TLC

P == INSTANCE Paxos

\* NewReplica and the first lines of run()
NewReplica(r) ==
    [batchedCmdsChan |-> <<>>,
     viewChange |-> Nil,        \* a running startViewChange: where it is, the
                                \* instance it looks at and the ballot it chose
     calls |-> 0]               \* calls of BeTheLeader not yet started
    @@ P!NewReplica(r)

Init(f) ==
    /\ InitGeneric(f)
    /\ replica = [r \in Replica |-> NewReplica(r)]

MakeBallotLargerThan(r, ballot) == P!MakeUniqueBallot(r, ballot \div 16 + 1)

\* bcastAccept: to one more than a thrifty one, unless it is thrifty
AcceptMsgs(r, i, ballot, cmds) ==
    P!AcceptMsgs(r, Peers(r, IF flags.thrifty THEN Half ELSE Half + 1),
                 i, ballot, cmds)

\* bcastCommit
CommitMsgs(r, i, ballot, cmds) ==
    P!CommitMsgs(r, Quorum(r), i, ballot, cmds)

-----------------------------------------------------------------------------
(* Clients, the batcher and the master *)

ClientPropose(r, c) == P!ClientPropose(r, c)

\* the first leader stops: "crash", at any time; "stop", when its successor has
\* learned all that it committed, whatever else it has under way
LeaderStops(r) ==
    /\ flags.outages \intersect {"stop", "crash"} # {}
    /\ r = 0 /\ Up(r)
    /\ "crash" \notin flags.outages => P!Learned(r) \subseteq P!Learned(r + 1)
    /\ Stop(r)

\* BeTheLeader: the master calls it, and does not wait for startViewChange
BeTheLeader(r) ==
    /\ replica' = [replica EXCEPT ![r].calls = @ + 1]
    /\ UNCHANGED <<flags, net, proposeChan, answers, unsent, crashed>>

\* a batch of proposals is handed to the main loop, or refused
Batch(r) ==
    LET cmds == proposeChan[r]
    IN  /\ Up(r) /\ cmds # <<>>
        /\ IF replica[r].isLeader
           THEN /\ replica' = [replica EXCEPT ![r].batchedCmdsChan = @ \o cmds]
                /\ UNCHANGED answers
           ELSE /\ answers' = answers \union
                     {<<r, cmds[k], FALSE>> : k \in DOMAIN cmds}
                /\ UNCHANGED replica
        /\ proposeChan' = [proposeChan EXCEPT ![r] = <<>>]
        /\ UNCHANGED <<flags, net, unsent, crashed>>

(* startViewChange is a goroutine beside the main loop, without a lock: one *)
(* action for each of its accesses to what they share.                      *)

\* it moves on to rep and to vc, sending ms
Proceeds(r, rep, vc, ms) ==
    /\ replica' = [replica EXCEPT ![r] = [rep EXCEPT !.viewChange = vc]]
    /\ net' = Sent(net, ms)
    /\ UNCHANGED <<flags, proposeChan, answers, unsent, crashed>>

At(r, step) ==
    Up(r) /\ replica[r].viewChange # Nil /\ replica[r].viewChange.at = step

\* it chooses an instance
StartViewChange(r) ==
    LET i == P!NextFree(replica[r])
    IN  /\ Up(r) /\ replica[r].calls > 0 /\ replica[r].viewChange = Nil
        /\ i < MaxInst
        /\ Proceeds(r, [replica[r] EXCEPT !.crtInstance = i, !.calls = @ - 1],
                    [at |-> "chosen", inst |-> i, ballot |-> Nil], {})

\* it moves crtInstance on and writes the instance
PrepareInstance(r) ==
    LET rep   == replica[r]
        vc    == rep.viewChange
        first == rep.defaultBallot = -1
        b     == IF first THEN P!MakeUniqueBallot(r, 0)
                 ELSE MakeBallotLargerThan(r, rep.defaultBallot)
        inst  == [P!LedInstance("PREPARING", <<>>, b) EXCEPT !.proposals = Nil]
    IN  /\ At(r, "chosen")
        /\ rep.crtInstance < MaxInst
        /\ Proceeds(r, [P!WithEntry(r, vc.inst, inst) EXCEPT !.crtInstance = @ + 1],
                    [vc EXCEPT !.at = "written",
                               !.ballot = IF first THEN b ELSE Nil], {})

\* it sends the Prepare, with a ballot above the default one of now
SendPrepare(r) ==
    LET vc == replica[r].viewChange
        b  == IF vc.ballot # Nil THEN vc.ballot
              ELSE MakeBallotLargerThan(r, replica[r].defaultBallot)
    IN  /\ At(r, "written")
        /\ Proceeds(r, replica[r], [vc EXCEPT !.at = "sent", !.ballot = b],
                    P!PrepareMsgs(r, vc.inst, b))

\* mutant: the holes keep the ballot of the view before
AdoptNothing(r) ==
    /\ At(r, "sent")
    /\ Proceeds(r, replica[r], [replica[r].viewChange EXCEPT
                                    !.at = "look", !.inst = replica[r].committedUpTo + 1],
                {})

\* whatever the main loop adopted meanwhile is overwritten
AdoptBallot(r) ==
    LET vc == replica[r].viewChange
    IN  /\ At(r, "sent")
        /\ Proceeds(r, [replica[r] EXCEPT !.defaultBallot = vc.ballot],
                    [vc EXCEPT !.at = "look", !.inst = replica[r].committedUpTo + 1],
                    {})

\* it looks for the next uncommitted instance below the last one; at the end of
\* the loop it returns
FindHole(r) ==
    LET vc    == replica[r].viewChange
        below == vc.inst < replica[r].crtInstance - 1
    IN  /\ At(r, "look")
        /\ Proceeds(r, replica[r],
               CASE ~below -> Nil
                 [] below /\ P!Entry(r, vc.inst).status = "COMMITTED" ->
                        [vc EXCEPT !.inst = @ + 1]
                 [] OTHER -> [vc EXCEPT !.at = "hole"],
               {})

\* it overwrites that instance, without looking again
FillHole(r) ==
    LET rep  == replica[r]
        noop == P!LedInstance("PREPARED", <<>>, rep.defaultBallot)
    IN  /\ At(r, "hole")
        /\ Proceeds(r, P!WithEntry(r, rep.viewChange.inst,
                                   [noop EXCEPT !.proposals = Nil]),
                    [rep.viewChange EXCEPT !.at = "filled"], {})

\* it proposes it, empty, with the default ballot of now
ProposeHole(r) ==
    LET vc == replica[r].viewChange
    IN  /\ At(r, "filled")
        /\ Proceeds(r, replica[r], [vc EXCEPT !.at = "look", !.inst = @ + 1],
                    AcceptMsgs(r, vc.inst, replica[r].defaultBallot, <<>>))

-----------------------------------------------------------------------------
(* Handlers *)

\* the main loop may take a step
Serves(r) == Up(r) /\ (flags.prompt => replica[r].viewChange = Nil)

\* handleProposeBatch: it asks neither whether r still leads nor whose the
\* default ballot is
HandleProposeBatch(r) ==
    LET rep  == replica[r]
        i    == P!NextFree(rep)
        cmds == rep.batchedCmdsChan
        b    == IF rep.defaultBallot = -1 THEN P!MakeUniqueBallot(r, 0)
                ELSE rep.defaultBallot
        inst == P!LedInstance(
                    IF rep.defaultBallot = -1 THEN "PREPARING" ELSE "PREPARED",
                    cmds, b)
    IN  /\ Serves(r) /\ cmds # <<>> /\ i < MaxInst
        /\ replica' = [replica EXCEPT ![r] =
             [P!WithEntry(r, i, inst) EXCEPT !.crtInstance = i + 1,
                                             !.batchedCmdsChan = <<>>]]
        /\ net' = Sent(net, IF rep.defaultBallot = -1
                            THEN P!PrepareMsgs(r, i, b)
                            ELSE AcceptMsgs(r, i, b, cmds))
        /\ UNCHANGED <<flags, proposeChan, answers, unsent, crashed>>

HandlePrepare(r) == Serves(r) /\ P!HandlePrepare(r)

HandleAccept(r) == Serves(r) /\ P!HandleAccept(r)

\* a committed instance is left alone
HandleCommit(r) == \E m \in Inbox(r, "Commit") :
    /\ Serves(r)
    /\ IF P!Entry(r, m.inst).status = "COMMITTED"
       THEN /\ Handled(r, P!Advanced(replica[r]), m, {})
            /\ UNCHANGED <<proposeChan, answers>>
       ELSE P!Commits(r, m, m.cmds)

\* replies that come when the instance has moved on are ignored; a quorum of
\* promises makes the leader of the new view, a quorum of refusals unmakes it
HandlePrepareReply(r) == \E m \in Inbox(r, "PrepareReply") :
    LET inst == P!Entry(r, m.inst)
        leads == CASE inst.status # "PREPARING" -> replica[r].isLeader
                   [] m.ok /\ inst.prepareOKs + 2 > Half -> TRUE
                   [] ~m.ok /\ inst.nacks + 1 >= Half -> FALSE
                   [] OTHER -> replica[r].isLeader
    IN  /\ Serves(r)
        /\ IF inst.status = "ACCEPTED" /\ inst.ballot < m.ballot
           THEN Panics(r, m)
           ELSE P!PrepareReplyStep(r, m, leads,
                    LAMBDA i, b, cmds : AcceptMsgs(r, i, b, cmds))

\* replies to an earlier Accept of the instance count like those to the last
HandleAcceptReply(r) == \E m \in Inbox(r, "AcceptReply") :
    LET inst  == P!Entry(r, m.inst)
        leads == /\ replica[r].isLeader
                 /\ ~(/\ inst.status \in {"PREPARED", "ACCEPTED"}
                      /\ ~m.ok /\ inst.nacks + 1 >= Half)
    IN  /\ Serves(r)
        /\ P!AcceptReplyStep(r, m, leads,
                CommitMsgs(r, m.inst, inst.ballot, inst.cmds))

Execute(r) == P!Execute(r)

Next == \E r \in Replica :
    \/ \E c \in Cmds : ClientPropose(r, c)
    \/ LeaderStops(r)
    \/ Batch(r)
    \/ StartViewChange(r)
    \/ PrepareInstance(r)
    \/ SendPrepare(r)
    \/ AdoptBallot(r)
    \/ FindHole(r)
    \/ FillHole(r)
    \/ ProposeHole(r)
    \/ HandleProposeBatch(r)
    \/ HandlePrepare(r)
    \/ HandleAccept(r)
    \/ HandleCommit(r)
    \/ HandlePrepareReply(r)
    \/ HandleAcceptReply(r)
    \/ Execute(r)

-----------------------------------------------------------------------------
(* What the log promises *)

Learned(r) == P!Learned(r)

\* Once all that was sent has been handled, all replicas have executed the
\* same commands in the same order, none twice.  (A view change drops the
\* commands that it finds uncommitted, so that some may be missing.)
Settled ==
    (Quiet /\ \A r \in Replica : Up(r) => /\ ~P!CanExecute(r)
                                          /\ replica[r].batchedCmdsChan = <<>>
                                          /\ replica[r].viewChange = Nil
                                          /\ replica[r].calls = 0) =>
        \A r, s \in {q \in Replica : Up(q)} :
            /\ replica[r].log = replica[s].log
            /\ Len(replica[r].log) = Cardinality(Values(replica[r].log))
=============================================================================
