------------------------------- MODULE Mencius -------------------------------
(***************************************************************************)
(* The Mencius baseline (src/src/mencius/mencius.go).  The replicas own    *)
(* the instances in turn; one that sees others ahead of it skips its own.  *)
(*                                                                         *)
(* A Skip stays in the writer (SendMsgNoFlush) until the same writer takes *)
(* a message that is flushed, or a timer flushes all (handleDelayedSkip).  *)
(* A neighbour that takes over the instances of a silent replica             *)
(* (forceCommit, with Prepare and PrepareReply) is not modelled, nor what  *)
(* only takeovers reach: here an instance has no ballot but its owner's,   *)
(* and nobody refuses an Accept.                                           *)
(***************************************************************************)
EXTENDS GenericReplica, TLC

NilInstance ==
    [status |-> "nil", skipped |-> FALSE, nbInstSkipped |-> 0, command |-> Nil,
     clientProposal |-> Nil, acceptOKs |-> 0]

Skipped(n) == [NilInstance EXCEPT !.status = "COMMITTED", !.skipped = TRUE,
                                  !.nbInstSkipped = n]

NewReplica(r) ==
    [instanceSpace |-> [i \in Inst |-> NilInstance],
     crtInstance |-> r,
     blockingInstance |-> 0,
     skippedTo |-> [q \in Replica |-> -1],
     unflushed |-> {},          \* the Skips that wait in PeerWriters
     skipsWaiting |-> 0,
     execedUpTo |-> -1,
     skippedToOrig |-> [q \in Replica |-> -1],
     conflicts |-> [k \in {KeyOf[c] : c \in Cmds} |-> Nil],
     log |-> <<>>]              \* history: the commands executed

Init(f) ==
    /\ InitGeneric(f)
    /\ replica = [r \in Replica |-> NewReplica(r)]

-----------------------------------------------------------------------------
(* Helpers *)

Entry(r, i) == replica[r].instanceSpace[i]

WithEntry(rep, i, inst) == [rep EXCEPT !.instanceSpace[i] = inst]

Owner(i) == i % N

\* bcastAccept: a thrifty one goes first to those whose own instance of the
\* turn is still free here, as they have to skip it
AcceptDsts(r, i, space) ==
    LET turn(q)  == LET own == (i - (i % N)) + q
                    IN  IF own > i THEN own - N ELSE own
        free     == {k \in 1 .. N - 1 :
                        LET own == turn(Peer(r, k))
                        IN  own >= 0 /\ space[own].status = "nil"}
        rest     == (1 .. N - 1) \ free
        more     == {k \in rest : Cardinality({j \in rest : j <= k})
                                     <= Half - Cardinality(free)}
    IN  IF flags.thrifty THEN {Peer(r, k) : k \in free \union more} ELSE Others(r)

AcceptMsgs(r, i, inst, space) ==
    {[type |-> "Accept", from |-> r, to |-> q, inst |-> i,
      command |-> inst.command] : q \in AcceptDsts(r, i, space)}

\* bcastCommit says nothing of the command
CommitMsgs(r, i) ==
    {[type |-> "Commit", from |-> r, to |-> q, inst |-> i] : q \in Others(r)}

\* the loop of updateBlocking: the first instance that may block others moves
\* up; out collects those that r commits on the way
RECURSIVE Unblocked(_, _, _)
Unblocked(r, rep, out) ==
    LET b    == rep.blockingInstance
        inst == rep.instanceSpace[b]
        skip == IF inst.skipped
                THEN [rep EXCEPT !.blockingInstance = b + 1,
                         !.skippedTo[Owner(b)] = b + (inst.nbInstSkipped - 1) * N]
                ELSE [rep EXCEPT !.blockingInstance = b + 1]
        mine == Owner(b) = r
    IN  CASE b = MaxInst -> <<rep, out>>
          [] b <= rep.skippedTo[Owner(b)] ->
                Unblocked(r, [rep EXCEPT !.blockingInstance = b + 1], out)
          [] OTHER ->
        CASE inst.status = "nil" -> <<rep, out>>
          [] inst.status = "COMMITTED" /\ inst.skipped -> Unblocked(r, skip, out)
          [] mine /\ inst.status = "READY" ->
                Unblocked(r, WithEntry(skip, b,
                                 [inst EXCEPT !.status = "COMMITTED"]),
                          out \union {b})
          [] mine /\ inst.status \in {"COMMITTED", "EXECUTED"} ->
                Unblocked(r, skip, out)
          [] ~mine ->
                Unblocked(r, [rep EXCEPT !.blockingInstance = b + 1], out)
          [] OTHER -> <<rep, out>>

\* MAX_SKIPS_WAITING
MaxSkipsWaiting == 20

\* what r has in its writers goes out with the messages ms
Flushed(rep, ms) ==
    [rep EXCEPT !.unflushed =
        {s \in @ : \A n \in ms : n.to # s.to}]

WithSkips(rep, ms) == ms \union (rep.unflushed \ Flushed(rep, ms).unflushed)

\* r takes m, moves to rep and sends ms; then updateBlocking of instance i may
\* commit more
Settles(r, rep, i, m, ms) ==
    LET done == IF i = rep.blockingInstance THEN Unblocked(r, rep, {})
                ELSE <<rep, {}>>
        new  == done[1]
        out  == UNION {CommitMsgs(r, j) : j \in done[2]}
        acks == {new.instanceSpace[j].clientProposal : j \in done[2]} \ {Nil}
    IN  /\ replica' = [replica EXCEPT ![r] = Flushed(new, out)]
        /\ net' = Sent(Sent(Taken(m), ms), WithSkips(new, out))
        /\ answers' = IF flags.dreply THEN answers
                      ELSE answers \union {<<r, c, TRUE>> : c \in acks}
        /\ UNCHANGED <<flags, unsent, crashed>>

-----------------------------------------------------------------------------
(* Handlers *)

ClientPropose(r, c) == Propose(r, c)

\* the owner's next instance is taken whatever it holds
HandlePropose(r) ==
    LET rep  == replica[r]
        i    == rep.crtInstance
        c    == Head(proposeChan[r])
        inst == [NilInstance EXCEPT
                    !.status = "ACCEPTED", !.command = c,
                    !.clientProposal = c]
        new  == [WithEntry(rep, i, inst) EXCEPT !.crtInstance = i + N]
        out  == AcceptMsgs(r, i, inst, new.instanceSpace)
    IN  /\ Up(r) /\ proposeChan[r] # <<>> /\ i < MaxInst
        /\ replica' = [replica EXCEPT ![r] = Flushed(new, out)]
        /\ net' = Sent(net, WithSkips(new, out))
        /\ proposeChan' = [proposeChan EXCEPT ![r] = Tail(@)]
        /\ UNCHANGED <<flags, answers, unsent, crashed>>

HandleSkip(r) == \E m \in Inbox(r, "Skip") :
    /\ Up(r)
    /\ Settles(r, WithEntry(replica[r], m.inst,
                            Skipped((m.end - m.inst) \div N + 1)),
               m.inst, m, {})
    /\ UNCHANGED proposeChan

\* an Accept of another's instance ahead of r's own next one makes r skip all
\* that it owns up to there; the Skips wait for a timer if few others do
HandleAccept(r) == \E m \in Inbox(r, "Accept") :
    LET rep   == replica[r]
        inst  == Entry(r, m.inst)
        crt   == rep.crtInstance
        last  == LET i == (m.inst - (m.inst % N)) + r
                 IN  IF i > m.inst THEN i - N ELSE i
        skips == crt < m.inst
        start == IF skips THEN crt ELSE -1
        end   == IF skips THEN last ELSE -1
        moved == IF skips
                 THEN [WithEntry(rep, crt, Skipped((last - crt) \div N + 1))
                         EXCEPT !.crtInstance = last + N]
                 ELSE rep
        settled == inst.status \in {"COMMITTED", "EXECUTED"}
        new   == IF settled
                 THEN [inst EXCEPT !.command = IF @ = Nil THEN m.command ELSE @]
                 ELSE [inst EXCEPT !.status = "ACCEPTED", !.command = m.command]
        reply == [type |-> "AcceptReply", from |-> r, to |-> m.from,
                  inst |-> m.inst, start |-> start, end |-> end]
        replies == IF settled THEN {} ELSE {reply}
        replied == Flushed(WithEntry(moved, m.inst, new), replies)
        waiting == replied.unflushed \union
                       {[type |-> "Skip", from |-> r, to |-> q, inst |-> start,
                         end |-> end] : q \in Others(r) \ {m.from}}
        delays == skips /\ rep.skipsWaiting < MaxSkipsWaiting
        flushes == skips /\ rep.skipsWaiting >= MaxSkipsWaiting
    IN  /\ Up(r)
        /\ Settles(r,
             CASE delays  -> [replied EXCEPT !.unflushed = waiting,
                                             !.skipsWaiting = @ + 1]
               [] flushes -> [replied EXCEPT !.unflushed = {}]
               [] OTHER   -> replied,
             IF skips THEN start ELSE m.inst, m,
             WithSkips(moved, replies) \union (IF flushes THEN waiting ELSE {}))
        /\ UNCHANGED proposeChan

\* mutant: the timer flushes nothing
DelayedSkipEnds(r) ==
    /\ Up(r) /\ replica[r].skipsWaiting > 0
    /\ replica' = [replica EXCEPT ![r].skipsWaiting = @ - 1]
    /\ UNCHANGED <<flags, proposeChan, net, answers, unsent, crashed>>

\* handleDelayedSkip: the timer of a Skip flushes every writer
HandleDelayedSkip(r) ==
    LET rep == replica[r]
    IN  /\ Up(r) /\ rep.skipsWaiting > 0
        /\ replica' = [replica EXCEPT ![r].skipsWaiting = @ - 1,
                                      ![r].unflushed = {}]
        /\ net' = Sent(net, rep.unflushed)
        /\ UNCHANGED <<flags, proposeChan, answers, unsent, crashed>>

HandleCommit(r) == \E m \in Inbox(r, "Commit") :
    LET new == [Entry(r, m.inst) EXCEPT !.status = "COMMITTED",
                                        !.skipped = FALSE, !.nbInstSkipped = 0]
    IN  /\ Up(r)
        /\ Settles(r, WithEntry(replica[r], m.inst, new), m.inst, m, {})
        /\ UNCHANGED proposeChan

\* an instance of r is ready once a quorum accepted it, and committed when
\* none before it blocks
HandleAcceptReply(r) == \E m \in Inbox(r, "AcceptReply") :
    LET rep   == replica[r]
        inst  == Entry(r, m.inst)
        agreed == [inst EXCEPT !.acceptOKs = @ + 1]
        seen  == LET counted == WithEntry(rep, m.inst, agreed)
                 IN  IF m.start = -1 THEN counted
                     ELSE WithEntry(counted, m.start,
                              Skipped((m.end - m.start) \div N + 1))
        ready == /\ inst.status \notin {"COMMITTED", "EXECUTED"}
                 /\ agreed.acceptOKs + 1 > Half
    IN  /\ Up(r)
        /\ Settles(r,
             IF ready
             THEN WithEntry(seen, m.inst, [agreed EXCEPT !.status = "READY"])
             ELSE seen,
             IF m.start = rep.blockingInstance THEN m.start ELSE m.inst, m, {})
        /\ UNCHANGED proposeChan

-----------------------------------------------------------------------------
(* Execution *)

\* One pass of executeCommands from instance i on, s being its variables: it
\* may jump over instances that are not committed, but over one key only once.
\* The pass ends at an instance that it has to wait for.
RECURSIVE Scan(_, _, _)
Scan(r, s, i) ==
    LET inst    == s.instanceSpace[i]
        q       == Owner(i)
        conf    == s.conflicts[KeyOf[inst.command]]
        pending == conf # Nil /\ s.instanceSpace[conf].status # "EXECUTED"
        past    == i + inst.nbInstSkipped * N
    IN  CASE i >= MaxInst \/ i >= s.crtInstance -> s
          [] i < s.skips[q] -> Scan(r, s, i + 1)
          [] OTHER ->
        CASE inst.status = "nil" -> s
          [] inst.status = "EXECUTED" -> Scan(r, s, i + 1)
          [] inst.status \notin {"nil", "EXECUTED", "COMMITTED"} ->
                IF inst.skipped THEN s
                ELSE IF pending THEN s
                ELSE Scan(r, [s EXCEPT !.conflicts[KeyOf[inst.command]] = i,
                                       !.jump = TRUE], i + 1)
          [] inst.status = "COMMITTED" /\ inst.skipped ->
                Scan(r, [s EXCEPT !.skips[q] = past,
                                  !.skippedToOrig[q] = IF s.jump THEN @ ELSE past],
                     i + 1)
          [] inst.status = "COMMITTED" /\ ~inst.skipped ->
                IF inst.command = Nil \/ (pending /\ conf < i) THEN s
                ELSE Scan(r, [s EXCEPT !.instanceSpace[i].status = "EXECUTED",
                                       !.log = Append(@, inst.command),
                                       !.acks = @ \union {inst.clientProposal},
                                       !.execedUpTo = IF s.jump THEN @ ELSE i],
                          i + 1)

Pass(r) == Scan(r, [skips |-> replica[r].skippedToOrig, jump |-> FALSE,
                    acks |-> {}] @@ replica[r],
                replica[r].execedUpTo + 1)

Execute(r) ==
    LET s == Pass(r)
    IN  /\ Up(r)
        /\ replica' = [replica EXCEPT ![r] = [f \in DOMAIN replica[r] |-> s[f]]]
        /\ answers' = IF flags.dreply
                      THEN answers \union {<<r, c, TRUE>> : c \in s.acks \ {Nil}}
                      ELSE answers
        /\ UNCHANGED <<flags, proposeChan, net, unsent, crashed>>

Next == \E r \in Replica :
    \/ \E c \in Cmds : ClientPropose(r, c)
    \/ HandlePropose(r)
    \/ HandleSkip(r)
    \/ HandleAccept(r)
    \/ HandleCommit(r)
    \/ HandleAcceptReply(r)
    \/ HandleDelayedSkip(r)
    \/ Execute(r)

-----------------------------------------------------------------------------
(* What the log promises *)

\* a skip decides all the instances that it spans
Learned(r) ==
    LET is(i) == Entry(r, i).status \in {"COMMITTED", "EXECUTED"}
    IN  UNION {IF ~is(i) THEN {}
               ELSE IF Entry(r, i).skipped
               THEN {<<i + k * N, {}>> : k \in 0 .. Entry(r, i).nbInstSkipped - 1}
               ELSE {<<i, {c}>> : c \in {Entry(r, i).command} \ {Nil}} :
               i \in Inst}

\* Once all that was sent has been handled and no timer runs, every replica has
\* executed each command once, though a Skip that nobody flushed may still wait.
Settled ==
    (Quiet /\ \A r \in Replica : Up(r) => /\ Pass(r).log = replica[r].log
                                          /\ replica[r].skipsWaiting = 0) =>
        \A r \in Replica : Up(r) => Each(replica[r].log)
=============================================================================
