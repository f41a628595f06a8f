-------------------------------- MODULE EPaxos --------------------------------
(***************************************************************************)
(* The EPaxos baseline (src/src/epaxos).  Every replica leads the          *)
(* instances of a row of its own; what orders instances of different rows  *)
(* is the dependencies they are committed with.                            *)
(*                                                                         *)
(* The recovery of an instance whose leader is silent for ten seconds      *)
(* (Prepare, TryPreAccept) is not modelled, nor what only recoveries       *)
(* reach: here all ballots are the initial one, the leader of an instance  *)
(* is the replica of its row, and nobody refuses.  Checkpoints are off in  *)
(* the source (DO_CHECKPOINTING).                                          *)
(***************************************************************************)
EXTENDS GenericReplica, FiniteSetsExt, SequencesExt, TLC

Keys == {KeyOf[c] : c \in Cmds}

NoDeps == [q \in Replica |-> -1]

NilInstance ==
    [cmds |-> Nil, status |-> "nil", seq |-> 0, deps |-> NoDeps, lb |-> Nil]

\* LeaderBookkeeping; originalDeps is the slice of the instance's Deps itself
NewBookkeeping ==
    [preAcceptOKs |-> 0, acceptOKs |-> 0, allEqual |-> TRUE,
     committedDeps |-> NoDeps]

NewReplica(r) ==
    [space |-> [q \in Replica |-> [i \in Inst |-> NilInstance]],
     crtInstance |-> [q \in Replica |-> 0],
     committedUpTo |-> NoDeps,
     conflicts |-> [q \in Replica |-> [k \in Keys |-> -1]],
     maxSeqPerKey |-> [k \in Keys |-> -1],
     log |-> <<>>]              \* history: the commands executed

Init(f) ==
    /\ InitGeneric(f)
    /\ replica = [r \in Replica |-> NewReplica(r)]

-----------------------------------------------------------------------------
(* Helpers *)

Entry(r, q, i) == replica[r].space[q][i]

Done == {"COMMITTED", "EXECUTED"}

\* the longest prefix of row q whose instances all have a status of ss
UpTo(rep, q, ss) ==
    Max({i \in -1 .. MaxInst - 1 :
            \A j \in 0 .. i : rep.space[q][j].status \in ss})

\* instance i of row q becomes inst, and updateCommitted
WithEntry(rep, q, i, inst) ==
    LET new == [rep EXCEPT !.space[q][i] = inst]
    IN  IF inst.status = "COMMITTED"
        THEN [new EXCEPT !.committedUpTo[q] = UpTo(new, q, Done)] ELSE new

Seen(rep, q, i) == [rep EXCEPT !.crtInstance[q] = Max({@, i + 1})]

\* mutant: the instances of others are not recorded
ConflictsOfKeys(rep, cmds, q, i, seq) == rep

\* updateConflicts
UpdateConflicts(rep, cmds, q, i, seq) ==
    LET keys == {KeyOf[c] : c \in Values(cmds)}
    IN  [rep EXCEPT
           !.conflicts[q] = [k \in Keys |->
                                 IF k \in keys THEN Max({@[k], i}) ELSE @[k]],
           !.maxSeqPerKey = [k \in Keys |->
                                 IF k \in keys THEN Max({@[k], seq}) ELSE @[k]]]

\* In each row but the leader's own, the first command of the batch with a
\* conflict later than the dependency sets it; the others are not looked at.
UpdateAttributes(r, rep, cmds, seq, deps, row) ==
    LET last(q, k) == rep.conflicts[q][KeyOf[cmds[k]]]
        later(q) == {k \in DOMAIN cmds : last(q, k) > deps[q]}
        rows == {q \in Replica : (q # row \/ r = row) /\ later(q) # {}}
        new == [q \in Replica |->
                   IF q \in rows THEN last(q, Min(later(q))) ELSE deps[q]]
        after == {rep.space[q][new[q]].seq + 1 : q \in rows}
        top == Max({seq} \union after
                   \union {rep.maxSeqPerKey[KeyOf[c]] + 1 : c \in Values(cmds)})
    IN  [seq |-> top, deps |-> new, changed |-> rows # {} \/ top # seq]

\* MergeAttributes: its own row a leader keeps
MergeDeps(r, d, e) ==
    [q \in Replica |-> IF q = r THEN d[q] ELSE Max({d[q], e[q]})]

FastQuorum == Half + ((Half + 1) \div 2) - 1

Msgs(r, type, dsts, i, fields) ==
    {[type |-> type, from |-> r, to |-> q, inst |-> i] @@ fields : q \in dsts}

PreAcceptMsgs(r, i, inst) ==
    Msgs(r, "PreAccept", Peers(r, IF flags.thrifty THEN FastQuorum ELSE N - 1),
         i, [cmds |-> inst.cmds, seq |-> inst.seq, deps |-> inst.deps])

AcceptMsgs(r, i, inst) ==
    Msgs(r, "Accept", Quorum(r), i, [seq |-> inst.seq, deps |-> inst.deps])

\* A thrifty leader sends the commands to those it sent no PreAccept.
CommitMsgs(r, i, inst) ==
    LET attrs == [seq |-> inst.seq, deps |-> inst.deps]
    IN  Msgs(r, "CommitShort", Quorum(r), i, attrs)
          \union Msgs(r, "Commit", Others(r) \ Quorum(r), i,
                      attrs @@ [cmds |-> inst.cmds])

\* r takes m, updates its state to rep and sends ms; nobody gets an answer
Handles(r, rep, m, ms) ==
    Handled(r, rep, m, ms) /\ UNCHANGED <<proposeChan, answers>>

\* Leader r takes m and commits its instance i as inst.
Commits(r, i, inst, m) ==
    LET new == [inst EXCEPT !.status = "COMMITTED"]
    IN  /\ Handled(r, WithEntry(replica[r], r, i, new), m, CommitMsgs(r, i, new))
        /\ answers' = IF flags.dreply THEN answers
                      ELSE answers \union {<<r, c, TRUE>> : c \in Values(inst.cmds)}
        /\ UNCHANGED proposeChan

-----------------------------------------------------------------------------
(* Handlers *)

ClientPropose(r, c) == Propose(r, c)

\* handlePropose and startPhase1: one instance for all that waits
HandlePropose(r) ==
    LET rep == replica[r]
        i == rep.crtInstance[r]
        cmds == proposeChan[r]
        attrs == UpdateAttributes(r, rep, cmds, 0, NoDeps, r)
        inst == [cmds |-> cmds, status |-> "PREACCEPTED", seq |-> attrs.seq,
                 deps |-> attrs.deps, lb |-> NewBookkeeping]
        new == WithEntry(Seen(rep, r, i), r, i, inst)
    IN  /\ Up(r)
        /\ cmds # <<>> /\ i < MaxInst
        /\ replica' = [replica EXCEPT
                          ![r] = UpdateConflicts(new, cmds, r, i, attrs.seq)]
        /\ net' = Sent(net, PreAcceptMsgs(r, i, inst))
        /\ proposeChan' = [proposeChan EXCEPT ![r] = <<>>]
        /\ UNCHANGED <<flags, answers, unsent, crashed>>

\* A PreAccept overtaken by an Accept or a Commit still brings the commands.
LatePreAccept(r, m) ==
    LET rep == replica[r]
        inst == Entry(r, m.from, m.inst)
        new == UpdateConflicts(WithEntry(rep, m.from, m.inst,
                                         [inst EXCEPT !.cmds = m.cmds]),
                               m.cmds, m.from, m.inst, m.seq)
    IN  /\ inst.status \in {"COMMITTED", "ACCEPTED"}
        /\ Handles(r, IF inst.cmds = Nil THEN new ELSE rep, m, {})

PreAccept(r, m) ==
    LET q == m.from
        rep == Seen(replica[r], q, m.inst)
        inst == Entry(r, q, m.inst)
        attrs == UpdateAttributes(r, rep, m.cmds, m.seq, m.deps, q)
        new == [inst EXCEPT
                  !.cmds = m.cmds, !.seq = attrs.seq, !.deps = attrs.deps,
                  !.status = IF attrs.changed THEN "PREACCEPTED"
                             ELSE "PREACCEPTED_EQ"]
        uncommitted == \E p \in Replica : attrs.deps[p] > rep.committedUpTo[p]
        reply == IF attrs.changed \/ uncommitted
                 THEN Msgs(r, "PreAcceptReply", {q}, m.inst,
                           [seq |-> attrs.seq, deps |-> attrs.deps,
                            committedDeps |-> rep.committedUpTo])
                 ELSE Msgs(r, "PreAcceptOK", {q}, m.inst, <<>>)
    IN  /\ inst.status \notin {"COMMITTED", "ACCEPTED"}
        /\ Handles(r, UpdateConflicts(WithEntry(rep, q, m.inst, new),
                                      m.cmds, q, m.inst, m.seq),
                   m, reply)

HandlePreAccept(r) == \E m \in Inbox(r, "PreAccept") :
    Up(r) /\ (LatePreAccept(r, m) \/ PreAccept(r, m))

\* A reply to r's PreAccept that leaves inst in its log: commit it, or go on
\* to the slow path, or wait for more replies.
PreAcceptDecision(r, m, inst) ==
    LET allCommitted == \A q \in Replica :
                            inst.lb.committedDeps[q] >= inst.deps[q]
        agreed == inst.lb.allEqual /\ allCommitted
        slow == [inst EXCEPT !.status = "ACCEPTED"]
    IN  CASE inst.lb.preAcceptOKs >= FastQuorum /\ agreed ->
                Commits(r, m.inst, inst, m)
          [] inst.lb.preAcceptOKs >= Half /\ ~agreed ->
                Handles(r, WithEntry(replica[r], r, m.inst, slow), m,
                        AcceptMsgs(r, m.inst, slow))
          [] OTHER -> Handles(r, WithEntry(replica[r], r, m.inst, inst), m, {})

\* committedDeps after a reply that tells of the commits c
Later(r, c, d) ==
    [q \in Replica |-> Max({c[q], d[q], replica[r].committedUpTo[q]})]

HandlePreAcceptReply(r) == \E m \in Inbox(r, "PreAcceptReply") :
    LET inst == Entry(r, r, m.inst)
        deps == MergeDeps(r, inst.deps, m.deps)
        same == inst.seq = m.seq /\ \A q \in Replica \ {r} : inst.deps[q] = m.deps[q]
        count == inst.lb.preAcceptOKs + 1
        looks == (N <= 3 /\ ~flags.thrifty) \/ count > 1
        new == [inst EXCEPT
                  !.seq = Max({@, m.seq}), !.deps = deps,
                  !.lb.preAcceptOKs = count,
                  !.lb.allEqual = @ /\ (looks => same),
                  !.lb.committedDeps = Later(r, @, m.committedDeps)]
    IN  /\ Up(r)
        /\ IF inst.status = "PREACCEPTED" THEN PreAcceptDecision(r, m, new)
           ELSE Handles(r, replica[r], m, {})

\* The acceptor agreed with the attributes, and had committed all of originalDeps.
HandlePreAcceptOK(r) == \E m \in Inbox(r, "PreAcceptOK") :
    LET inst == Entry(r, r, m.inst)
        new == [inst EXCEPT !.lb.preAcceptOKs = @ + 1,
                            !.lb.committedDeps = Later(r, @, inst.deps)]
    IN  /\ Up(r)
        /\ IF inst.status = "PREACCEPTED" THEN PreAcceptDecision(r, m, new)
           ELSE Handles(r, replica[r], m, {})

HandleAccept(r) == \E m \in Inbox(r, "Accept") :
    LET inst == Entry(r, m.from, m.inst)
        new == [inst EXCEPT !.status = "ACCEPTED", !.seq = m.seq, !.deps = m.deps]
    IN  /\ Up(r)
        /\ IF inst.status \in Done THEN Handles(r, replica[r], m, {})
           ELSE Handles(r, WithEntry(Seen(replica[r], m.from, m.inst),
                                     m.from, m.inst, new), m,
                        Msgs(r, "AcceptReply", {m.from}, m.inst, <<>>))

HandleAcceptReply(r) == \E m \in Inbox(r, "AcceptReply") :
    LET inst == Entry(r, r, m.inst)
        new == [inst EXCEPT !.lb.acceptOKs = @ + 1]
    IN  /\ Up(r)
        /\ IF inst.status # "ACCEPTED" THEN Handles(r, replica[r], m, {})
           ELSE IF new.lb.acceptOKs + 1 > Half THEN Commits(r, m.inst, new, m)
           ELSE Handles(r, WithEntry(replica[r], r, m.inst, new), m, {})

\* the instance of m, committed; its commands too if this is all r knows of it
Committed(r, m, cmds) ==
    LET inst == Entry(r, m.from, m.inst)
        new == [inst EXCEPT !.status = "COMMITTED", !.seq = m.seq,
                            !.deps = m.deps,
                            !.cmds = IF inst.status = "nil" THEN cmds ELSE @]
    IN  WithEntry(Seen(replica[r], m.from, m.inst), m.from, m.inst, new)

HandleCommit(r) == \E m \in Inbox(r, "Commit") :
    LET new == Committed(r, m, m.cmds)
    IN  /\ Up(r)
        /\ Handles(r, IF Entry(r, m.from, m.inst).status # "nil" THEN new
                      ELSE UpdateConflicts(new, m.cmds, m.from, m.inst, m.seq),
                   m, {})

HandleCommitShort(r) == \E m \in Inbox(r, "CommitShort") :
    Up(r) /\ Handles(r, Committed(r, m, Nil), m, {})

-----------------------------------------------------------------------------
(* Execution: executeCommands and epaxos-exec.go, a goroutine of its own *)

Space(rep, v) == rep.space[v[1]][v[2]]

\* the instances that strongconnect looks at from v, in its order
Needs(rep, v) ==
    FlattenSeq([k \in 1 .. N |->
        LET q == k - 1
            from == UpTo(rep, q, {"EXECUTED"}) + 1
            to == Space(rep, v).deps[q]
        IN  [j \in 1 .. Max({0, to - from + 1}) |-> <<q, from + j - 1>>]])

\* Tarjan's algorithm.  x: the Index and Lowlink of the instances seen, the
\* stack, the instances executed in their order, and whether it has to wait
\* for an instance to be committed, or for its commands.
RECURSIVE Strongconnect(_, _, _)
Visit(rep, v, x, w) ==
    LET y == Strongconnect(rep, x, w)
    IN  IF Space(rep, w).status = "EXECUTED" \/ w \in Values(x.order) THEN x
        ELSE IF w \in DOMAIN x.index THEN [x EXCEPT !.low[v] = Min({@, x.index[w]})]
        ELSE IF Space(rep, w).status # "COMMITTED" \/ Space(rep, w).cmds = Nil
        THEN [x EXCEPT !.waits = TRUE]
        ELSE [y EXCEPT !.low[v] = Min({@, y.low[w]})]

\* mutant: the component is left in the order of the stack
ComponentAsFound(rep, stack, k) == SubSeq(stack, k, Len(stack))

\* the component on the stack from place k on, by Seq
Component(rep, stack, k) ==
    LET seq(j) == Space(rep, stack[j]).seq
        less(i, j) == seq(i) < seq(j) \/ (seq(i) = seq(j) /\ i < j)
        places == SetToSortSeq(k .. Len(stack), less)
    IN  [j \in DOMAIN places |-> stack[places[j]]]

Strongconnect(rep, x, v) ==
    LET n == Cardinality(DOMAIN x.index) + 1
        y == FoldLeft(LAMBDA z, w : Visit(rep, v, z, w),
                      [x EXCEPT !.index = (v :> n) @@ @, !.low = (v :> n) @@ @,
                                !.stack = Append(@, v)],
                      Needs(rep, v))
        k == CHOOSE j \in DOMAIN y.stack : y.stack[j] = v
    IN  IF y.low[v] # y.index[v] THEN y
        ELSE [y EXCEPT !.order = @ \o Component(rep, y.stack, k),
                       !.stack = SubSeq(@, 1, k - 1)]

FindSCC(rep, v) ==
    Strongconnect(rep, [index |-> <<>>, low |-> <<>>, stack |-> <<>>,
                        order |-> <<>>, waits |-> Space(rep, v).cmds = Nil], v)

\* executeCommands may start at v: it goes through a row up to an instance
\* that is not committed, past those of which it knows nothing.
Root(rep, v) ==
    /\ Space(rep, v).status = "COMMITTED"
    /\ \A j \in 0 .. v[2] - 1 : rep.space[v[1]][j].status \in {"EXECUTED", "nil"}

CanExecute(r, v) == Root(replica[r], v) /\ ~FindSCC(replica[r], v).waits

\* One executeCommand.  While it waits it executes nothing else.
Execute(r) == \E v \in Replica \X Inst :
    /\ Up(r)
    /\ Root(replica[r], v)
    /\ \E x \in {FindSCC(replica[r], v)} :
       LET rep == replica[r]
           of(w) == Space(rep, w).cmds
           leads == {w \in Values(x.order) : w[1] = r}
       IN  /\ ~x.waits
           /\ replica' = [replica EXCEPT
                 ![r].space = [q \in Replica |-> [i \in Inst |->
                      IF <<q, i>> \in Values(x.order)
                      THEN [@[q][i] EXCEPT !.status = "EXECUTED"] ELSE @[q][i]]],
                 ![r].log = @ \o FlattenSeq([k \in DOMAIN x.order |->
                                                of(x.order[k])])]
           /\ answers' = IF flags.dreply
                         THEN answers \union
                              {<<r, c, TRUE>> : c \in UNION {Values(of(w)) : w \in leads}}
                         ELSE answers
    /\ UNCHANGED <<flags, proposeChan, net, unsent, crashed>>

Next == \E r \in Replica :
    \/ \E c \in Cmds : ClientPropose(r, c)
    \/ HandlePropose(r)
    \/ HandlePreAccept(r)
    \/ HandlePreAcceptReply(r)
    \/ HandlePreAcceptOK(r)
    \/ HandleAccept(r)
    \/ HandleAcceptReply(r)
    \/ HandleCommit(r)
    \/ HandleCommitShort(r)
    \/ Execute(r)

-----------------------------------------------------------------------------
(* What the space of instances promises *)

Known(r) ==
    {v \in Replica \X Inst : /\ Entry(r, v[1], v[2]).status \in Done
                             /\ Entry(r, v[1], v[2]).cmds # Nil}

\* the commands and the attributes that an instance is committed with
Learned(r) ==
    {<<v, [f \in {"cmds", "seq", "deps"} |-> Entry(r, v[1], v[2])[f]]>> :
        v \in Known(r)}

\* Of two committed instances whose commands conflict, one depends on the
\* other: this is all that orders them.
Related ==
    \A r \in Replica : \A v, w \in Known(r) :
        LET a == Space(replica[r], v)
            b == Space(replica[r], w)
        IN  (/\ v[1] # w[1]
             /\ \E c \in Values(a.cmds), d \in Values(b.cmds) : Conflict(c, d)) =>
                a.deps[w[1]] >= w[2] \/ b.deps[v[1]] >= v[2]

\* Two instances that depend on each other and have one Seq: sort.Sort puts
\* them in the order in which the traversal came to them.
Tied(c, d) ==
    \E r \in Replica : \E v, w \in Known(r) :
        LET a == Space(replica[r], v)
            b == Space(replica[r], w)
        IN  /\ c \in Values(a.cmds) /\ d \in Values(b.cmds)
            /\ a.deps[w[1]] >= w[2] /\ b.deps[v[1]] >= v[2] /\ a.seq = b.seq

\* Once all that was sent has been handled, every replica has executed each
\* command once.
Settled ==
    (Quiet /\ \A r \in Replica : Up(r) =>
                  \A v \in Replica \X Inst : ~CanExecute(r, v)) =>
        \A r \in Replica : Up(r) => Each(replica[r].log)
=============================================================================
