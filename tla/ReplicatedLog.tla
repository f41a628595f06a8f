---------------------------- MODULE ReplicatedLog ----------------------------
(***************************************************************************)
(* What Avicenna promises of its real log, whoever coordinates it: at most *)
(* one batch of commands is ever chosen for an instance, and a replica     *)
(* learns, for good, nothing but what was chosen.  A batch is chosen where *)
(* handleAcceptReplyReal commits it, and learned where the status of an    *)
(* instance becomes COMMITTED.                                             *)
(***************************************************************************)
CONSTANTS
    Replica,    \* the replicas
    Inst,       \* the instances of the log
    Cmds        \* the commands

VARIABLES
    chosen,     \* the pairs <<instance, batch>> chosen so far
    learned     \* learned[r]: those that replica r knows to be chosen

lvars == <<chosen, learned>>

Batches == Inst \X (SUBSET Cmds)

Init ==
    /\ chosen = {}
    /\ learned = [r \in Replica |-> {}]

\* replica r, the coordinator, chooses cmds for instance i
Choose(r, i, cmds) ==
    /\ \A b \in chosen : b[1] # i
    /\ chosen' = chosen \union {<<i, cmds>>}
    /\ learned' = [learned EXCEPT ![r] = @ \union {<<i, cmds>>}]

\* a commit, or a quorum of Rotates, tells r of chosen batches
Learn(r, batches) ==
    /\ learned' = [learned EXCEPT ![r] = @ \union batches]
    /\ UNCHANGED chosen

Next == \E r \in Replica :
    \/ \E i \in Inst, cmds \in SUBSET Cmds : Choose(r, i, cmds)
    \/ \E batches \in SUBSET chosen : Learn(r, batches)

Spec == Init /\ [][Next]_lvars

-----------------------------------------------------------------------------

TypeOK ==
    /\ chosen \subseteq Batches
    /\ learned \in [Replica -> SUBSET Batches]

OneBatchEach == \A a, b \in chosen : a[1] = b[1] => a = b

LearnedWasChosen == \A r \in Replica : learned[r] \subseteq chosen

\* Replicas never learn different batches for one instance.
Consistent ==
    \A r, s \in Replica : \A a \in learned[r], b \in learned[s] :
        a[1] = b[1] => a = b
=============================================================================
