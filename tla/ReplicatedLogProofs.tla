-------------------------- MODULE ReplicatedLogProofs --------------------------
(***************************************************************************)
(* The abstract log keeps its promises, for any replicas and instances.    *)
(***************************************************************************)
EXTENDS ReplicatedLog, TLAPS

LogInv == OneBatchEach /\ LearnedWasChosen /\ DOMAIN learned = Replica

LEMMA LogInvInit == Init => LogInv
  BY DEF Init, LogInv, OneBatchEach, LearnedWasChosen

LEMMA LogInvStep == LogInv /\ [Next]_lvars => LogInv'
<1> SUFFICES ASSUME LogInv, [Next]_lvars
             PROVE  LogInv'
  OBVIOUS
<1>1. CASE UNCHANGED lvars
  BY <1>1 DEF lvars, LogInv, OneBatchEach, LearnedWasChosen
<1>2. ASSUME NEW r \in Replica, NEW i \in Inst, NEW cmds \in SUBSET Cmds,
             Choose(r, i, cmds)
      PROVE  LogInv'
  <2>1. OneBatchEach'
    BY <1>2 DEF Choose, LogInv, OneBatchEach
  <2>2. LearnedWasChosen'
    BY <1>2 DEF Choose, LogInv, LearnedWasChosen
  <2> QED
    BY <1>2, <2>1, <2>2 DEF Choose, LogInv
<1>3. ASSUME NEW r \in Replica, NEW batches \in SUBSET chosen, Learn(r, batches)
      PROVE  LogInv'
  BY <1>3 DEF Learn, LogInv, OneBatchEach, LearnedWasChosen
<1> QED
  BY <1>1, <1>2, <1>3 DEF Next

\* The abstract log is what a replicated log must be: two replicas that learn
\* an instance learn the same batch, as commit() is meant to ensure.
THEOREM LogIsConsistent == Spec => []Consistent
<1>1. LogInv => Consistent
  BY DEF LogInv, OneBatchEach, LearnedWasChosen, Consistent
<1> QED
  BY <1>1, LogInvInit, LogInvStep, PTL DEF Spec
=============================================================================
