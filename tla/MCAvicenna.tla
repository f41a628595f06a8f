----------------------------- MODULE MCAvicenna -----------------------------
(***************************************************************************)
(* Constants for model checking Avicenna.                                  *)
(***************************************************************************)
EXTENDS Avicenna

\* all links alike
UniformRtt == [i \in Replica |-> [j \in Replica |-> IF i = j THEN 0 ELSE 1]]

NoCmds == {}
OneCmd == {<<"c1", 1>>}
TwoClients == {<<"c1", 1>>, <<"c2", 1>>}
GhostOfFirst == {<<"c1", 1>>}

\* the replicas that the commands get through to
AtNobody == [r \in Replica |-> {}]
AtFirst == [r \in Replica |-> IF r = 0 THEN Cmds ELSE {}]
AtNext == [r \in Replica |-> IF r = 1 THEN Cmds ELSE {}]
AtLeaders == [r \in Replica |-> IF r <= 1 THEN Cmds ELSE {}]

Nobody == {}
OnceByAnyone == Replica \X {0}
OnceByNext == {<<1, 0>>}
NextThenFirst == {<<1, 0>>, <<0, 1>>}
AnyoneAlways == Replica \X (0 .. MaxPhase)

-----------------------------------------------------------------------------
(* Runs that start later: in quiescent states that the program reaches and  *)
(* a run from Init would reach only behind very many others.                *)

\* the first command is committed by every replica, in phase 0
FirstCommitted ==
    /\ InitPhase /\ InitMockLog /\ InitQuiet /\ unbatched = Arrivals
    /\ instanceSpace = [r \in Replica |-> [i \in Inst |->
            IF i > 0 THEN NilInstance
            ELSE [status |-> "COMMITTED", cmds |-> GhostOfFirst,
                  accepts |-> IF r = 0 THEN N - 1 ELSE 0]]]
    /\ committedUpTo = [r \in Replica |-> 0]
    /\ latestCmdSeen = [r \in Replica |-> GhostOfFirst]
    /\ votes = {Vote(r, 0, 0, GhostOfFirst) : r \in Replica \ {0}}
    /\ decided = {Vote(0, 0, 0, GhostOfFirst)}

CommittedSpec == FirstCommitted /\ [][Next]_vars

\* a full cycle of rotations without commands brings all to Armageddon, where
\* commands arrive
AllInArmageddon ==
    /\ InitLog /\ InitMockLog /\ InitQuiet /\ unbatched = Arrivals
    /\ phase = [r \in Replica |-> N]
    /\ rotated = Replica \X (0 .. N - 1)

\* that cycle, and what follows it
CycleSpec ==
    /\ \/ InitPhase /\ InitLog /\ InitMockLog /\ InitQuiet /\ unbatched = AtNobody
       \/ AllInArmageddon
    /\ [][Next]_vars
=============================================================================
