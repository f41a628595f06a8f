--------------------------- MODULE AvicennaConfig ---------------------------
(***************************************************************************)
(* The configurations of Avicenna: which replica is the coordinator, the   *)
(* mock (ghost) coordinator and the standbys of each phase, and what       *)
(* counts as a quorum.  Every replica derives the same table from the RTT  *)
(* table the replicas exchange when they start, and never changes it.      *)
(*                                                                         *)
(* A cycle has N + 1 phases: one configuration per coordinator, and then   *)
(* one "Armageddon" configuration in which every replica is a standby.     *)
(***************************************************************************)
EXTENDS Integers, FiniteSets

CONSTANTS
    N,      \* number of replicas (r.N)
    Rtt     \* Rtt[i][j]: the exchanged RTT table, microseconds

Replica == 0 .. N - 1

ASSUME NAssumption == N \in Nat /\ N >= 3
ASSUME RttAssumption == Rtt \in [Replica -> [Replica -> Nat]]

-----------------------------------------------------------------------------
(* Phase to configuration *)

\* the configurations of phases N, 2N + 1, ... come from configArmageddon
IsArmageddon(p) == (p + 1) % (N + 1) = 0

\* the index into configurations, or into configArmageddon, of phase p
ConfigIndex(p) == IF IsArmageddon(p) THEN (p + 1) \div (N + 1)
                                     ELSE ((p + 1) % (N + 1)) - 1

Coordinator(p) == ConfigIndex(p)

\* configArmageddon[i].mockCoordinator is assigned to itself and stays 0
MockCoordinator(p) == IF IsArmageddon(p) THEN 0 ELSE (ConfigIndex(p) + 1) % N

\* the replica on the shortest path from coordinator i to the next one; the
\* scan keeps the first of equal minima
Delegate(i) ==
    LET Path(k) == Rtt[i][k] + Rtt[k][(i + 1) % N]
    IN  CHOOSE k \in Replica \ {i} :
            \A m \in Replica \ {i} :
                Path(k) < Path(m) \/ (Path(k) = Path(m) /\ k <= m)

\* replicas without a role in configuration i
Idle(i) == Replica \ {i, (i + 1) % N, Delegate(i)}

NStandbys == (N \div 2) - 1

\* the standbys of each configuration: the idle replicas with the highest ids
ConfigStandbys ==
    [i \in Replica |->
        {k \in Idle(i) : Cardinality({m \in Idle(i) : m > k}) < NStandbys}]

\* mutant: Armageddon is a configuration like the others
StandbysAsUsual(p) == ConfigStandbys[ConfigIndex(p)]

\* everyone is a standby in Armageddon
Standbys(p) == IF IsArmageddon(p) THEN Replica ELSE ConfigStandbys[ConfigIndex(p)]

-----------------------------------------------------------------------------
(* Quorums *)

\* accepts counts the followers' replies, the coordinator is the + 1
EnoughAccepts(accepts) == accepts + 1 > N \div 2

\* gotRotateQuorum: more than one Rotate from replicas that are not standbys
RotateQuorum(p, senders) == Cardinality(senders \ Standbys(p)) > 1
=============================================================================
