-------------------------------- MODULE Server --------------------------------
(***************************************************************************)
(* A cluster: the master and the servers, all started with the same flags  *)
(* (src/src/server/server.go), which choose the protocol.                  *)
(***************************************************************************)
EXTENDS GenericReplica

CONSTANTS
    Flags,      \* bound: the flags to start a cluster with
    Elections   \* bound: how many leaders the master makes

VARIABLES master, elections

vars == <<gvars, master, elections>>

Master == INSTANCE Master
Paxos == INSTANCE Paxos
Fvc == INSTANCE Fvc
Mencius == INSTANCE Mencius
EPaxos == INSTANCE EPaxos

Init == \E f \in Flags :
    /\ Master!Init(FALSE)
    /\ elections = 0
    /\ \/ f.protocol = "paxos" /\ Paxos!Init(f)
       \/ f.protocol = "fvc" /\ Fvc!Init(f)
       \/ f.protocol = "mencius" /\ Mencius!Init(f)
       \/ f.protocol = "epaxos" /\ EPaxos!Init(f)

\* the master's next leader calls its protocol's BeTheLeader
Elect(new) ==
    IF new = Nil THEN UNCHANGED <<gvars, elections>>
    ELSE /\ elections' = elections + 1
         /\ \/ flags.protocol = "paxos" /\ Paxos!BeTheLeader(new)
            \/ flags.protocol = "fvc" /\ Fvc!BeTheLeader(new)

MasterRound ==
    /\ elections < Elections
    /\ flags.protocol = "paxos" /\ crashed # {}
    /\ \E new \in Replica \union {Nil} :
           Master!Round(crashed, new) /\ Elect(new)

MasterRoundFvc ==
    /\ elections < Elections
    /\ flags.protocol = "fvc"
    /\ \E new \in Replica \union {Nil} :
       \E late \in IF "slow" \in flags.outages THEN {{}, master.leader} ELSE {{}} :
           Master!RoundFvc(crashed, late, new) /\ Elect(new)

Next ==
    \/ MasterRound
    \/ MasterRoundFvc
    \/ /\ \/ flags.protocol = "paxos" /\ Paxos!Next
          \/ flags.protocol = "fvc" /\ Fvc!Next
          \/ flags.protocol = "mencius" /\ Mencius!Next
          \/ flags.protocol = "epaxos" /\ EPaxos!Next
       /\ UNCHANGED <<master, elections>>

Spec == Init /\ [][Next]_vars

-----------------------------------------------------------------------------
(* What the protocols promise *)

\* what replica r knows to be committed
Learned(r) ==
    CASE flags.protocol = "paxos" -> Paxos!Learned(r)
      [] flags.protocol = "fvc" -> Fvc!Learned(r)
      [] flags.protocol = "mencius" -> Mencius!Learned(r)
      [] flags.protocol = "epaxos" -> EPaxos!Learned(r)

\* No two replicas commit different batches for one instance.
Agreement ==
    LET learned == UNION {Learned(r) : r \in Replica}
    IN  \A x, y \in learned : x[1] = y[1] => x = y

\* What a replica knows to be committed stays so.
CommittedForGood ==
    [][\A r \in Replica :
          replica'[r] = replica[r] \/ Learned(r) \subseteq Learned(r)']_vars

Tied(c, d) == flags.protocol = "epaxos" /\ EPaxos!Tied(c, d)

\* EPaxos orders conflicting commands by their dependencies alone.
Related == flags.protocol = "epaxos" => EPaxos!Related

\* Conflicting commands are executed in one order everywhere, but for what
\* sort.Sort leaves open in EPaxos.
OneOrder ==
    \A r, s \in Replica : \A i, j \in DOMAIN replica[r].log :
        (/\ i < j /\ Conflict(replica[r].log[i], replica[r].log[j])
         /\ ~Tied(replica[r].log[i], replica[r].log[j])) =>
            \A k, l \in DOMAIN replica[s].log :
                (/\ replica[s].log[k] = replica[r].log[i]
                 /\ replica[s].log[l] = replica[r].log[j]) => k < l

Settled ==
    CASE flags.protocol = "paxos" -> Paxos!Settled
      [] flags.protocol = "fvc" -> Fvc!Settled
      [] flags.protocol = "mencius" -> Mencius!Settled
      [] flags.protocol = "epaxos" -> EPaxos!Settled
=============================================================================
