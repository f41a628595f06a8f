-------------------------------- MODULE Master --------------------------------
(***************************************************************************)
(* The master (src/src/master/master.go): it pings the servers and, when a *)
(* leader fails to answer, makes another replica the leader.  With -fvc it *)
(* pings the leader only, takes a late answer for none, and chooses among  *)
(* replicas 0 and 1.                                                       *)
(***************************************************************************)
EXTENDS Integers, FiniteSets

CONSTANTS N, Nil

VARIABLE master  \* leader: the ids flagged as leaders; alive; currentLeader

LOCAL Ids == 0 .. N - 1

\* run, before its loop: -twoLeaders flags replica 1 too
Init(twoLeaders) ==
    master = [leader |-> IF twoLeaders THEN {0, 1} ELSE {0},
              alive |-> {}, currentLeader |-> 0]

\* the flags after a round of pings with -fvc: a leader in failed answers with
\* an error, one in late not in time; the others are taken to be alive
PingedFvc(failed, late) ==
    LET gone == master.leader \intersect (failed \union late)
    IN  [master EXCEPT !.leader = @ \ gone,
                       !.alive = (Ids \ gone) \union ((@ \intersect gone) \ failed)]

\* every server is pinged, without a timeout
Pinged(failed) ==
    [master EXCEPT !.leader = @ \ failed, !.alive = Ids \ failed]

\* the first of the candidates, in order, that is flagged alive and answers
\* the call of BeTheLeader; Nil if there is none
FirstOf(candidates, alive, failed) ==
    LET good == {k \in DOMAIN candidates : candidates[k] \in alive \ failed}
    IN  IF good = {} THEN Nil
        ELSE candidates[CHOOSE k \in good : \A j \in good : k <= j]

\* one round of the loop; new is the leader that it makes, or Nil
RoundFvc(failed, late, new) ==
    LET pinged == PingedFvc(failed, late)
    IN  /\ new = IF pinged.leader = master.leader THEN Nil
                 ELSE FirstOf([i \in 1 .. N - 1 |->
                                  (master.currentLeader + i) % 2],
                              pinged.alive, failed)
        /\ master' = IF new = Nil THEN pinged
                     ELSE [pinged EXCEPT !.leader = @ \union {new},
                                         !.currentLeader = new]

Round(failed, new) ==
    LET pinged == Pinged(failed)
    IN  /\ new = IF pinged.leader = master.leader THEN Nil
                 ELSE FirstOf([i \in 1 .. N |-> i - 1], pinged.alive, failed)
        /\ master' = IF new = Nil THEN pinged
                     ELSE [pinged EXCEPT !.leader = @ \union {new}]
=============================================================================
