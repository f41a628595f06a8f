------------------------------- MODULE MCServer -------------------------------
(* Small clusters of each baseline protocol. *)
EXTENDS Server, TLC

CONSTANTS put1, put2, put3

\* a cluster; cs: to which servers each command may be sent
Cluster(protocol, thrifty, dreply, cs) ==
    [protocol |-> protocol, thrifty |-> thrifty, dreply |-> dreply, cmds |-> cs,
     down |-> {}, outages |-> {}, prompt |-> TRUE]

WithOutage(o, cluster) == [cluster EXCEPT !.outages = {o}]

Sends(s, t) == put1 :> s @@ put2 :> t

\* Three commands at two leaders: each leader has a fast quorum in the other,
\* as replica 2 is down.
TwoOfThree ==
    [Cluster("epaxos", FALSE, TRUE, Sends({0}, {1}) @@ put3 :> {0})
        EXCEPT !.down = {2}]

MultiPaxos == Cluster("paxos", FALSE, TRUE, Sends({0}, {0, 1}))

FastViewChange(cs) == Cluster("fvc", FALSE, TRUE, cs)

Baselines ==
    {WithOutage("stop", Cluster("paxos", TRUE, FALSE, Sends({0}, {0, 1}))),
     WithOutage("stop", MultiPaxos),
     [FastViewChange(Sends({0}, {0, 1})) EXCEPT !.down = {2}],
     WithOutage("stop", FastViewChange(Sends({0}, {1}))),
     Cluster("mencius", FALSE, FALSE, Sends({1}, {2})),
     Cluster("epaxos", FALSE, TRUE, Sends({0}, {0})),
     Cluster("epaxos", TRUE, TRUE, Sends({0}, {0, 1})),
     TwoOfThree}

(* Clusters in which Agreement is broken. *)

\* the first leader stops at any moment
Takeover == {WithOutage("crash", MultiPaxos)}

ViewChange == {WithOutage("crash", FastViewChange(Sends({0}, {1})))}

\* the main loop overtakes its goroutine startViewChange
Race == {[WithOutage("stop", FastViewChange(Sends({1}, {1})))
             EXCEPT !.prompt = FALSE]}

SameKey == [x \in Cmds |-> 1]
=============================================================================
