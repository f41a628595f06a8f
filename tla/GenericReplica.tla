---------------------------- MODULE GenericReplica ----------------------------
(***************************************************************************)
(* What every baseline protocol shares (src/src/genericsmr/genericsmr.go): *)
(* the replicas' state, the queue of client proposals of each, the channel *)
(* that carries each type of message from each replica to each other, and  *)
(* the answers that clients got.                                           *)
(*                                                                         *)
(* One TCP connection and one replicaListener goroutine join each pair of  *)
(* replicas, and RegisterRPC gives each type of message a Go channel: two  *)
(* messages of one type from one sender stay in order, nothing else does.  *)
(* Nobody notices a dead peer: Alive is only ever set.                     *)
(***************************************************************************)
EXTENDS Integers, Sequences, FiniteSets

CONSTANTS
    N,          \* the number of replicas
    Cmds,       \* the commands; a client sends each of them once
    KeyOf,      \* KeyOf[c]: the key that command c writes
    MaxInst,    \* bound: instances 0 .. MaxInst - 1 of every log
    Nil         \* the nil of Go

ASSUME NAssumption == N \in Nat /\ N >= 3
ASSUME MaxInstAssumption == MaxInst \in Nat

Replica == 0 .. N - 1
Inst == 0 .. MaxInst - 1

VARIABLES
    flags,        \* how the servers were started: [protocol, thrifty, dreply];
                  \* bounds: cmds[c], the servers that command c may be sent to;
                  \* down, the replicas that are down from the start; outages:
                  \* "stop", the first leader may stop when its successor has
                  \* what it committed, "crash", at any time, "slow", it may
                  \* answer a ping too late; prompt: the main loop of fvc rests
                  \* while startViewChange runs
    replica,      \* replica[r]: the fields of r's Replica struct
    proposeChan,  \* proposeChan[r]: ProposeChan, a sequence of commands
    net,          \* the messages on their way, by channel
    answers,      \* the answers <<replica, command, ok>> that clients got
    unsent,       \* the commands not yet sent by their client
    crashed       \* the replicas that stopped

gvars == <<flags, replica, proposeChan, net, answers, unsent, crashed>>

\* all but the replicas' own state, when the servers start with flags f
InitGeneric(f) ==
    /\ flags = f
    /\ proposeChan = [r \in Replica |-> <<>>]
    /\ net = <<>>
    /\ answers = {}
    /\ unsent = DOMAIN f.cmds
    /\ crashed = f.down

Up(r) == r \notin crashed

\* replica r stops
Stop(r) ==
    /\ crashed' = crashed \union {r}
    /\ UNCHANGED <<flags, replica, net, proposeChan, answers, unsent>>

\* clientListener: client command c reaches replica r
Propose(r, c) ==
    /\ Up(r)
    /\ c \in unsent /\ r \in flags.cmds[c]
    /\ proposeChan' = [proposeChan EXCEPT ![r] = Append(@, c)]
    /\ unsent' = unsent \ {c}
    /\ UNCHANGED <<flags, replica, net, answers, crashed>>

-----------------------------------------------------------------------------
(* Messages *)

Half == N \div 2

\* r's peers in the order in which broadcasts go round
Peer(r, k) == (r + k) % N

\* the first n peers
Peers(r, n) == {Peer(r, k) : k \in 1 .. n}

Others(r) == Peers(r, N - 1)

\* those that a broadcast reaches at least: a quorum with r, if thrifty
Quorum(r) == Peers(r, IF flags.thrifty THEN Half ELSE N - 1)

Channel(m) == <<m.type, m.from, m.to>>

InTransit(n, c) == IF c \in DOMAIN n THEN n[c] ELSE <<>>

\* messages of one channel, by instance
ByInst(ms) ==
    CHOOSE s \in [1 .. Cardinality(ms) -> ms] :
        \A j, k \in DOMAIN s : j < k => s[j].inst < s[k].inst

\* SendMsg of each message of ms
Sent(n, ms) ==
    [c \in DOMAIN n \union {Channel(m) : m \in ms} |->
        InTransit(n, c) \o ByInst({m \in ms : Channel(m) = c})]

\* the messages of type t that replica r may take next
Inbox(r, t) == {Head(net[c]) : c \in {d \in DOMAIN net : d[1] = t /\ d[3] = r}}

\* replicaListener: m leaves its channel
Taken(m) ==
    LET c == Channel(m)
    IN  IF Len(net[c]) = 1 THEN [d \in DOMAIN net \ {c} |-> net[d]]
        ELSE [net EXCEPT ![c] = Tail(@)]

\* r updates its state to rep, having taken m and sent ms
Handled(r, rep, m, ms) ==
    /\ replica' = [replica EXCEPT ![r] = rep]
    /\ net' = Sent(Taken(m), ms)
    /\ UNCHANGED <<flags, unsent, crashed>>

\* a handler of r that takes m panics: the process ends
Panics(r, m) ==
    /\ crashed' = crashed \union {r}
    /\ net' = Taken(m)
    /\ UNCHANGED <<flags, replica, proposeChan, answers, unsent>>

\* state.Conflict, of two writes
Conflict(c, d) == KeyOf[c] = KeyOf[d]

Values(s) == {s[k] : k \in DOMAIN s}

\* nothing is on its way to a replica that is up, or waits there
Quiet ==
    /\ \A c \in DOMAIN net : ~Up(c[3])
    /\ \A r \in Replica : Up(r) => proposeChan[r] = <<>>

\* Each command that reached a replica is in the sequence log once.
Each(log) ==
    /\ Values(log) = DOMAIN flags.cmds \ unsent
    /\ Len(log) = Cardinality(DOMAIN flags.cmds \ unsent)
=============================================================================
