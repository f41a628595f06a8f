# Avicenna in TLA+

Models, model checks and proofs for the replication protocols of this
repository (Go, `src/src/`). The repository implements **Avicenna**, a
leader-based protocol that tolerates one fail-slow replica, beside the
protocols it is compared with (Multi-Paxos with and without fast view change,
Copilot, EPaxos, Mencius, Generalized Paxos), all on one generic replica.

This directory covers Avicenna's ordering of client commands in the real and in
the mock log, the rotation of its coordinator and its slowdown detector; the
baselines Multi-Paxos, fast view change, Mencius and EPaxos on the generic
replica, with the master that appoints leaders; and the connections below them
all, with every message's layout. What is left out is listed under
[Not modelled](#not-modelled).

Run from this directory `tlc -workers 2 -config <run>.cfg <module>`, with the
module given under [Runs](#runs), and `tlapm AvicennaProofs.tla` (likewise for
the other proof modules).

## The system

### How Avicenna works

Replicas `0 .. N-1` move through *phases*. A phase has a coordinator, a mock
coordinator (the *shadow* or *ghost* leader, the next coordinator), a delegate
and some standbys. The coordinator orders batches of client commands in the
instances of `instanceSpace` with one round of Accepts. The mock coordinator
orders copies of some commands (*ghosts*) in `instanceSpaceMock` by the same
exchange, to measure how long the same work takes under another leader. When
the evaluator finds the coordinator slower than the mock coordinator, or nothing
progresses for a minute, a replica suspects the phase: it stops serving it and
broadcasts a Rotate with what it has of both logs. Two Rotates from replicas
that are not standbys make a quorum: each replica that has one merges the
reports, adopts the result and enters the next phase, where the mock
coordinator coordinates and proposes everything it has not committed in a
*long Accept*.

After one phase per coordinator comes an *Armageddon* phase with every
replica a standby. It has no Rotate quorum; the protocol ends there.

### Components

| Component (source in `src/src/`) | State | Operations | Talks to | Hard behaviour | Correct if |
|---|---|---|---|---|---|
| Configurations (`avicenna.go` 1715-1800, 2252-2290, 2402-2415, 2986-3200) | configuration tables, RTT table | roles of a phase, quorum test | used by all below | phase arithmetic, Armageddon | each phase has its roles; no quorum leaves Armageddon |
| Ordering, real log (`avicenna.go` 2548-2692, 3477-5436, 5603-5731) | `instanceSpace`, `committedUpTo`, `latestCmdSeen` | batch, propose, Accept, AcceptExecTime, AcceptReply, Commit | peers by messages; batcher by channel; execution by shared memory | message types overtake each other; later and earlier phases' messages | one batch per instance, on a majority; no gap below `committedUpTo` |
| Ordering, mock log (same handlers) | `instanceSpaceMock`, `latestCmdSeenMock`, `globalMaxCommittedGhost` | the same for ghosts | the same | ghost numbering after rotation | mock logs agree; ghosts get committed |
| Rotation (`avicenna.go` 5439-6948) | `phase`, `sentForPhase`, `RotateMessages`, `warmupDone`, timer | bcastRotate, handleRotate, processRotateQuorum, merging the reports | peers by Rotates (a goroutine each) | concurrent suspicions, put-back Rotates, map iteration order, panics half-way | nothing committed is lost; phases left only on a quorum; quorum => everybody moves |
| Slowdown detection (`avicenna.go` 200-1340, 1600-1715) | `TwoHeaps`: four heaps of samples, pending reports | take a report, pair it, compare, suspect, stop | clients and ghost leader by reports; main loop by `slowdownChan`, `stopEva`, `warmupDone` and the shared heaps | two goroutines on unlocked heaps; reports in any order | real and ghost samples are of the same commands; a phase is judged by its own samples |
| Execution (`avicenna.go` 7040-7135, `state`) | `execMap`, the key-value map | executeCommands | reads the log unlocked | dedup keys, stalls | each command once, in log order |
| Generic replica (`genericsmr`, `*marsh.go`) | connections, channels | dispatch, SendMsg, Marshal, Unmarshal | TCP | shared writers, broken connections | messages arrive whole and in order |
| fvc, paxos | `instanceSpace`, ballots | Prepare, Accept, Commit, view change | messages; the master by RPC; execution by shared memory | competing ballots, holes, Commits that overtake Accepts | one value per instance; everybody executes everything once |
| epaxos | a row of instances for each replica, `Deps`, `Seq`, `conflicts` | PreAccept, Accept, Commit, execution by components | messages | message types overtake each other; cycles | conflicting commands are related, and executed in one order |
| mencius | one log, owned in turn | Accept, Skip, Commit, execution out of order | messages | skips that overtake; skipped ranges | conflicting commands are executed in one order |
| master, server | who leads, who answers pings | pings, BeTheLeader; choice of the protocol | RPC | a leader that stops or answers late | one leader takes over |
| copilot, latentcopilot, gpaxos | logs with dependencies, views | fast/slow path, takeover, view change | messages | cycles, takeover | same execution order everywhere |
| clients | load | requests, latency reports | TCP | - | - |

Every component, modelled or not, is listed with its status in `PROJECT.json`,
and every hazard of the code with its line and the properties aimed at it.

## Modules

| Module | Models |
|---|---|
| `AvicennaConfig` | Phase to configuration, roles and quorums, for any `N >= 3` and RTT table. Constants: `N`, `Rtt`. |
| `AvicennaLog` | Pure operators on one replica's logs: when an Accept is taken (`Acceptable`, `Accepted`), the committed prefix, the queue `latestCmdSeen`, what a Rotate reports (`Report`), merging two reports (`Merged`, `MetadataConflict`), applying the merge (`RealAfterRotate`, `MockAfterRotate`), the long Accept. |
| `Avicenna` | The replicas: variables, one action per handler, channels, history variables, all properties. |
| `ReplicatedLog` | What the real log promises: one batch per instance, chosen once, learned for good. |
| `MCAvicenna` | The constants of Avicenna's runs, and two later start states. |
| `Detector` | One replica's evaluator goroutine, the heaps it shares with the main loop, and the main loop as far as it touches them. |
| `GenericReplica` | What the baselines share: channels, client proposals, broadcast order, quorums. |
| `Paxos`, `Fvc`, `Mencius`, `EPaxos` | One baseline each: one action per handler, the goroutines beside the main loop, and execution into a history `log`. `Fvc` takes from `Paxos` what the code copied. |
| `Master` | The master's rounds of pings and its choice of a leader. |
| `Server` | A cluster: the master and the servers with the protocol that the flags name; the promises of all baselines. |
| `WireLayouts` | The form of each of the 97 messages that have a code, and Marshal and Unmarshal over those forms. |
| `Wire` | One direction of a connection: senders, lock, `bufio.Writer`, bytes, listener, broken connection. |
| `MCServer`, `MCWire`, `MCDetector` | The constants of their runs. |
| `AvicennaLogProofs` | Lemmas: what the operators of `AvicennaLog` return. |
| `AvicennaTypeProofs` | `Spec => []TypeOK`, one lemma per action. |
| `AvicennaProofs`, `ReplicatedLogProofs` | The theorems about rotation and about the abstract log. |
| `AvicennaOrderProofs` | Lemmas: the traffic and the real log in phase 0. |
| `AvicennaMockProofs` | Lemmas: the mock log in phase 0, and what `globalMaxCommittedGhost` promises. |
| `AvicennaPhaseProofs` | The theorems about phase 0, with Rotates under way, and what the quorum that ends it hands over. |
| `DetectorProofs` | The types of the detector and its four invariants. |

`Avicenna` EXTENDS `AvicennaLog` EXTENDS `AvicennaConfig`, and shows that it
implements the abstract log by `Log == INSTANCE ReplicatedLog WITH chosen <- chosen,
learned <- learned`, both defined from its own state. `Server` composes `Master`
with an INSTANCE of each baseline over the state that `GenericReplica` declares.
`Detector` and `Wire` stand beside `Avicenna`: the first makes the suspicions
that `Avicenna` takes as input, the second is why a connection with one writer
delivers whole messages in order. All connections between replicas have one writer
but for Avicenna's during a rotation, when goroutines send the Rotates beside the
main loop, and fvc's during a view change; there the channels of the models
assume it ([below](#where-the-passing-runs-stop-short)).

### State and actions against the code: Avicenna

| TLA+ | Code |
|---|---|
| `phase`, `sentForPhase`, `rotateMessages` | the fields of Replica; `rotateMessages[r]` maps a sender to its reports (`RotateMessages` and `RotateMessagesMock`, cleared together) |
| `instanceSpace`, `instanceSpaceMock` | entries `[status, cmds, accepts]`; `NilInstance` is a nil pointer, status `NULL` the filler of `createInstance` |
| `batchedCmdsChan`, `acceptChan`, ... | the Go channels with the TCP stream behind them, per sender: a put-back is placed behind any number of messages of the same sender, because those may have arrived already |
| `rotateChan` | a set: Rotates have no order, and a put-back one is just not removed |
| `panicked` | which sanity check stopped the process |
| `rotated`, `votes`, `decided` | history: Rotates sent, AcceptReplies sent for the real log, commits made by the coordinator on replies. No action reads them |
| `ClientBatch`, `HandleProposeBatch` | batcher() 1996, hangleProposeBatch() 3477 |
| `RealAccept`, `MockAccept`, `MockAcceptAhead`, `AcceptIgnored` | handleAccept() 4710 and both halves |
| `RealAcceptExecTime`, `MockAcceptExecTime`, `AcceptExecTimeAhead`, `AcceptExecTimeIgnored` | handleAcceptExecTime() 4975 |
| `RealAcceptReply`, `MockAcceptReply`, `AcceptReplyIgnored` | handleAcceptReply() 5107 with commit() and the broadcast |
| `RealCommit`, `MockCommit` | handleCommit() 5713 |
| `Suspect` | the suspicion or timer case of run() 2560 with bcastRotate() |
| `HandleRotate`, `RotateAhead`, `RotatePanics` | handleRotate() 6798: same phase without a quorum; later phase; a Rotate or merge on which it panics |
| `CompleteRotation` | handleRotate() with processRotateQuorum(), goToNextPhase and the long Accept, in one step because the code does it in one handler |

Four choices of `Avicenna`'s code or environment are nondeterministic: the order in
which Go iterates the merged reports (`Orders`), whether `warmupDone` lets a
bcastRotate through (`sends`: a goroutine resets the flag unsynchronised), when
a suspicion comes (`Suspect`), and the position of a message put back
(`PutBack`).

### State and actions against the code: the detector

| TLA+ (`Detector`) | Code (`avicenna.go`) |
|---|---|
| `th.real`, `th.mock`, `th.realEndToEnd`, `th.mockEndToEnd` | the four `ClientLatencyHeap`s: the set of samples and `latestCmdId` of each client; removal by time (`Cleanup`) takes any prefix of the window, since the clock is not modelled |
| `th.pendingReal`, `th.pendingMock`, `th.receivedOne` | the maps of reports that wait for their counterpart |
| `eva` | where `evaluateRealAndGhost` (1600) is: before its first select (`poll`), before its second (`select`), in the list of execution times (`more`), adding to the heaps (`push`), at `slowdownChan <- r.phase` (`send`) |
| `main` | where the main loop is with respect to the heaps: blocked on `stopEva <-` in bcastRotate (`stop`), between the quorum of Rotates and its own `clear()` (`clear`) |
| `CommitLatencyFeedback`, `ClientRealE2ELatency`, `GhostExecLatency` | the cases of the second select, with objectiveFunctionCommit, objectiveFunctionRealE2E, objectiveFunctionGhostExec and checkPendingAndAddEndToEnd |
| `HeapPush`, `CheckIfRotate`, `Suspect` | the pushes, one at a time because the main loop's `clear()` may fall between them; the comparison; the report |
| `HandleSlowdown`, `ProgressTimer`, `HandleRotate`, `GoToPhase`, `SkipPhase`, `WarmupEnds` | run() and handleRotate() as far as they touch the heaps, the phase and `warmupDone` |

A timestamp is the rank of a sample. Clients report latencies in the order of
their commands, except COMMIT_LATENCY_FEEDBACK, which a client sends in a goroutine
for each. `sent`, `told`, `recorded` and `skipped` are history.

### State and actions against the code: the baselines

`replica[r]` is the record of r's Replica fields; an action is a case of run()'s
select, a goroutine's step (in `Fvc` `Batch`, and from `StartViewChange` to `ProposeHole` one
action for each access of startViewChange to what it shares with the main loop) or one instance of `executeCommands` (`Execute`; in
`Mencius` one pass of its loop, in `EPaxos` one component found by
`Strongconnect`). `net` maps a channel, that is a message type and two replicas,
to the messages in it, because RegisterRPC gives each type a Go channel: messages of
one type stay in order between two replicas, and that is all. `crashed` replicas
take no steps and nobody notices but the master.

In `Mencius` a Skip is in its sender's writer (`unflushed`) until a message to the same
replica, or a timer (`HandleDelayedSkip`), flushes it.

Two fields of `flags` bound what may go wrong in a cluster. `outages`: `stop` (the
first leader stops when its successor has what it committed: in Multi-Paxos it has
committed all it proposed and its successor has all its messages, in fvc its successor has
learned what it committed), `crash` (it stops at any time), `slow` (the master takes a
late ping for a dead leader). `prompt`: the main loop of fvc takes no step while
startViewChange runs.
`Elections` bounds how many leaders the master makes.

### State and actions against the code: connections

`WireLayouts` gives each message as a sequence of items, in the order in which
its Marshal and Unmarshal in `*marsh.go` go through the fields: scalars put
into one buffer, a nested message, an array after its length. A byte has
`Base` values instead of 256, so that a 32-bit integer has `Base^4`; what the
forms keep is the number of bytes, signs, lengths in varints or in 8 bytes, and
which errors the reader drops.

In `Wire`, a goroutine begins a message (the code byte), makes its writes one at a
time and finishes with a flush, or without one (SendMsgNoFlush). `Listen` is one turn of
replicaListener or of the client's reader: it takes what follows as the next message,
whatever it is. `Cut` breaks the connection after any byte that was on its way.

### Abstractions

* A command is a pair `<<client, number>>`; a batch is a set. The order inside a
  batch never changes a protocol decision.
* In `Avicenna` and the baselines, messages are neither lost nor duplicated by TCP; there is no reconnection
  code. A crashed or slow replica is one that takes no more steps, which
  safety properties allow at any point. Nothing is read back from disk (sync
  writes only), so restarts do not exist.
* Left out, as no control flow modelled here depends on it: the `doGhost` flag,
  client notifications and replies, execution-time payloads, statistics, RTT
  exchange. `globalMaxCommittedReal` is always 0 in the code and `crtInstance`
  is always the first nil instance, so neither is a variable.
* Rotates of earlier phases are dropped by handleRotate without effect; the
  model removes them once stale.
* Flags keep the values in the source: `SANITY_CHECK` on, `BYPASS_LATEST_SEEN`
  and `SORT_RTT` off, `ARBITRARY_STANDBY_NO_ROLE` on.

## Properties

`Avicenna`, safety: `Agreement`, `MockAgreement` (no two replicas commit different batches
as one instance), `CommitHasQuorum` (what is committed on replies was accepted
by a majority in that phase with those commands), `ChosenIsKept` (the
coordinator of a later phase has every instance committed before),
`ChosenIsMerged` (whichever Rotates make up the quorum that ends phase 0, merging
their reports does not panic and keeps every committed instance with its commands),
`ExecutablePrefix` (all instances up to `committedUpTo` are committed),
`PhaseBacked` (a phase is left only on a quorum of Rotates),
`ArmageddonIsTerminal`, `NoPanic`. Action properties: `NoVoteAfterRotate` (what a
Rotate reports is all its sender ever accepts in the phase),
`CommittedIsStable`. Refinement: `ImplementsLog`. Liveness: `BatchesGetExecuted`,
`GhostsGetCommitted`, `RotationCompletes`.

`Detector`: `Paired` (outside an addition, the real and the ghost heaps hold
samples of the same commands, taken at the same time in the same phase, and the code's sanity
check never fires), `GhostEndToEnd` (a ghost end-to-end latency is the sum of the
command's two reports, in whichever order they came), `Recorded` (a command
whose reports were all evaluated was compared), `EvidenceOfPhase` (a phase is
never suspected on samples of another).

`Server`, for all baselines: `Agreement`, `CommittedForGood`, `OneOrder` (any two
replicas execute conflicting commands in one order), `Related` (EPaxos: of two
committed instances that conflict, one depends on the other), `Settled` (at rest,
everybody has executed every command that was taken, once; for fvc, which drops
commands in a view change, everybody has executed the same).

`Wire`: `Intact` (what arrives is a prefix of what was sent), `Complete` (at rest
nothing stays in a buffer), `CutShort` (a broken connection costs the last
message at most the contents of its nested fields).

## Runs

Module `MCAvicenna`, all with three replicas and equal RTTs:

| Run | Instance and bounds | Checks |
|---|---|---|
| `normal` | two clients, one ghost, at both leaders; 2 instances; phase 0 | TypeOK, MockAgreement, CommitHasQuorum, ExecutablePrefix, NoPanic, ImplementsLog |
| `live` | one command that is a ghost, both leaders; phase 0; fairness | BatchesGetExecuted, GhostsGetCommitted |
| `rotation` | one command at replica 0; replica 1 suspects phase 0 once; 2 instances, 2 phases | PhaseBacked, Agreement, ChosenIsKept, ChosenIsMerged, CommitHasQuorum, ExecutablePrefix, NoVoteAfterRotate, ImplementsLog |
| `ghost` | one ghost command at replica 1, otherwise as `rotation` | MockAgreement, Agreement |
| `catchup` | from `FirstCommitted`; replica 1 suspects phase 0, replica 0 phase 1 | PhaseBacked, ExecutablePrefix, CommittedIsStable |
| `cycle` | phases 0 .. 4 (Armageddon is 3); anyone suspects any phase, once; no commands on the way, one in Armageddon | PhaseBacked, ArmageddonIsTerminal |
| `split` | as `rotation` with two clients | Agreement **violated** |
| `erased` | as `rotation`, the command also a ghost | ExecutablePrefix **violated** |
| `stuck` | no commands, each replica may suspect phase 0; fairness | RotationCompletes **violated** |

The other modules, in `MCServer`, `MCWire` and `MCDetector`:

| Run | Instance and bounds | Checks |
|---|---|---|
| `baselines` | eight clusters, see below; at most one change of leader | Settled, Agreement, OneOrder, Related, CommittedForGood |
| `wire` | each message alone with its arrays empty and with two elements, followed by a beacon; Mencius's skips without a flush; three goroutines that answer one client | Intact, Complete, CutShort |
| `detector` | one client with 3 commands, one latency on each side (just enough for a suspicion), execution times 0 and 2, heaps full at 2 samples, 2 phases | Paired, GhostEndToEnd, Recorded, EvidenceOfPhase |

Why these bounds. Three replicas have the two overlapping majorities and the
slow third one that the hard cases need, and a Rotate quorum that excludes
one replica. Two instances are what gaps, filling and the order of merged
reports need. Two phases have a rotation with messages of the old phase
arriving in the new one; `catchup` and `cycle` have the longer sequences, without
much traffic so that they stay small. `MaxInst`, `MaxPhase`, `Arrivals` and
`Suspicions` are the only bounds: the last two say which commands get through
to whom and which detectors may fire. Actions that would exceed a bound are
disabled.

`CHECK_DEADLOCK FALSE` is set throughout: commands and suspicions are finite,
so the system rightly comes to rest.

The start states `FirstCommitted` and `AllInArmageddon` are quiescent states of
the program (one command committed by all in phase 0; a full cycle without
commands) that lie behind too many others to start from `Init`. The first
equals what `normal` reaches with one client; the second what `cycle`'s own
other half rotates towards.

What three replicas do not show: with `N = 3` there are no standbys outside
Armageddon and one reply makes a majority, so counting one replica's reply twice
is harmless. `N >= 5` is out of reach of these runs; the theorems cover it (`AcceptsAreBacked`
below is about just that).

The clusters of `MCServer` have three replicas, 4 instances and commands that all write
one key. Those of the run `baselines` are
Multi-Paxos, thrifty with answers at commit and not thrifty with
answers at execution, one command for the first leader and one for either; fvc with
the same commands while replica 2 is down, and with one command for each leader;
Mencius with two owners
proposing, so that the third skips; EPaxos with two commands at one leader, with
thrifty quorums and at two leaders, and with three commands at two leaders while
replica 2 is down. Where there is
an outage it is `stop`: the leader change meets a log with committed instances, in fvc
also with uncommitted ones, and messages of the old leader on their way. With one
leader before it, instances are committed in their order and learned so, so a second
command there would add no other holes. The flags are a variable with one initial state for
each cluster, so that a run covers several; the protocol's own actions are
enabled by them. Two leaders with conflicting commands are what makes
EPaxos's slow path and cycles, and Mencius's skips; three commands are needed for a
dependency that one acceptor has and another has not.

In `wire`, `Base = 4` is the least that tells a varint of one digit from one of
two, and 16 bytes of buffer are less than most messages, so that they leave it
in parts.

In `detector`, three commands are one that only counts as the first since the
heaps were cleared, and two that make heaps of `MaxLen`. `RealLat` is a latency
of 10 s: `checkMin` compares microseconds with `REQUIRED_TOTAL_IMPROVEMENT`, a
`time.Duration` in nanoseconds, so with less the evaluator suspects nothing (and
the rule on the maxima needs an improvement of ten times the larger latency). The
samples' numbers matter to nothing else. `Leads = {}`: a coordinator
ignores the reports, as does a replica whose `warmupDone` is false, which the
run has.

Fairness (`FairSpec`): weak fairness of every receive action, of the batcher and
of the hand-over to the main loop. Go's select picks uniformly among ready
channels, so a channel that stays ready is served. There is none for `Suspect`:
nothing obliges a detector to fire.

### What the violations show

* **split**: `processRotateQuorum` iterates a Go map, so in any order, and before
  it handles instance `i` it fills every nil instance up to `i` with a `NULL`
  entry. If `i = 1` comes first, instance 0 is `NULL` and its COMMITTED report
  matches no branch. The new coordinator proposes an empty batch for instance
  0 and commits it, while the old one has committed the client's command there.
  One in-flight instance (run `rotation`) is safe.
* **erased**: the loop over the mock reports creates a missing entry in
  `instanceSpace` instead of `instanceSpaceMock` (6557) and may overwrite a
  committed real instance. For the same reason `ImplementsLog` does not hold in
  the instance of `ghost` (a replica forgets what it learned), which checks the
  weaker `Agreement`.
* **stuck**: `bcastRotate` discards what `trackRotate` returns (5600). A replica
  whose own Rotate completes the quorum stays behind in a phase it no longer
  serves. It sends no Rotate for that phase again (suspicions and the timer ask
  `!sentForPhase`, 2560-2582); only a later rotation whose Rotates overlap the
  stuck replica's committed log frees it.
Each is a scheduling of the modelled code, not of a simplification: the traces
are 12, 8 and 7 steps long.

### Where the passing runs stop short

These bounds keep a run on the side of the code where its properties hold. Each
was tried on the other side as well:

* **When a leader stops** (`stop`: the new one has received all that it sent and
  learned what it committed). With `crash` it stops at any moment, and `Agreement` fails:
  * Multi-Paxos, cluster `Takeover`, 12 steps: `handlePrepare` makes the ballot of another's
    Prepare the own default (481-483), and a new leader proposes with it, asking
    nobody (445-456). Replica 0 commits a batch in instance 0 with replica 2 and stops;
    replica 1, which has only its Prepare, proposes another there with ballot 0,
    and replica 0's CommitShort commits it. In thrifty clusters the late Accept of
    replica 0 overwrites what replica 1 has committed (516-522: "reordered ACCEPT"),
    which breaks `CommittedForGood` as well.
  * fvc, cluster `ViewChange`, 19 steps: `startViewChange` prepares a new instance only and
    proposes empty batches for the holes below it. Replica 0 commits a batch with
    replica 2's accept and stops before its Commit arrives; replica 1 fills the instance,
    replica 2 accepts, and replica 1 commits the empty batch. The comment (817-819)
    calls it legal because "we can accept a higher proposal"; it is higher, but what was
    accepted before has to be learned first.
  * fvc with `slow` (the master takes replica 0 for dead because it answers late): 16 steps,
    with two leaders. Replica 0 accepts replica 1's empty batch and commits
    it on a reply to its own earlier proposal, as `handleAcceptReply` compares no ballots (1080).
* **How long startViewChange takes** (`prompt`: once the goroutine runs, its main loop
  rests until it has finished). It does little, and nothing that waits but for
  the peers' sockets, so it is mostly through before the main loop has anything to propose.
  But nothing in the code makes it so. In the cluster `Race`, without `prompt`, the loop at
  810-828 finds an instance that the new leader has just proposed for its clients
  uncommitted; the main loop commits it; the goroutine overwrites it with the empty batch,
  with the same ballot. One replica commits the one, another the other: `Agreement` and
  `CommittedForGood` fail (28 and 16 steps).

  These clusters are in `MCServer`: `Flags <- Takeover` (or `ViewChange`, `Race`) in
  `baselines.cfg`, with the property in question alone, shows each trace.
* **A rotation longer than ROTATION_DELAY** (`Timely = FALSE`). Then `warmupDone`
  is set again before the main loop leaves the phase, the evaluator adds to the
  heaps while the main loop clears them, and the clear may fall between the
  push into the real and the one into the mock heap. `Paired` fails in 12
  steps, with the code's panic on heaps of different lengths.
* **An execution that took 0 microseconds.** `checkPendingAndAddEndToEnd` asks
  `execTime > 0` where 0 is a legal value, and loses the pair in some orders.
  `Recorded` leaves these commands out.
* **EPaxos instances with equal Seq in one component.** `nodeArray.Less` compares
  Seq alone, so replicas may execute them in different orders, by how their
  traversals came to them. `OneOrder` leaves out such pairs (`Tied`).
* **`-thrifty` with fvc or Mencius.** fvc's bcastCommit then sends Commits to `N >> 1`
  peers and to nobody else, and Mencius's Commit carries no command for those who
  were not sent the Accept: the others never execute. `Settled` fails in 11
  and 9 steps. (Multi-Paxos and EPaxos send them a full Commit.)

Likewise `Wire` has one writer for each connection between replicas. Avicenna's Rotates are
sent by a goroutine per peer without the lock, on the same `bufio.Writer` as the main
loop, and so are the messages of fvc's startViewChange; two such writers break `Intact`,
which is what the run's mutant of the client's lock shows.

## Proofs

Those about `Avicenna` hold for every `N >= 3`, RTT table, set of commands and value of the bounds.

`AvicennaProofs`:

* `RotationInvariant`: `Spec => []RotationInv`. `PhaseBacked` alone is not
  inductive: nothing ties the Rotates a replica has collected, or those in
  flight, to what was sent. `RotationInv` adds that: `InFlightWasSent` (a Rotate
  in `rotateChan` is in the history), `CollectedWasSent` (senders in
  `rotateMessages[r]` sent one for r's phase) and `RotatedIsPast` (a Rotate is of a
  phase its sender has reached, and while the sender is in that phase it is
  marked `sentForPhase`). The argument: a quorum r completes is a set of
  collected senders, all of them in the history, and quorums are monotone
  (`QuorumMonotone`), so the phase r leaves is backed. A jump to phase p on
  one Rotate of s is backed because s had reached p itself, with every phase
  below it backed. Actions fall into those that only track Rotates
  (`TracksKeeps`) and those that move a replica (`MovesKeeps`); the rest leave the
  rotation's variables alone.
* `PhasesAreBacked`, `ArmageddonTerminates`: corollaries; for the second,
  `NoQuorumInArmageddon` says no set of senders is a quorum for phase N.
* `RotatedReplicasDoNotVote`: `Spec => NoVoteAfterRotate`. Each action that votes
  has `Serving` as its guard, and by `RotatedIsPast` a serving replica has sent no
  Rotate for its phase (`ServesNoRotatedPhase`); votes are cast in the phase of
  the voter.

`ReplicatedLogProofs`: `LogIsConsistent`, by the inductive invariant "one batch
for each chosen instance, and learned batches were chosen".

`AvicennaTypeProofs`: `TypesCorrect`, `Spec => []TypeOK`. `TypeOK` is inductive as it
stands. The work is in the choices the operators make (`NextNil`,
`CommittedPrefix`, `Ascending`, `GlobalMaxFrom`, `Until`, `FirstOf`): each has a value of
its type only if a candidate exists. `AvicennaLogProofs` shows that there is
one, from the least-element lemmas (`LeastNatural`, `LeastInteger`,
`GreatestNatural`, by well-foundedness of `<` on the naturals) applied to the
positions at which the search may stop; `AscendingExists` takes a smallest set without
an ascending enumeration and removes its largest element. From there, the
types go through each report, merge and long Accept to every action.

`AvicennaPhaseProofs` is about phase 0: what holds as long as no replica has left it
(`FirstPhase`), however many of them are suspected, have sent their Rotates and
stopped serving, and whatever Rotates have been collected. That
condition is not a convenience: `split` and `erased` show that `Agreement` and
`ExecutablePrefix` fail once a replica has left the phase, so this is the
longest stretch on which they can hold. It is not a small one either: run
`normal` reaches 186,000 states of it at `N = 3`, without a Rotate.

`FirstPhaseOrder` is `Spec => [](FirstPhase => PhaseZeroInv)`, where `PhaseZeroInv` is
inductive and has six parts. The first four are established in `AvicennaOrderProofs`
and `AvicennaMockProofs`, one lemma per handler.

* `Traffic` says what phase 0 puts in which channel: only replica 0 sends Accepts and
  Commits of the real log and only replica 1 those of the mock log, only to those
  `bcastAccept` reaches, and nothing but Rotates is of a later phase.
* `RealInv` is in two halves. `Ordering` ties the channels to the logs: the
  coordinator's instances are a row without holes (`CoordinatorLog`), a follower's
  channel holds exactly the last proposals in order (`ProposalsInOrder`), so what it
  was given, it has (`FollowersKeepUp`); votes and the replies under way are of such
  proposals, each follower's replies in ascending order
  (`VotesForProposals`, `RepliesInOrder`); and `accepts` never exceeds the number of
  followers whose vote for it has been counted (`AcceptsAreBacked`). The last
  is why the order matters: `handleAcceptReply` counts replies and not repliers,
  and it is only the FIFO channel with at most one reply per instance that makes the
  count a number of replicas. `Deciding` is `CommitHasQuorum`, `ExecutablePrefix` and
  the fact that commits everywhere and on their way are the coordinator's
  (`DecidedIsCommitted`, `CommitsWereDecided`, `CommittedAsDecided`).
* `MockInv` says of the ghost log that what its coordinator has under way is about
  instances of its own log, and that whatever is committed there it committed first.
* `GhostInv` is what `bcastRotate` trusts when it makes an array from
  `globalMaxCommittedGhost` to the largest mock instance. The Accepts that wait for a follower
  and its replies under way rise in instance (`InTurn`, `PendingInTurn`), so the
  replies to an instance are counted after those to the instances below it
  (`CountIsRight`). Hence the mock coordinator commits in instance order, and a follower
  that learns a `globalMaxCommittedGhost` has been told of everything below it, or is told
  first (`Told`).
* `Recorded`: an accepted entry is what replica 0 proposed there, and whoever voted
  still has the entry it voted for.
* `ReportsAreLogs`: a Rotate in `rotateChan` or in `rotateMessages` reports the log that
  its sender has now, not only had when it sent: its sender has `sentForPhase`
  set and serves nothing more in the phase.

From these follow

* `AgreementInPhaseZero`, `QuorumsInPhaseZero`, `PrefixInPhaseZero`, `MockAgreementInPhaseZero`:
  `Agreement`, `CommitHasQuorum`, `ExecutablePrefix` and `MockAgreement`.
* `NoPanicInPhaseZero`: `Spec => [](FirstPhase => NoPanic)`. A reply finds its instance,
  a Commit has as many commands as what was there (`Traffic`, `MockInv`), no standby has
  accepted anything, and no Rotate makes an array of negative length (`GhostInv`).
  This includes the rotation that ends the phase: merging reports of one log each, and
  matching them with the replica's own entries, meets no conflict (`CompletionLeaves`).
* `CommittedStaysInPhaseZero` (`CommittedIsStable`) and `PhaseZeroImplementsLog`
  (`ImplementsLog`) are about whole behaviours, so they assume one that stays in the
  phase (`[]FirstPhase`). Each handler changes the logs by one of the effects
  that `RealEffect` lists; each effect is a `Choose`, a `Learn` or a stutter of
  `ReplicatedLog`.
* `RotatesMeetMajorities`: in every phase but Armageddon, and for every `N`, two Rotates of
  replicas that are not standbys and any majority of replicas that are not standbys
  have a replica in common. `gotRotateQuorum` asks for two however large `N` is; they
  are enough because a phase has at most one acceptor more than a majority needs.
* `PhaseZeroIsHandedOver`: `Spec => []ChosenIsMerged`. By `RotatesMeetMajorities` one of the
  Rotates comes from a replica that voted for the instance; it still has it
  (`Recorded`) and reports it (`ReportsAreLogs`). All reports agree where two have
  an entry, and the merge of agreeing reports keeps each entry in
  whatever order it is done (`AvicennaLogProofs`, "Reports that agree").
  What `processRotateQuorum` then makes of the merge is another matter: `split` shows it lose
  one of two instances.

`DetectorProofs` is about `Detector`, for any clients, latencies, heap length and
number of phases.

* `DetectorTypes`: `Spec => []TypeOK`, with heaps that are finite sets of dated
  samples, so that a window (`Recent`) always has a first and a last.
* `PairedAlways`, `EvidenceOfPhaseAlways`: by `HeapInv`. Neither property is inductive:
  a pair goes into the heaps by two pushes, with steps of the main loop between.
  `Consistent` says that the pushes left are in pairs (`InPairs`), that the real heap is
  the ghost heap plus the one push still due (`InStep`), and that no two samples are of
  one time (`Dated`), which is what makes the windows of both heaps the same.
  `Stopped` is the hand-shake: after `stopEva` was received the evaluator has
  nothing left to push until the main loop is through with the heaps and
  `warmupDone` is set again.
* `GhostEndToEndAlways`, `RecordedAlways`: by `ReportInv` on top of it. A report
  waits in the pending maps with the others on its command until the last of
  them comes (`Kept`), what waits and what was pushed are sums of what was told
  (`Summed`), and pushes are newer than anything in their heap (`Latest`).

All four are for `Timely`, that is if no rotation outlasts ROTATION_DELAY: otherwise
`Paired` fails, as said above. The rest of the behaviour is not restricted.

Each inductive invariant was first given to TLC as an invariant of a run: the parts of
`PhaseZeroInv` on `normal` (all 186,000 states at `N = 3`, also with suspicions, and
part of `N = 5`), `HeapInv` and `ReportInv` on `detector` (all 2.9 million states).

Assumptions: only the named ASSUMEs of the modules (`N`, `Rtt`, `MaxInst`, the
bounds, and `NilAssumption`: the absent latency is not a number), which TLC
evaluates in every run.

Model-checked only:

* `Avicenna` once a replica has left phase 0, but for `PhaseBacked`, `ArmageddonIsTerminal`,
  `NoVoteAfterRotate` and `TypeOK`, which are proved without a condition.
  `CommitHasQuorum` and `MockAgreement` are checked there on small
  instances, and so is `ChosenIsKept`: that the merge has what was chosen is proved
  (`PhaseZeroIsHandedOver`), that the new coordinator's log keeps it is not, and
  with more than one instance under way it is false.
* The baselines (`Server`): `EPaxos` and `Mencius` use recursive operators, which the
  proof system cannot handle, and `Server` instantiates both.
* `Wire`: reading back what was written is an induction over the layout of a
  message, also beyond the proof system.
* Liveness under fairness (`live`, `stuck`).

## Plan

Done: configurations, both logs, rotation and the abstract log; the detector; the
baselines Multi-Paxos, fvc, Mencius and EPaxos with the master; the wire. Proved:
type correctness and the rotation invariant of Avicenna, the order of both
logs in phase 0 with the refinement of the abstract log, what the first rotation
hands over, and the detector's types and invariants.

Theorems still to prove:

1. `ChosenIsKept` for rotations whose merge has one instance, by way of
   `processRotateQuorum`; and `CommitHasQuorum` in later phases.
2. `Paxos` alone, with one leader: what is committed was accepted by a majority.

## Not modelled

* **Copilot, Latent Copilot, Generalized Paxos**: only their messages
  (`WireLayouts`). A Copilot instance needs two logs with dependencies at
  three replicas, two pilots with takeovers and a view manager before the
  interesting cases happen.
* **Recovery in EPaxos** (Prepare, TryPreAccept) and **takeovers in Mencius**
  (forceCommit): both start from a silence of seconds. What only they reach
  (ballots above the first, refusals) is left out of those modules, as their
  headers say.
* **Avicenna's execution and replies.** What executeCommands relies on is checked
  (`ExecutablePrefix`, `CommittedIsStable`); its `execMap` and its stop at nil commands
  are listed under hazards.
* **Parts of the detector**: the reports `*AtLeast` (switched off), the objective
  functions that `OBJ` does not select, the artificial slowdowns for experiments.
* **Clients**, which are inputs; **registration** with the master and the
  **RTT exchange** at start-up, which is replaced by an arbitrary table.
* **Durable writes**: nothing is ever read back, so there is no restart.
* **Caches of message objects** and `BinarySize` in the generated code; the
  statistics package; scripts and plots.
