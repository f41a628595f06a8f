------------------------------- MODULE Detector -------------------------------
(***************************************************************************)
(* Avicenna's slowdown detection at one replica (src/src/avicenna/         *)
(* avicenna.go): the goroutine evaluateRealAndGhost compares the latencies *)
(* of the real and of the ghost log, reported by clients and by the ghost  *)
(* leader, and tells the main loop run() to rotate.  The two share the     *)
(* TwoHeaps, which no lock protects; bcastRotate stops the evaluator       *)
(* through warmupDone and the unbuffered channel stopEva.                  *)
(*                                                                         *)
(* A heap is the set of its samples.  A timestamp is the rank of a sample  *)
(* in the window.  The reports *AtLeast are not modelled: the client sends *)
(* none (ENABLE_AT_LEAST_TIMER).                                           *)
(***************************************************************************)
EXTENDS Integers, Sequences, FiniteSets, FiniteSetsExt

CONSTANTS
    Clients,
    MaxOp,              \* bound: commands of a client
    RealLat, GhostLat,  \* bound: the latencies measured, in microseconds
    ExecTime,           \* bound: execution times, in microseconds
    MaxLen,             \* TwoHeaps.maxLen
    SlowdownChanSize,   \* SLOWDOWN_CHAN_SIZE
    MaxPhase,           \* bound
    Leads,              \* phases in which this replica is the coordinator
    Timely,             \* ROTATION_DELAY outlasts a rotation
    Nil

ASSUME DetectorAssumption ==
    /\ MaxOp \in Nat /\ MaxPhase \in Nat /\ MaxLen \in Nat
    /\ RealLat \union GhostLat \subseteq Nat \ {0}
    /\ ExecTime \subseteq Nat
    /\ Timely \in BOOLEAN

\* a latency that is not known is none
ASSUME NilAssumption == Nil \notin Nat /\ Nil \notin [lat : Int, exec : Int]

Cmd == [client : Clients, op : 1 .. MaxOp]

VARIABLES
    phase, sentForPhase, warmupDone, slowdownChan,
    main,       \* where run() is: between events ("run"), at stopEva ("stop",
                \* "stopThenClear"), or past a quorum of Rotates ("clear")
    th,         \* the TwoHeaps
    eva,        \* where the evaluator is
    sent,       \* the reports that have come, by kind and command
    told,       \* history: those evaluated since the heaps were cleared
    recorded,   \* history: the commands compared since then
    skipped,    \* history: a phase was skipped
    panicked

rotation == <<phase, sentForPhase, main, skipped>>
history == <<sent, told, recorded>>
vars == <<rotation, warmupDone, slowdownChan, th, eva, history, panicked>>

EmptyHeap == [samples |-> {}, latestCmd |-> [c \in Clients |-> 0]]

Cleared ==
    [real |-> EmptyHeap, mock |-> EmptyHeap,
     realEndToEnd |-> EmptyHeap, mockEndToEnd |-> EmptyHeap,
     pendingReal |-> [c \in Cmd |-> Nil], pendingMock |-> [c \in Cmd |-> Nil],
     receivedOne |-> {}]

\* the evaluator between two evaluations
At(pc) == [pc |-> pc, todo |-> <<>>, compare |-> FALSE, heaps |-> "commit",
           next |-> "poll", evidence |-> {}]

NothingTold == [c \in Cmd |-> [commit |-> Nil, real |-> Nil, exec |-> Nil]]

Init ==
    /\ phase = 0 /\ sentForPhase = FALSE /\ warmupDone = FALSE /\ slowdownChan = <<>>
    /\ main = "run" /\ th = Cleared /\ eva = At("poll")
    /\ sent = {} /\ told = NothingTold /\ recorded = {} /\ skipped = FALSE
    /\ panicked = FALSE

Clear == th' = Cleared /\ told' = NothingTold /\ recorded' = {}

-----------------------------------------------------------------------------
(* The two heaps *)

\* checkIfNewer
Newer(heap, c) == c.op >= heap.latestCmd[c.client]

Now(t) ==
    Max({0} \union {s.time : s \in t.real.samples \union t.realEndToEnd.samples})
        + 1

\* A latency waits in todo to be pushed; commands are compared in pairs.
Push(h, c, lat, time) ==
    [heap |-> h, sample |-> [cmd |-> c, lat |-> lat, time |-> time,
                             phase |-> phase]]

PushBoth(c, real, ghost, time) ==
    <<Push("realEndToEnd", c, real, time), Push("mockEndToEnd", c, ghost, time)>>

\* the outcome of adding a report: the rest of the heaps, what to push, and
\* whether to compare
Added(t, todo) == [th |-> t, todo |-> todo, compare |-> TRUE, panic |-> FALSE]
Waiting(t) == [Added(t, <<>>) EXCEPT !.compare = FALSE]

AddBoth(t, c, real, ghost) ==
    IF Newer(t.mockEndToEnd, c)
    THEN [Added([t EXCEPT !.pendingReal[c] = Nil, !.pendingMock[c] = Nil],
                PushBoth(c, real, ghost, Now(t)))
            EXCEPT !.panic = ~Newer(t.realEndToEnd, c)]
    ELSE Waiting(t)

\* mutant: a latency that waits for the ghost log is forgotten
AddRealForgotten(t, c, lat) ==
    LET m == t.pendingMock[c]
    IN  IF m = Nil THEN Waiting([t EXCEPT !.pendingReal[c] = lat])
        ELSE IF m.exec > 0 /\ m.lat > 0 /\ Newer(t.realEndToEnd, c)
        THEN Added([t EXCEPT !.pendingMock[c] = Nil],
                   PushBoth(c, lat, m.lat, Now(t)))
        ELSE Added(t, <<>>)

\* checkPendingAndAddEndToEnd of the latency that a client saw
AddReal(t, c, lat) ==
    LET m == t.pendingMock[c]
        newer == Newer(t.realEndToEnd, c)
    IN  IF m = Nil THEN Waiting([t EXCEPT !.pendingReal[c] = lat])
        ELSE [(IF ~newer THEN Added(t, <<>>)
               ELSE IF m.exec > 0 /\ m.lat > 0
               THEN Added([t EXCEPT !.pendingMock[c] = Nil],
                          PushBoth(c, lat, m.lat, Now(t)))
               ELSE Added([t EXCEPT !.pendingReal[c] = lat], <<>>))
                EXCEPT !.panic = newer /\ ~Newer(t.mockEndToEnd, c)]

\* ... of the ghost leader's execution time
AddExec(t, c, exec) ==
    LET m == t.pendingMock[c]
        lat == IF m.exec < 0 THEN m.lat + exec ELSE m.lat
    IN  IF m = Nil
        THEN Waiting([t EXCEPT !.pendingMock[c] = [lat |-> -1, exec |-> exec]])
        ELSE IF t.pendingReal[c] = Nil
        THEN Waiting([t EXCEPT !.pendingMock[c] = [lat |-> lat, exec |-> exec]])
        ELSE AddBoth(t, c, t.pendingReal[c], lat)

\* mutant: the execution time that came first is not added
AddGhostCommitAlone(t, c, lat) ==
    LET m == t.pendingMock[c]
    IN  IF m = Nil
        THEN Waiting([t EXCEPT !.pendingMock[c] = [lat |-> lat, exec |-> -1]])
        ELSE IF ~(m.exec > 0 /\ m.lat < 0) THEN Waiting(t)
        ELSE IF t.pendingReal[c] = Nil
        THEN Waiting([t EXCEPT !.pendingMock[c].lat = lat])
        ELSE AddBoth(t, c, t.pendingReal[c], lat)

\* ... of the ghost log's commit latency
AddGhostCommit(t, c, lat) ==
    LET m == t.pendingMock[c]
    IN  IF m = Nil
        THEN Waiting([t EXCEPT !.pendingMock[c] = [lat |-> lat, exec |-> -1]])
        ELSE IF ~(m.exec > 0 /\ m.lat < 0) THEN Waiting(t)
        ELSE IF t.pendingReal[c] = Nil
        THEN Waiting([t EXCEPT !.pendingMock[c].lat = lat + m.exec])
        ELSE AddBoth(t, c, t.pendingReal[c], lat + m.exec)

\* the sanity check of objectiveFunctionCommit
Unequal(t) == Cardinality(t.mock.samples) # Cardinality(t.real.samples)

\* objectiveFunctionCommit, checkAndAddCommit: a client's first latency since
\* the heaps were cleared only counts as its first
AddCommit(t, c, real, ghost) ==
    IF c.client \notin t.receivedOne
    THEN Waiting([t EXCEPT !.receivedOne = @ \union {c.client}])
    ELSE IF Newer(t.real, c) /\ Newer(t.mock, c)
    THEN LET e == AddGhostCommit(t, c, ghost)
         IN  [Added(e.th, e.todo \o <<Push("real", c, real, Now(t)),
                                      Push("mock", c, ghost, Now(t))>>)
                EXCEPT !.panic = e.panic \/ Unequal(t)]
    ELSE [Waiting(t) EXCEPT !.panic = Unequal(t)]

\* ClientLatencyHeap.Push
Pushed(h, s) ==
    [samples |-> h.samples \union {s},
     latestCmd |-> [h.latestCmd EXCEPT ![s.cmd.client] = s.cmd.op]]

\* mutant: only the real heaps forget
RealCleanup(t, cut) ==
    [t EXCEPT !.real.samples = {s \in @ : s.time > cut},
              !.realEndToEnd.samples = {s \in @ : s.time > cut}]

\* removeOldEntries of all four heaps
Cleanup(t, cut) ==
    [t EXCEPT !.real.samples = {s \in @ : s.time > cut},
              !.mock.samples = {s \in @ : s.time > cut},
              !.realEndToEnd.samples = {s \in @ : s.time > cut},
              !.mockEndToEnd.samples = {s \in @ : s.time > cut}]

Lats(heap) == {s.lat : s \in heap.samples}

RequiredTotalImprovement == 10000000    \* 10 ms as int64, in nanoseconds
NearlyTheSame == 5000000                \* 5 ms as int64, in nanoseconds

\* checkMin
CheckMin(a, b) == Min(Lats(a)) < Min(Lats(b)) - RequiredTotalImprovement

\* checkIfLess, with OBJ_LATENCY_COM = 100: the maxima, then the minima
CheckIfLess(a, b) ==
    /\ Cardinality(b.samples) >= MaxLen
    /\ a.samples # {} /\ b.samples # {}
    /\ LET diff == Max(Lats(b)) - Max(Lats(a))
       IN  IF diff > 0 /\ diff >= 10 * Max(Lats(b)) + 10000 THEN TRUE
           ELSE -diff < NearlyTheSame /\ CheckMin(a, b)

-----------------------------------------------------------------------------
(* The evaluator *)

\* the first select, when run() is not waiting
PollStop ==
    /\ eva.pc = "poll" /\ main \notin {"stop", "stopThenClear"}
    /\ eva' = At("select")
    /\ UNCHANGED <<rotation, warmupDone, slowdownChan, th, history, panicked>>

\* ... and when it is: the evaluator clears the heaps, bcastRotate goes on
StopEva ==
    /\ eva.pc = "poll" /\ main \in {"stop", "stopThenClear"}
    /\ eva' = At("select")
    /\ Clear
    /\ main' = IF main = "stop" THEN "run" ELSE "clear"
    /\ sentForPhase' = TRUE
    /\ UNCHANGED <<phase, skipped, warmupDone, slowdownChan, sent, panicked>>

\* An evaluation is broken into its pushes, between which run() may move.
Evaluate(kind, c, val, res, heaps, next) ==
    /\ sent' = sent \union {<<kind, c>>}
    /\ told' = IF kind = "commit" /\ ~res.compare THEN told
               ELSE [told EXCEPT ![c][kind] = val]
    /\ th' = res.th
    /\ panicked' = (panicked \/ res.panic)
    /\ eva' = [pc |-> "push", todo |-> res.todo, compare |-> res.compare,
               heaps |-> heaps, next |-> next, evidence |-> {}]
    /\ UNCHANGED <<rotation, warmupDone, slowdownChan, recorded>>

\* a report is read and dropped
Ignore(kind, c) ==
    /\ sent' = sent \union {<<kind, c>>}
    /\ eva' = At("poll")
    /\ UNCHANGED <<rotation, warmupDone, slowdownChan, th, told, recorded,
                   panicked>>

\* a COMMIT_LATENCY_FEEDBACK; a client sends each in a goroutine of its own
CommitLatencyFeedback == \E c \in Cmd, real \in RealLat, ghost \in GhostLat :
    /\ eva.pc = "select" /\ <<"commit", c>> \notin sent
    /\ IF warmupDone
       THEN Evaluate("commit", c, ghost, AddCommit(th, c, real, ghost),
                     "commit", "poll")
       ELSE Ignore("commit", c)

\* reports that come in the order of the client's commands
InOrder(kind, c) ==
    \A d \in Cmd : d.client = c.client /\ d.op >= c.op => <<kind, d>> \notin sent

\* the latency of a command, sent with its client's next Propose
ClientRealE2ELatency == \E c \in Cmd, lat \in RealLat :
    /\ eva.pc = "select" /\ InOrder("real", c)
    /\ IF warmupDone /\ phase \notin Leads
       THEN Evaluate("real", c, lat, AddReal(th, c, lat), "endToEnd", "poll")
       ELSE Ignore("real", c)

\* an entry of the MockExecTimes; warmupDone is read before the first of them
GhostExecLatency == \E c \in Cmd, exec \in ExecTime :
    /\ eva.pc \in {"select", "more"} /\ InOrder("exec", c)
    /\ IF eva.pc = "more" \/ (warmupDone /\ phase \notin Leads)
       THEN Evaluate("exec", c, exec, AddExec(th, c, exec), "endToEnd", "more")
       ELSE Ignore("exec", c)

\* the default branch, or the end of the MockExecTimes
Sleep ==
    /\ eva.pc \in {"select", "more"}
    /\ eva' = At("poll")
    /\ UNCHANGED <<rotation, warmupDone, slowdownChan, th, history, panicked>>

HeapPush ==
    /\ eva.pc = "push" /\ eva.todo # <<>>
    /\ LET p == Head(eva.todo)
       IN  /\ th' = [th EXCEPT ![p.heap] = Pushed(@, p.sample)]
           /\ recorded' = IF p.heap = "mockEndToEnd"
                          THEN recorded \union {p.sample.cmd} ELSE recorded
    /\ eva' = [eva EXCEPT !.todo = Tail(@)]
    /\ UNCHANGED <<rotation, warmupDone, slowdownChan, sent, told, panicked>>

\* the phases whose samples are compared
Evidence(t) ==
    {s.phase : s \in IF eva.heaps = "commit"
                     THEN t.real.samples \union t.mock.samples
                     ELSE t.realEndToEnd.samples \union t.mockEndToEnd.samples}

\* The cleanups, and checkIfRotateAndClear or checkIfRotateAndClearEndToEnd
CheckIfRotate ==
    /\ eva.pc = "push" /\ eva.todo = <<>>
    /\ \E cut \in 0 .. Now(th) - 1 :
          LET t == Cleanup(th, cut)
              less == IF eva.heaps = "commit" THEN CheckIfLess(t.mock, t.real)
                      ELSE CheckIfLess(t.mockEndToEnd, t.realEndToEnd)
          IN  IF eva.compare /\ less
              THEN /\ eva' = [eva EXCEPT !.pc = "send", !.evidence = Evidence(t)]
                   /\ Clear
              ELSE /\ eva' = At(eva.next)
                   /\ th' = t
                   /\ UNCHANGED <<told, recorded>>
    /\ UNCHANGED <<rotation, warmupDone, slowdownChan, sent, panicked>>

\* slowdownChan <- r.phase, which blocks while the channel is full
Suspect ==
    /\ eva.pc = "send" /\ Len(slowdownChan) < SlowdownChanSize
    /\ slowdownChan' = Append(slowdownChan, [phase |-> phase,
                                             evidence |-> eva.evidence])
    /\ eva' = At(eva.next)
    /\ Clear
    /\ UNCHANGED <<rotation, warmupDone, sent, panicked>>

Evaluator ==
    \/ PollStop \/ StopEva
    \/ CommitLatencyFeedback \/ ClientRealE2ELatency \/ GhostExecLatency
    \/ Sleep \/ HeapPush \/ CheckIfRotate \/ Suspect

-----------------------------------------------------------------------------
(* The main loop *)

\* mutant: the evaluator is not stopped
BcastRotateAtOnce(then) ==
    /\ warmupDone' = FALSE
    /\ main' = then
    /\ sentForPhase' = TRUE

\* bcastRotate, up to stopEva; then is where run() goes when it is done
BcastRotate(then) ==
    /\ warmupDone' = FALSE
    /\ main' = IF ~warmupDone THEN then
               ELSE IF then = "run" THEN "stop" ELSE "stopThenClear"
    /\ UNCHANGED sentForPhase

HandleSlowdown ==
    /\ main = "run" /\ slowdownChan # <<>>
    /\ slowdownChan' = Tail(slowdownChan)
    /\ IF Head(slowdownChan).phase = phase /\ ~sentForPhase
       THEN BcastRotate("run")
       ELSE UNCHANGED <<warmupDone, main, sentForPhase>>
    /\ UNCHANGED <<phase, skipped, th, eva, history, panicked>>

ProgressTimer ==
    /\ main = "run" /\ ~sentForPhase
    /\ BcastRotate("run")
    /\ UNCHANGED <<phase, skipped, slowdownChan, th, eva, history, panicked>>

\* handleRotate for this phase; it may complete a quorum
HandleRotate ==
    /\ main = "run"
    /\ \E then \in {"run"} \union (IF phase < MaxPhase THEN {"clear"} ELSE {}) :
           IF sentForPhase THEN main' = then /\ UNCHANGED <<warmupDone, sentForPhase>>
           ELSE BcastRotate(then)
    /\ UNCHANGED <<phase, skipped, slowdownChan, th, eva, history, panicked>>

\* ... and then clears the heaps itself and goes to the next phase
GoToPhase ==
    /\ main = "clear"
    /\ Clear
    /\ phase' = phase + 1
    /\ sentForPhase' = FALSE
    /\ main' = "run"
    /\ UNCHANGED <<skipped, warmupDone, slowdownChan, eva, sent, panicked>>

\* handleRotate for a later phase leaves the heaps alone
SkipPhase ==
    /\ main = "run" /\ phase < MaxPhase
    /\ \E p \in phase + 1 .. MaxPhase : phase' = p
    /\ sentForPhase' = FALSE
    /\ skipped' = TRUE
    /\ UNCHANGED <<main, warmupDone, slowdownChan, th, eva, history, panicked>>

\* the warm-up ends (run()), or the ROTATION_DELAY (a goroutine)
WarmupEnds ==
    /\ ~warmupDone
    /\ Timely => main = "run" /\ ~sentForPhase
    /\ warmupDone' = TRUE
    /\ UNCHANGED <<rotation, slowdownChan, th, eva, history, panicked>>

Run ==
    \/ HandleSlowdown \/ ProgressTimer \/ HandleRotate \/ GoToPhase \/ SkipPhase
    \/ WarmupEnds

Next == Evaluator \/ Run

Spec == Init /\ [][Next]_vars

-----------------------------------------------------------------------------
(* What the detection promises *)

\* The real and the ghost latencies that are compared are of the same
\* commands in the same window, as objectiveFunctionCommit asserts.
Paired ==
    LET Same(r, m) ==
            /\ {[s EXCEPT !.lat = 0] : s \in r.samples}
                   = {[s EXCEPT !.lat = 0] : s \in m.samples}
            /\ r.latestCmd = m.latestCmd
    IN  /\ ~panicked
        /\ eva.pc # "push" =>
               /\ Same(th.real, th.mock)
               /\ Same(th.realEndToEnd, th.mockEndToEnd)

\* A ghost end-to-end latency is a command's commit latency in the ghost log
\* and its execution time, whichever came first.
GhostEndToEnd ==
    \A s \in th.mockEndToEnd.samples :
        s.lat = told[s.cmd].commit + told[s.cmd].exec

\* Once its three reports were evaluated, in whatever order, a command was
\* compared, unless its execution took no time or a later one overtook it.
Recorded ==
    eva.pc # "push" =>
        \A c \in Cmd :
            (/\ \A kind \in DOMAIN told[c] : told[c][kind] # Nil
             /\ told[c].exec > 0
             /\ Newer(th.mock, c) /\ Newer(th.mockEndToEnd, c)) =>
                c \in recorded

\* The phase is not suspected on what was measured in another, unless the
\* replica skipped a phase.
EvidenceOfPhase ==
    ~skipped =>
        \A i \in DOMAIN slowdownChan :
            slowdownChan[i].phase = phase =>
                slowdownChan[i].evidence \subseteq {phase}
=============================================================================
