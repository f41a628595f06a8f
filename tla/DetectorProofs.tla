---------------------------- MODULE DetectorProofs ----------------------------
(***************************************************************************)
(* Proofs about the slowdown detection: for any clients, latencies, heap   *)
(* length and number of phases.                                            *)
(***************************************************************************)
EXTENDS Detector, FiniteSetTheorems, SequenceTheorems, WellFoundedInduction,
        TLAPS

-----------------------------------------------------------------------------
(* Types *)

Sample == [cmd : Cmd, lat : Int, time : Nat, phase : Nat]
Heap == [samples : {S \in SUBSET Sample : IsFiniteSet(S)},
         latestCmd : [Clients -> Nat]]
HeapName == {"real", "mock", "realEndToEnd", "mockEndToEnd"}
TwoHeaps ==
    [real : Heap, mock : Heap, realEndToEnd : Heap, mockEndToEnd : Heap,
     pendingReal : [Cmd -> RealLat \union {Nil}],
     pendingMock : [Cmd -> [lat : Int, exec : Int] \union {Nil}],
     receivedOne : SUBSET Clients]
Pushes == [heap : HeapName, sample : Sample]
Told == [commit : GhostLat \union {Nil}, real : RealLat \union {Nil},
         exec : ExecTime \union {Nil}]
Kinds == {"commit", "real", "exec"}
Suspected == [phase : Nat, evidence : SUBSET Nat]
Evaluations == [pc : {"poll", "select", "more", "push", "send"},
                todo : Seq(Pushes), compare : BOOLEAN,
                heaps : {"commit", "endToEnd"}, next : {"poll", "more"},
                evidence : SUBSET Nat]

TypeOK ==
    /\ phase \in Nat
    /\ sentForPhase \in BOOLEAN /\ warmupDone \in BOOLEAN
    /\ skipped \in BOOLEAN /\ panicked \in BOOLEAN
    /\ main \in {"run", "stop", "stopThenClear", "clear"}
    /\ slowdownChan \in Seq(Suspected)
    /\ th \in TwoHeaps
    /\ eva \in Evaluations
    /\ sent \in SUBSET (Kinds \X Cmd)
    /\ told \in [Cmd -> Told]
    /\ recorded \in SUBSET Cmd

-----------------------------------------------------------------------------
(* Times *)

LEMMA Greatest ==
    ASSUME NEW S, IsFiniteSet(S), S \subseteq Nat, S # {}
    PROVE  \E n \in S : \A m \in S : n >= m
<1> DEFINE Bad == {T \in SUBSET S : T # {} /\ ~ \E n \in T : \A m \in T : n >= m}
<1>1. SUFFICES ASSUME Bad # {} PROVE FALSE
  OBVIOUS
<1>2. Bad \subseteq FiniteSubsetsOf(S)
  BY FS_FiniteSubsetsOfFinite
<1>3. PICK T \in Bad : \A U \in Bad : ~ (<<U, T>> \in StrictSubsetOrdering(S))
  <2> HIDE DEF Bad
  <2> QED
    BY <1>1, <1>2, FS_StrictSubsetOrderingWellFounded, WFMin
<1>4. PICK x \in T : TRUE
  OBVIOUS
<1>5. T \ {x} \notin Bad
  BY <1>3, <1>4 DEF StrictSubsetOrdering
<1>6. CASE T \ {x} = {}
  BY <1>4, <1>6
<1>7. CASE T \ {x} # {}
  <2>1. PICK y \in T \ {x} : \A m \in T \ {x} : y >= m
    BY <1>5, <1>7
  <2>2. x \in Nat /\ y \in Nat /\ \A m \in T : m \in Nat
    BY <1>4, <2>1
  <2>3. CASE x >= y
    <3>1. \A m \in T : x >= m
      BY <2>1, <2>2, <2>3
    <3> QED
      BY <1>4, <3>1
  <2>4. CASE ~(x >= y)
    <3>1. \A m \in T : y >= m
      BY <2>1, <2>2, <2>4
    <3> QED
      BY <2>1, <3>1
  <2> QED
    BY <2>3, <2>4
<1> QED
  BY <1>6, <1>7

LEMMA MaxIs ==
    ASSUME NEW S, IsFiniteSet(S), S \subseteq Nat, S # {}
    PROVE  Max(S) \in Nat /\ \A m \in S : m <= Max(S)
<1>1. Max(S) \in S /\ \A m \in S : Max(S) >= m
  BY Greatest DEF Max
<1> QED
  BY <1>1

\* a new sample is younger than those of the real heaps
LEMMA NowIsLater ==
    ASSUME NEW t \in TwoHeaps
    PROVE  /\ Now(t) \in Nat
           /\ \A s \in t.real.samples \union t.realEndToEnd.samples :
                    s.time < Now(t)
<1> DEFINE A == t.real.samples \union t.realEndToEnd.samples
           T == {s.time : s \in A}
           f == [s \in A |-> s.time]
<1>1. /\ t.real.samples \subseteq Sample /\ IsFiniteSet(t.real.samples)
      /\ t.realEndToEnd.samples \subseteq Sample
      /\ IsFiniteSet(t.realEndToEnd.samples)
  BY DEF TwoHeaps, Heap
<1>2. IsFiniteSet(A) /\ A \subseteq Sample
  BY <1>1, FS_Union
<1>3. T \subseteq Nat
  BY <1>2 DEF Sample
<1>4. f \in Surjection(A, T)
  BY DEF Surjection
<1>5. IsFiniteSet(T)
  BY <1>2, <1>4, FS_Surjection
<1> HIDE DEF T
<1>6. IsFiniteSet({0} \union T)
  BY <1>5, FS_Union, FS_Singleton
<1>7. Max({0} \union T) \in Nat /\ \A m \in T : m <= Max({0} \union T)
  <2>1. {0} \union T \subseteq Nat /\ {0} \union T # {}
    BY <1>3
  <2>2. \A m \in {0} \union T : m <= Max({0} \union T)
    BY <1>6, <2>1, MaxIs
  <2>3. Max({0} \union T) \in Nat
    BY <1>6, <2>1, MaxIs
  <2> QED
    BY <2>2, <2>3
<1>8. Now(t) = Max({0} \union T) + 1
  BY DEF Now, T
<1>9. \A s \in A : s.time \in T
  BY DEF T
<1> HIDE DEF A
<1>10. ASSUME NEW s \in A
       PROVE  s.time < Now(t)
  <2>1. s.time \in Nat /\ s.time <= Max({0} \union T)
    BY <1>3, <1>7, <1>9
  <2> QED
    BY <1>7, <1>8, <2>1
<1> QED
  BY <1>7, <1>8, <1>10 DEF A

-----------------------------------------------------------------------------
(* What an evaluation pushes: latencies of one command, the real and then   *)
(* the ghost one, for the heaps of end-to-end latencies, of commit          *)
(* latencies, or both                                                       *)

Erased(s) == [s EXCEPT !.lat = 0]
RealHeaps == {"real", "realEndToEnd"}
GhostOf(h) == IF h = "real" THEN "mock" ELSE "mockEndToEnd"

InPairs(todo) ==
    \A k \in 1 .. Len(todo) :
        /\ todo[k].heap \in RealHeaps =>
                /\ k + 1 \in 1 .. Len(todo)
                /\ todo[k + 1].heap = GhostOf(todo[k].heap)
                /\ Erased(todo[k + 1].sample) = Erased(todo[k].sample)
        /\ (todo[k].heap \notin RealHeaps /\ k # 1) =>
                todo[k - 1].heap \in RealHeaps
        /\ \A j \in 1 .. Len(todo) : j # k => todo[j].heap # todo[k].heap

Pair(h, c, real, ghost, time) ==
    <<Push(h, c, real, time), Push(GhostOf(h), c, ghost, time)>>

PushesPairs(q, t, c) ==
    \/ q = <<>>
    \/ \E h \in RealHeaps : \E x, y \in Int : q = Pair(h, c, x, y, Now(t))
    \/ \E x, y, u, v \in Int : q = Pair("realEndToEnd", c, x, y, Now(t))
                                   \o Pair("real", c, u, v, Now(t))

Fresh(q, t, c) ==
    /\ q \in Seq(Pushes)
    /\ InPairs(q)
    /\ q # <<>> => Head(q).heap \in RealHeaps
    /\ \A k \in 1 .. Len(q) : /\ q[k].sample.cmd = c
                              /\ q[k].sample.time = Now(t)
                              /\ q[k].sample.phase = phase

LEMMA PairIs ==
    ASSUME phase \in Nat, NEW c \in Cmd, NEW time \in Nat, NEW h \in RealHeaps,
           NEW x \in Int, NEW y \in Int, NEW q, q = Pair(h, c, x, y, time)
    PROVE  /\ q \in Seq(Pushes) /\ Len(q) = 2 /\ q # <<>> /\ Head(q) = q[1]
           /\ q[1].heap = h /\ q[2].heap = GhostOf(h)
           /\ q[1].heap \in RealHeaps /\ q[2].heap \notin RealHeaps
           /\ q[1].sample = [cmd |-> c, lat |-> x, time |-> time, phase |-> phase]
           /\ q[2].sample = [cmd |-> c, lat |-> y, time |-> time, phase |-> phase]
<1> DEFINE a == Push(h, c, x, time)
           b == Push(GhostOf(h), c, y, time)
<1>1. a \in Pushes /\ b \in Pushes
  BY DEF Push, Pushes, Sample, HeapName, RealHeaps, GhostOf
<1>2. /\ a.heap = h /\ b.heap = GhostOf(h)
      /\ a.sample = [cmd |-> c, lat |-> x, time |-> time, phase |-> phase]
      /\ b.sample = [cmd |-> c, lat |-> y, time |-> time, phase |-> phase]
  BY DEF Push
<1>3. q = <<a, b>>
  BY DEF Pair
<1> HIDE DEF a, b
<1>4. q \in Seq(Pushes) /\ Len(q) = 2 /\ q # <<>> /\ Head(q) = a
      /\ q[1] = a /\ q[2] = b
  BY <1>1, <1>3
<1>5. GhostOf(h) \notin RealHeaps
  BY DEF GhostOf, RealHeaps
<1> QED
  BY <1>2, <1>4, <1>5

LEMMA PairsAreFresh ==
    ASSUME phase \in Nat, NEW t \in TwoHeaps, NEW c \in Cmd, NEW q,
           PushesPairs(q, t, c)
    PROVE  Fresh(q, t, c)
<1>0. PICK time \in Nat : time = Now(t)
  BY NowIsLater
<1>1. CASE q = <<>>
  BY <1>1 DEF Fresh, InPairs
<1>2. ASSUME NEW h \in RealHeaps, NEW x \in Int, NEW y \in Int,
             q = Pair(h, c, x, y, Now(t))
      PROVE  Fresh(q, t, c)
  <2>1. q = Pair(h, c, x, y, time)
    BY <1>0, <1>2
  <2>2. /\ q \in Seq(Pushes) /\ Len(q) = 2 /\ q # <<>> /\ Head(q) = q[1]
        /\ q[1].heap = h /\ q[2].heap = GhostOf(h)
        /\ q[1].heap \in RealHeaps /\ q[2].heap \notin RealHeaps
        /\ q[1].sample = [cmd |-> c, lat |-> x, time |-> time, phase |-> phase]
        /\ q[2].sample = [cmd |-> c, lat |-> y, time |-> time, phase |-> phase]
    BY <2>1, PairIs
  <2>3. \A k \in 1 .. Len(q) : k = 1 \/ k = 2
    BY <2>2
  <2>4. Erased(q[2].sample) = Erased(q[1].sample)
    BY <2>2 DEF Erased
  <2>5. InPairs(q)
    BY <2>2, <2>3, <2>4 DEF InPairs
  <2>6. \A k \in 1 .. Len(q) : /\ q[k].sample.cmd = c
                               /\ q[k].sample.time = time
                               /\ q[k].sample.phase = phase
    BY <2>2, <2>3
  <2> QED
    BY <1>0, <2>2, <2>5, <2>6 DEF Fresh
<1>3. ASSUME NEW x \in Int, NEW y \in Int, NEW u \in Int, NEW v \in Int,
             q = Pair("realEndToEnd", c, x, y, Now(t))
                    \o Pair("real", c, u, v, Now(t))
      PROVE  Fresh(q, t, c)
  <2>1. PICK a, b : /\ a = Pair("realEndToEnd", c, x, y, time)
                    /\ b = Pair("real", c, u, v, time)
    OBVIOUS
  <2>2. "realEndToEnd" \in RealHeaps /\ "real" \in RealHeaps
    BY DEF RealHeaps
  <2>3. /\ a \in Seq(Pushes) /\ Len(a) = 2 /\ a # <<>>
        /\ a[1].heap = "realEndToEnd" /\ a[2].heap = "mockEndToEnd"
        /\ a[1].sample = [cmd |-> c, lat |-> x, time |-> time, phase |-> phase]
        /\ a[2].sample = [cmd |-> c, lat |-> y, time |-> time, phase |-> phase]
    BY <2>1, <2>2, PairIs DEF GhostOf
  <2>4. /\ b \in Seq(Pushes) /\ Len(b) = 2
        /\ b[1].heap = "real" /\ b[2].heap = "mock"
        /\ b[1].sample = [cmd |-> c, lat |-> u, time |-> time, phase |-> phase]
        /\ b[2].sample = [cmd |-> c, lat |-> v, time |-> time, phase |-> phase]
    BY <2>1, <2>2, PairIs DEF GhostOf
  <2>5. q = a \o b
    BY <1>0, <1>3, <2>1
  <2>c. a \in Seq(Pushes) /\ b \in Seq(Pushes) /\ Len(a) = 2 /\ Len(b) = 2
    BY <2>3, <2>4
  <2>d. /\ a \o b \in Seq(Pushes) /\ Len(a \o b) = Len(a) + Len(b)
        /\ \A k \in 1 .. Len(a) + Len(b) :
              (a \o b)[k] = IF k <= Len(a) THEN a[k] ELSE b[k - Len(a)]
    BY <2>c, ConcatProperties
  <2>6. q \in Seq(Pushes) /\ Len(q) = 4
    BY <2>c, <2>d, <2>5
  <2>7. q[1] = a[1] /\ q[2] = a[2] /\ q[3] = b[1] /\ q[4] = b[2]
    BY <2>c, <2>d, <2>5
  <2>8. q # <<>> /\ Head(q) = q[1]
    BY <2>6
  <2>9. \A k \in 1 .. Len(q) : k = 1 \/ k = 2 \/ k = 3 \/ k = 4
    BY <2>6
  <2>e. Erased(a[2].sample) = Erased(a[1].sample)
    BY <2>3 DEF Erased
  <2>f. Erased(b[2].sample) = Erased(b[1].sample)
    BY <2>4 DEF Erased
  <2>10. /\ q[1].heap = "realEndToEnd" /\ q[2].heap = "mockEndToEnd"
         /\ q[3].heap = "real" /\ q[4].heap = "mock"
         /\ Erased(q[2].sample) = Erased(q[1].sample)
         /\ Erased(q[4].sample) = Erased(q[3].sample)
    BY <2>3, <2>4, <2>7, <2>e, <2>f
  <2>11. InPairs(q)
    <3>1. GhostOf(q[1].heap) = q[2].heap /\ GhostOf(q[3].heap) = q[4].heap
      BY <2>10 DEF GhostOf
    <3>2. /\ q[1].heap \in RealHeaps /\ q[3].heap \in RealHeaps
          /\ q[2].heap \notin RealHeaps /\ q[4].heap \notin RealHeaps
      BY <2>10 DEF RealHeaps
    <3>3. \A k \in 1 .. Len(q), j \in 1 .. Len(q) : j # k => q[j].heap # q[k].heap
      BY <2>9, <2>10
    <3>4. ASSUME NEW k \in 1 .. Len(q), q[k].heap \in RealHeaps
          PROVE  /\ k + 1 \in 1 .. Len(q) /\ q[k + 1].heap = GhostOf(q[k].heap)
                 /\ Erased(q[k + 1].sample) = Erased(q[k].sample)
      <4>1. k = 1 \/ k = 3
        BY <2>9, <3>2, <3>4
      <4> QED
        BY <2>6, <2>10, <3>1, <4>1
    <3>5. ASSUME NEW k \in 1 .. Len(q), q[k].heap \notin RealHeaps, k # 1
          PROVE  q[k - 1].heap \in RealHeaps
      <4>1. k = 2 \/ k = 4
        BY <2>9, <3>2, <3>5
      <4> QED
        BY <3>2, <4>1
    <3> QED
      BY <3>3, <3>4, <3>5 DEF InPairs
  <2>g. \A k \in {1, 2} : /\ a[k].sample.cmd = c /\ b[k].sample.cmd = c
                          /\ a[k].sample.time = time /\ b[k].sample.time = time
                          /\ a[k].sample.phase = phase /\ b[k].sample.phase = phase
    BY <2>3, <2>4
  <2>12. \A k \in 1 .. Len(q) : /\ q[k].sample.cmd = c
                                /\ q[k].sample.time = time
                                /\ q[k].sample.phase = phase
    BY <2>7, <2>9, <2>g
  <2> QED
    BY <1>0, <2>2, <2>6, <2>8, <2>10, <2>11, <2>12 DEF Fresh
<1> QED
  BY <1>1, <1>2, <1>3 DEF PushesPairs

-----------------------------------------------------------------------------
(* What adding a report comes to                                            *)

LatestAgree(t) == /\ t.real.latestCmd = t.mock.latestCmd
                  /\ t.realEndToEnd.latestCmd = t.mockEndToEnd.latestCmd

\* u is t but for what waits
SameHeaps(t, u) ==
    /\ u.real = t.real /\ u.mock = t.mock
    /\ u.realEndToEnd = t.realEndToEnd /\ u.mockEndToEnd = t.mockEndToEnd

Outcome(res, t, c) ==
    /\ res.th \in TwoHeaps /\ SameHeaps(t, res.th)
    /\ PushesPairs(res.todo, t, c)
    /\ res.compare \in BOOLEAN /\ res.panic \in BOOLEAN
    /\ (LatestAgree(t) /\ ~Unequal(t)) => ~res.panic

LEMMA WithPending ==
    ASSUME NEW t \in TwoHeaps, NEW c \in Cmd,
           NEW x \in RealLat \union {Nil},
           NEW y \in [lat : Int, exec : Int] \union {Nil}
    PROVE  /\ [t EXCEPT !.pendingReal[c] = x] \in TwoHeaps
           /\ SameHeaps(t, [t EXCEPT !.pendingReal[c] = x])
           /\ [t EXCEPT !.pendingMock[c] = y] \in TwoHeaps
           /\ SameHeaps(t, [t EXCEPT !.pendingMock[c] = y])
           /\ [t EXCEPT !.pendingReal[c] = x, !.pendingMock[c] = y] \in TwoHeaps
           /\ SameHeaps(t, [t EXCEPT !.pendingReal[c] = x, !.pendingMock[c] = y])
  BY DEF TwoHeaps, SameHeaps

LEMMA PlainOutcomes ==
    ASSUME NEW t \in TwoHeaps, NEW u \in TwoHeaps, SameHeaps(t, u), NEW c
    PROVE  /\ Outcome(Waiting(u), t, c)
           /\ Outcome(Added(u, <<>>), t, c)
  BY DEF Outcome, Waiting, Added, PushesPairs

LEMMA PairOutcome ==
    ASSUME NEW t \in TwoHeaps, NEW u \in TwoHeaps, SameHeaps(t, u), NEW c,
           NEW x \in Int, NEW y \in Int
    PROVE  Outcome(Added(u, PushBoth(c, x, y, Now(t))), t, c)
<1> DEFINE q == PushBoth(c, x, y, Now(t))
<1>1. q = Pair("realEndToEnd", c, x, y, Now(t))
  BY DEF PushBoth, Pair, GhostOf
<1>2. PushesPairs(q, t, c)
  BY <1>1 DEF PushesPairs, RealHeaps
<1> DEFINE res == Added(u, q)
<1>3. /\ res.th = u /\ res.todo = q /\ res.compare = TRUE
      /\ res.panic = FALSE
  BY DEF Added
<1> HIDE DEF q, res
<1>4. Outcome(res, t, c)
  BY <1>2, <1>3 DEF Outcome
<1> QED
  BY <1>4 DEF q, res

\* an outcome that may panic
LEMMA PanicOutcome ==
    ASSUME NEW res, NEW t, NEW c, Outcome(res, t, c), NEW p \in BOOLEAN,
           res = [th |-> res.th, todo |-> res.todo, compare |-> res.compare,
                  panic |-> res.panic],
           (LatestAgree(t) /\ ~Unequal(t)) => ~p
    PROVE  Outcome([res EXCEPT !.panic = p], t, c)
<1> DEFINE new == [res EXCEPT !.panic = p]
<1>1. /\ new.th = res.th /\ new.todo = res.todo /\ new.compare = res.compare
      /\ new.panic = p
  OBVIOUS
<1> HIDE DEF new
<1>2. Outcome(new, t, c)
  BY <1>1 DEF Outcome
<1> QED
  BY <1>2 DEF new

LEMMA OutcomeFields ==
    ASSUME NEW t, NEW todo
    PROVE  /\ Added(t, todo) = [th |-> t, todo |-> todo, compare |-> TRUE, panic |-> FALSE]
           /\ Waiting(t) = [th |-> t, todo |-> <<>>, compare |-> FALSE, panic |-> FALSE]
<1>1. Added(t, todo) = [th |-> t, todo |-> todo, compare |-> TRUE, panic |-> FALSE]
  BY DEF Added
<1>2. Waiting(t) = [[th |-> t, todo |-> <<>>, compare |-> TRUE, panic |-> FALSE]
                        EXCEPT !.compare = FALSE]
  BY DEF Added, Waiting
<1> QED
  BY <1>1, <1>2

LEMMA AddBothOutcome ==
    ASSUME NEW t \in TwoHeaps, NEW c \in Cmd, NEW x \in Int, NEW y \in Int
    PROVE  Outcome(AddBoth(t, c, x, y), t, c)
<1>1. CASE ~Newer(t.mockEndToEnd, c)
  <2>1. SameHeaps(t, t)
    BY DEF SameHeaps
  <2> QED
    BY <1>1, <2>1, PlainOutcomes DEF AddBoth
<1>2. CASE Newer(t.mockEndToEnd, c)
  <2>1. PICK u : u = [t EXCEPT !.pendingReal[c] = Nil, !.pendingMock[c] = Nil]
    OBVIOUS
  <2>2. u \in TwoHeaps /\ SameHeaps(t, u)
    BY <2>1, WithPending
  <2>3. PICK res : res = Added(u, PushBoth(c, x, y, Now(t)))
    OBVIOUS
  <2>4. Outcome(res, t, c)
    BY <2>2, <2>3, PairOutcome
  <2>5. res = [th |-> res.th, todo |-> res.todo, compare |-> res.compare,
               panic |-> res.panic]
    BY <2>3, OutcomeFields
  <2>6. LatestAgree(t) => Newer(t.realEndToEnd, c)
    BY <1>2 DEF LatestAgree, Newer
  <2> DEFINE panics == ~Newer(t.realEndToEnd, c)
  <2>7. AddBoth(t, c, x, y) = [res EXCEPT !.panic = panics]
    BY <1>2, <2>1, <2>3 DEF AddBoth
  <2>8. panics \in BOOLEAN /\ (LatestAgree(t) => ~panics)
    BY <2>6
  <2> HIDE DEF panics
  <2> QED
    BY <2>4, <2>5, <2>7, <2>8, PanicOutcome
<1> QED
  BY <1>1, <1>2

LEMMA PendingIs ==
    ASSUME NEW t \in TwoHeaps, NEW c \in Cmd
    PROVE  /\ t.pendingMock[c] # Nil => /\ t.pendingMock[c] \in [lat : Int, exec : Int]
                                        /\ t.pendingMock[c].lat \in Int
                                        /\ t.pendingMock[c].exec \in Int
           /\ t.pendingReal[c] # Nil => /\ t.pendingReal[c] \in RealLat
                                        /\ t.pendingReal[c] \in Int
           /\ SameHeaps(t, t)
  BY DetectorAssumption DEF TwoHeaps, SameHeaps

LEMMA AddRealOutcome ==
    ASSUME NEW t \in TwoHeaps, NEW c \in Cmd, NEW lat \in RealLat
    PROVE  Outcome(AddReal(t, c, lat), t, c)
<1> DEFINE m == t.pendingMock[c]
           newer == Newer(t.realEndToEnd, c)
           panics == newer /\ ~Newer(t.mockEndToEnd, c)
<1>1. CASE m = Nil
  <2>1. PICK u : u = [t EXCEPT !.pendingReal[c] = lat]
    OBVIOUS
  <2>2. u \in TwoHeaps /\ SameHeaps(t, u)
    BY <2>1, WithPending
  <2>3. AddReal(t, c, lat) = Waiting(u)
    BY <1>1, <2>1 DEF AddReal
  <2> QED
    BY <2>2, <2>3, PlainOutcomes
<1>2. CASE m # Nil
  <2>1. PICK u, w, res :
            /\ u = [t EXCEPT !.pendingMock[c] = Nil]
            /\ w = [t EXCEPT !.pendingReal[c] = lat]
            /\ res = IF ~newer THEN Added(t, <<>>)
                     ELSE IF m.exec > 0 /\ m.lat > 0
                     THEN Added(u, PushBoth(c, lat, m.lat, Now(t)))
                     ELSE Added(w, <<>>)
    OBVIOUS
  <2>2. /\ u \in TwoHeaps /\ SameHeaps(t, u)
        /\ w \in TwoHeaps /\ SameHeaps(t, w)
        /\ SameHeaps(t, t)
    BY <2>1, WithPending, PendingIs
  <2>3. m.lat \in Int /\ lat \in Int
    BY <1>2, PendingIs, DetectorAssumption
  <2>4. /\ Outcome(Added(t, <<>>), t, c)
        /\ Outcome(Added(w, <<>>), t, c)
    BY <2>2, PlainOutcomes
  <2>5. Outcome(Added(u, PushBoth(c, lat, m.lat, Now(t))), t, c)
    <3> HIDE DEF m
    <3> QED
      BY <2>2, <2>3, PairOutcome
  <2>6. Outcome(res, t, c)
    BY <2>1, <2>4, <2>5
  <2>7. res = [th |-> res.th, todo |-> res.todo, compare |-> res.compare,
               panic |-> res.panic]
    BY <2>1, OutcomeFields
  <2>8. LatestAgree(t) => ~panics
    BY DEF LatestAgree, Newer
  <2>9. panics \in BOOLEAN
    OBVIOUS
  <2>10. AddReal(t, c, lat) = [res EXCEPT !.panic = panics]
    BY <1>2, <2>1 DEF AddReal
  <2> HIDE DEF panics
  <2> QED
    BY <2>6, <2>7, <2>8, <2>9, <2>10, PanicOutcome
<1> QED
  BY <1>1, <1>2

LEMMA AddExecOutcome ==
    ASSUME NEW t \in TwoHeaps, NEW c \in Cmd, NEW exec \in ExecTime
    PROVE  Outcome(AddExec(t, c, exec), t, c)
<1>0. PICK m : m = t.pendingMock[c]
  OBVIOUS
<1>a. exec \in Int
  BY DetectorAssumption
<1>1. CASE m = Nil
  <2>1. PICK y : y = [lat |-> -1, exec |-> exec]
    OBVIOUS
  <2>5. y \in [lat : Int, exec : Int]
    BY <1>a, <2>1
  <2>2. PICK u : u = [t EXCEPT !.pendingMock[c] = y]
    OBVIOUS
  <2>3. u \in TwoHeaps /\ SameHeaps(t, u)
    BY <2>2, <2>5, WithPending
  <2>4. AddExec(t, c, exec) = Waiting(u)
    BY <1>0, <1>1, <2>1, <2>2 DEF AddExec
  <2> QED
    BY <2>3, <2>4, PlainOutcomes
<1>2. CASE m # Nil
  <2>1. PICK lat \in Int : lat = IF m.exec < 0 THEN m.lat + exec ELSE m.lat
    BY <1>0, <1>a, <1>2, PendingIs
  <2>2. CASE t.pendingReal[c] = Nil
    <3>1. PICK y \in [lat : Int, exec : Int] : y = [lat |-> lat, exec |-> exec]
      BY <1>a
    <3>2. PICK u : u = [t EXCEPT !.pendingMock[c] = y]
      OBVIOUS
    <3>3. u \in TwoHeaps /\ SameHeaps(t, u)
      BY <3>2, WithPending
    <3>4. AddExec(t, c, exec) = Waiting(u)
      BY <1>0, <1>2, <2>1, <2>2, <3>1, <3>2 DEF AddExec
    <3> QED
      BY <3>3, <3>4, PlainOutcomes
  <2>3. CASE t.pendingReal[c] # Nil
    <3>1. t.pendingReal[c] \in Int
      BY <2>3, PendingIs
    <3>2. AddExec(t, c, exec) = AddBoth(t, c, t.pendingReal[c], lat)
      BY <1>0, <1>2, <2>1, <2>3 DEF AddExec
    <3> QED
      BY <3>1, <3>2, AddBothOutcome
  <2> QED
    BY <2>2, <2>3
<1> QED
  BY <1>1, <1>2

LEMMA AddBothPushes ==
    ASSUME NEW t, NEW c, NEW x \in Int, NEW y \in Int
    PROVE  \/ AddBoth(t, c, x, y).todo = <<>>
           \/ \E a, b \in Int :
                AddBoth(t, c, x, y).todo = Pair("realEndToEnd", c, a, b, Now(t))
<1>1. CASE ~Newer(t.mockEndToEnd, c)
  BY <1>1, OutcomeFields DEF AddBoth
<1>2. CASE Newer(t.mockEndToEnd, c)
  <2>1. PICK u, q, p :
            /\ u = [t EXCEPT !.pendingReal[c] = Nil, !.pendingMock[c] = Nil]
            /\ q = PushBoth(c, x, y, Now(t))
            /\ p = ~Newer(t.realEndToEnd, c)
    OBVIOUS
  <2>2. AddBoth(t, c, x, y) = [Added(u, q) EXCEPT !.panic = p]
    BY <1>2, <2>1 DEF AddBoth
  <2>3. AddBoth(t, c, x, y).todo = q
    BY <2>2 DEF Added
  <2>4. q = Pair("realEndToEnd", c, x, y, Now(t))
    BY <2>1 DEF PushBoth, Pair, GhostOf
  <2> QED
    BY <2>3, <2>4
<1> QED
  BY <1>1, <1>2

LEMMA AddGhostCommitOutcome ==
    ASSUME NEW t \in TwoHeaps, NEW c \in Cmd, NEW lat \in GhostLat,
           NEW res, res = AddGhostCommit(t, c, lat)
    PROVE  /\ Outcome(res, t, c)
           /\ \/ res.todo = <<>>
              \/ \E x, y \in Int :
                    res.todo = Pair("realEndToEnd", c, x, y, Now(t))
<1>0. PICK m : m = t.pendingMock[c]
  OBVIOUS
<1>a. lat \in Int
  BY DetectorAssumption
<1>1. CASE m = Nil
  <2>1. PICK y : y = [lat |-> lat, exec |-> -1]
    OBVIOUS
  <2>2. y \in [lat : Int, exec : Int]
    BY <1>a, <2>1
  <2>3. PICK u : u = [t EXCEPT !.pendingMock[c] = y]
    OBVIOUS
  <2>4. u \in TwoHeaps /\ SameHeaps(t, u)
    BY <2>2, <2>3, WithPending
  <2>5. res = Waiting(u)
    BY <1>0, <1>1, <2>1, <2>3 DEF AddGhostCommit
  <2> QED
    BY <2>4, <2>5, PlainOutcomes, OutcomeFields
<1>2. CASE m # Nil /\ ~(m.exec > 0 /\ m.lat < 0)
  <2>1. res = Waiting(t) /\ SameHeaps(t, t)
    BY <1>0, <1>2 DEF AddGhostCommit, SameHeaps
  <2> QED
    BY <2>1, PlainOutcomes, OutcomeFields
<1>3. CASE m # Nil /\ m.exec > 0 /\ m.lat < 0
  <2>1. PICK sum \in Int : sum = lat + m.exec
    BY <1>0, <1>3, <1>a, PendingIs
  <2>2. CASE t.pendingReal[c] = Nil
    <3>1. PICK u : u = [t EXCEPT !.pendingMock[c].lat = sum]
      OBVIOUS
    <3>2. PICK y : y = [m EXCEPT !.lat = sum]
      OBVIOUS
    <3>3. y \in [lat : Int, exec : Int]
      BY <1>0, <1>3, <3>2, PendingIs
    <3>4. u = [t EXCEPT !.pendingMock[c] = y]
      BY <1>0, <3>1, <3>2 DEF TwoHeaps
    <3>5. u \in TwoHeaps /\ SameHeaps(t, u)
      BY <3>3, <3>4, WithPending
    <3>6. res = Waiting(u)
      BY <1>0, <1>3, <2>1, <2>2, <3>1 DEF AddGhostCommit
    <3> QED
      BY <3>5, <3>6, PlainOutcomes, OutcomeFields
  <2>3. CASE t.pendingReal[c] # Nil
    <3>1. t.pendingReal[c] \in Int
      BY <2>3, PendingIs
    <3>2. res = AddBoth(t, c, t.pendingReal[c], sum)
      BY <1>0, <1>3, <2>1, <2>3 DEF AddGhostCommit
    <3> QED
      BY <2>1, <3>1, <3>2, AddBothOutcome, AddBothPushes
  <2> QED
    BY <2>2, <2>3
<1> QED
  BY <1>1, <1>2, <1>3

LEMMA AddCommitOutcome ==
    ASSUME phase \in Nat, NEW t \in TwoHeaps, NEW c \in Cmd,
           NEW real \in RealLat, NEW ghost \in GhostLat
    PROVE  Outcome(AddCommit(t, c, real, ghost), t, c)
<1>a. real \in Int /\ ghost \in Int
  BY DetectorAssumption
<1>1. CASE c.client \notin t.receivedOne
  <2>1. PICK u : u = [t EXCEPT !.receivedOne = @ \union {c.client}]
    OBVIOUS
  <2>2. u \in TwoHeaps /\ SameHeaps(t, u)
    BY <2>1 DEF TwoHeaps, SameHeaps, Cmd
  <2>3. AddCommit(t, c, real, ghost) = Waiting(u)
    BY <1>1, <2>1 DEF AddCommit
  <2> QED
    BY <2>2, <2>3, PlainOutcomes
<1>2. CASE c.client \in t.receivedOne /\ ~(Newer(t.real, c) /\ Newer(t.mock, c))
  <2>1. PICK res : res = Waiting(t)
    OBVIOUS
  <2>2. Outcome(res, t, c)
    BY <2>1, PlainOutcomes DEF SameHeaps
  <2>3. res = [th |-> res.th, todo |-> res.todo, compare |-> res.compare,
               panic |-> res.panic]
    BY <2>1, OutcomeFields
  <2>4. AddCommit(t, c, real, ghost) = [res EXCEPT !.panic = Unequal(t)]
    BY <1>2, <2>1 DEF AddCommit
  <2>5. Unequal(t) \in BOOLEAN
    BY DEF Unequal
  <2> QED
    BY <2>2, <2>3, <2>4, <2>5, PanicOutcome
<1>3. CASE c.client \in t.receivedOne /\ Newer(t.real, c) /\ Newer(t.mock, c)
  <2>1. PICK e, q, todo, res :
            /\ e = AddGhostCommit(t, c, ghost)
            /\ q = Pair("real", c, real, ghost, Now(t))
            /\ todo = e.todo \o q
            /\ res = Added(e.th, todo)
    OBVIOUS
  <2>2. /\ Outcome(e, t, c)
        /\ \/ e.todo = <<>>
           \/ \E x, y \in Int : e.todo = Pair("realEndToEnd", c, x, y, Now(t))
    BY <2>1, AddGhostCommitOutcome
  <2>3. PushesPairs(todo, t, c)
    <3>1. CASE e.todo = <<>>
      <4>1. ASSUME NEW x, NEW y PROVE <<>> \o <<x, y>> = <<x, y>>
        OBVIOUS
      <4>2. todo = q
        BY <2>1, <3>1, <4>1 DEF Pair
      <4> QED
        BY <1>a, <2>1, <4>2 DEF PushesPairs, RealHeaps
    <3>2. ASSUME NEW x \in Int, NEW y \in Int,
                 e.todo = Pair("realEndToEnd", c, x, y, Now(t))
          PROVE  PushesPairs(todo, t, c)
      BY <1>a, <2>1, <3>2 DEF PushesPairs
    <3> QED
      BY <2>2, <3>1, <3>2
  <2>4. /\ res.th = e.th /\ res.todo = todo /\ res.compare = TRUE
        /\ res.panic = FALSE
        /\ res = [th |-> res.th, todo |-> res.todo, compare |-> res.compare,
                  panic |-> res.panic]
    BY <2>1 DEF Added
  <2>5. Outcome(res, t, c)
    BY <2>2, <2>3, <2>4 DEF Outcome
  <2> DEFINE panics == e.panic \/ Unequal(t)
  <2>6. /\ panics \in BOOLEAN
        /\ (LatestAgree(t) /\ ~Unequal(t)) => ~panics
    BY <2>2 DEF Outcome
  <2>7. AddCommit(t, c, real, ghost) = [res EXCEPT !.panic = panics]
    <3>1. q = <<Push("real", c, real, Now(t)), Push("mock", c, ghost, Now(t))>>
      BY <2>1 DEF Pair, GhostOf
    <3> QED
      BY <1>3, <2>1, <3>1 DEF AddCommit
  <2> HIDE DEF panics
  <2> QED
    BY <2>4, <2>5, <2>6, <2>7, PanicOutcome
<1> QED
  BY <1>1, <1>2, <1>3

-----------------------------------------------------------------------------
(* The real and the ghost heaps in step                                     *)

Same(r, m) == /\ {Erased(s) : s \in r.samples} = {Erased(s) : s \in m.samples}
              /\ r.latestCmd = m.latestCmd

\* a ghost heap with the latency that comes next, if it is one for this heap
Ahead(todo, h, heap) ==
    IF todo # <<>> /\ Head(todo).heap = h THEN Pushed(heap, Head(todo).sample)
                                          ELSE heap

InStep(t, todo) ==
    /\ Same(t.real, Ahead(todo, "mock", t.mock))
    /\ Same(t.realEndToEnd, Ahead(todo, "mockEndToEnd", t.mockEndToEnd))

\* a heap has no two samples of one time
Dated(t, todo) ==
    /\ \A h \in HeapName : \A s, u \in t[h].samples : s.time = u.time => s = u
    /\ \A k \in 1 .. Len(todo) : \A s \in t[todo[k].heap].samples :
            s.time < todo[k].sample.time

OfPhase(t, todo) ==
    /\ \A h \in HeapName : \A s \in t[h].samples : s.phase = phase
    /\ \A k \in 1 .. Len(todo) : todo[k].sample.phase = phase

Consistent(t, todo) == InPairs(todo) /\ InStep(t, todo) /\ Dated(t, todo)

LEMMA HeapFields ==
    ASSUME NEW t \in TwoHeaps
    PROVE  /\ t["real"] = t.real /\ t["mock"] = t.mock
           /\ t["realEndToEnd"] = t.realEndToEnd
           /\ t["mockEndToEnd"] = t.mockEndToEnd
           /\ \A h \in HeapName : t[h] \in Heap
           /\ t.real \in Heap /\ t.mock \in Heap
           /\ t.realEndToEnd \in Heap /\ t.mockEndToEnd \in Heap
  BY DEF TwoHeaps, HeapName

LEMMA ErasedIs ==
    ASSUME NEW s \in Sample
    PROVE  Erased(s) = [cmd |-> s.cmd, lat |-> 0, time |-> s.time, phase |-> s.phase]
  BY DEF Erased, Sample

\* heaps in step whose samples differ in time have as many samples
LEMMA SameSize ==
    ASSUME NEW r \in Heap, NEW m \in Heap, Same(r, m),
           \A s, u \in r.samples : s.time = u.time => s = u,
           \A s, u \in m.samples : s.time = u.time => s = u
    PROVE  Cardinality(r.samples) = Cardinality(m.samples)
<1> DEFINE R == r.samples
           M == m.samples
           f == [s \in R |-> CHOOSE u \in M : Erased(u) = Erased(s)]
<1>1. R \subseteq Sample /\ M \subseteq Sample /\ IsFiniteSet(R) /\ IsFiniteSet(M)
  BY DEF Heap
<1>2. \A s \in R : \E u \in M : Erased(u) = Erased(s)
  BY DEF Same
<1>3. \A u \in M : \E s \in R : Erased(u) = Erased(s)
  BY DEF Same
<1>4. \A s \in Sample, u \in Sample : Erased(s) = Erased(u) => s.time = u.time
  BY ErasedIs
<1> HIDE DEF R, M
<1>5. \A s \in R : f[s] \in M /\ Erased(f[s]) = Erased(s)
  BY <1>2
<1>6. f \in [R -> M]
  BY <1>5
<1>7. \A s, u \in R : f[s] = f[u] => s = u
  <2> SUFFICES ASSUME NEW s \in R, NEW u \in R, f[s] = f[u]
               PROVE  s = u
    OBVIOUS
  <2>1. Erased(s) = Erased(u)
    BY <1>5
  <2> QED
    BY <1>1, <1>4, <2>1 DEF R
<1>8. \A u \in M : \E s \in R : f[s] = u
  <2> SUFFICES ASSUME NEW u \in M
               PROVE  \E s \in R : f[s] = u
    OBVIOUS
  <2>1. PICK s \in R : Erased(u) = Erased(s)
    BY <1>3
  <2>2. f[s] \in M /\ Erased(f[s]) = Erased(u)
    BY <1>5, <2>1
  <2>3. f[s].time = u.time
    BY <1>1, <1>4, <2>2
  <2>4. f[s] = u
    BY <2>2, <2>3 DEF M
  <2> QED
    BY <2>4
<1> HIDE DEF f
<1>9. f \in Bijection(R, M)
  BY <1>6, <1>7, <1>8 DEF Bijection, Injection, Surjection, IsInjective
<1>10. ExistsBijection(R, M)
  BY <1>9 DEF ExistsBijection
<1>11. Cardinality(M) = Cardinality(R)
  BY <1>1, <1>10, FS_Bijection DEF R
<1> QED
  BY <1>11 DEF R, M

LEMMA StepFacts ==
    ASSUME NEW t \in TwoHeaps, NEW todo, Consistent(t, todo)
    PROVE  /\ t.real.latestCmd = Ahead(todo, "mock", t.mock).latestCmd
           /\ t.realEndToEnd.latestCmd
                = Ahead(todo, "mockEndToEnd", t.mockEndToEnd).latestCmd
           /\ todo = <<>> => /\ LatestAgree(t)
                             /\ Same(t.real, t.mock)
                             /\ Same(t.realEndToEnd, t.mockEndToEnd)
  BY DEF Consistent, InStep, Same, Ahead, LatestAgree

\* the sanity checks of the evaluator pass
LEMMA EqualSizes ==
    ASSUME NEW t \in TwoHeaps, Consistent(t, <<>>)
    PROVE  LatestAgree(t) /\ ~Unequal(t)
<1>1. LatestAgree(t) /\ Same(t.real, t.mock)
  BY StepFacts
<1>2. /\ \A s, u \in t.real.samples : s.time = u.time => s = u
      /\ \A s, u \in t.mock.samples : s.time = u.time => s = u
  BY HeapFields DEF Consistent, Dated, HeapName
<1>3. t.real \in Heap /\ t.mock \in Heap
  BY HeapFields
<1> QED
  BY <1>1, <1>2, <1>3, SameSize DEF Unequal

\* a sample of a ghost heap is as old as one of the real heap
LEMMA GhostTimes ==
    ASSUME NEW r \in Heap, NEW m \in Heap, Same(r, m)
    PROVE  \A u \in m.samples : \E s \in r.samples : s.time = u.time
<1> SUFFICES ASSUME NEW u \in m.samples
             PROVE  \E s \in r.samples : s.time = u.time
  OBVIOUS
<1>1. PICK s \in r.samples : Erased(s) = Erased(u)
  BY DEF Same
<1>2. s \in Sample /\ u \in Sample
  BY DEF Heap
<1>3. s.time = u.time
  BY <1>1, <1>2, ErasedIs
<1> QED
  BY <1>3

\* an evaluation keeps the heaps consistent
LEMMA FreshKeeps ==
    ASSUME NEW t \in TwoHeaps, NEW u \in TwoHeaps, SameHeaps(t, u),
           NEW c, NEW q, Fresh(q, t, c), Consistent(t, <<>>)
    PROVE  /\ Consistent(u, q)
           /\ OfPhase(t, <<>>) => OfPhase(u, q)
<1>1. InPairs(q)
  BY DEF Fresh
<1>2. /\ q # <<>> => Head(q).heap # "mock" /\ Head(q).heap # "mockEndToEnd"
      /\ q \in Seq(Pushes)
  BY DEF Fresh, RealHeaps
<1>3. InStep(u, q)
  BY <1>2, StepFacts DEF InStep, Ahead, SameHeaps
<1>4. /\ Same(t.real, t.mock) /\ Same(t.realEndToEnd, t.mockEndToEnd)
  BY StepFacts
<1>5. \A s \in t.real.samples \union t.realEndToEnd.samples : s.time < Now(t)
  BY NowIsLater
<1>6. /\ \A x \in t.mock.samples : \E s \in t.real.samples : s.time = x.time
      /\ \A x \in t.mockEndToEnd.samples :
            \E s \in t.realEndToEnd.samples : s.time = x.time
  BY <1>4, HeapFields, GhostTimes
<1>7. /\ \A x \in t.mock.samples : x.time < Now(t)
      /\ \A x \in t.mockEndToEnd.samples : x.time < Now(t)
  BY <1>5, <1>6
<1>8. \A h \in HeapName : u[h] = t[h] /\ \A x \in t[h].samples : x.time < Now(t)
  <2>1. \A h \in HeapName : u[h] = t[h]
    BY HeapFields DEF SameHeaps, HeapName
  <2>2. \A h \in HeapName : \A x \in t[h].samples : x.time < Now(t)
    BY <1>5, <1>7, HeapFields DEF HeapName
  <2> QED
    BY <2>1, <2>2
<1>9. \A k \in 1 .. Len(q) : q[k].heap \in HeapName
  <2>1. \A k \in 1 .. Len(q) : q[k] \in Pushes
    BY <1>2, ElementOfSeq
  <2> QED
    BY <2>1 DEF Pushes
<1>10. Dated(u, q)
  <2>1. \A h \in HeapName : \A s, w \in u[h].samples : s.time = w.time => s = w
    BY <1>8 DEF Consistent, Dated
  <2>2. \A k \in 1 .. Len(q) : q[k].sample.time = Now(t)
    BY DEF Fresh
  <2> QED
    BY <1>8, <1>9, <2>1, <2>2 DEF Dated
<1>11. OfPhase(t, <<>>) => OfPhase(u, q)
  BY <1>8 DEF OfPhase, Fresh
<1> QED
  BY <1>1, <1>3, <1>10, <1>11 DEF Consistent

LEMMA TailIs ==
    ASSUME NEW q \in Seq(Pushes), q # <<>>
    PROVE  /\ Tail(q) \in Seq(Pushes)
           /\ Head(q) = q[1] /\ Head(q) \in Pushes
           /\ Len(Tail(q)) = Len(q) - 1 /\ Len(q) \in Nat \ {0}
           /\ \A k \in 1 .. Len(Tail(q)) : Tail(q)[k] = q[k + 1]
           /\ Tail(q) # <<>> => /\ Head(Tail(q)) = q[2] /\ Len(q) >= 2
                                /\ Head(Tail(q)) = Tail(q)[1]
           /\ Len(q) >= 2 => Tail(q) # <<>>
<1>1. /\ Head(q) \in Pushes /\ Tail(q) \in Seq(Pushes)
      /\ Len(Tail(q)) = Len(q) - 1
      /\ \A k \in 1 .. Len(Tail(q)) : Tail(q)[k] = q[k + 1]
  BY HeadTailProperties
<1>2. Head(q) = q[1] /\ Len(q) \in Nat \ {0}
  BY LenProperties, EmptySeq
<1>3. Len(Tail(q)) \in Nat /\ (Tail(q) = <<>> <=> Len(Tail(q)) = 0)
  BY <1>1, LenProperties, EmptySeq
<1>4. ASSUME Tail(q) # <<>>
      PROVE  /\ Head(Tail(q)) = q[2] /\ Len(q) >= 2
             /\ Head(Tail(q)) = Tail(q)[1]
  <2>1. Head(Tail(q)) = Tail(q)[1] /\ Len(Tail(q)) >= 1
    BY <1>1, <1>3, <1>4
  <2>2. Tail(q)[1] = q[1 + 1]
    BY <1>1, <1>3, <2>1
  <2> QED
    BY <1>1, <1>2, <2>1, <2>2
<1>5. Len(q) >= 2 => Tail(q) # <<>>
  BY <1>1, <1>2, <1>3
<1> QED
  BY <1>1, <1>2, <1>4, <1>5

\* a sample pushed and the same sample pushed onto the other heap
LEMMA PushedSame ==
    ASSUME NEW r \in Heap, NEW m \in Heap, Same(r, m),
           NEW s \in Sample, NEW u \in Sample, Erased(s) = Erased(u)
    PROVE  Same(Pushed(r, s), Pushed(m, u))
<1>1. s.cmd = u.cmd
  BY ErasedIs
<1>2. /\ Pushed(r, s).samples = r.samples \union {s}
      /\ Pushed(m, u).samples = m.samples \union {u}
      /\ Pushed(r, s).latestCmd = [r.latestCmd EXCEPT ![s.cmd.client] = s.cmd.op]
      /\ Pushed(m, u).latestCmd = [m.latestCmd EXCEPT ![u.cmd.client] = u.cmd.op]
  BY DEF Pushed
<1>3. Pushed(r, s).latestCmd = Pushed(m, u).latestCmd
  BY <1>1, <1>2 DEF Same
<1>4. {Erased(x) : x \in r.samples \union {s}}
            = {Erased(x) : x \in m.samples \union {u}}
  BY DEF Same
<1> QED
  BY <1>2, <1>3, <1>4 DEF Same

LEMMA PushedIs ==
    ASSUME NEW h \in Heap, NEW s \in Sample
    PROVE  /\ Pushed(h, s) \in Heap
           /\ Pushed(h, s).samples = h.samples \union {s}
           /\ \A c \in Clients : Pushed(h, s).latestCmd[c]
                = IF c = s.cmd.client THEN s.cmd.op ELSE h.latestCmd[c]
<1>1. s.cmd.client \in Clients /\ s.cmd.op \in Nat
  BY DEF Sample, Cmd
<1>2. h.samples \subseteq Sample /\ IsFiniteSet(h.samples)
      /\ h.latestCmd \in [Clients -> Nat]
  BY DEF Heap
<1>3. IsFiniteSet(h.samples \union {s})
  BY <1>2, FS_AddElement
<1> QED
  BY <1>1, <1>2, <1>3 DEF Pushed, Heap

PushOnto(t, u, p) == u = [t EXCEPT ![p.heap] = Pushed(@, p.sample)]

LEMMA PushUpdates ==
    ASSUME NEW t \in TwoHeaps, NEW p \in Pushes, NEW u, PushOnto(t, u, p)
    PROVE  /\ u \in TwoHeaps
           /\ \A h \in HeapName :
                u[h] = IF h = p.heap THEN Pushed(t[h], p.sample) ELSE t[h]
           /\ u.pendingReal = t.pendingReal /\ u.pendingMock = t.pendingMock
<1>1. PICK g : g = p.heap
  OBVIOUS
<1>2. g \in HeapName /\ p.sample \in Sample
  BY <1>1 DEF Pushes
<1>3. PICK new \in Heap : new = Pushed(t[g], p.sample)
  BY <1>2, HeapFields, PushedIs
<1>4. u = [t EXCEPT ![g] = new]
  BY <1>1, <1>3 DEF PushOnto
<1>5. u \in TwoHeaps
  BY <1>2, <1>3, <1>4 DEF TwoHeaps, HeapName
<1>6. \A h \in HeapName : u[h] = IF h = g THEN new ELSE t[h]
  BY <1>2, <1>4 DEF TwoHeaps, HeapName
<1>7. u.pendingReal = t.pendingReal /\ u.pendingMock = t.pendingMock
  BY <1>2, <1>4 DEF TwoHeaps, HeapName
<1> QED
  BY <1>1, <1>3, <1>5, <1>6, <1>7

LEMMA TailInPairs ==
    ASSUME NEW q \in Seq(Pushes), q # <<>>, InPairs(q)
    PROVE  InPairs(Tail(q))
<1> DEFINE r == Tail(q)
<1>1. /\ Len(r) = Len(q) - 1 /\ Len(q) \in Nat \ {0}
      /\ \A k \in 1 .. Len(r) : r[k] = q[k + 1]
  BY TailIs
<1> HIDE DEF r
<1> SUFFICES ASSUME NEW k \in 1 .. Len(r)
             PROVE  /\ r[k].heap \in RealHeaps =>
                            /\ k + 1 \in 1 .. Len(r)
                            /\ r[k + 1].heap = GhostOf(r[k].heap)
                            /\ Erased(r[k + 1].sample) = Erased(r[k].sample)
                    /\ (r[k].heap \notin RealHeaps /\ k # 1) =>
                            r[k - 1].heap \in RealHeaps
                    /\ \A j \in 1 .. Len(r) : j # k => r[j].heap # r[k].heap
  BY DEF InPairs, r
<1>2. k + 1 \in 1 .. Len(q) /\ r[k] = q[k + 1] /\ k + 1 # 1
      /\ (k + 1) - 1 = k /\ (k - 1) + 1 = k
  BY <1>1
<1>3. ASSUME r[k].heap \in RealHeaps
      PROVE  /\ k + 1 \in 1 .. Len(r)
             /\ r[k + 1].heap = GhostOf(r[k].heap)
             /\ Erased(r[k + 1].sample) = Erased(r[k].sample)
  <2>1. /\ (k + 1) + 1 \in 1 .. Len(q)
        /\ q[(k + 1) + 1].heap = GhostOf(q[k + 1].heap)
        /\ Erased(q[(k + 1) + 1].sample) = Erased(q[k + 1].sample)
    BY <1>2, <1>3 DEF InPairs
  <2>2. k + 1 \in 1 .. Len(r)
    BY <1>1, <2>1
  <2> QED
    BY <1>1, <1>2, <2>1, <2>2
<1>4. ASSUME r[k].heap \notin RealHeaps, k # 1
      PROVE  r[k - 1].heap \in RealHeaps
  <2>1. k - 1 \in 1 .. Len(r)
    BY <1>1, <1>4
  <2>2. q[(k + 1) - 1].heap \in RealHeaps
    BY <1>2, <1>4 DEF InPairs
  <2> QED
    BY <1>1, <1>2, <2>1, <2>2
<1>5. ASSUME NEW j \in 1 .. Len(r), j # k
      PROVE  r[j].heap # r[k].heap
  <2>1. j + 1 \in 1 .. Len(q) /\ j + 1 # k + 1 /\ r[j] = q[j + 1]
    BY <1>1, <1>5
  <2> QED
    BY <1>2, <2>1 DEF InPairs
<1> QED
  BY <1>3, <1>4, <1>5

\* what comes after the first sample
LEMMA AfterFirst ==
    ASSUME NEW q \in Seq(Pushes), q # <<>>, InPairs(q)
    PROVE  /\ Head(q) \in Pushes
           /\ Head(q).heap \in RealHeaps =>
                /\ Tail(q) # <<>>
                /\ Head(Tail(q)).heap = GhostOf(Head(q).heap)
                /\ Head(Tail(q)) \in Pushes
                /\ Erased(Head(Tail(q)).sample) = Erased(Head(q).sample)
           /\ (Head(q).heap \notin RealHeaps /\ Tail(q) # <<>>) =>
                Head(Tail(q)).heap \in RealHeaps
           /\ \A k \in 1 .. Len(Tail(q)) :
                Tail(q)[k].heap # Head(q).heap /\ Tail(q)[k] \in Pushes
<1>1. /\ Tail(q) \in Seq(Pushes)
      /\ Head(q) = q[1] /\ Head(q) \in Pushes
      /\ Len(Tail(q)) = Len(q) - 1 /\ Len(q) \in Nat \ {0}
      /\ \A k \in 1 .. Len(Tail(q)) : Tail(q)[k] = q[k + 1]
      /\ Tail(q) # <<>> => Head(Tail(q)) = q[2] /\ Len(q) >= 2
      /\ Len(q) >= 2 => Tail(q) # <<>>
  BY TailIs
<1>2. 1 \in 1 .. Len(q)
  BY <1>1
<1>3. ASSUME Head(q).heap \in RealHeaps
      PROVE  /\ Tail(q) # <<>>
             /\ Head(Tail(q)).heap = GhostOf(Head(q).heap)
             /\ Head(Tail(q)) \in Pushes
             /\ Erased(Head(Tail(q)).sample) = Erased(Head(q).sample)
  <2>1. /\ 1 + 1 \in 1 .. Len(q)
        /\ q[1 + 1].heap = GhostOf(q[1].heap)
        /\ Erased(q[1 + 1].sample) = Erased(q[1].sample)
    BY <1>1, <1>2, <1>3 DEF InPairs
  <2>2. q[1 + 1] \in Pushes
    BY <2>1, ElementOfSeq
  <2> QED
    BY <1>1, <2>1, <2>2
<1>4. ASSUME Head(q).heap \notin RealHeaps, Tail(q) # <<>>
      PROVE  Head(Tail(q)).heap \in RealHeaps
  <2>1. 2 \in 1 .. Len(q) /\ 2 # 1
    BY <1>1, <1>4
  <2>2. q[2].heap \notin RealHeaps => q[2 - 1].heap \in RealHeaps
    BY <2>1 DEF InPairs
  <2> QED
    BY <1>1, <1>4, <2>2
<1>5. ASSUME NEW k \in 1 .. Len(Tail(q))
      PROVE  Tail(q)[k].heap # Head(q).heap /\ Tail(q)[k] \in Pushes
  <2>1. k + 1 \in 1 .. Len(q) /\ k + 1 # 1 /\ Tail(q)[k] = q[k + 1]
    BY <1>1
  <2>2. q[k + 1].heap # q[1].heap
    BY <1>2, <2>1 DEF InPairs
  <2>3. q[k + 1] \in Pushes
    BY <2>1, ElementOfSeq
  <2> QED
    BY <1>1, <2>1, <2>2, <2>3
<1> QED
  BY <1>1, <1>3, <1>4, <1>5

\* each heap is pushed onto in turn
LEMMA PushKeeps ==
    ASSUME NEW t \in TwoHeaps, NEW u \in TwoHeaps, NEW q \in Seq(Pushes),
           q # <<>>, Consistent(t, q),
           \A h \in HeapName : u[h] = IF h = Head(q).heap
                                      THEN Pushed(t[h], Head(q).sample) ELSE t[h]
    PROVE  /\ Consistent(u, Tail(q))
           /\ OfPhase(t, q) => OfPhase(u, Tail(q))
<1>0. InPairs(q) /\ InStep(t, q) /\ Dated(t, q)
  BY DEF Consistent
<1>1. InPairs(Tail(q))
  BY <1>0, TailInPairs
<1>2. PICK p \in Pushes : p = Head(q)
  BY TailIs
<1>3. p.heap \in HeapName /\ p.sample \in Sample
  BY <1>2 DEF Pushes
<1>4. /\ p.heap \in RealHeaps =>
            /\ Tail(q) # <<>>
            /\ Head(Tail(q)).heap = GhostOf(p.heap)
            /\ Head(Tail(q)) \in Pushes
            /\ Erased(Head(Tail(q)).sample) = Erased(p.sample)
      /\ (p.heap \notin RealHeaps /\ Tail(q) # <<>>) =>
            Head(Tail(q)).heap \in RealHeaps
      /\ \A k \in 1 .. Len(Tail(q)) :
            Tail(q)[k].heap # p.heap /\ Tail(q)[k] \in Pushes
  BY <1>0, <1>2, AfterFirst
<1>5. /\ u.real = IF "real" = p.heap THEN Pushed(t.real, p.sample) ELSE t.real
      /\ u.mock = IF "mock" = p.heap THEN Pushed(t.mock, p.sample) ELSE t.mock
      /\ u.realEndToEnd = IF "realEndToEnd" = p.heap
                          THEN Pushed(t.realEndToEnd, p.sample) ELSE t.realEndToEnd
      /\ u.mockEndToEnd = IF "mockEndToEnd" = p.heap
                          THEN Pushed(t.mockEndToEnd, p.sample) ELSE t.mockEndToEnd
      /\ t.real \in Heap /\ t.mock \in Heap
      /\ t.realEndToEnd \in Heap /\ t.mockEndToEnd \in Heap
  BY <1>2, HeapFields DEF HeapName
<1>6. /\ Same(t.real, IF p.heap = "mock" THEN Pushed(t.mock, p.sample) ELSE t.mock)
      /\ Same(t.realEndToEnd, IF p.heap = "mockEndToEnd"
                              THEN Pushed(t.mockEndToEnd, p.sample)
                              ELSE t.mockEndToEnd)
  BY <1>0, <1>2 DEF InStep, Ahead
<1>7. InStep(u, Tail(q))
  <2> DEFINE r == Tail(q)
  <2> HIDE DEF r
  <2>1. CASE p.heap \in RealHeaps
    <3>1. PICK n \in Pushes : n = Head(r)
      BY <1>4, <2>1 DEF r
    <3>2. r # <<>> /\ n.heap = GhostOf(p.heap) /\ Erased(p.sample) = Erased(n.sample)
          /\ n.sample \in Sample
      BY <1>4, <2>1, <3>1 DEF r, Pushes
    <3>3. CASE p.heap = "real"
      <4>1. Same(Pushed(t.real, p.sample), Pushed(t.mock, n.sample))
        BY <1>3, <1>5, <1>6, <3>2, <3>3, PushedSame
      <4>2. n.heap = "mock"
        BY <3>2, <3>3 DEF GhostOf
      <4> QED
        BY <1>5, <1>6, <3>1, <3>2, <3>3, <4>1, <4>2 DEF InStep, Ahead, r
    <3>4. CASE p.heap = "realEndToEnd"
      <4>1. Same(Pushed(t.realEndToEnd, p.sample), Pushed(t.mockEndToEnd, n.sample))
        BY <1>3, <1>5, <1>6, <3>2, <3>4, PushedSame
      <4>2. n.heap = "mockEndToEnd"
        BY <3>2, <3>4 DEF GhostOf
      <4> QED
        BY <1>5, <1>6, <3>1, <3>2, <3>4, <4>1, <4>2 DEF InStep, Ahead, r
    <3> QED
      BY <2>1, <3>3, <3>4 DEF RealHeaps
  <2>2. CASE p.heap \notin RealHeaps
    <3>1. p.heap = "mock" \/ p.heap = "mockEndToEnd"
      BY <1>3, <2>2 DEF HeapName, RealHeaps
    <3>2. r # <<>> => Head(r).heap # "mock" /\ Head(r).heap # "mockEndToEnd"
      BY <1>4, <2>2 DEF r, RealHeaps
    <3> QED
      BY <1>5, <1>6, <3>1, <3>2 DEF InStep, Ahead, r
  <2> QED
    BY <2>1, <2>2
<1>8. /\ Len(Tail(q)) = Len(q) - 1 /\ Len(q) \in Nat \ {0}
      /\ \A k \in 1 .. Len(Tail(q)) : Tail(q)[k] = q[k + 1]
      /\ p = q[1]
  BY <1>2, TailIs
<1>a. PICK new : new = Pushed(t[p.heap], p.sample)
  OBVIOUS
<1>b. new.samples = t[p.heap].samples \union {p.sample}
  BY <1>a DEF Pushed
<1>c. \A h \in HeapName : u[h] = IF h = p.heap THEN new ELSE t[h]
  BY <1>2, <1>a
<1>9. Dated(u, Tail(q))
  <2>0. \A s \in t[p.heap].samples : s.time < p.sample.time
    <3>1. 1 \in 1 .. Len(q)
      BY <1>8
    <3> QED
      BY <1>0, <1>8, <3>1 DEF Dated
  <2>t. p.sample.time \in Nat /\ \A s \in t[p.heap].samples : s.time \in Nat
    BY <1>3, HeapFields DEF Heap, Sample
  <2>1. ASSUME NEW h \in HeapName, NEW s \in u[h].samples, NEW w \in u[h].samples,
               s.time = w.time
        PROVE  s = w
    <3>1. CASE h # p.heap
      <4>1. u[h] = t[h]
        BY <1>c, <3>1
      <4>2. \A x, y \in t[h].samples : x.time = y.time => x = y
        BY <1>0 DEF Dated
      <4> QED
        BY <2>1, <4>1, <4>2
    <3>2. CASE h = p.heap
      <4>1. u[h].samples = t[h].samples \union {p.sample}
        BY <1>b, <1>c, <3>2
      <4>2. \A x, y \in t[h].samples : x.time = y.time => x = y
        BY <1>0 DEF Dated
      <4>3. \A x \in t[h].samples : x.time # p.sample.time
        BY <2>0, <2>t, <3>2
      <4> QED
        BY <2>1, <4>1, <4>2, <4>3
    <3> QED
      BY <3>1, <3>2
  <2>2. ASSUME NEW k \in 1 .. Len(Tail(q)),
               NEW s \in u[Tail(q)[k].heap].samples
        PROVE  s.time < Tail(q)[k].sample.time
    <3>1. Tail(q)[k].heap # p.heap /\ Tail(q)[k].heap \in HeapName
      BY <1>4 DEF Pushes
    <3>2. u[Tail(q)[k].heap] = t[Tail(q)[k].heap]
      BY <1>c, <3>1
    <3>3. k + 1 \in 1 .. Len(q) /\ Tail(q)[k] = q[k + 1]
      BY <1>8
    <3> QED
      BY <1>0, <3>2, <3>3 DEF Dated
  <2> QED
    BY <2>1, <2>2 DEF Dated
<1>10. ASSUME OfPhase(t, q)
       PROVE  OfPhase(u, Tail(q))
  <2>1. p.sample.phase = phase
    <3>1. 1 \in 1 .. Len(q)
      BY <1>8
    <3> QED
      BY <1>8, <1>10, <3>1 DEF OfPhase
  <2>2. \A h \in HeapName : \A s \in u[h].samples : s.phase = phase
    BY <1>10, <1>b, <1>c, <2>1 DEF OfPhase
  <2>3. \A k \in 1 .. Len(Tail(q)) : k + 1 \in 1 .. Len(q)
    BY <1>8
  <2>4. \A k \in 1 .. Len(Tail(q)) : Tail(q)[k].sample.phase = phase
    BY <1>8, <1>10, <2>3 DEF OfPhase
  <2> QED
    BY <2>2, <2>4 DEF OfPhase
<1> QED
  BY <1>1, <1>7, <1>9, <1>10 DEF Consistent

-----------------------------------------------------------------------------
(* Cleaning and clearing the heaps                                          *)

Younger(h, cut) == [samples |-> {s \in h.samples : s.time > cut},
                    latestCmd |-> h.latestCmd]

LEMMA YoungerIs ==
    ASSUME NEW h \in Heap, NEW cut
    PROVE  /\ Younger(h, cut) \in Heap
           /\ Younger(h, cut).samples = {s \in h.samples : s.time > cut}
           /\ Younger(h, cut).latestCmd = h.latestCmd
           /\ [h EXCEPT !.samples = {s \in @ : s.time > cut}] = Younger(h, cut)
<1>1. h.samples \subseteq Sample /\ IsFiniteSet(h.samples)
      /\ h.latestCmd \in [Clients -> Nat]
      /\ h = [samples |-> h.samples, latestCmd |-> h.latestCmd]
  BY DEF Heap
<1>2. PICK S : S = {s \in h.samples : s.time > cut}
  OBVIOUS
<1>3. S \subseteq h.samples /\ IsFiniteSet(S)
  BY <1>1, <1>2, FS_Subset
<1>4. Younger(h, cut) = [samples |-> S, latestCmd |-> h.latestCmd]
  BY <1>2 DEF Younger
<1>5. [h EXCEPT !.samples = S] = [samples |-> S, latestCmd |-> h.latestCmd]
  BY <1>1
<1>6. [samples |-> S, latestCmd |-> h.latestCmd] \in Heap
  BY <1>1, <1>3 DEF Heap
<1>7. [h EXCEPT !.samples = {s \in @ : s.time > cut}] = [h EXCEPT !.samples = S]
  BY <1>2
<1> QED
  BY <1>2, <1>4, <1>5, <1>6, <1>7

LEMMA CleanupIs ==
    ASSUME NEW t \in TwoHeaps, NEW cut, NEW u, u = Cleanup(t, cut)
    PROVE  /\ u \in TwoHeaps
           /\ u.real = Younger(t.real, cut) /\ u.mock = Younger(t.mock, cut)
           /\ u.realEndToEnd = Younger(t.realEndToEnd, cut)
           /\ u.mockEndToEnd = Younger(t.mockEndToEnd, cut)
           /\ u.pendingReal = t.pendingReal /\ u.pendingMock = t.pendingMock
<1>1. PICK a, b, c, d : /\ a = Younger(t.real, cut) /\ b = Younger(t.mock, cut)
                        /\ c = Younger(t.realEndToEnd, cut)
                        /\ d = Younger(t.mockEndToEnd, cut)
  OBVIOUS
<1>2. a \in Heap /\ b \in Heap /\ c \in Heap /\ d \in Heap
  BY <1>1, HeapFields, YoungerIs
<1>3. /\ a = [t.real EXCEPT !.samples = {s \in @ : s.time > cut}]
      /\ b = [t.mock EXCEPT !.samples = {s \in @ : s.time > cut}]
      /\ c = [t.realEndToEnd EXCEPT !.samples = {s \in @ : s.time > cut}]
      /\ d = [t.mockEndToEnd EXCEPT !.samples = {s \in @ : s.time > cut}]
  BY <1>1, HeapFields, YoungerIs
<1>4. u = [t EXCEPT !.real = a, !.mock = b, !.realEndToEnd = c, !.mockEndToEnd = d]
  BY <1>3 DEF Cleanup, TwoHeaps
<1>5. /\ u \in TwoHeaps
      /\ u.real = a /\ u.mock = b /\ u.realEndToEnd = c /\ u.mockEndToEnd = d
      /\ u.pendingReal = t.pendingReal /\ u.pendingMock = t.pendingMock
  BY <1>2, <1>4 DEF TwoHeaps
<1> QED
  BY <1>1, <1>5

LEMMA SameYounger ==
    ASSUME NEW r \in Heap, NEW m \in Heap, Same(r, m), NEW cut
    PROVE  Same(Younger(r, cut), Younger(m, cut))
<1> DEFINE R == Younger(r, cut).samples
           M == Younger(m, cut).samples
<1>1. /\ R = {s \in r.samples : s.time > cut} /\ M = {s \in m.samples : s.time > cut}
      /\ Younger(r, cut).latestCmd = r.latestCmd
      /\ Younger(m, cut).latestCmd = m.latestCmd
  BY YoungerIs
<1>2. /\ \A s \in r.samples : s \in Sample
      /\ \A s \in m.samples : s \in Sample
  BY DEF Heap
<1>3. \A s, u \in Sample : Erased(s) = Erased(u) => s.time = u.time
  BY ErasedIs
<1> HIDE DEF R, M
<1>4. ASSUME NEW s \in R
      PROVE  \E u \in M : Erased(u) = Erased(s)
  <2>1. PICK u \in m.samples : Erased(u) = Erased(s)
    BY <1>1 DEF Same
  <2>2. u.time = s.time
    BY <1>1, <1>2, <1>3, <2>1
  <2> QED
    BY <1>1, <2>1, <2>2
<1>5. ASSUME NEW s \in M
      PROVE  \E u \in R : Erased(u) = Erased(s)
  <2>1. PICK u \in r.samples : Erased(u) = Erased(s)
    BY <1>1 DEF Same
  <2>2. u.time = s.time
    BY <1>1, <1>2, <1>3, <2>1
  <2> QED
    BY <1>1, <2>1, <2>2
<1>6. {Erased(s) : s \in R} = {Erased(s) : s \in M}
  BY <1>4, <1>5
<1> QED
  BY <1>1, <1>6 DEF Same, R, M

LEMMA CleanupKeeps ==
    ASSUME NEW t \in TwoHeaps, NEW cut, NEW u, u = Cleanup(t, cut),
           Consistent(t, <<>>)
    PROVE  /\ Consistent(u, <<>>)
           /\ OfPhase(t, <<>>) => OfPhase(u, <<>>)
<1>1. /\ u.real = Younger(t.real, cut) /\ u.mock = Younger(t.mock, cut)
      /\ u.realEndToEnd = Younger(t.realEndToEnd, cut)
      /\ u.mockEndToEnd = Younger(t.mockEndToEnd, cut)
      /\ u \in TwoHeaps
  BY CleanupIs
<1>2. /\ Same(u.real, u.mock) /\ Same(u.realEndToEnd, u.mockEndToEnd)
  BY <1>1, HeapFields, StepFacts, SameYounger
<1>3. InStep(u, <<>>)
  BY <1>2 DEF InStep, Ahead
<1>4. \A h \in HeapName : u[h].samples \subseteq t[h].samples
  BY <1>1, HeapFields, YoungerIs DEF HeapName
<1>5. Len(<<>>) = 0
  OBVIOUS
<1>6. \A k \in 1 .. Len(<<>>) : FALSE
  BY <1>5
<1>7. Dated(u, <<>>)
  BY <1>4, <1>6 DEF Consistent, Dated
<1>8. OfPhase(t, <<>>) => OfPhase(u, <<>>)
  BY <1>4, <1>6 DEF OfPhase
<1> QED
  BY <1>3, <1>7, <1>8 DEF Consistent

LEMMA ClearedIs ==
    /\ Cleared \in TwoHeaps
    /\ Consistent(Cleared, <<>>)
    /\ OfPhase(Cleared, <<>>)
    /\ \A h \in HeapName : Cleared[h] = EmptyHeap
    /\ \A c \in Cmd : Cleared.pendingReal[c] = Nil /\ Cleared.pendingMock[c] = Nil
<1>1. EmptyHeap \in Heap /\ EmptyHeap.samples = {}
  BY FS_EmptySet DEF EmptyHeap, Heap
<1>2. Cleared \in TwoHeaps
  BY <1>1 DEF Cleared, TwoHeaps
<1>3. \A h \in HeapName : Cleared[h] = EmptyHeap
  BY DEF Cleared, HeapName
<1>4. \A k \in 1 .. Len(<<>>) : FALSE
  OBVIOUS
<1>5. Same(EmptyHeap, EmptyHeap)
  BY DEF Same
<1>6. InStep(Cleared, <<>>)
  BY <1>5 DEF InStep, Ahead, Cleared
<1>7. Dated(Cleared, <<>>)
  BY <1>1, <1>3, <1>4 DEF Dated
<1>8. InPairs(<<>>)
  BY <1>4 DEF InPairs
<1>9. OfPhase(Cleared, <<>>)
  BY <1>1, <1>3, <1>4 DEF OfPhase
<1>10. \A c \in Cmd : Cleared.pendingReal[c] = Nil /\ Cleared.pendingMock[c] = Nil
  BY DEF Cleared
<1> QED
  BY <1>2, <1>3, <1>6, <1>7, <1>8, <1>9, <1>10 DEF Consistent

LEMMA NothingToldIs ==
    /\ NothingTold \in [Cmd -> Told]
    /\ \A c \in Cmd, kind \in Kinds : NothingTold[c][kind] = Nil
  BY DEF NothingTold, Told, Kinds

-----------------------------------------------------------------------------
(* Types, step by step                                                      *)

Measure(kind) == IF kind = "commit" THEN GhostLat
                 ELSE IF kind = "real" THEN RealLat ELSE ExecTime

Adding(kind, c, val, res) ==
    \/ kind = "commit" /\ \E real \in RealLat : res = AddCommit(th, c, real, val)
    \/ kind = "real" /\ res = AddReal(th, c, val)
    \/ kind = "exec" /\ res = AddExec(th, c, val)

\* an evaluation, with what adding the report came to
Evaluation(kind, c, val, res) ==
    /\ kind \in Kinds /\ c \in Cmd /\ val \in Measure(kind)
    /\ Outcome(res, th, c) /\ Adding(kind, c, val, res)
    /\ \E heaps \in {"commit", "endToEnd"}, next \in {"poll", "more"} :
            Evaluate(kind, c, val, res, heaps, next)
    /\ eva.pc \in {"select", "more"}

Dropped(kind, c) == kind \in Kinds /\ c \in Cmd /\ Ignore(kind, c) /\ eva.pc = "select"

\* what a report comes to: it is evaluated or dropped
LEMMA Reports ==
    ASSUME TypeOK,
           CommitLatencyFeedback \/ ClientRealE2ELatency \/ GhostExecLatency
    PROVE  \E kind \in Kinds, c \in Cmd :
              \/ \E val, res : /\ Evaluation(kind, c, val, res)
                               /\ <<kind, c>> \notin sent
                               /\ (eva.pc = "select" => warmupDone)
              \/ Dropped(kind, c)
<1>0. th \in TwoHeaps /\ phase \in Nat
  BY DEF TypeOK
<1>k. "commit" \in Kinds /\ "real" \in Kinds /\ "exec" \in Kinds
  BY DEF Kinds
<1>m. /\ Measure("commit") = GhostLat /\ Measure("real") = RealLat
      /\ Measure("exec") = ExecTime
  BY DEF Measure
<1>1. CASE CommitLatencyFeedback
  <2>1. PICK c \in Cmd, real \in RealLat, ghost \in GhostLat :
            /\ eva.pc = "select" /\ <<"commit", c>> \notin sent
            /\ IF warmupDone
               THEN Evaluate("commit", c, ghost, AddCommit(th, c, real, ghost),
                             "commit", "poll")
               ELSE Ignore("commit", c)
    BY <1>1 DEF CommitLatencyFeedback
  <2>2. CASE warmupDone
    <3>1. PICK res : res = AddCommit(th, c, real, ghost)
      OBVIOUS
    <3>2. Outcome(res, th, c)
      BY <1>0, <3>1, AddCommitOutcome
    <3>3. Evaluation("commit", c, ghost, res)
      BY <1>k, <1>m, <2>1, <2>2, <3>1, <3>2 DEF Evaluation, Adding
    <3> QED
      BY <1>k, <2>1, <2>2, <3>3
  <2>3. CASE ~warmupDone
    BY <1>k, <2>1, <2>3 DEF Dropped
  <2> QED
    BY <2>2, <2>3
<1>2. CASE ClientRealE2ELatency
  <2>1. PICK c \in Cmd, lat \in RealLat :
            /\ eva.pc = "select" /\ InOrder("real", c)
            /\ IF warmupDone /\ phase \notin Leads
               THEN Evaluate("real", c, lat, AddReal(th, c, lat), "endToEnd", "poll")
               ELSE Ignore("real", c)
    BY <1>2 DEF ClientRealE2ELatency
  <2>2. CASE warmupDone /\ phase \notin Leads
    <3>1. PICK res : res = AddReal(th, c, lat)
      OBVIOUS
    <3>2. Outcome(res, th, c)
      BY <1>0, <3>1, AddRealOutcome
    <3>3. Evaluation("real", c, lat, res)
      BY <1>k, <1>m, <2>1, <2>2, <3>1, <3>2 DEF Evaluation, Adding
    <3>4. <<"real", c>> \notin sent
      BY <2>1 DEF InOrder, Cmd
    <3> QED
      BY <1>k, <2>1, <2>2, <3>3, <3>4
  <2>3. CASE ~(warmupDone /\ phase \notin Leads)
    BY <1>k, <2>1, <2>3 DEF Dropped
  <2> QED
    BY <2>2, <2>3
<1>3. CASE GhostExecLatency
  <2>1. PICK c \in Cmd, exec \in ExecTime :
            /\ eva.pc \in {"select", "more"} /\ InOrder("exec", c)
            /\ IF eva.pc = "more" \/ (warmupDone /\ phase \notin Leads)
               THEN Evaluate("exec", c, exec, AddExec(th, c, exec), "endToEnd", "more")
               ELSE Ignore("exec", c)
    BY <1>3 DEF GhostExecLatency
  <2>2. CASE eva.pc = "more" \/ (warmupDone /\ phase \notin Leads)
    <3>1. PICK res : res = AddExec(th, c, exec)
      OBVIOUS
    <3>2. Outcome(res, th, c)
      BY <1>0, <3>1, AddExecOutcome
    <3>3. Evaluation("exec", c, exec, res)
      BY <1>k, <1>m, <2>1, <2>2, <3>1, <3>2 DEF Evaluation, Adding
    <3>4. <<"exec", c>> \notin sent
      BY <2>1 DEF InOrder, Cmd
    <3> QED
      BY <1>k, <2>1, <2>2, <3>3, <3>4
  <2>3. CASE ~(eva.pc = "more" \/ (warmupDone /\ phase \notin Leads))
    <3>1. Dropped("exec", c)
      BY <1>k, <2>1, <2>3 DEF Dropped
    <3> QED
      BY <1>k, <3>1
  <2> QED
    BY <2>2, <2>3
<1> QED
  BY <1>1, <1>2, <1>3

Telling(new, old, c, kind, val) == new = [old EXCEPT ![c][kind] = val]

LEMMA ToldUpdate ==
    ASSUME NEW old \in [Cmd -> Told], NEW c \in Cmd, NEW kind \in Kinds,
           NEW val \in Measure(kind), NEW new, Telling(new, old, c, kind, val)
    PROVE  /\ new \in [Cmd -> Told]
           /\ new[c][kind] = val
           /\ \A d \in Cmd, k \in Kinds : (d # c \/ k # kind) => new[d][k] = old[d][k]
           /\ \A d \in Cmd : d # c => new[d] = old[d]
<1>1. CASE kind = "commit"
  BY <1>1 DEF Telling, Measure, Told, Kinds
<1>2. CASE kind = "real"
  BY <1>2 DEF Telling, Measure, Told, Kinds
<1>3. CASE kind = "exec"
  BY <1>3 DEF Telling, Measure, Told, Kinds
<1> QED
  BY <1>1, <1>2, <1>3 DEF Kinds

\* what an evaluation does to the variables
LEMMA EvaluationIs ==
    ASSUME TypeOK, NEW kind, NEW c, NEW val, NEW res, Evaluation(kind, c, val, res)
    PROVE  /\ kind \in Kinds /\ c \in Cmd /\ val \in Measure(kind)
           /\ sent' = sent \union {<<kind, c>>}
           /\ th' = res.th /\ res.th \in TwoHeaps /\ SameHeaps(th, res.th)
           /\ told' = IF kind = "commit" /\ ~res.compare THEN told
                      ELSE [told EXCEPT ![c][kind] = val]
           /\ told' \in [Cmd -> Told]
           /\ panicked' = (panicked \/ res.panic)
           /\ eva' \in Evaluations /\ eva'.pc = "push" /\ eva'.todo = res.todo
           /\ eva'.evidence = {}
           /\ Fresh(res.todo, th, c)
           /\ UNCHANGED <<phase, sentForPhase, main, skipped, warmupDone,
                          slowdownChan, recorded>>
           /\ eva.pc \in {"select", "more"}
<1>1. PICK heaps \in {"commit", "endToEnd"}, next \in {"poll", "more"} :
            Evaluate(kind, c, val, res, heaps, next)
  BY DEF Evaluation
<1>2. kind \in Kinds /\ c \in Cmd /\ val \in Measure(kind)
  BY DEF Evaluation
<1>3. /\ res.th \in TwoHeaps /\ SameHeaps(th, res.th)
      /\ PushesPairs(res.todo, th, c)
      /\ res.compare \in BOOLEAN /\ res.panic \in BOOLEAN
  BY DEF Evaluation, Outcome
<1>4. Fresh(res.todo, th, c)
  BY <1>2, <1>3, PairsAreFresh DEF TypeOK
<1>5. res.todo \in Seq(Pushes)
  BY <1>4 DEF Fresh
<1>6. eva' = [pc |-> "push", todo |-> res.todo, compare |-> res.compare,
              heaps |-> heaps, next |-> next, evidence |-> {}]
  BY <1>1 DEF Evaluate
<1>7. eva' \in Evaluations
  BY <1>3, <1>5, <1>6 DEF Evaluations
<1>8. told' \in [Cmd -> Told]
  BY <1>1, <1>2, ToldUpdate DEF Evaluate, TypeOK, Telling
<1> QED
  BY <1>1, <1>2, <1>3, <1>4, <1>6, <1>7, <1>8 DEF Evaluate, rotation, Evaluation

LEMMA AtIs ==
    ASSUME NEW pc \in {"poll", "select", "more"}
    PROVE  /\ At(pc) \in Evaluations
           /\ At(pc).pc = pc /\ At(pc).todo = <<>> /\ At(pc).evidence = {}
  BY DEF At, Evaluations

LEMMA ReportTypes ==
    ASSUME TypeOK,
           CommitLatencyFeedback \/ ClientRealE2ELatency \/ GhostExecLatency
    PROVE  TypeOK'
<1>1. PICK kind \in Kinds, c \in Cmd :
              \/ \E val, res : Evaluation(kind, c, val, res)
              \/ Dropped(kind, c)
  BY Reports
<1>2. ASSUME NEW val, NEW res, Evaluation(kind, c, val, res)
      PROVE  TypeOK'
  <2>1. /\ sent' = sent \union {<<kind, c>>}
        /\ th' = res.th /\ res.th \in TwoHeaps
        /\ told' \in [Cmd -> Told]
        /\ panicked' = (panicked \/ res.panic)
        /\ eva' \in Evaluations
        /\ UNCHANGED <<phase, sentForPhase, main, skipped, warmupDone,
                       slowdownChan, recorded>>
    BY <1>2, EvaluationIs
  <2>2. panicked' \in BOOLEAN
    BY <2>1
  <2> QED
    BY <2>1, <2>2 DEF TypeOK
<1>3. CASE Dropped(kind, c)
  <2>1. At("poll") \in Evaluations
    BY AtIs
  <2> QED
    BY <1>3, <2>1 DEF Dropped, Ignore, TypeOK, rotation
<1> QED
  BY <1>1, <1>2, <1>3

\* what a push does to the variables
LEMMA HeapPushIs ==
    ASSUME TypeOK, HeapPush
    PROVE  /\ eva.pc = "push" /\ eva.todo \in Seq(Pushes) /\ eva.todo # <<>>
           /\ Head(eva.todo) \in Pushes /\ Tail(eva.todo) \in Seq(Pushes)
           /\ th' \in TwoHeaps
           /\ \A h \in HeapName :
                th'[h] = IF h = Head(eva.todo).heap
                         THEN Pushed(th[h], Head(eva.todo).sample) ELSE th[h]
           /\ th'.pendingReal = th.pendingReal /\ th'.pendingMock = th.pendingMock
           /\ recorded' = IF Head(eva.todo).heap = "mockEndToEnd"
                          THEN recorded \union {Head(eva.todo).sample.cmd}
                          ELSE recorded
           /\ recorded' \in SUBSET Cmd
           /\ eva' \in Evaluations /\ eva'.pc = "push"
           /\ eva'.todo = Tail(eva.todo) /\ eva'.evidence = eva.evidence
           /\ UNCHANGED <<phase, sentForPhase, main, skipped, warmupDone,
                          slowdownChan, sent, told, panicked>>
<1>1. PICK p : p = Head(eva.todo)
  OBVIOUS
<1>2. /\ eva.pc = "push" /\ eva.todo # <<>>
      /\ th' = [th EXCEPT ![p.heap] = Pushed(@, p.sample)]
      /\ recorded' = IF p.heap = "mockEndToEnd"
                     THEN recorded \union {p.sample.cmd} ELSE recorded
      /\ eva' = [eva EXCEPT !.todo = Tail(@)]
      /\ UNCHANGED <<phase, sentForPhase, main, skipped, warmupDone,
                     slowdownChan, sent, told, panicked>>
  BY <1>1 DEF HeapPush, rotation
<1>3. eva.todo \in Seq(Pushes) /\ th \in TwoHeaps /\ eva \in Evaluations
      /\ recorded \in SUBSET Cmd
  BY DEF TypeOK, Evaluations
<1>4. p \in Pushes /\ Tail(eva.todo) \in Seq(Pushes)
  BY <1>1, <1>2, <1>3, TailIs
<1>5. p.sample.cmd \in Cmd
  BY <1>4 DEF Pushes, Sample
<1>6. recorded' \in SUBSET Cmd
  BY <1>2, <1>3, <1>5
<1>7. PICK u : u = th'
  OBVIOUS
<1>8. /\ u \in TwoHeaps
      /\ \A h \in HeapName :
                u[h] = IF h = p.heap THEN Pushed(th[h], p.sample) ELSE th[h]
      /\ u.pendingReal = th.pendingReal /\ u.pendingMock = th.pendingMock
  <2>1. PushOnto(th, u, p)
    BY <1>2, <1>7 DEF PushOnto
  <2> QED
    BY <1>3, <1>4, <2>1, PushUpdates
<1>9. PICK rest \in Seq(Pushes) : rest = Tail(eva.todo)
  BY <1>4
<1>10. eva' = [eva EXCEPT !.todo = rest]
  BY <1>2, <1>9
<1>11. /\ eva' \in Evaluations /\ eva'.pc = eva.pc /\ eva'.todo = rest
       /\ eva'.evidence = eva.evidence
  BY <1>3, <1>10 DEF Evaluations
<1> QED
  BY <1>1, <1>2, <1>3, <1>4, <1>6, <1>7, <1>8, <1>9, <1>11

LEMMA NowIsNat ==
    ASSUME TypeOK
    PROVE  Now(th) \in Nat
  BY NowIsLater DEF TypeOK

\* what the cleanup and the comparison do to the variables
LEMMA CheckIfRotateIs ==
    ASSUME TypeOK, CheckIfRotate
    PROVE  /\ eva.pc = "push" /\ eva.todo = <<>>
           /\ UNCHANGED <<phase, sentForPhase, main, skipped, warmupDone,
                          slowdownChan, sent, panicked>>
           /\ \E cut \in Nat : \E t \in TwoHeaps :
                /\ t = Cleanup(th, cut)
                /\ \/ /\ eva' \in Evaluations /\ eva'.pc = "send"
                      /\ eva'.todo = <<>> /\ eva'.evidence = Evidence(t)
                      /\ Clear
                   \/ /\ \E pc \in {"poll", "more"} : eva' = At(pc)
                      /\ th' = t
                      /\ UNCHANGED <<told, recorded>>
<1>0. th \in TwoHeaps /\ eva \in Evaluations /\ Now(th) \in Nat
  BY NowIsNat DEF TypeOK
<1>1. PICK cut \in 0 .. Now(th) - 1 :
          LET t == Cleanup(th, cut)
              less == IF eva.heaps = "commit" THEN CheckIfLess(t.mock, t.real)
                      ELSE CheckIfLess(t.mockEndToEnd, t.realEndToEnd)
          IN  IF eva.compare /\ less
              THEN /\ eva' = [eva EXCEPT !.pc = "send", !.evidence = Evidence(t)]
                   /\ Clear
              ELSE /\ eva' = At(eva.next)
                   /\ th' = t
                   /\ UNCHANGED <<told, recorded>>
  BY DEF CheckIfRotate
<1>2. cut \in Nat
  BY <1>0
<1>3. PICK t \in TwoHeaps : t = Cleanup(th, cut)
  BY <1>0, CleanupIs
<1>4. eva.pc = "push" /\ eva.todo = <<>>
      /\ UNCHANGED <<phase, sentForPhase, main, skipped, warmupDone,
                     slowdownChan, sent, panicked>>
  BY DEF CheckIfRotate, rotation
<1>5. \/ /\ eva' = [eva EXCEPT !.pc = "send", !.evidence = Evidence(t)]
         /\ Clear
      \/ /\ eva' = At(eva.next)
         /\ th' = t
         /\ UNCHANGED <<told, recorded>>
  BY <1>1, <1>3
<1>6. PICK ev : ev = Evidence(t)
  OBVIOUS
<1>7. ev \subseteq Nat
  <2>1. /\ t.real.samples \subseteq Sample /\ t.mock.samples \subseteq Sample
        /\ t.realEndToEnd.samples \subseteq Sample
        /\ t.mockEndToEnd.samples \subseteq Sample
    BY <1>3 DEF TwoHeaps, Heap
  <2> QED
    BY <1>6, <2>1 DEF Evidence, Sample
<1>8. CASE eva' = [eva EXCEPT !.pc = "send", !.evidence = Evidence(t)] /\ Clear
  <2>1. eva' = [eva EXCEPT !.pc = "send", !.evidence = ev]
    BY <1>6, <1>8
  <2>2. /\ eva' \in Evaluations /\ eva'.pc = "send"
        /\ eva'.todo = eva.todo /\ eva'.evidence = ev
    BY <1>0, <1>7, <2>1 DEF Evaluations
  <2> QED
    BY <1>2, <1>3, <1>4, <1>6, <1>8, <2>2
<1>9. CASE eva' = At(eva.next) /\ th' = t /\ UNCHANGED <<told, recorded>>
  <2>1. eva.next \in {"poll", "more"}
    BY <1>0 DEF Evaluations
  <2> QED
    BY <1>2, <1>3, <1>4, <1>9, <2>1
<1> QED
  BY <1>5, <1>8, <1>9

LEMMA ClearTypes ==
    ASSUME Clear
    PROVE  /\ th' \in TwoHeaps /\ told' \in [Cmd -> Told] /\ recorded' \in SUBSET Cmd
  BY ClearedIs, NothingToldIs DEF Clear

LEMMA InitTypes == Init => TypeOK
<1> SUFFICES ASSUME Init
             PROVE  TypeOK
  OBVIOUS
<1>1. eva \in Evaluations
  BY AtIs DEF Init
<1>2. th \in TwoHeaps /\ told \in [Cmd -> Told]
  BY ClearedIs, NothingToldIs DEF Init
<1>3. slowdownChan \in Seq(Suspected)
  BY EmptySeq DEF Init
<1>4. sent \in SUBSET (Kinds \X Cmd) /\ recorded \in SUBSET Cmd
  BY DEF Init
<1> QED
  BY <1>1, <1>2, <1>3, <1>4 DEF Init, TypeOK

LEMMA EvaluatorTypes ==
    ASSUME TypeOK, Evaluator
    PROVE  TypeOK'
<1>1. CASE PollStop
  BY <1>1, AtIs DEF PollStop, TypeOK, rotation, history
<1>2. CASE StopEva
  <2>1. main' \in {"run", "stop", "stopThenClear", "clear"}
    BY <1>2 DEF StopEva
  <2> QED
    BY <1>2, <2>1, AtIs, ClearTypes DEF StopEva, TypeOK
<1>3. CASE CommitLatencyFeedback \/ ClientRealE2ELatency \/ GhostExecLatency
  BY <1>3, ReportTypes
<1>4. CASE Sleep
  BY <1>4, AtIs DEF Sleep, TypeOK, rotation, history
<1>5. CASE HeapPush
  <2>1. /\ th' \in TwoHeaps /\ recorded' \in SUBSET Cmd /\ eva' \in Evaluations
        /\ UNCHANGED <<phase, sentForPhase, main, skipped, warmupDone,
                       slowdownChan, sent, told, panicked>>
    BY <1>5, HeapPushIs
  <2> QED
    BY <2>1 DEF TypeOK
<1>6. CASE CheckIfRotate
  <2>1. PICK t \in TwoHeaps :
            \/ eva' \in Evaluations /\ Clear
            \/ /\ \E pc \in {"poll", "more"} : eva' = At(pc)
               /\ th' = t
               /\ UNCHANGED <<told, recorded>>
    BY <1>6, CheckIfRotateIs
  <2>2. UNCHANGED <<phase, sentForPhase, main, skipped, warmupDone,
                    slowdownChan, sent, panicked>>
    BY <1>6, CheckIfRotateIs
  <2>3. CASE eva' \in Evaluations /\ Clear
    BY <2>2, <2>3, ClearTypes DEF TypeOK
  <2>4. CASE /\ \E pc \in {"poll", "more"} : eva' = At(pc)
             /\ th' = t
             /\ UNCHANGED <<told, recorded>>
    BY <2>2, <2>4, AtIs DEF TypeOK
  <2> QED
    BY <2>1, <2>3, <2>4
<1>7. CASE Suspect
  <2>1. eva' = At(eva.next) /\ eva.next \in {"poll", "more"}
    BY <1>7 DEF Suspect, TypeOK, Evaluations
  <2>2. eva' \in Evaluations
    BY <2>1, AtIs
  <2>3. PICK e : e = [phase |-> phase, evidence |-> eva.evidence]
    OBVIOUS
  <2>4. e \in Suspected
    BY <2>3 DEF Suspected, TypeOK, Evaluations
  <2>5. slowdownChan' = Append(slowdownChan, e)
    BY <1>7, <2>3 DEF Suspect
  <2>6. slowdownChan' \in Seq(Suspected)
    BY <2>4, <2>5, AppendProperties DEF TypeOK
  <2> QED
    BY <1>7, <2>2, <2>6, ClearTypes DEF Suspect, TypeOK, rotation
<1> QED
  BY <1>1, <1>2, <1>3, <1>4, <1>5, <1>6, <1>7 DEF Evaluator

LEMMA RunTypes ==
    ASSUME TypeOK, Run
    PROVE  TypeOK'
<1>b. \A then \in {"run", "clear"} : BcastRotate(then) =>
            /\ main' \in {"run", "stop", "stopThenClear", "clear"}
            /\ warmupDone' \in BOOLEAN /\ sentForPhase' = sentForPhase
  BY DEF BcastRotate
<1>1. CASE HandleSlowdown
  <2>1. slowdownChan' \in Seq(Suspected)
    BY <1>1, HeadTailProperties DEF HandleSlowdown, TypeOK
  <2>2. /\ main' \in {"run", "stop", "stopThenClear", "clear"}
        /\ warmupDone' \in BOOLEAN /\ sentForPhase' = sentForPhase
    BY <1>1, <1>b DEF HandleSlowdown, TypeOK
  <2> QED
    BY <1>1, <2>1, <2>2 DEF HandleSlowdown, TypeOK, history
<1>2. CASE ProgressTimer
  BY <1>2, <1>b DEF ProgressTimer, TypeOK, history
<1>3. CASE HandleRotate
  <2>1. PICK then \in {"run", "clear"} :
            IF sentForPhase THEN main' = then /\ UNCHANGED <<warmupDone, sentForPhase>>
            ELSE BcastRotate(then)
    BY <1>3 DEF HandleRotate
  <2>2. /\ main' \in {"run", "stop", "stopThenClear", "clear"}
        /\ warmupDone' \in BOOLEAN /\ sentForPhase' = sentForPhase
    BY <1>b, <2>1 DEF TypeOK
  <2> QED
    BY <1>3, <2>2 DEF HandleRotate, TypeOK, history
<1>4. CASE GoToPhase
  <2>1. phase' \in Nat
    BY <1>4 DEF GoToPhase, TypeOK
  <2>2. th' \in TwoHeaps /\ told' \in [Cmd -> Told] /\ recorded' \in SUBSET Cmd
    BY <1>4, ClearTypes DEF GoToPhase
  <2> QED
    BY <1>4, <2>1, <2>2 DEF GoToPhase, TypeOK
<1>5. CASE SkipPhase
  <2>1. phase' \in Nat
    BY <1>5, DetectorAssumption DEF SkipPhase, TypeOK
  <2> QED
    BY <1>5, <2>1 DEF SkipPhase, TypeOK, history
<1>6. CASE WarmupEnds
  BY <1>6 DEF WarmupEnds, TypeOK, rotation, history
<1> QED
  BY <1>1, <1>2, <1>3, <1>4, <1>5, <1>6 DEF Run

LEMMA StepTypes == TypeOK /\ [Next]_vars => TypeOK'
<1> SUFFICES ASSUME TypeOK, [Next]_vars
             PROVE  TypeOK'
  OBVIOUS
<1>1. CASE UNCHANGED vars
  BY <1>1 DEF vars, rotation, history, TypeOK
<1> QED
  BY <1>1, EvaluatorTypes, RunTypes DEF Next

\* Every variable keeps its type: the heaps hold finitely many samples, and
\* every latency, time and phase in them is a number.
THEOREM DetectorTypes == Spec => []TypeOK
  BY InitTypes, StepTypes, PTL DEF Spec

-----------------------------------------------------------------------------
(* The real and the ghost heaps are of the same commands and of this phase. *)
(* It takes that the evaluator is idle once bcastRotate is done with it:    *)
(* otherwise a latency could be pushed after the heaps were cleared.        *)

Stopped ==
    /\ eva.pc \in {"poll", "select", "more"} => eva = At(eva.pc)
    /\ eva.pc = "send" => eva.todo = <<>>
    /\ sentForPhase => ~warmupDone
    /\ main # "run" => ~warmupDone
    /\ (~warmupDone /\ main \in {"run", "clear"}) => eva.pc \in {"poll", "select"}

Measured ==
    ~skipped => /\ OfPhase(th, eva.todo)
                /\ eva.evidence \subseteq {phase}
                /\ \A i \in 1 .. Len(slowdownChan) :
                      slowdownChan[i].evidence \subseteq {slowdownChan[i].phase}

HeapInv == Stopped /\ Consistent(th, eva.todo) /\ Measured /\ ~panicked

LEMMA Idle ==
    ASSUME Stopped
    PROVE  eva.pc \in {"poll", "select", "more"} => eva.todo = <<>> /\ eva.evidence = {}
  BY AtIs DEF Stopped

\* a step that leaves the phase and the channel alone
LEMMA HeapsKept ==
    ASSUME Measured, UNCHANGED <<phase, skipped, slowdownChan>>,
           NEW u, NEW q, th' = u, eva'.todo = q,
           Consistent(u, q), ~skipped => OfPhase(u, q),
           ~skipped => eva'.evidence \subseteq {phase}
    PROVE  Consistent(th, eva.todo)' /\ Measured'
<1>1. Consistent(th, eva.todo)'
  BY DEF Consistent, InPairs, InStep, Dated, Same, Ahead
<1>2. (~skipped => OfPhase(th, eva.todo))'
  BY DEF OfPhase
<1> QED
  BY <1>1, <1>2 DEF Measured

LEMMA ClearKeeps ==
    ASSUME Measured, UNCHANGED <<phase, skipped, slowdownChan>>, Clear,
           eva'.todo = <<>>, ~skipped => eva'.evidence \subseteq {phase}
    PROVE  Consistent(th, eva.todo)' /\ Measured'
<1>1. PICK u : u = Cleared
  OBVIOUS
<1>2. Consistent(u, <<>>) /\ OfPhase(u, <<>>) /\ th' = u
  BY <1>1, ClearedIs DEF Clear
<1> QED
  BY <1>2, HeapsKept

LEMMA ReportsKeepHeaps ==
    ASSUME TypeOK, HeapInv,
           CommitLatencyFeedback \/ ClientRealE2ELatency \/ GhostExecLatency
    PROVE  HeapInv'
<1>0. Stopped /\ Consistent(th, eva.todo) /\ Measured /\ ~panicked
  BY DEF HeapInv
<1>1. PICK kind \in Kinds, c \in Cmd :
              \/ \E val, res : /\ Evaluation(kind, c, val, res)
                               /\ (eva.pc = "select" => warmupDone)
              \/ Dropped(kind, c)
  BY Reports
<1>2. ASSUME NEW val, NEW res, Evaluation(kind, c, val, res),
             eva.pc = "select" => warmupDone
      PROVE  HeapInv'
  <2>1. /\ th' = res.th /\ res.th \in TwoHeaps /\ SameHeaps(th, res.th)
        /\ panicked' = (panicked \/ res.panic)
        /\ eva'.pc = "push" /\ eva'.todo = res.todo
        /\ eva'.evidence = {}
        /\ Fresh(res.todo, th, c)
        /\ UNCHANGED <<phase, sentForPhase, main, skipped, warmupDone,
                       slowdownChan, recorded>>
        /\ eva.pc \in {"select", "more"}
    BY <1>2, EvaluationIs
  <2>2. eva.todo = <<>>
    BY <1>0, <2>1, Idle
  <2>3. Consistent(th, <<>>) /\ th \in TwoHeaps
    BY <1>0, <2>2 DEF TypeOK
  <2>4. PICK u, q : u = res.th /\ q = res.todo
    OBVIOUS
  <2>5. /\ Consistent(u, q)
        /\ OfPhase(th, <<>>) => OfPhase(u, q)
    BY <2>1, <2>3, <2>4, FreshKeeps
  <2>6. ~skipped => OfPhase(u, q)
    BY <1>0, <2>2, <2>5 DEF Measured
  <2>7. Consistent(th, eva.todo)' /\ Measured'
    BY <1>0, <2>1, <2>4, <2>5, <2>6, HeapsKept
  <2>8. ~res.panic
    BY <1>2, <2>3, EqualSizes DEF Evaluation, Outcome
  <2>9. Stopped'
    BY <1>0, <1>2, <2>1 DEF Stopped
  <2> QED
    BY <1>0, <2>1, <2>7, <2>8, <2>9 DEF HeapInv
<1>3. CASE Dropped(kind, c)
  <2>1. /\ eva' = At("poll") /\ eva.pc = "select"
        /\ UNCHANGED <<phase, sentForPhase, main, skipped, warmupDone,
                       slowdownChan, th, panicked>>
    BY <1>3 DEF Dropped, Ignore, rotation
  <2>2. eva'.pc = "poll" /\ eva'.todo = <<>> /\ eva'.evidence = {} /\ eva.todo = <<>>
    BY <1>0, <2>1, AtIs, Idle
  <2>3. PICK u : u = th
    OBVIOUS
  <2>4. Consistent(th, eva.todo)' /\ Measured'
    BY <1>0, <2>1, <2>2, <2>3, HeapsKept DEF Measured
  <2>5. Stopped'
    BY <1>0, <2>1, <2>2 DEF Stopped
  <2> QED
    BY <1>0, <2>1, <2>4, <2>5 DEF HeapInv
<1> QED
  BY <1>1, <1>2, <1>3

LEMMA HeapPushKeepsHeaps ==
    ASSUME TypeOK, HeapInv, HeapPush
    PROVE  HeapInv'
<1>0. Stopped /\ Consistent(th, eva.todo) /\ Measured /\ ~panicked /\ th \in TwoHeaps
  BY DEF HeapInv, TypeOK
<1>1. /\ eva.pc = "push" /\ eva.todo \in Seq(Pushes) /\ eva.todo # <<>>
      /\ th' \in TwoHeaps
      /\ \A h \in HeapName :
           th'[h] = IF h = Head(eva.todo).heap
                    THEN Pushed(th[h], Head(eva.todo).sample) ELSE th[h]
      /\ eva'.pc = "push"
      /\ eva'.todo = Tail(eva.todo) /\ eva'.evidence = eva.evidence
      /\ UNCHANGED <<phase, sentForPhase, main, skipped, warmupDone,
                     slowdownChan, sent, told, panicked>>
  BY HeapPushIs
<1>2. PICK u, q, r : u = th' /\ q = eva.todo /\ r = Tail(q)
  OBVIOUS
<1>3. /\ Consistent(u, r)
      /\ OfPhase(th, q) => OfPhase(u, r)
  BY <1>0, <1>1, <1>2, PushKeeps
<1>4. ~skipped => OfPhase(u, r) /\ eva'.evidence \subseteq {phase}
  BY <1>0, <1>1, <1>2, <1>3 DEF Measured
<1>5. Consistent(th, eva.todo)' /\ Measured'
  BY <1>0, <1>1, <1>2, <1>3, <1>4, HeapsKept
<1>6. Stopped'
  BY <1>0, <1>1 DEF Stopped
<1> QED
  BY <1>0, <1>1, <1>5, <1>6 DEF HeapInv

LEMMA CheckIfRotateKeepsHeaps ==
    ASSUME TypeOK, HeapInv, CheckIfRotate
    PROVE  HeapInv'
<1>0. Stopped /\ Consistent(th, eva.todo) /\ Measured /\ ~panicked /\ th \in TwoHeaps
  BY DEF HeapInv, TypeOK
<1>1. /\ eva.pc = "push" /\ eva.todo = <<>>
      /\ UNCHANGED <<phase, sentForPhase, main, skipped, warmupDone,
                     slowdownChan, sent, panicked>>
  BY CheckIfRotateIs
<1>2. PICK t \in TwoHeaps, cut \in Nat :
            /\ t = Cleanup(th, cut)
            /\ \/ /\ eva' \in Evaluations /\ eva'.pc = "send"
                  /\ eva'.todo = <<>> /\ eva'.evidence = Evidence(t)
                  /\ Clear
               \/ /\ \E pc \in {"poll", "more"} : eva' = At(pc)
                  /\ th' = t
                  /\ UNCHANGED <<told, recorded>>
  BY CheckIfRotateIs
<1>3. /\ Consistent(t, <<>>)
      /\ ~skipped => OfPhase(t, <<>>)
  BY <1>0, <1>1, <1>2, CleanupKeeps DEF Measured
<1>4. CASE /\ eva'.pc = "send" /\ eva'.todo = <<>> /\ eva'.evidence = Evidence(t)
           /\ Clear
  <2>1. ~skipped => Evidence(t) \subseteq {phase}
    BY <1>2, <1>3, HeapFields DEF Evidence, OfPhase, HeapName
  <2>2. Consistent(th, eva.todo)' /\ Measured'
    BY <1>0, <1>1, <1>4, <2>1, ClearKeeps
  <2>3. Stopped'
    BY <1>0, <1>1, <1>4 DEF Stopped
  <2> QED
    BY <1>0, <1>1, <2>2, <2>3 DEF HeapInv
<1>5. CASE (\E pc \in {"poll", "more"} : eva' = At(pc)) /\ th' = t
  <2>1. PICK pc \in {"poll", "more"} : eva' = At(pc)
    BY <1>5
  <2>2. eva'.pc = pc /\ eva'.todo = <<>> /\ eva'.evidence = {}
    BY <2>1, AtIs
  <2>3. Consistent(th, eva.todo)' /\ Measured'
    BY <1>0, <1>1, <1>3, <1>5, <2>2, HeapsKept
  <2>4. Stopped'
    BY <1>0, <1>1, <2>1, <2>2 DEF Stopped
  <2> QED
    BY <1>0, <1>1, <2>3, <2>4 DEF HeapInv
<1> QED
  BY <1>2, <1>4, <1>5

LEMMA SuspectKeepsHeaps ==
    ASSUME TypeOK, HeapInv, Suspect
    PROVE  HeapInv'
<1>0. Stopped /\ Consistent(th, eva.todo) /\ Measured /\ ~panicked
  BY DEF HeapInv
<1>1. PICK e : e = [phase |-> phase, evidence |-> eva.evidence]
  OBVIOUS
<1>2. /\ eva.pc = "send" /\ slowdownChan' = Append(slowdownChan, e)
      /\ eva' = At(eva.next) /\ eva.next \in {"poll", "more"}
      /\ Clear
      /\ UNCHANGED <<phase, sentForPhase, main, skipped, warmupDone, panicked>>
  BY <1>1 DEF Suspect, rotation, TypeOK, Evaluations
<1>3. eva'.pc = eva.next /\ eva'.todo = <<>> /\ eva'.evidence = {}
  BY <1>2, AtIs
<1>4. PICK u, q : u = Cleared /\ q = <<>>
  OBVIOUS
<1>5. Consistent(u, q) /\ OfPhase(u, q) /\ th' = u /\ eva'.todo = q
  BY <1>2, <1>3, <1>4, ClearedIs DEF Clear
<1>6. Consistent(th, eva.todo)'
  BY <1>5 DEF Consistent, InPairs, InStep, Dated, Same, Ahead
<1>7. OfPhase(th, eva.todo)'
  BY <1>2, <1>5 DEF OfPhase
<1>8. ~skipped => \A i \in 1 .. Len(slowdownChan') :
            slowdownChan'[i].evidence \subseteq {slowdownChan'[i].phase}
  <2>1. e \in Suspected /\ slowdownChan \in Seq(Suspected)
    BY <1>1 DEF Suspected, TypeOK, Evaluations
  <2>2. /\ Len(slowdownChan') = Len(slowdownChan) + 1
        /\ \A i \in 1 .. Len(slowdownChan) : slowdownChan'[i] = slowdownChan[i]
        /\ slowdownChan'[Len(slowdownChan) + 1] = e
        /\ Len(slowdownChan) \in Nat
    BY <1>2, <2>1, AppendProperties, LenProperties
  <2>3. ~skipped => e.evidence \subseteq {e.phase}
    BY <1>0, <1>1 DEF Measured
  <2>4. \A i \in 1 .. Len(slowdownChan') :
            i \in 1 .. Len(slowdownChan) \/ i = Len(slowdownChan) + 1
    BY <2>2
  <2> QED
    BY <1>0, <2>2, <2>3, <2>4 DEF Measured
<1>9. Measured'
  BY <1>2, <1>3, <1>7, <1>8 DEF Measured
<1>10. Stopped'
  BY <1>0, <1>2, <1>3 DEF Stopped
<1> QED
  BY <1>0, <1>2, <1>6, <1>9, <1>10 DEF HeapInv

LEMMA EvaluatorKeepsHeaps ==
    ASSUME TypeOK, HeapInv, Evaluator
    PROVE  HeapInv'
<1>0. Stopped /\ Consistent(th, eva.todo) /\ Measured /\ ~panicked
  BY DEF HeapInv
<1>1. ASSUME eva.pc \in {"poll", "select", "more"},
             NEW pc \in {"poll", "select"}, eva' = At(pc),
             UNCHANGED <<phase, sentForPhase, main, skipped, warmupDone,
                         slowdownChan, th, panicked>>
      PROVE  HeapInv'
  <2>1. eva'.pc = pc /\ eva'.todo = <<>> /\ eva'.evidence = {} /\ eva.todo = <<>>
    BY <1>0, <1>1, AtIs, Idle
  <2>2. PICK u : u = th
    OBVIOUS
  <2>3. Consistent(th, eva.todo)' /\ Measured'
    BY <1>0, <1>1, <2>1, <2>2, HeapsKept DEF Measured
  <2>4. Stopped'
    BY <1>0, <1>1, <2>1 DEF Stopped
  <2> QED
    BY <1>0, <1>1, <2>3, <2>4 DEF HeapInv
<1>2. CASE PollStop
  BY <1>1, <1>2 DEF PollStop, rotation
<1>3. CASE StopEva
  <2>1. /\ eva' = At("select") /\ Clear /\ main \in {"stop", "stopThenClear"}
        /\ main' \in {"run", "clear"} /\ sentForPhase' = TRUE
        /\ UNCHANGED <<phase, skipped, warmupDone, slowdownChan, panicked>>
    BY <1>3 DEF StopEva
  <2>2. eva'.pc = "select" /\ eva'.todo = <<>> /\ eva'.evidence = {}
    BY <2>1, AtIs
  <2>3. Consistent(th, eva.todo)' /\ Measured'
    BY <1>0, <2>1, <2>2, ClearKeeps
  <2>4. Stopped'
    BY <1>0, <2>1, <2>2 DEF Stopped
  <2> QED
    BY <1>0, <2>1, <2>3, <2>4 DEF HeapInv
<1>4. CASE Sleep
  BY <1>1, <1>4 DEF Sleep, rotation
<1> QED
  BY <1>2, <1>3, <1>4, ReportsKeepHeaps, HeapPushKeepsHeaps,
     CheckIfRotateKeepsHeaps, SuspectKeepsHeaps DEF Evaluator

LEMMA RunKeepsHeaps ==
    ASSUME TypeOK, HeapInv, Timely, Run
    PROVE  HeapInv'
<1>0. Stopped /\ Consistent(th, eva.todo) /\ Measured /\ ~panicked
      /\ warmupDone \in BOOLEAN
  BY DEF HeapInv, TypeOK
<1>2. ASSUME NEW then \in {"run", "clear"}, main = "run", BcastRotate(then),
             UNCHANGED <<eva>>
      PROVE  Stopped'
  <2>1. CASE warmupDone
    BY <1>0, <1>2, <2>1 DEF BcastRotate, Stopped
  <2>2. CASE ~warmupDone
    BY <1>0, <1>2, <2>2 DEF BcastRotate, Stopped
  <2> QED
    BY <2>1, <2>2
<1>3. ASSUME UNCHANGED <<phase, skipped, slowdownChan, th, eva>>
      PROVE  Consistent(th, eva.todo)' /\ Measured'
  <2>1. PICK u, q : u = th /\ q = eva.todo
    OBVIOUS
  <2> QED
    BY <1>0, <1>3, <2>1, HeapsKept DEF Measured
<1>4. CASE HandleSlowdown
  <2>1. /\ UNCHANGED <<phase, skipped, th, eva, panicked>>
        /\ main = "run" /\ slowdownChan # <<>>
        /\ slowdownChan' = Tail(slowdownChan)
        /\ BcastRotate("run") \/ UNCHANGED <<warmupDone, main, sentForPhase>>
    BY <1>4 DEF HandleSlowdown
  <2>2. Stopped'
    <3>1. CASE BcastRotate("run")
      BY <1>2, <2>1, <3>1
    <3>2. CASE UNCHANGED <<warmupDone, main, sentForPhase>>
      BY <1>0, <2>1, <3>2 DEF Stopped
    <3> QED
      BY <2>1, <3>1, <3>2
  <2>3. Consistent(th, eva.todo)'
    BY <1>0, <2>1 DEF Consistent, InPairs, InStep, Dated, Same, Ahead
  <2>4. Measured'
    <3>1. (~skipped => OfPhase(th, eva.todo))'
      BY <1>0, <2>1 DEF Measured, OfPhase
    <3>2. /\ Len(slowdownChan') = Len(slowdownChan) - 1
          /\ \A i \in 1 .. Len(slowdownChan') : slowdownChan'[i] = slowdownChan[i + 1]
          /\ Len(slowdownChan) \in Nat
      BY <2>1, HeadTailProperties, LenProperties DEF TypeOK
    <3>3. \A i \in 1 .. Len(slowdownChan') : i + 1 \in 1 .. Len(slowdownChan)
      BY <3>2
    <3>4. ~skipped => \A i \in 1 .. Len(slowdownChan') :
                slowdownChan'[i].evidence \subseteq {slowdownChan'[i].phase}
      BY <1>0, <3>2, <3>3 DEF Measured
    <3> QED
      BY <1>0, <2>1, <3>1, <3>4 DEF Measured
  <2> QED
    BY <1>0, <2>1, <2>2, <2>3, <2>4 DEF HeapInv
<1>5. CASE ProgressTimer
  <2>1. /\ UNCHANGED <<phase, skipped, slowdownChan, th, eva, panicked>>
        /\ main = "run" /\ BcastRotate("run")
    BY <1>5 DEF ProgressTimer
  <2> QED
    BY <1>0, <1>2, <1>3, <2>1 DEF HeapInv
<1>6. CASE HandleRotate
  <2>1. PICK then \in {"run", "clear"} :
            IF sentForPhase THEN main' = then /\ UNCHANGED <<warmupDone, sentForPhase>>
            ELSE BcastRotate(then)
    BY <1>6 DEF HandleRotate
  <2>2. /\ UNCHANGED <<phase, skipped, slowdownChan, th, eva, panicked>>
        /\ main = "run"
    BY <1>6 DEF HandleRotate
  <2>3. Stopped'
    <3>1. CASE sentForPhase
      BY <1>0, <2>1, <2>2, <3>1 DEF Stopped
    <3>2. CASE ~sentForPhase
      BY <1>2, <2>1, <2>2, <3>2
    <3> QED
      BY <3>1, <3>2
  <2> QED
    BY <1>0, <1>3, <2>2, <2>3 DEF HeapInv
<1>7. CASE GoToPhase
  <2>1. /\ main = "clear" /\ Clear /\ phase' = phase + 1 /\ main' = "run"
        /\ sentForPhase' = FALSE
        /\ UNCHANGED <<skipped, warmupDone, slowdownChan, eva, panicked>>
    BY <1>7 DEF GoToPhase
  <2>2. eva.pc \in {"poll", "select"} /\ ~warmupDone
    BY <1>0, <2>1 DEF Stopped
  <2>3. eva.todo = <<>> /\ eva.evidence = {}
    BY <1>0, <2>2, Idle
  <2>4. PICK u, q : u = Cleared /\ q = <<>>
    OBVIOUS
  <2>5. /\ Consistent(u, q) /\ th' = u /\ eva'.todo = q
        /\ \A h \in HeapName : u[h].samples = {}
    BY <2>1, <2>3, <2>4, ClearedIs DEF Clear, EmptyHeap
  <2>6. Consistent(th, eva.todo)'
    BY <2>5 DEF Consistent, InPairs, InStep, Dated, Same, Ahead
  <2>7. OfPhase(th, eva.todo)'
    <3>1. \A k \in 1 .. Len(<<>>) : FALSE
      OBVIOUS
    <3>2. \A k \in 1 .. Len(q) : FALSE
      BY <2>4, <3>1
    <3> QED
      BY <2>5, <3>2 DEF OfPhase
  <2>8. Measured'
    BY <1>0, <2>1, <2>3, <2>7 DEF Measured
  <2>9. Stopped'
    BY <1>0, <2>1, <2>2 DEF Stopped
  <2> QED
    BY <1>0, <2>1, <2>6, <2>8, <2>9 DEF HeapInv
<1>8. CASE SkipPhase
  <2>1. /\ main = "run" /\ sentForPhase' = FALSE /\ skipped' = TRUE
        /\ UNCHANGED <<main, warmupDone, slowdownChan, th, eva, panicked>>
    BY <1>8 DEF SkipPhase, history
  <2>2. Consistent(th, eva.todo)'
    BY <1>0, <2>1 DEF Consistent, InPairs, InStep, Dated, Same, Ahead
  <2>3. Measured'
    BY <2>1 DEF Measured
  <2>4. Stopped'
    BY <1>0, <2>1 DEF Stopped
  <2> QED
    BY <1>0, <2>1, <2>2, <2>3, <2>4 DEF HeapInv
<1>9. CASE WarmupEnds
  <2>1. /\ main = "run" /\ ~sentForPhase /\ warmupDone' = TRUE
        /\ UNCHANGED <<phase, sentForPhase, main, skipped, slowdownChan, th, eva,
                       panicked>>
    BY <1>9 DEF WarmupEnds, rotation
  <2>2. Stopped'
    BY <1>0, <2>1 DEF Stopped
  <2> QED
    BY <1>0, <1>3, <2>1, <2>2 DEF HeapInv
<1> QED
  BY <1>4, <1>5, <1>6, <1>7, <1>8, <1>9 DEF Run

LEMMA InitHeaps == Init => HeapInv
<1> SUFFICES ASSUME Init
             PROVE  HeapInv
  OBVIOUS
<1>1. /\ eva = At("poll") /\ eva.pc = "poll" /\ eva.todo = <<>> /\ eva.evidence = {}
  BY AtIs DEF Init
<1>2. th = Cleared /\ slowdownChan = <<>> /\ sentForPhase = FALSE /\ main = "run"
      /\ ~panicked
  BY DEF Init
<1>3. Stopped
  BY <1>1, <1>2 DEF Stopped
<1>4. Consistent(th, eva.todo) /\ OfPhase(th, eva.todo)
  BY <1>1, <1>2, ClearedIs
<1>5. \A i \in 1 .. Len(slowdownChan) : FALSE
  BY <1>2
<1> QED
  BY <1>1, <1>2, <1>3, <1>4, <1>5 DEF Measured, HeapInv

LEMMA StepKeepsHeaps ==
    ASSUME TypeOK, Timely => HeapInv, [Next]_vars
    PROVE  Timely => HeapInv'
<1> SUFFICES ASSUME HeapInv, Timely
             PROVE  HeapInv'
  OBVIOUS
<1>1. CASE UNCHANGED vars
  <2>1. UNCHANGED <<phase, sentForPhase, warmupDone, main, skipped, slowdownChan, th, eva,
                    panicked>>
    BY <1>1 DEF vars, rotation, history
  <2>2. Consistent(th, eva.todo)'
    BY <2>1 DEF HeapInv, Consistent, InPairs, InStep, Dated, Same, Ahead
  <2>3. Stopped'
    BY <2>1 DEF HeapInv, Stopped
  <2>4. OfPhase(th, eva.todo) => OfPhase(th, eva.todo)'
    BY <2>1 DEF OfPhase
  <2>5. Measured'
    BY <2>1, <2>4 DEF HeapInv, Measured
  <2> QED
    BY <2>1, <2>2, <2>3, <2>5 DEF HeapInv
<1> QED
  BY <1>1, EvaluatorKeepsHeaps, RunKeepsHeaps DEF Next

DetectorInv == TypeOK /\ (Timely => HeapInv)

LEMMA DetectorInductive == Spec => []DetectorInv
<1>1. Init => DetectorInv
  BY InitTypes, InitHeaps DEF DetectorInv
<1>2. DetectorInv /\ [Next]_vars => DetectorInv'
  BY StepTypes, StepKeepsHeaps DEF DetectorInv
<1> QED
  BY <1>1, <1>2, PTL DEF Spec

LEMMA HeapsArePaired ==
    ASSUME TypeOK, HeapInv
    PROVE  Paired /\ EvidenceOfPhase
<1>0. Stopped /\ Consistent(th, eva.todo) /\ Measured /\ ~panicked /\ th \in TwoHeaps
      /\ eva \in Evaluations /\ slowdownChan \in Seq(Suspected)
  BY DEF HeapInv, TypeOK
<1>1. ASSUME eva.pc # "push"
      PROVE  /\ Same(th.real, th.mock)
             /\ Same(th.realEndToEnd, th.mockEndToEnd)
  <2>1. eva.todo = <<>>
    BY <1>0, <1>1, Idle DEF Stopped, Evaluations
  <2> QED
    BY <1>0, <2>1, StepFacts
<1>2. Paired
  BY <1>0, <1>1 DEF Paired, Same, Erased
<1>3. EvidenceOfPhase
  <2>1. DOMAIN slowdownChan = 1 .. Len(slowdownChan)
    BY <1>0, LenProperties
  <2> QED
    BY <1>0, <2>1 DEF EvidenceOfPhase, Measured
<1> QED
  BY <1>2, <1>3

\* The latencies of the real and of the ghost log that are compared are of the
\* same commands in the same window, and the evaluator never panics.
THEOREM PairedAlways == Spec => [](Timely => Paired)
<1>1. DetectorInv => (Timely => Paired)
  BY HeapsArePaired DEF DetectorInv
<1> QED
  BY <1>1, DetectorInductive, PTL

\* A replica that skipped no phase suspects a phase only on what it measured
\* in that phase.
THEOREM EvidenceOfPhaseAlways == Spec => [](Timely => EvidenceOfPhase)
<1>1. DetectorInv => (Timely => EvidenceOfPhase)
  BY HeapsArePaired DEF DetectorInv
<1> QED
  BY <1>1, DetectorInductive, PTL

-----------------------------------------------------------------------------
(* What waits for a command agrees with what was told of it                 *)

AllTold(r) == r.commit # Nil /\ r.real # Nil /\ r.exec # Nil
Total(r) == r.commit + r.exec

\* a ghost latency that waits: without its commit latency, without its
\* execution time, or with both
Pending(m, r) ==
    \/ m = Nil
    \/ r.exec # Nil /\ m.lat = -1 /\ m.exec = r.exec
    \/ r.commit # Nil /\ m.lat = r.commit /\ m.exec = -1
    \/ r.commit # Nil /\ r.exec # Nil /\ m.lat = Total(r) /\ m.exec = r.exec

\* all that was told waits
AsTold(t, c, r) ==
    LET m == t.pendingMock[c]
    IN  /\ t.pendingReal[c] = r.real
        /\ (r.commit = Nil /\ r.exec = Nil) => m = Nil
        /\ (r.commit # Nil /\ r.exec = Nil) =>
                m # Nil /\ m.lat = r.commit /\ m.exec = -1
        /\ (r.commit = Nil /\ r.exec # Nil) =>
                m # Nil /\ m.lat = -1 /\ m.exec = r.exec
        /\ (r.commit # Nil /\ r.exec # Nil) =>
                m # Nil /\ m.lat = Total(r) /\ m.exec = r.exec

Compares(q) == \E k \in 1 .. Len(q) : q[k].heap = "mockEndToEnd"

\* what an evaluation of a report on c does to t, which becomes u, with q to
\* push and r told of c
Effect(u, q, t, c, r) ==
    /\ \A d \in Cmd : d # c => /\ u.pendingReal[d] = t.pendingReal[d]
                               /\ u.pendingMock[d] = t.pendingMock[d]
    /\ Pending(u.pendingMock[c], r)
    /\ \A k \in 1 .. Len(q) : q[k].heap = "mockEndToEnd" =>
            AllTold(r) /\ q[k].sample.lat = Total(r)
    /\ \A k \in 1 .. Len(q) : Newer(t[q[k].heap], c)
    /\ (Newer(t.mockEndToEnd, c) /\ r.exec # 0) =>
            Compares(q) \/ (~AllTold(r) /\ AsTold(u, c, r))

\* c waits as told, unless it was overtaken or took no time
Waits(t, c, r) == (Newer(t.mockEndToEnd, c) /\ r.exec # 0) =>
                        (~AllTold(r) => AsTold(t, c, r))

LEMMA ToldIs ==
    ASSUME NEW r \in Told
    PROVE  /\ r.commit # Nil => r.commit \in Nat /\ r.commit > 0
           /\ r.real # Nil => r.real \in Nat /\ r.real > 0
           /\ r.exec # Nil => r.exec \in Nat
           /\ Nil # 0
<1>1. /\ r.commit # Nil => r.commit \in GhostLat
      /\ r.real # Nil => r.real \in RealLat
      /\ r.exec # Nil => r.exec \in ExecTime
  BY DEF Told
<1>2. \A n \in RealLat \union GhostLat : n \in Nat /\ n > 0
  BY DetectorAssumption
<1>3. ExecTime \subseteq Nat /\ Nil \notin Nat
  BY DetectorAssumption, NilAssumption
<1>4. Nil # 0
  BY <1>3
<1>5. r.exec # Nil => r.exec \in Nat
  BY <1>1, <1>3
<1>6. r.commit # Nil => r.commit \in Nat /\ r.commit > 0
  BY <1>1, <1>2
<1>7. r.real # Nil => r.real \in Nat /\ r.real > 0
  BY <1>1, <1>2
<1> QED
  BY <1>4, <1>5, <1>6, <1>7

SameOthers(u, t, c) ==
    \A d \in Cmd : d # c => /\ u.pendingReal[d] = t.pendingReal[d]
                            /\ u.pendingMock[d] = t.pendingMock[d]

LEMMA WaitEffect ==
    ASSUME NEW t, NEW u, NEW c, NEW r, SameOthers(u, t, c),
           Pending(u.pendingMock[c], r),
           (Newer(t.mockEndToEnd, c) /\ r.exec # 0) =>
                ~AllTold(r) /\ AsTold(u, c, r)
    PROVE  Effect(u, <<>>, t, c, r)
<1>1. \A k \in 1 .. Len(<<>>) : FALSE
  OBVIOUS
<1> QED
  BY <1>1 DEF Effect, SameOthers

LEMMA EndToEndPair ==
    ASSUME phase \in Nat, NEW t \in TwoHeaps, NEW c \in Cmd,
           NEW x \in Int, NEW y \in Int,
           NEW q, q = Pair("realEndToEnd", c, x, y, Now(t))
    PROVE  /\ Len(q) = 2 /\ q \in Seq(Pushes)
           /\ q[1].heap = "realEndToEnd" /\ q[2].heap = "mockEndToEnd"
           /\ q[2].sample.lat = y
           /\ \A k \in 1 .. Len(q) : k = 1 \/ k = 2
           /\ 2 \in 1 .. Len(q)
<1>1. PICK time \in Nat : time = Now(t)
  BY NowIsLater
<1>2. PICK p, h : h = "realEndToEnd" /\ p = Pair(h, c, x, y, time)
  OBVIOUS
<1>h. /\ h \in RealHeaps /\ time \in Nat /\ x \in Int /\ y \in Int /\ c \in Cmd
      /\ phase \in Nat
  BY <1>1, <1>2 DEF RealHeaps
<1>q. p = q
  BY <1>1, <1>2
<1>3. /\ p \in Seq(Pushes) /\ Len(p) = 2 /\ p # <<>> /\ Head(p) = p[1]
      /\ p[1].heap = h /\ p[2].heap = GhostOf(h)
      /\ p[1].heap \in RealHeaps /\ p[2].heap \notin RealHeaps
      /\ p[1].sample = [cmd |-> c, lat |-> x, time |-> time, phase |-> phase]
      /\ p[2].sample = [cmd |-> c, lat |-> y, time |-> time, phase |-> phase]
  BY ONLY <1>2, <1>h, PairIs
<1>4. GhostOf(h) = "mockEndToEnd"
  BY <1>2 DEF GhostOf
<1>5. /\ \A k \in 1 .. Len(p) : k = 1 \/ k = 2
      /\ 2 \in 1 .. Len(p) /\ p[2].sample.lat = y
  BY <1>3
<1> QED
  BY <1>2, <1>3, <1>4, <1>5, <1>q

LEMMA PushEffect ==
    ASSUME NEW t \in TwoHeaps, LatestAgree(t), NEW u,
           NEW c \in Cmd, NEW r, SameOthers(u, t, c),
           Pending(u.pendingMock[c], r), AllTold(r), Newer(t.mockEndToEnd, c),
           NEW q, Len(q) = 2, \A k \in 1 .. Len(q) : k = 1 \/ k = 2,
           2 \in 1 .. Len(q),
           q[1].heap = "realEndToEnd", q[2].heap = "mockEndToEnd",
           q[2].sample.lat = Total(r)
    PROVE  Effect(u, q, t, c, r)
<1>5. Newer(t.realEndToEnd, c)
  BY DEF LatestAgree, Newer
<1>6. /\ t["realEndToEnd"] = t.realEndToEnd /\ t["mockEndToEnd"] = t.mockEndToEnd
  BY HeapFields
<1>7. Compares(q)
  BY DEF Compares
<1>8. \A k \in 1 .. Len(q) : Newer(t[q[k].heap], c)
  BY <1>5, <1>6
<1>9. \A k \in 1 .. Len(q) : q[k].heap = "mockEndToEnd" =>
            AllTold(r) /\ q[k].sample.lat = Total(r)
  OBVIOUS
<1> QED
  BY <1>7, <1>8, <1>9 DEF Effect, SameOthers

WithReal(t, c, x) == [t EXCEPT !.pendingReal[c] = x]
WithMock(t, c, y) == [t EXCEPT !.pendingMock[c] = y]

LEMMA PendingUpdates ==
    ASSUME NEW t \in TwoHeaps, NEW c \in Cmd,
           NEW x \in RealLat \union {Nil},
           NEW y \in [lat : Int, exec : Int] \union {Nil}
    PROVE  /\ WithReal(t, c, x).pendingReal[c] = x
           /\ WithReal(t, c, x).pendingMock[c] = t.pendingMock[c]
           /\ SameOthers(WithReal(t, c, x), t, c)
           /\ WithMock(t, c, y).pendingMock[c] = y
           /\ WithMock(t, c, y).pendingReal[c] = t.pendingReal[c]
           /\ SameOthers(WithMock(t, c, y), t, c)
  BY DEF TwoHeaps, SameOthers, WithReal, WithMock

LEMMA AddBothIs ==
    ASSUME NEW t \in TwoHeaps, NEW c \in Cmd, NEW x \in Int, NEW y \in Int,
           NEW res, res = AddBoth(t, c, x, y)
    PROVE  /\ ~Newer(t.mockEndToEnd, c) => res.th = t /\ res.todo = <<>>
           /\ Newer(t.mockEndToEnd, c) =>
                /\ SameOthers(res.th, t, c)
                /\ res.th.pendingMock[c] = Nil
                /\ res.todo = Pair("realEndToEnd", c, x, y, Now(t))
<1>1. CASE ~Newer(t.mockEndToEnd, c)
  BY <1>1, OutcomeFields DEF AddBoth
<1>2. CASE Newer(t.mockEndToEnd, c)
  <2>1. PICK u, q, p :
            /\ u = [t EXCEPT !.pendingReal[c] = Nil, !.pendingMock[c] = Nil]
            /\ q = PushBoth(c, x, y, Now(t))
            /\ p = ~Newer(t.realEndToEnd, c)
    OBVIOUS
  <2>2. res = [Added(u, q) EXCEPT !.panic = p]
    BY <1>2, <2>1 DEF AddBoth
  <2>3. res.todo = q /\ res.th = u
    BY <2>2 DEF Added
  <2>4. q = Pair("realEndToEnd", c, x, y, Now(t))
    BY <2>1 DEF PushBoth, Pair, GhostOf
  <2>5. SameOthers(u, t, c) /\ u.pendingMock[c] = Nil
    BY <2>1 DEF TwoHeaps, SameOthers
  <2> QED
    BY <1>2, <2>3, <2>4, <2>5
<1> QED
  BY <1>1, <1>2

\* both latencies are known
LEMMA AddBothEffect ==
    ASSUME phase \in Nat, NEW t \in TwoHeaps, LatestAgree(t), NEW c \in Cmd,
           NEW r, Pending(t.pendingMock[c], r), NEW x \in Int, NEW y \in Int,
           Newer(t.mockEndToEnd, c) => AllTold(r),
           y = Total(r),
           NEW res, res = AddBoth(t, c, x, y)
    PROVE  Effect(res.th, res.todo, t, c, r)
<1>0. /\ ~Newer(t.mockEndToEnd, c) => res.th = t /\ res.todo = <<>>
      /\ Newer(t.mockEndToEnd, c) =>
           /\ SameOthers(res.th, t, c)
           /\ res.th.pendingMock[c] = Nil
           /\ res.todo = Pair("realEndToEnd", c, x, y, Now(t))
  BY AddBothIs
<1>1. CASE ~Newer(t.mockEndToEnd, c)
  <2>1. SameOthers(t, t, c)
    BY DEF SameOthers
  <2> QED
    BY <1>0, <1>1, <2>1, WaitEffect
<1>2. CASE Newer(t.mockEndToEnd, c)
  <2>1. PICK u, q : u = res.th /\ q = res.todo
    OBVIOUS
  <2>2. Pending(u.pendingMock[c], r)
    BY <1>0, <1>2, <2>1 DEF Pending
  <2>4. q = Pair("realEndToEnd", c, x, y, Now(t)) /\ SameOthers(u, t, c)
    BY <1>0, <1>2, <2>1
  <2>5. /\ Len(q) = 2 /\ q[1].heap = "realEndToEnd" /\ q[2].heap = "mockEndToEnd"
        /\ q[2].sample.lat = y
        /\ \A k \in 1 .. Len(q) : k = 1 \/ k = 2
        /\ 2 \in 1 .. Len(q)
    BY <2>4, EndToEndPair
  <2>3. Effect(u, q, t, c, r)
    BY <1>2, <2>2, <2>4, <2>5, PushEffect
  <2> QED
    BY <2>1, <2>3
<1> QED
  BY <1>1, <1>2

\* a latency is kept until the others come
LEMMA KeepEffect ==
    ASSUME NEW t, NEW u, NEW c, NEW r, SameOthers(u, t, c),
           Pending(u.pendingMock[c], r),
           (Newer(t.mockEndToEnd, c) /\ r.exec # 0) => ~AllTold(r) /\ AsTold(u, c, r),
           NEW res, res = Waiting(u) \/ res = Added(u, <<>>)
    PROVE  Effect(res.th, res.todo, t, c, r)
<1>1. res.th = u /\ res.todo = <<>>
  BY OutcomeFields
<1>2. Effect(u, <<>>, t, c, r)
  BY WaitEffect
<1> QED
  BY <1>1, <1>2

LEMMA AddRealEffect ==
    ASSUME phase \in Nat, NEW t \in TwoHeaps, LatestAgree(t), NEW c \in Cmd,
           NEW lat \in RealLat, NEW r \in Told, NEW r2 \in Told,
           r.real = Nil, r2.real = lat, r2.commit = r.commit, r2.exec = r.exec,
           Pending(t.pendingMock[c], r), Waits(t, c, r),
           NEW res, res = AddReal(t, c, lat)
    PROVE  Effect(res.th, res.todo, t, c, r2)
<1>0. PICK m : m = t.pendingMock[c]
  OBVIOUS
<1>1. /\ m # Nil => m \in [lat : Int, exec : Int] /\ m.lat \in Int /\ m.exec \in Int
      /\ lat \in Int /\ lat # Nil
  BY <1>0, PendingIs, DetectorAssumption, NilAssumption
<1>2. /\ r.commit # Nil => r.commit \in Nat /\ r.commit > 0
      /\ r.exec # Nil => r.exec \in Nat
      /\ Nil # 0
  BY ToldIs
<1>3. Pending(m, r) /\ Pending(m, r2)
  BY <1>0 DEF Pending, Total
<1>4. (Newer(t.mockEndToEnd, c) /\ r2.exec # 0) => AsTold(t, c, r)
  BY DEF Waits, AllTold
<1> DEFINE newer == Newer(t.realEndToEnd, c)
<1>6. newer <=> Newer(t.mockEndToEnd, c)
  BY DEF LatestAgree, Newer
<1>7. PICK w : w = WithReal(t, c, lat)
  OBVIOUS
<1>8. /\ w.pendingReal[c] = lat /\ w.pendingMock[c] = m /\ SameOthers(w, t, c)
  BY <1>0, <1>7, PendingUpdates
\* the latency waits for the ghost log's
<1>9. ASSUME (newer /\ r2.exec # 0) => ~AllTold(r2),
             res = Waiting(w) \/ res = Added(w, <<>>)
      PROVE  Effect(res.th, res.todo, t, c, r2)
  <2>1. (newer /\ r2.exec # 0) => AsTold(w, c, r2)
    BY <1>0, <1>4, <1>6, <1>8 DEF AsTold, Total
  <2>2. Pending(w.pendingMock[c], r2)
    BY <1>3, <1>8
  <2> QED
    BY <1>6, <1>8, <1>9, <2>1, <2>2, KeepEffect
<1>10. CASE m = Nil
  <2>1. res = Waiting(w)
    BY <1>0, <1>7, <1>10 DEF AddReal, WithReal
  <2>2. (newer /\ r2.exec # 0) => ~AllTold(r2)
    BY <1>0, <1>4, <1>6, <1>10 DEF AsTold, AllTold
  <2> QED
    BY <1>9, <2>1, <2>2
<1>11. CASE m # Nil /\ ~newer
  <2>1. PICK p : p = (newer /\ ~Newer(t.mockEndToEnd, c))
    OBVIOUS
  <2>2. res = [Added(t, <<>>) EXCEPT !.panic = p]
    BY <1>0, <1>11, <2>1 DEF AddReal
  <2>3. res.th = t /\ res.todo = <<>>
    BY <2>2 DEF Added
  <2>4. Effect(t, <<>>, t, c, r2)
    BY <1>0, <1>3, <1>6, <1>11, WaitEffect DEF SameOthers
  <2> QED
    BY <2>3, <2>4
<1>12. CASE m # Nil /\ newer /\ ~(m.exec > 0 /\ m.lat > 0)
  <2>1. PICK p : p = (newer /\ ~Newer(t.mockEndToEnd, c))
    OBVIOUS
  <2>2. res = [Added(w, <<>>) EXCEPT !.panic = p]
    BY <1>0, <1>7, <1>12, <2>1 DEF AddReal, WithReal
  <2>3. res.th = Added(w, <<>>).th /\ res.todo = Added(w, <<>>).todo
    BY <2>2 DEF Added
  <2>4. r2.exec # 0 => ~AllTold(r2)
    BY <1>0, <1>1, <1>2, <1>4, <1>6, <1>12 DEF AsTold, AllTold, Total
  <2>5. PICK plain : plain = Added(w, <<>>)
    OBVIOUS
  <2>6. (newer /\ r2.exec # 0) => AsTold(w, c, r2)
    BY <1>0, <1>4, <1>6, <1>8 DEF AsTold, Total
  <2>7. Pending(w.pendingMock[c], r2)
    BY <1>3, <1>8
  <2>8. Effect(plain.th, plain.todo, t, c, r2)
    BY <1>6, <1>8, <2>4, <2>5, <2>6, <2>7, KeepEffect
  <2> QED
    BY <2>3, <2>5, <2>8
<1>13. CASE m # Nil /\ newer /\ m.exec > 0 /\ m.lat > 0
  <2>1. PICK p, u, q : /\ p = (newer /\ ~Newer(t.mockEndToEnd, c))
                       /\ u = WithMock(t, c, Nil)
                       /\ q = PushBoth(c, lat, m.lat, Now(t))
    OBVIOUS
  <2>2. res = [Added(u, q) EXCEPT !.panic = p]
    BY <1>0, <1>13, <2>1 DEF AddReal, WithMock
  <2>3. res.th = u /\ res.todo = q
    BY <2>2 DEF Added
  <2>4. u.pendingMock[c] = Nil /\ SameOthers(u, t, c)
    BY <2>1, PendingUpdates
  <2>5. AllTold(r2) /\ m.lat = Total(r2)
    BY <1>1, <1>2, <1>3, <1>13 DEF Pending, AllTold, Total
  <2>6. q = Pair("realEndToEnd", c, lat, m.lat, Now(t))
    BY <2>1 DEF PushBoth, Pair, GhostOf
  <2>y. PICK y \in Int : y = m.lat
    BY <1>1, <1>13
  <2>z. q = Pair("realEndToEnd", c, lat, y, Now(t)) /\ lat \in Int
    BY <1>1, <2>6, <2>y
  <2>7. /\ Len(q) = 2 /\ q \in Seq(Pushes)
        /\ q[1].heap = "realEndToEnd" /\ q[2].heap = "mockEndToEnd"
        /\ q[2].sample.lat = y
        /\ \A k \in 1 .. Len(q) : k = 1 \/ k = 2
        /\ 2 \in 1 .. Len(q)
    BY <2>z, EndToEndPair
  <2>8. Pending(u.pendingMock[c], r2)
    BY <2>4 DEF Pending
  <2>9. Effect(u, q, t, c, r2)
    BY <1>6, <1>13, <2>4, <2>5, <2>7, <2>8, <2>y, PushEffect
  <2> QED
    BY <2>3, <2>9
<1> QED
  BY <1>10, <1>11, <1>12, <1>13

LEMMA AddExecEffect ==
    ASSUME phase \in Nat, NEW t \in TwoHeaps, LatestAgree(t), NEW c \in Cmd,
           NEW exec \in ExecTime, NEW r \in Told, NEW r2 \in Told,
           r.exec = Nil, r2.exec = exec, r2.commit = r.commit, r2.real = r.real,
           Pending(t.pendingMock[c], r), Waits(t, c, r),
           NEW res, res = AddExec(t, c, exec)
    PROVE  Effect(res.th, res.todo, t, c, r2)
<1>0. PICK m, real : m = t.pendingMock[c] /\ real = t.pendingReal[c]
  OBVIOUS
<1>1. /\ m # Nil => m \in [lat : Int, exec : Int] /\ m.lat \in Int /\ m.exec \in Int
      /\ real # Nil => real \in Int
  BY <1>0, PendingIs
<1>2. /\ r.commit # Nil => r.commit \in Nat /\ r.commit > 0
      /\ Nil # 0
  BY ToldIs
<1>e. exec \in Nat /\ exec # Nil /\ exec \in Int
  BY DetectorAssumption, NilAssumption
<1>4. Newer(t.mockEndToEnd, c) => AsTold(t, c, r)
  BY <1>2 DEF Waits, AllTold
<1>5. CASE m = Nil
  <2>1. PICK y : y = [lat |-> -1, exec |-> exec]
    OBVIOUS
  <2>2. y \in [lat : Int, exec : Int] /\ y.lat = -1 /\ y.exec = exec /\ y # Nil
    BY <1>e, <2>1, NilAssumption
  <2>3. PICK u : u = WithMock(t, c, y)
    OBVIOUS
  <2>4. u.pendingMock[c] = y /\ u.pendingReal[c] = real /\ SameOthers(u, t, c)
    BY <1>0, <2>2, <2>3, PendingUpdates
  <2>5. res = Waiting(u)
    BY <1>0, <1>5, <2>1, <2>3 DEF AddExec, WithMock
  <2>6. Pending(u.pendingMock[c], r2)
    BY <1>e, <2>2, <2>4 DEF Pending
  <2>7. Newer(t.mockEndToEnd, c) => r.commit = Nil /\ real = r.real
    BY <1>0, <1>4, <1>5 DEF AsTold
  <2>8. (Newer(t.mockEndToEnd, c) /\ r2.exec # 0) =>
            ~AllTold(r2) /\ AsTold(u, c, r2)
    BY <1>e, <2>2, <2>4, <2>7 DEF AsTold, AllTold
  <2> QED
    BY <2>4, <2>5, <2>6, <2>8, KeepEffect
<1>6. CASE m # Nil
  <2>1. m.lat = r.commit /\ m.exec = -1 /\ r.commit # Nil
    BY <1>0, <1>6 DEF Pending
  <2>2. PICK lat : lat = IF m.exec < 0 THEN m.lat + exec ELSE m.lat
    OBVIOUS
  <2>3. lat = Total(r2) /\ lat \in Int
    BY <1>1, <1>6, <1>e, <2>1, <2>2 DEF Total
  <2>4. CASE real = Nil
    <3>1. PICK y : y = [lat |-> lat, exec |-> exec]
      OBVIOUS
    <3>2. y \in [lat : Int, exec : Int] /\ y.lat = lat /\ y.exec = exec /\ y # Nil
      BY <1>e, <2>3, <3>1, NilAssumption
    <3>3. PICK u : u = WithMock(t, c, y)
      OBVIOUS
    <3>4. u.pendingMock[c] = y /\ u.pendingReal[c] = real /\ SameOthers(u, t, c)
      BY <1>0, <3>2, <3>3, PendingUpdates
    <3>5. res = Waiting(u)
      BY <1>0, <1>6, <2>2, <2>4, <3>1, <3>3 DEF AddExec, WithMock
    <3>6. Pending(u.pendingMock[c], r2)
      BY <1>e, <2>1, <2>3, <3>2, <3>4 DEF Pending
    <3>7. Newer(t.mockEndToEnd, c) => r.real = Nil
      BY <1>0, <1>4, <2>4 DEF AsTold
    <3>8. (Newer(t.mockEndToEnd, c) /\ r2.exec # 0) =>
              ~AllTold(r2) /\ AsTold(u, c, r2)
      BY <1>e, <2>1, <2>3, <2>4, <3>2, <3>4, <3>7 DEF AsTold, AllTold
    <3> QED
      BY <3>4, <3>5, <3>6, <3>8, KeepEffect
  <2>5. CASE real # Nil
    <3>1. res = AddBoth(t, c, real, lat)
      BY <1>0, <1>6, <2>2, <2>5 DEF AddExec
    <3>2. Pending(m, r2)
      BY <2>1 DEF Pending
    <3>3. Newer(t.mockEndToEnd, c) => AllTold(r2)
      BY <1>0, <1>4, <1>e, <2>1, <2>5 DEF AsTold, AllTold
    <3> QED
      BY <1>0, <1>1, <2>3, <2>5, <3>1, <3>2, <3>3, AddBothEffect
  <2> QED
    BY <2>4, <2>5
<1> QED
  BY <1>5, <1>6

LEMMA AddGhostCommitEffect ==
    ASSUME phase \in Nat, NEW t \in TwoHeaps, LatestAgree(t), NEW c \in Cmd,
           NEW lat \in GhostLat, NEW r \in Told, NEW r2 \in Told,
           r.commit = Nil, r2.commit = lat, r2.exec = r.exec, r2.real = r.real,
           Pending(t.pendingMock[c], r), Waits(t, c, r),
           NEW res, res = AddGhostCommit(t, c, lat)
    PROVE  Effect(res.th, res.todo, t, c, r2)
<1>0. PICK m, real : m = t.pendingMock[c] /\ real = t.pendingReal[c]
  OBVIOUS
<1>1. /\ m # Nil => m \in [lat : Int, exec : Int] /\ m.lat \in Int /\ m.exec \in Int
      /\ real # Nil => real \in Int
  BY <1>0, PendingIs
<1>2. /\ r.exec # Nil => r.exec \in Nat
      /\ Nil # 0
  BY ToldIs
<1>e. lat \in Nat /\ lat # Nil /\ lat \in Int
  BY DetectorAssumption, NilAssumption
<1>4. (Newer(t.mockEndToEnd, c) /\ r2.exec # 0) => AsTold(t, c, r)
  BY DEF Waits, AllTold
<1>5. CASE m = Nil
  <2>1. PICK y : y = [lat |-> lat, exec |-> -1]
    OBVIOUS
  <2>2. y \in [lat : Int, exec : Int] /\ y.lat = lat /\ y.exec = -1 /\ y # Nil
    BY <1>e, <2>1, NilAssumption
  <2>3. PICK u : u = WithMock(t, c, y)
    OBVIOUS
  <2>4. u.pendingMock[c] = y /\ u.pendingReal[c] = real /\ SameOthers(u, t, c)
    BY <1>0, <2>2, <2>3, PendingUpdates
  <2>5. res = Waiting(u)
    BY <1>0, <1>5, <2>1, <2>3 DEF AddGhostCommit, WithMock
  <2>6. Pending(u.pendingMock[c], r2)
    BY <1>e, <2>2, <2>4 DEF Pending
  <2>7. (Newer(t.mockEndToEnd, c) /\ r2.exec # 0) => r.exec = Nil /\ real = r.real
    BY <1>0, <1>4, <1>5 DEF AsTold
  <2>8. (Newer(t.mockEndToEnd, c) /\ r2.exec # 0) =>
            ~AllTold(r2) /\ AsTold(u, c, r2)
    BY <1>e, <2>2, <2>4, <2>7 DEF AsTold, AllTold
  <2> QED
    BY <2>4, <2>5, <2>6, <2>8, KeepEffect
<1>6. CASE m # Nil /\ ~(m.exec > 0 /\ m.lat < 0)
  <2>1. r.exec = 0 /\ m.lat = -1 /\ m.exec = r.exec /\ r.exec # Nil
    BY <1>0, <1>1, <1>2, <1>6 DEF Pending
  <2>2. Pending(t.pendingMock[c], r2) /\ SameOthers(t, t, c)
    BY <1>0, <2>1 DEF Pending, SameOthers
  <2>3. res = Waiting(t)
    BY <1>0, <1>6 DEF AddGhostCommit
  <2> QED
    BY <2>1, <2>2, <2>3, KeepEffect
<1>7. CASE m # Nil /\ m.exec > 0 /\ m.lat < 0
  <2>1. m.lat = -1 /\ m.exec = r.exec /\ r.exec # Nil
    BY <1>0, <1>1, <1>7 DEF Pending
  <2>2. PICK sum : sum = lat + m.exec
    OBVIOUS
  <2>3. sum = Total(r2) /\ sum \in Int
    BY <1>1, <1>7, <1>e, <2>1, <2>2 DEF Total
  <2>4. CASE real = Nil
    <3>1. PICK y : y = [m EXCEPT !.lat = sum]
      OBVIOUS
    <3>2. y \in [lat : Int, exec : Int] /\ y.lat = sum /\ y.exec = m.exec /\ y # Nil
      BY <1>1, <1>7, <2>3, <3>1, NilAssumption
    <3>3. PICK u : u = WithMock(t, c, y)
      OBVIOUS
    <3>4. u.pendingMock[c] = y /\ u.pendingReal[c] = real /\ SameOthers(u, t, c)
      BY <1>0, <3>2, <3>3, PendingUpdates
    <3>a. u = [t EXCEPT !.pendingMock[c].lat = sum]
      BY <1>0, <3>1, <3>3 DEF WithMock, TwoHeaps
    <3>5. res = Waiting(u)
      BY <1>0, <1>7, <2>2, <2>4, <3>a DEF AddGhostCommit
    <3>6. Pending(u.pendingMock[c], r2)
      BY <1>e, <2>1, <2>3, <3>2, <3>4 DEF Pending
    <3>7. (Newer(t.mockEndToEnd, c) /\ r2.exec # 0) => r.real = Nil
      BY <1>0, <1>4, <2>4 DEF AsTold
    <3>8. (Newer(t.mockEndToEnd, c) /\ r2.exec # 0) =>
              ~AllTold(r2) /\ AsTold(u, c, r2)
      BY <1>e, <2>1, <2>3, <2>4, <3>2, <3>4, <3>7 DEF AsTold, AllTold
    <3> QED
      BY <3>4, <3>5, <3>6, <3>8, KeepEffect
  <2>5. CASE real # Nil
    <3>1. res = AddBoth(t, c, real, sum)
      BY <1>0, <1>7, <2>2, <2>5 DEF AddGhostCommit
    <3>2. Pending(m, r2)
      BY <2>1 DEF Pending
    <3>3. Newer(t.mockEndToEnd, c) => AllTold(r2)
      BY <1>0, <1>1, <1>4, <1>7, <1>e, <2>1, <2>5 DEF AsTold, AllTold
    <3> QED
      BY <1>0, <1>1, <2>3, <2>5, <3>1, <3>2, <3>3, AddBothEffect
  <2> QED
    BY <2>4, <2>5
<1> QED
  BY <1>5, <1>6, <1>7

LEMMA ConcatEffect ==
    ASSUME NEW t \in TwoHeaps, NEW u, NEW c, NEW r,
           NEW a \in Seq(Pushes), Effect(u, a, t, c, r),
           NEW p \in Seq(Pushes), Len(p) = 2,
           p[1].heap = "real", p[2].heap = "mock",
           Newer(t.real, c), Newer(t.mock, c),
           NEW q, q = a \o p
    PROVE  Effect(u, q, t, c, r)
<1>1. /\ a \o p \in Seq(Pushes) /\ Len(a \o p) = Len(a) + Len(p)
      /\ \A k \in 1 .. Len(a) + Len(p) :
            (a \o p)[k] = IF k <= Len(a) THEN a[k] ELSE p[k - Len(a)]
  BY ConcatProperties
<1>2. PICK n \in Nat : n = Len(a)
  BY LenProperties
<1>3. Len(q) = n + 2 /\ \A k \in 1 .. n : q[k] = a[k]
      /\ q[n + 1] = p[1] /\ q[n + 2] = p[2]
  <2>1. \A k \in 1 .. n + 2 : q[k] = IF k <= n THEN a[k] ELSE p[k - n]
    BY <1>1, <1>2
  <2>2. n + 1 \in 1 .. n + 2 /\ n + 2 \in 1 .. n + 2 /\ \A k \in 1 .. n : k \in 1 .. n + 2
    BY <1>2
  <2>3. /\ ~(n + 1 <= n) /\ ~(n + 2 <= n) /\ (n + 1) - n = 1 /\ (n + 2) - n = 2
        /\ \A k \in 1 .. n : k <= n
    BY <1>2
  <2> QED
    BY <1>1, <1>2, <2>1, <2>2, <2>3
<1>4. \A k \in 1 .. Len(q) : k \in 1 .. n \/ k = n + 1 \/ k = n + 2
  BY <1>2, <1>3
<1>5. \A k \in 1 .. n : k \in 1 .. Len(q)
  BY <1>2, <1>3
<1>6. t["real"] = t.real /\ t["mock"] = t.mock
  BY HeapFields
<1>7. Compares(a) => Compares(q)
  BY <1>2, <1>3, <1>5 DEF Compares
<1>8. \A k \in 1 .. Len(q) : Newer(t[q[k].heap], c)
  BY <1>2, <1>3, <1>4, <1>6 DEF Effect
<1>9. \A k \in 1 .. Len(q) : q[k].heap = "mockEndToEnd" =>
            AllTold(r) /\ q[k].sample.lat = Total(r)
  <2>1. q[n + 1].heap # "mockEndToEnd" /\ q[n + 2].heap # "mockEndToEnd"
    BY <1>3
  <2> QED
    BY <1>2, <1>3, <1>4, <2>1 DEF Effect
<1> QED
  BY <1>7, <1>8, <1>9 DEF Effect

\* a first report, or an old one, is not compared: nothing was told
LEMMA AddCommitEffect ==
    ASSUME phase \in Nat, NEW t \in TwoHeaps, LatestAgree(t), NEW c \in Cmd,
           NEW real \in RealLat, NEW lat \in GhostLat,
           NEW r \in Told, NEW r2 \in Told,
           r.commit = Nil, r2.exec = r.exec, r2.real = r.real,
           Pending(t.pendingMock[c], r), Waits(t, c, r),
           NEW res, res = AddCommit(t, c, real, lat),
           IF res.compare THEN r2.commit = lat ELSE r2 = r
    PROVE  Effect(res.th, res.todo, t, c, r2)
<1>0. /\ Newer(t.mockEndToEnd, c) /\ r.exec # 0 => ~AllTold(r) /\ AsTold(t, c, r)
  BY DEF Waits, AllTold
<1>1. CASE c.client \notin t.receivedOne
  <2>1. PICK u : u = [t EXCEPT !.receivedOne = @ \union {c.client}]
    OBVIOUS
  <2>2. u.pendingReal = t.pendingReal /\ u.pendingMock = t.pendingMock
    BY <2>1 DEF TwoHeaps
  <2>3. res = Waiting(u)
    BY <1>1, <2>1 DEF AddCommit
  <2>4. ~res.compare
    BY <2>3, OutcomeFields
  <2>5. r2 = r /\ SameOthers(u, t, c) /\ Pending(u.pendingMock[c], r)
    BY <2>2, <2>4 DEF SameOthers
  <2>6. Newer(t.mockEndToEnd, c) /\ r.exec # 0 => ~AllTold(r) /\ AsTold(u, c, r)
    BY <1>0, <2>2 DEF AsTold
  <2> QED
    BY <2>3, <2>5, <2>6, KeepEffect
<1>2. CASE c.client \in t.receivedOne /\ ~(Newer(t.real, c) /\ Newer(t.mock, c))
  <2>1. PICK plain, p : plain = Waiting(t) /\ p = Unequal(t)
    OBVIOUS
  <2>2. res = [plain EXCEPT !.panic = p]
    BY <1>2, <2>1 DEF AddCommit
  <2>3. plain = [th |-> t, todo |-> <<>>, compare |-> FALSE, panic |-> FALSE]
    BY <2>1, OutcomeFields
  <2>4. res.th = t /\ res.todo = <<>> /\ ~res.compare
    BY <2>2, <2>3
  <2>5. r2 = r /\ SameOthers(t, t, c)
    BY <2>4 DEF SameOthers
  <2>6. Effect(t, <<>>, t, c, r)
    BY <1>0, <2>5, WaitEffect
  <2> QED
    BY <2>4, <2>5, <2>6
<1>3. CASE c.client \in t.receivedOne /\ Newer(t.real, c) /\ Newer(t.mock, c)
  <2>1. PICK e, q, todo, p :
            /\ e = AddGhostCommit(t, c, lat)
            /\ q = Pair("real", c, real, lat, Now(t))
            /\ todo = e.todo \o q
            /\ p = (e.panic \/ Unequal(t))
    OBVIOUS
  <2>2. q = <<Push("real", c, real, Now(t)), Push("mock", c, lat, Now(t))>>
    BY <2>1 DEF Pair, GhostOf
  <2>3. res = [Added(e.th, todo) EXCEPT !.panic = p]
    BY <1>3, <2>1, <2>2 DEF AddCommit
  <2>4. res.th = e.th /\ res.todo = todo /\ res.compare = TRUE
    BY <2>3 DEF Added
  <2>5. Effect(e.th, e.todo, t, c, r2)
    BY <2>1, <2>4, AddGhostCommitEffect
  <2>6. real \in Int /\ lat \in Int
    BY DetectorAssumption
  <2>7. PICK time \in Nat : time = Now(t)
    BY NowIsLater
  <2>8. PICK h \in RealHeaps : h = "real"
    BY DEF RealHeaps
  <2>9. q = Pair(h, c, real, lat, time)
    BY <2>1, <2>7, <2>8
  <2>10. /\ q \in Seq(Pushes) /\ Len(q) = 2 /\ q # <<>> /\ Head(q) = q[1]
         /\ q[1].heap = h /\ q[2].heap = GhostOf(h)
         /\ q[1].heap \in RealHeaps /\ q[2].heap \notin RealHeaps
         /\ q[1].sample = [cmd |-> c, lat |-> real, time |-> time, phase |-> phase]
         /\ q[2].sample = [cmd |-> c, lat |-> lat, time |-> time, phase |-> phase]
    BY <2>6, <2>7, <2>8, <2>9, PairIs
  <2>11. q[1].heap = "real" /\ q[2].heap = "mock"
    BY <2>8, <2>10 DEF GhostOf
  <2>12. e.todo \in Seq(Pushes)
    <3>1. \/ e.todo = <<>>
          \/ \E x, y \in Int : e.todo = Pair("realEndToEnd", c, x, y, Now(t))
      BY <2>1, AddGhostCommitOutcome
    <3>2. CASE e.todo = <<>>
      BY <3>2, EmptySeq
    <3>3. ASSUME NEW x \in Int, NEW y \in Int,
                 e.todo = Pair("realEndToEnd", c, x, y, Now(t))
          PROVE  e.todo \in Seq(Pushes)
      <4>1. PushesPairs(e.todo, t, c)
        BY <3>3 DEF PushesPairs, RealHeaps
      <4> QED
        BY <4>1, PairsAreFresh DEF Fresh
    <3> QED
      BY <3>1, <3>2, <3>3
  <2>13. Effect(e.th, todo, t, c, r2)
    BY <1>3, <2>1, <2>5, <2>10, <2>11, <2>12, ConcatEffect
  <2> QED
    BY <2>4, <2>13
<1> QED
  BY <1>1, <1>2, <1>3

-----------------------------------------------------------------------------
(* The reports that were evaluated, all in all                              *)

InTotal(s, td) == /\ td[s.cmd].commit # Nil /\ td[s.cmd].exec # Nil
                  /\ s.lat = Total(td[s.cmd])

Coming(c, q) == \E k \in 1 .. Len(q) :
                    q[k].heap = "mockEndToEnd" /\ q[k].sample.cmd = c

Summed(t, q, td) ==
    /\ \A c \in Cmd : Pending(t.pendingMock[c], td[c])
    /\ \A s \in t.mockEndToEnd.samples : InTotal(s, td)
    /\ \A k \in 1 .. Len(q) : q[k].heap = "mockEndToEnd" => InTotal(q[k].sample, td)

\* what is pushed is newer than what was
Latest(t, q) == \A k \in 1 .. Len(q) : Newer(t[q[k].heap], q[k].sample.cmd)

\* A report waits with the others on its command until the last of them
\* comes; then the command is compared.
Kept(t, q, td, rec) ==
    \A c \in Cmd : (Newer(t.mockEndToEnd, c) /\ td[c].exec # 0) =>
        /\ AllTold(td[c]) => c \in rec \/ Coming(c, q)
        /\ ~AllTold(td[c]) => AsTold(t, c, td[c])

Reported(t, q, td, rec) == Summed(t, q, td) /\ Latest(t, q) /\ Kept(t, q, td, rec)

LEMMA EffectKeeps ==
    ASSUME NEW t \in TwoHeaps, NEW u \in TwoHeaps, SameHeaps(t, u),
           NEW td \in [Cmd -> Told], NEW td2 \in [Cmd -> Told], NEW c \in Cmd,
           \A d \in Cmd : d # c => td2[d] = td[d],
           td[c].commit # Nil => td2[c].commit = td[c].commit,
           td[c].exec # Nil => td2[c].exec = td[c].exec,
           NEW q, Fresh(q, t, c), Effect(u, q, t, c, td2[c]),
           NEW rec, Reported(t, <<>>, td, rec)
    PROVE  Reported(u, q, td2, rec)
<1>0. \A k \in 1 .. Len(<<>>) : FALSE
  OBVIOUS
<1>1. /\ \A d \in Cmd : d # c => /\ u.pendingReal[d] = t.pendingReal[d]
                                 /\ u.pendingMock[d] = t.pendingMock[d]
      /\ Pending(u.pendingMock[c], td2[c])
      /\ \A k \in 1 .. Len(q) : q[k].heap = "mockEndToEnd" =>
              AllTold(td2[c]) /\ q[k].sample.lat = Total(td2[c])
      /\ \A k \in 1 .. Len(q) : Newer(t[q[k].heap], c)
      /\ (Newer(t.mockEndToEnd, c) /\ td2[c].exec # 0) =>
              Compares(q) \/ (~AllTold(td2[c]) /\ AsTold(u, c, td2[c]))
  BY DEF Effect
<1>2. /\ \A d \in Cmd : Pending(t.pendingMock[d], td[d])
      /\ \A s \in t.mockEndToEnd.samples : InTotal(s, td)
  BY DEF Reported, Summed
<1>3. \A k \in 1 .. Len(q) : q[k].sample.cmd = c /\ q[k].heap \in HeapName
  <2>1. \A k \in 1 .. Len(q) : q[k] \in Pushes
    BY ElementOfSeq DEF Fresh
  <2> QED
    BY <2>1 DEF Fresh, Pushes
<1>4. u.mockEndToEnd = t.mockEndToEnd /\ \A h \in HeapName : u[h] = t[h]
  BY HeapFields DEF SameHeaps, HeapName
<1>5. Summed(u, q, td2)
  <2>1. \A d \in Cmd : Pending(u.pendingMock[d], td2[d])
    BY <1>1, <1>2
  <2>2. \A s \in u.mockEndToEnd.samples : InTotal(s, td2)
    <3>1. \A s \in t.mockEndToEnd.samples : s.cmd \in Cmd
      BY HeapFields DEF Heap, Sample
    <3> QED
      BY <1>2, <1>4, <3>1 DEF InTotal, Total
  <2>3. \A k \in 1 .. Len(q) : q[k].heap = "mockEndToEnd" =>
            InTotal(q[k].sample, td2)
    BY <1>1, <1>3 DEF InTotal, AllTold
  <2> QED
    BY <2>1, <2>2, <2>3 DEF Summed
<1>6. Latest(u, q)
  BY <1>1, <1>3, <1>4 DEF Latest
<1>7. Kept(u, q, td2, rec)
  <2> SUFFICES ASSUME NEW d \in Cmd, Newer(u.mockEndToEnd, d), td2[d].exec # 0
               PROVE  /\ AllTold(td2[d]) => d \in rec \/ Coming(d, q)
                      /\ ~AllTold(td2[d]) => AsTold(u, d, td2[d])
    BY DEF Kept
  <2>1. CASE d # c
    <3>1. /\ td2[d] = td[d] /\ u.pendingReal[d] = t.pendingReal[d]
          /\ u.pendingMock[d] = t.pendingMock[d]
      BY <1>1, <2>1
    <3>2. /\ AllTold(td[d]) => d \in rec \/ Coming(d, <<>>)
          /\ ~AllTold(td[d]) => AsTold(t, d, td[d])
      BY <1>4, <3>1 DEF Reported, Kept
    <3>3. ~Coming(d, <<>>)
      BY <1>0 DEF Coming
    <3>4. AsTold(t, d, td[d]) => AsTold(u, d, td2[d])
      BY <3>1 DEF AsTold
    <3> QED
      BY <3>1, <3>2, <3>3, <3>4
  <2>2. CASE d = c
    <3>1. Compares(q) \/ (~AllTold(td2[c]) /\ AsTold(u, c, td2[c]))
      BY <1>1, <1>4, <2>2
    <3>2. CASE Compares(q)
      BY <1>1, <1>3, <2>2, <3>2 DEF Compares, Coming
    <3> QED
      BY <2>2, <3>1, <3>2
  <2> QED
    BY <2>1, <2>2
<1> QED
  BY <1>5, <1>6, <1>7 DEF Reported

LEMMA PushReported ==
    ASSUME NEW t \in TwoHeaps, NEW u \in TwoHeaps, NEW q \in Seq(Pushes), q # <<>>,
           InPairs(q), NEW td \in [Cmd -> Told], NEW rec, NEW rec2,
           Reported(t, q, td, rec),
           \A h \in HeapName : u[h] = IF h = Head(q).heap
                                      THEN Pushed(t[h], Head(q).sample) ELSE t[h],
           u.pendingReal = t.pendingReal, u.pendingMock = t.pendingMock,
           rec2 = IF Head(q).heap = "mockEndToEnd"
                  THEN rec \union {Head(q).sample.cmd} ELSE rec
    PROVE  Reported(u, Tail(q), td, rec2)
<1>0. PICK p \in Pushes : p = Head(q)
  BY TailIs
<1>1. PICK r : r = Tail(q)
  OBVIOUS
<1>2. /\ Len(r) = Len(q) - 1 /\ Len(q) \in Nat \ {0}
      /\ \A k \in 1 .. Len(r) : r[k] = q[k + 1]
      /\ p = q[1]
  BY <1>0, <1>1, TailIs
<1>3. \A k \in 1 .. Len(r) : r[k].heap # p.heap /\ r[k] \in Pushes
  BY <1>0, <1>1, AfterFirst
<1>4. p.heap \in HeapName /\ p.sample \in Sample
  BY DEF Pushes
<1>5. 1 \in 1 .. Len(q) /\ \A k \in 1 .. Len(r) : k + 1 \in 1 .. Len(q)
  BY <1>2
<1>6. \A h \in HeapName : u[h] = IF h = p.heap THEN Pushed(t[h], p.sample) ELSE t[h]
  BY <1>0
<1>7. /\ u["mockEndToEnd"] = u.mockEndToEnd /\ t["mockEndToEnd"] = t.mockEndToEnd
      /\ t.mockEndToEnd \in Heap /\ "mockEndToEnd" \in HeapName
  BY HeapFields DEF HeapName
<1>8. u.mockEndToEnd = IF p.heap = "mockEndToEnd"
                       THEN Pushed(t.mockEndToEnd, p.sample) ELSE t.mockEndToEnd
  BY <1>6, <1>7
<1>9. /\ \A c \in Cmd : Pending(t.pendingMock[c], td[c])
      /\ \A s \in t.mockEndToEnd.samples : InTotal(s, td)
      /\ \A k \in 1 .. Len(q) : q[k].heap = "mockEndToEnd" => InTotal(q[k].sample, td)
      /\ \A k \in 1 .. Len(q) : Newer(t[q[k].heap], q[k].sample.cmd)
  BY DEF Reported, Summed, Latest
<1>10. Summed(u, r, td)
  <2>1. \A s \in u.mockEndToEnd.samples : InTotal(s, td)
    <3>1. CASE p.heap = "mockEndToEnd"
      <4>1. u.mockEndToEnd.samples = t.mockEndToEnd.samples \union {p.sample}
        BY <1>4, <1>7, <1>8, <3>1, PushedIs
      <4> QED
        BY <1>2, <1>5, <1>9, <3>1, <4>1
    <3>2. CASE p.heap # "mockEndToEnd"
      BY <1>8, <1>9, <3>2
    <3> QED
      BY <3>1, <3>2
  <2>2. \A k \in 1 .. Len(r) : r[k].heap = "mockEndToEnd" => InTotal(r[k].sample, td)
    BY <1>2, <1>5, <1>9
  <2> QED
    BY <1>9, <2>1, <2>2 DEF Summed
<1>11. Latest(u, r)
  <2> SUFFICES ASSUME NEW k \in 1 .. Len(r)
               PROVE  Newer(u[r[k].heap], r[k].sample.cmd)
    BY DEF Latest
  <2>1. r[k].heap # p.heap /\ r[k].heap \in HeapName
    BY <1>3 DEF Pushes
  <2>2. u[r[k].heap] = t[r[k].heap]
    BY <1>6, <2>1
  <2> QED
    BY <1>2, <1>5, <1>9, <2>2
<1>12. Kept(u, r, td, rec2)
  <2> SUFFICES ASSUME NEW c \in Cmd, Newer(u.mockEndToEnd, c), td[c].exec # 0
               PROVE  /\ AllTold(td[c]) => c \in rec2 \/ Coming(c, r)
                      /\ ~AllTold(td[c]) => AsTold(u, c, td[c])
    BY DEF Kept
  <2>1. Newer(t.mockEndToEnd, c)
    <3>1. CASE p.heap # "mockEndToEnd"
      BY <1>8, <3>1
    <3>2. CASE p.heap = "mockEndToEnd"
      <4>1. \A d \in Clients : u.mockEndToEnd.latestCmd[d]
                = IF d = p.sample.cmd.client THEN p.sample.cmd.op
                  ELSE t.mockEndToEnd.latestCmd[d]
        BY <1>4, <1>7, <1>8, <3>2, PushedIs
      <4>2. Newer(t.mockEndToEnd, p.sample.cmd)
        BY <1>2, <1>5, <1>7, <1>9, <3>2
      <4>3. c.client \in Clients /\ c.op \in Nat /\ p.sample.cmd.op \in Nat
            /\ t.mockEndToEnd.latestCmd[c.client] \in Nat
        BY <1>4, <1>7 DEF Cmd, Sample, Heap
      <4>4. c.op >= u.mockEndToEnd.latestCmd[c.client]
        BY DEF Newer
      <4>5. CASE c.client = p.sample.cmd.client
        <5>1. c.op >= p.sample.cmd.op
          BY <4>1, <4>3, <4>4, <4>5
        <5>2. p.sample.cmd.op >= t.mockEndToEnd.latestCmd[c.client]
          BY <4>2, <4>5 DEF Newer
        <5>3. c.op >= t.mockEndToEnd.latestCmd[c.client]
          BY <4>3, <5>1, <5>2
        <5> QED
          BY <5>3 DEF Newer
      <4>6. CASE c.client # p.sample.cmd.client
        BY <4>1, <4>3, <4>4, <4>6 DEF Newer
      <4> QED
        BY <4>5, <4>6
    <3> QED
      BY <3>1, <3>2
  <2>2. /\ AllTold(td[c]) => c \in rec \/ Coming(c, q)
        /\ ~AllTold(td[c]) => AsTold(t, c, td[c])
    BY <2>1 DEF Reported, Kept
  <2>3. AsTold(t, c, td[c]) => AsTold(u, c, td[c])
    BY DEF AsTold
  <2>4. Coming(c, q) => c \in rec2 \/ Coming(c, r)
    <3> SUFFICES ASSUME NEW k \in 1 .. Len(q), q[k].heap = "mockEndToEnd",
                        q[k].sample.cmd = c
                 PROVE  c \in rec2 \/ Coming(c, r)
      BY DEF Coming
    <3>1. CASE k = 1
      BY <1>0, <1>2, <3>1
    <3>2. CASE k # 1
      <4>1. k - 1 \in 1 .. Len(r) /\ (k - 1) + 1 = k
        BY <1>2, <3>2
      <4>2. r[k - 1] = q[k]
        BY <1>2, <4>1
      <4> QED
        BY <4>1, <4>2 DEF Coming
    <3> QED
      BY <3>1, <3>2
  <2>5. c \in rec => c \in rec2
    OBVIOUS
  <2> QED
    BY <2>2, <2>3, <2>4, <2>5
<1> QED
  BY <1>1, <1>10, <1>11, <1>12 DEF Reported

LEMMA CleanupReported ==
    ASSUME NEW t \in TwoHeaps, NEW cut, NEW u, u = Cleanup(t, cut),
           NEW td, NEW rec, Reported(t, <<>>, td, rec)
    PROVE  Reported(u, <<>>, td, rec)
<1>0. \A k \in 1 .. Len(<<>>) : FALSE
  OBVIOUS
<1>1. /\ u.mockEndToEnd = Younger(t.mockEndToEnd, cut)
      /\ u.pendingReal = t.pendingReal /\ u.pendingMock = t.pendingMock
  BY CleanupIs
<1>2. /\ u.mockEndToEnd.samples \subseteq t.mockEndToEnd.samples
      /\ u.mockEndToEnd.latestCmd = t.mockEndToEnd.latestCmd
  BY <1>1, HeapFields, YoungerIs
<1>3. Summed(u, <<>>, td)
  BY <1>0, <1>1, <1>2 DEF Reported, Summed
<1>4. Latest(u, <<>>)
  BY <1>0 DEF Latest
<1>5. Kept(u, <<>>, td, rec)
  <2>1. \A c : Newer(u.mockEndToEnd, c) <=> Newer(t.mockEndToEnd, c)
    BY <1>2 DEF Newer
  <2>2. \A c \in Cmd : AsTold(t, c, td[c]) => AsTold(u, c, td[c])
    BY <1>1 DEF AsTold
  <2> QED
    BY <2>1, <2>2 DEF Reported, Kept
<1> QED
  BY <1>3, <1>4, <1>5 DEF Reported

LEMMA ClearedReported == Reported(Cleared, <<>>, NothingTold, {})
<1>0. \A k \in 1 .. Len(<<>>) : FALSE
  OBVIOUS
<1>1. /\ \A c \in Cmd : Cleared.pendingReal[c] = Nil /\ Cleared.pendingMock[c] = Nil
      /\ Cleared.mockEndToEnd.samples = {}
  BY ClearedIs DEF Cleared, EmptyHeap
<1>2. \A c \in Cmd : NothingTold[c] = [commit |-> Nil, real |-> Nil, exec |-> Nil]
  BY DEF NothingTold
<1>3. Summed(Cleared, <<>>, NothingTold)
  BY <1>0, <1>1 DEF Summed, Pending
<1>4. Latest(Cleared, <<>>)
  BY <1>0 DEF Latest
<1>5. Kept(Cleared, <<>>, NothingTold, {})
  BY <1>1, <1>2 DEF Kept, AllTold, AsTold
<1> QED
  BY <1>3, <1>4, <1>5 DEF Reported

\* a report that was evaluated does not come again
ToldOnce == \A c \in Cmd, kind \in Kinds : told[c][kind] # Nil => <<kind, c>> \in sent

ReportInv == ToldOnce /\ Reported(th, eva.todo, told, recorded)

LEMMA ReportedKept ==
    ASSUME NEW t, NEW q, NEW td, NEW rec, Reported(t, q, td, rec),
           th' = t, eva'.todo = q, told' = td, recorded' = rec
    PROVE  Reported(th, eva.todo, told, recorded)'
<1>1. Summed(th, eva.todo, told)'
  BY DEF Reported, Summed, InTotal, Pending, Total
<1>2. Latest(th, eva.todo)'
  BY DEF Reported, Latest, Newer
<1>3. Kept(th, eva.todo, told, recorded)'
  BY DEF Reported, Kept, Coming, AsTold, AllTold, Newer
<1> QED
  BY <1>1, <1>2, <1>3 DEF Reported

LEMMA ClearReports ==
    ASSUME Clear, eva'.todo = <<>>
    PROVE  ReportInv'
<1>1. PICK t, q, td, rec : t = Cleared /\ q = <<>> /\ td = NothingTold /\ rec = {}
  OBVIOUS
<1>2. th' = t /\ told' = td /\ recorded' = rec /\ eva'.todo = q
  BY <1>1 DEF Clear
<1>3. Reported(t, q, td, rec)
  BY <1>1, ClearedReported
<1>4. Reported(th, eva.todo, told, recorded)'
  BY <1>2, <1>3, ReportedKept
<1>5. ToldOnce'
  BY <1>1, <1>2, NothingToldIs DEF ToldOnce
<1> QED
  BY <1>4, <1>5 DEF ReportInv

\* an evaluation has its effect
LEMMA EvaluationEffect ==
    ASSUME TypeOK, HeapInv, ReportInv, NEW kind, NEW c, NEW val, NEW res,
           Evaluation(kind, c, val, res), <<kind, c>> \notin sent,
           NEW t, t = th, NEW r2, r2 = told'[c]
    PROVE  Effect(res.th, res.todo, t, c, r2)
<1>0. PICK r : r = told[c]
  OBVIOUS
<1>1. /\ kind \in Kinds /\ c \in Cmd /\ val \in Measure(kind)
      /\ told' = IF kind = "commit" /\ ~res.compare THEN told
                 ELSE [told EXCEPT ![c][kind] = val]
      /\ told' \in [Cmd -> Told]
      /\ eva.pc \in {"select", "more"}
  BY EvaluationIs
<1>2. eva.todo = <<>>
  BY <1>1, Idle DEF HeapInv
<1>3. t \in TwoHeaps /\ LatestAgree(t) /\ told \in [Cmd -> Told] /\ phase \in Nat
  BY <1>2, EqualSizes DEF TypeOK, HeapInv
<1>4. Reported(t, <<>>, told, recorded)
  BY <1>2 DEF ReportInv
<1>5. Pending(t.pendingMock[c], r) /\ Waits(t, c, r)
  BY <1>0, <1>1, <1>4 DEF Reported, Summed, Kept, Waits
<1>6. told[c][kind] = Nil
  BY <1>1 DEF ReportInv, ToldOnce
<1>7. r \in Told /\ r2 \in Told
  BY <1>0, <1>1, <1>3
<1>8. CASE kind = "real"
  <2>1. /\ val \in RealLat /\ res = AddReal(t, c, val)
    BY <1>1, <1>8 DEF Evaluation, Adding, Measure
  <2>2. told' = [told EXCEPT ![c]["real"] = val]
    BY <1>1, <1>8
  <2>3. r.real = Nil /\ r2.real = val /\ r2.commit = r.commit /\ r2.exec = r.exec
    BY <1>0, <1>1, <1>3, <1>6, <1>8, <2>2 DEF Told
  <2> QED
    BY <1>1, <1>3, <1>5, <1>7, <2>1, <2>3, AddRealEffect
<1>9. CASE kind = "exec"
  <2>1. /\ val \in ExecTime /\ res = AddExec(t, c, val)
    BY <1>1, <1>9 DEF Evaluation, Adding, Measure
  <2>2. told' = [told EXCEPT ![c]["exec"] = val]
    BY <1>1, <1>9
  <2>3. r.exec = Nil /\ r2.exec = val /\ r2.commit = r.commit /\ r2.real = r.real
    BY <1>0, <1>1, <1>3, <1>6, <1>9, <2>2 DEF Told
  <2> QED
    BY <1>1, <1>3, <1>5, <1>7, <2>1, <2>3, AddExecEffect
<1>10. CASE kind = "commit"
  <2>1. val \in GhostLat
    BY <1>1, <1>10 DEF Measure
  <2>2. PICK real \in RealLat : res = AddCommit(t, c, real, val)
    BY <1>10 DEF Evaluation, Adding
  <2>3. r.commit = Nil
    BY <1>0, <1>6, <1>10
  <2>4. r2.exec = r.exec /\ r2.real = r.real
        /\ IF res.compare THEN r2.commit = val ELSE r2 = r
    <3>1. CASE res.compare
      <4>1. told' = [told EXCEPT ![c]["commit"] = val]
        BY <1>1, <1>10, <3>1
      <4> QED
        BY <1>0, <1>1, <1>3, <3>1, <4>1 DEF Told
    <3>2. CASE ~res.compare
      BY <1>0, <1>1, <1>10, <3>2
    <3> QED
      BY <3>1, <3>2
  <2> QED
    BY <1>1, <1>3, <1>5, <1>7, <2>1, <2>2, <2>3, <2>4, AddCommitEffect
<1> QED
  BY <1>1, <1>8, <1>9, <1>10 DEF Kinds

LEMMA ReportsKeepReports ==
    ASSUME TypeOK, HeapInv, ReportInv,
           CommitLatencyFeedback \/ ClientRealE2ELatency \/ GhostExecLatency
    PROVE  ReportInv'
<1>1. PICK kind \in Kinds, c \in Cmd :
              \/ \E val, res : /\ Evaluation(kind, c, val, res)
                               /\ <<kind, c>> \notin sent
              \/ Dropped(kind, c)
  BY Reports
<1>2. ASSUME NEW val, NEW res, Evaluation(kind, c, val, res), <<kind, c>> \notin sent
      PROVE  ReportInv'
  <2>1. /\ kind \in Kinds /\ c \in Cmd /\ val \in Measure(kind)
        /\ sent' = sent \union {<<kind, c>>}
        /\ th' = res.th /\ res.th \in TwoHeaps /\ SameHeaps(th, res.th)
        /\ told' = IF kind = "commit" /\ ~res.compare THEN told
                   ELSE [told EXCEPT ![c][kind] = val]
        /\ told' \in [Cmd -> Told]
        /\ eva'.todo = res.todo
        /\ Fresh(res.todo, th, c)
        /\ UNCHANGED recorded
        /\ eva.pc \in {"select", "more"}
    BY <1>2, EvaluationIs
  <2>2. eva.todo = <<>>
    BY <2>1, Idle DEF HeapInv
  <2>3. PICK t, u, q, td, td2, rec : /\ t = th /\ u = res.th /\ q = res.todo
                                     /\ td = told /\ td2 = told' /\ rec = recorded
    OBVIOUS
  <2>4. Reported(t, <<>>, td, rec) /\ t \in TwoHeaps /\ td \in [Cmd -> Told]
    BY <2>2, <2>3 DEF ReportInv, TypeOK
  <2>5. told[c][kind] = Nil
    BY <1>2, <2>1 DEF ReportInv, ToldOnce
  <2>6. /\ \A d \in Cmd, k \in Kinds : (d # c \/ k # kind) => td2[d][k] = td[d][k]
        /\ \A d \in Cmd : d # c => td2[d] = td[d]
    <3>1. CASE kind = "commit" /\ ~res.compare
      BY <2>1, <2>3, <3>1
    <3>2. CASE ~(kind = "commit" /\ ~res.compare)
      <4>1. Telling(td2, td, c, kind, val)
        BY <2>1, <2>3, <3>2 DEF Telling
      <4>2. /\ td2 \in [Cmd -> Told]
            /\ td2[c][kind] = val
            /\ \A d \in Cmd, k \in Kinds : (d # c \/ k # kind) => td2[d][k] = td[d][k]
            /\ \A d \in Cmd : d # c => td2[d] = td[d]
        BY <2>1, <2>4, <4>1, ToldUpdate
      <4> QED
        BY <4>2
    <3> QED
      BY <3>1, <3>2
  <2>7. Effect(u, q, t, c, td2[c])
    <3>1. PICK r2 : r2 = td2[c]
      OBVIOUS
    <3>2. r2 = told'[c]
      BY <2>3, <3>1
    <3> QED
      BY <1>2, <2>3, <3>1, <3>2, EvaluationEffect
  <2>8. /\ td[c].commit # Nil => td2[c].commit = td[c].commit
        /\ td[c].exec # Nil => td2[c].exec = td[c].exec
    <3>1. /\ kind # "commit" => td2[c]["commit"] = td[c]["commit"]
          /\ kind # "exec" => td2[c]["exec"] = td[c]["exec"]
      BY <2>6 DEF Kinds
    <3>2. /\ kind = "commit" => td[c]["commit"] = Nil
          /\ kind = "exec" => td[c]["exec"] = Nil
      BY <2>3, <2>5
    <3> QED
      BY <3>1, <3>2
  <2>e. /\ u \in TwoHeaps /\ SameHeaps(t, u) /\ td2 \in [Cmd -> Told]
        /\ Fresh(q, t, c)
    BY <2>1, <2>3
  <2>9. Reported(u, q, td2, rec)
    BY <2>4, <2>6, <2>7, <2>8, <2>e, EffectKeeps
  <2>10. Reported(th, eva.todo, told, recorded)'
    BY <2>1, <2>3, <2>9, ReportedKept
  <2>11. ToldOnce'
    <3> SUFFICES ASSUME NEW d \in Cmd, NEW k \in Kinds, told'[d][k] # Nil
                 PROVE  <<k, d>> \in sent'
      BY DEF ToldOnce
    <3>1. CASE d = c /\ k = kind
      BY <2>1, <3>1
    <3>2. CASE ~(d = c /\ k = kind)
      <4>1. told'[d][k] = told[d][k]
        BY <2>3, <2>6, <3>2
      <4> QED
        BY <2>1, <4>1 DEF ReportInv, ToldOnce
    <3> QED
      BY <3>1, <3>2
  <2> QED
    BY <2>10, <2>11 DEF ReportInv
<1>3. CASE Dropped(kind, c)
  <2>1. /\ eva' = At("poll") /\ eva.pc = "select"
        /\ sent' = sent \union {<<kind, c>>}
        /\ UNCHANGED <<th, told, recorded>>
    BY <1>3 DEF Dropped, Ignore
  <2>2. eva'.todo = <<>> /\ eva.todo = <<>>
    BY <2>1, AtIs, Idle DEF HeapInv
  <2>3. PICK t, q, td, rec : t = th /\ q = eva.todo /\ td = told /\ rec = recorded
    OBVIOUS
  <2>4. Reported(th, eva.todo, told, recorded)'
    BY <2>1, <2>2, <2>3, ReportedKept DEF ReportInv
  <2>5. ToldOnce'
    BY <2>1 DEF ReportInv, ToldOnce
  <2> QED
    BY <2>4, <2>5 DEF ReportInv
<1> QED
  BY <1>1, <1>2, <1>3

LEMMA HeapPushKeepsReports ==
    ASSUME TypeOK, HeapInv, ReportInv, HeapPush
    PROVE  ReportInv'
<1>1. /\ eva.todo \in Seq(Pushes) /\ eva.todo # <<>>
      /\ th' \in TwoHeaps
      /\ \A h \in HeapName :
           th'[h] = IF h = Head(eva.todo).heap
                    THEN Pushed(th[h], Head(eva.todo).sample) ELSE th[h]
      /\ th'.pendingReal = th.pendingReal /\ th'.pendingMock = th.pendingMock
      /\ recorded' = IF Head(eva.todo).heap = "mockEndToEnd"
                     THEN recorded \union {Head(eva.todo).sample.cmd}
                     ELSE recorded
      /\ eva'.todo = Tail(eva.todo)
      /\ UNCHANGED <<sent, told>>
  BY HeapPushIs
<1>2. PICK t, u, q, td, rec, rec2 : /\ t = th /\ u = th' /\ q = eva.todo /\ td = told
                                    /\ rec = recorded /\ rec2 = recorded'
  OBVIOUS
<1>3. /\ Reported(t, q, td, rec) /\ t \in TwoHeaps /\ td \in [Cmd -> Told]
      /\ InPairs(q) /\ ToldOnce
  BY <1>2 DEF ReportInv, TypeOK, HeapInv, Consistent
<1>4. /\ q \in Seq(Pushes) /\ q # <<>> /\ u \in TwoHeaps
      /\ \A h \in HeapName : u[h] = IF h = Head(q).heap
                                    THEN Pushed(t[h], Head(q).sample) ELSE t[h]
      /\ u.pendingReal = t.pendingReal /\ u.pendingMock = t.pendingMock
      /\ rec2 = IF Head(q).heap = "mockEndToEnd"
                THEN rec \union {Head(q).sample.cmd} ELSE rec
  BY <1>1, <1>2
<1>5. Reported(u, Tail(q), td, rec2)
  BY <1>3, <1>4, PushReported
<1>6. PICK r : r = Tail(q)
  OBVIOUS
<1>7. Reported(th, eva.todo, told, recorded)'
  BY <1>1, <1>2, <1>5, <1>6, ReportedKept
<1>8. ToldOnce'
  BY <1>1, <1>3 DEF ToldOnce
<1> QED
  BY <1>7, <1>8 DEF ReportInv

LEMMA CheckIfRotateKeepsReports ==
    ASSUME TypeOK, HeapInv, ReportInv, CheckIfRotate
    PROVE  ReportInv'
<1>1. eva.todo = <<>> /\ UNCHANGED sent
  BY CheckIfRotateIs
<1>2. PICK t \in TwoHeaps, cut \in Nat :
            /\ t = Cleanup(th, cut)
            /\ \/ eva'.todo = <<>> /\ Clear
               \/ /\ \E pc \in {"poll", "more"} : eva' = At(pc)
                  /\ th' = t
                  /\ UNCHANGED <<told, recorded>>
  BY CheckIfRotateIs
<1>3. CASE eva'.todo = <<>> /\ Clear
  BY <1>3, ClearReports
<1>4. CASE /\ \E pc \in {"poll", "more"} : eva' = At(pc)
           /\ th' = t
           /\ UNCHANGED <<told, recorded>>
  <2>1. PICK q, td, rec : q = <<>> /\ td = told /\ rec = recorded
    OBVIOUS
  <2>2. eva'.todo = q
    BY <1>4, <2>1, AtIs
  <2>3. Reported(th, <<>>, td, rec) /\ th \in TwoHeaps
    BY <1>1, <2>1 DEF ReportInv, TypeOK
  <2>4. Reported(t, q, td, rec)
    BY <1>2, <2>1, <2>3, CleanupReported
  <2>5. Reported(th, eva.todo, told, recorded)'
    BY <1>4, <2>1, <2>2, <2>4, ReportedKept
  <2>6. ToldOnce'
    BY <1>1, <1>4 DEF ReportInv, ToldOnce
  <2> QED
    BY <2>5, <2>6 DEF ReportInv
<1> QED
  BY <1>2, <1>3, <1>4

LEMMA StepKeepsReports ==
    ASSUME TypeOK, HeapInv, ReportInv, [Next]_vars
    PROVE  ReportInv'
<1>1. ASSUME UNCHANGED <<th, told, recorded, sent>>, eva'.todo = eva.todo
      PROVE  ReportInv'
  <2>1. PICK t, q, td, rec : t = th /\ q = eva.todo /\ td = told /\ rec = recorded
    OBVIOUS
  <2>2. Reported(th, eva.todo, told, recorded)'
    BY <1>1, <2>1, ReportedKept DEF ReportInv
  <2>3. ToldOnce'
    BY <1>1 DEF ReportInv, ToldOnce
  <2> QED
    BY <2>2, <2>3 DEF ReportInv
<1>2. CASE UNCHANGED vars
  BY <1>1, <1>2 DEF vars, history
<1>3. CASE PollStop \/ Sleep
  <2>1. UNCHANGED <<th, told, recorded, sent>>
        /\ eva.pc \in {"poll", "select", "more"}
        /\ (eva' = At("select") \/ eva' = At("poll"))
    BY <1>3 DEF PollStop, Sleep, history
  <2>2. UNCHANGED <<th, told, recorded, sent>> /\ eva.todo = <<>> /\ eva'.todo = <<>>
    BY <1>3, AtIs, Idle DEF PollStop, Sleep, history, HeapInv
  <2> QED
    BY <1>1, <2>2
<1>4. CASE StopEva
  <2>1. eva'.todo = <<>> /\ Clear
    BY <1>4, AtIs DEF StopEva
  <2> QED
    BY <2>1, ClearReports
<1>5. CASE Suspect
  <2>1. eva.next \in {"poll", "more"}
    BY DEF TypeOK, Evaluations
  <2>2. eva'.todo = <<>> /\ Clear
    BY <1>5, <2>1, AtIs DEF Suspect
  <2> QED
    BY <2>2, ClearReports
<1>6. CASE GoToPhase
  <2>1. eva.pc \in {"poll", "select"} /\ Clear /\ eva' = eva
    BY <1>6 DEF GoToPhase, HeapInv, Stopped
  <2>2. eva'.todo = <<>>
    BY <2>1, Idle DEF HeapInv
  <2> QED
    BY <2>1, <2>2, ClearReports
<1>7. CASE HandleSlowdown \/ ProgressTimer \/ HandleRotate \/ SkipPhase \/ WarmupEnds
  BY <1>1, <1>7 DEF HandleSlowdown, ProgressTimer, HandleRotate, SkipPhase, WarmupEnds,
                    history
<1> QED
  BY <1>2, <1>3, <1>4, <1>5, <1>6, <1>7, ReportsKeepReports, HeapPushKeepsReports,
     CheckIfRotateKeepsReports DEF Next, Evaluator, Run

ReportsInv == DetectorInv /\ (Timely => ReportInv)

LEMMA ReportsInductive == Spec => []ReportsInv
<1>1. Init => ReportsInv
  <2> SUFFICES ASSUME Init
               PROVE  ReportsInv
    OBVIOUS
  <2>1. DetectorInv
    BY InitTypes, InitHeaps DEF DetectorInv
  <2>2. th = Cleared /\ told = NothingTold /\ recorded = {} /\ eva.todo = <<>>
    BY AtIs DEF Init
  <2>3. ReportInv
    BY <2>2, ClearedReported, NothingToldIs DEF ReportInv, ToldOnce
  <2> QED
    BY <2>1, <2>3 DEF ReportsInv
<1>2. ReportsInv /\ [Next]_vars => ReportsInv'
  BY StepTypes, StepKeepsHeaps, StepKeepsReports DEF ReportsInv, DetectorInv
<1> QED
  BY <1>1, <1>2, PTL DEF Spec

\* A ghost end-to-end latency that is compared is its command's commit latency
\* in the ghost log and its execution time, in whatever order they came.
THEOREM GhostEndToEndAlways == Spec => [](Timely => GhostEndToEnd)
<1>1. ReportsInv => (Timely => GhostEndToEnd)
  BY DEF ReportsInv, ReportInv, Reported, Summed, InTotal, Total, GhostEndToEnd
<1> QED
  BY <1>1, ReportsInductive, PTL

\* Once its three reports were evaluated, in whatever order they came, a command
\* was compared, unless a later one overtook it or its execution took no time.
THEOREM RecordedAlways == Spec => [](Timely => Recorded)
<1>1. ASSUME ReportsInv, Timely, eva.pc # "push", NEW c \in Cmd,
             \A kind \in DOMAIN told[c] : told[c][kind] # Nil,
             told[c].exec > 0, Newer(th.mockEndToEnd, c)
      PROVE  c \in recorded
  <2>1. TypeOK /\ HeapInv /\ ReportInv
    BY <1>1 DEF ReportsInv, DetectorInv
  <2>2. eva.todo = <<>>
    BY <1>1, <2>1, Idle DEF HeapInv, Stopped, TypeOK, Evaluations
  <2>3. told[c] \in Told
    BY <2>1 DEF TypeOK
  <2>4. AllTold(told[c])
    <3>1. DOMAIN told[c] = Kinds
      BY <2>3 DEF Told, Kinds
    <3>2. \A kind \in Kinds : told[c][kind] # Nil
      BY <1>1, <3>1
    <3> QED
      BY <3>2 DEF AllTold, Kinds
  <2>5. told[c].exec # 0
    BY <1>1
  <2>6. c \in recorded \/ Coming(c, eva.todo)
    BY <1>1, <2>1, <2>4, <2>5 DEF ReportInv, Reported, Kept
  <2>7. \A k \in 1 .. Len(<<>>) : FALSE
    OBVIOUS
  <2> QED
    BY <2>2, <2>6, <2>7 DEF Coming
<1>2. ReportsInv => (Timely => Recorded)
  BY <1>1 DEF Recorded
<1> QED
  BY <1>2, ReportsInductive, PTL
=============================================================================
