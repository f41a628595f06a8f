--------------------------- MODULE AvicennaLogProofs ---------------------------
(***************************************************************************)
(* What the operators on the logs return: every choice made in them has a  *)
(* candidate, and every log, queue and report they build is one.           *)
(***************************************************************************)
EXTENDS AvicennaLog, FiniteSetTheorems, SequenceTheorems,
        WellFoundedInduction, TLAPS

Logs == [Inst -> Entry]

-----------------------------------------------------------------------------
(* Least elements *)

LEMMA LeastNatural ==
  ASSUME NEW S, S \subseteq Nat, S # {}
  PROVE  \E n \in S : \A m \in S : n <= m
<1>1. PICK n \in S : \A m \in S : ~ (<<m, n>> \in OpToRel(<, Nat))
  BY NatLessThanWellFounded, WFMin
<1>2. ASSUME NEW m \in S
      PROVE  n <= m
  <2>1. n \in Nat /\ m \in Nat
    OBVIOUS
  <2>2. m < n => <<m, n>> \in OpToRel(<, Nat)
    BY <2>1 DEF OpToRel
  <2>3. ~ (m < n)
    BY <1>1, <2>2
  <2> QED
    BY <2>1, <2>3
<1> QED
  BY <1>2

LEMMA LeastInteger ==
  ASSUME NEW a \in Int, NEW S, \A n \in S : n \in Int /\ a <= n, S # {}
  PROVE  \E n \in S : \A m \in S : n <= m
<1> DEFINE T == {k \in Nat : a + k \in S}
<1>1. PICK x \in S : TRUE
  OBVIOUS
<1>2. x - a \in Nat /\ a + (x - a) = x
  OBVIOUS
<1>3. x - a \in T
  BY <1>1, <1>2
<1>4. PICK k \in T : \A m \in T : k <= m
  BY <1>3, LeastNatural
<1>5. ASSUME NEW m \in S
      PROVE  a + k <= m
  <2>1. m - a \in Nat /\ a + (m - a) = m
    OBVIOUS
  <2>2. m - a \in T
    BY <2>1
  <2>3. k \in Nat /\ k <= m - a
    BY <1>4, <2>2
  <2> QED
    BY <2>3
<1> QED
  BY <1>4, <1>5

LEMMA GreatestNatural ==
  ASSUME NEW b \in Nat, NEW S, S \subseteq 0 .. b, S # {}
  PROVE  \E n \in S : \A m \in S : m <= n
<1> DEFINE T == {k \in 0 .. b : b - k \in S}
<1>1. PICK x \in S : TRUE
  OBVIOUS
<1>2. b - x \in 0 .. b /\ b - (b - x) = x
  OBVIOUS
<1>3. T # {} /\ T \subseteq Nat
  BY <1>1, <1>2
<1>4. PICK k \in T : \A m \in T : k <= m
  BY <1>3, LeastNatural
<1>5. ASSUME NEW m \in S
      PROVE  m <= b - k
  <2>1. b - m \in 0 .. b /\ b - (b - m) = m
    OBVIOUS
  <2>2. b - m \in T
    BY <2>1
  <2> QED
    BY <1>4, <2>1, <2>2
<1> QED
  BY <1>4, <1>5

LEMMA FirstOfIsMember ==
  ASSUME NEW S, S \subseteq Nat, S # {}
  PROVE  FirstOf(S) \in S
  BY LeastNatural DEF FirstOf

-----------------------------------------------------------------------------
(* The first nil instance and the committed prefix *)

LEMMA NextNilType ==
  ASSUME NEW log \in Logs
  PROVE  NextNil(log) \in 0 .. MaxInst
<1> DEFINE S == {n \in 0 .. MaxInst : n < MaxInst => IsNil(log, n)}
<1>1. MaxInst \in S /\ S \subseteq Nat
  BY MaxInstAssumption
<1>2. PICK n \in S : \A m \in S : n <= m
  BY <1>1, LeastNatural
<1>3. ASSUME NEW i \in 0 .. n - 1
      PROVE  ~IsNil(log, i)
  BY <1>2, MaxInstAssumption
<1> QED
  BY <1>2, <1>3 DEF NextNil

LEMMA CommittedPrefixType ==
  ASSUME NEW log \in Logs, NEW upTo \in -1 .. MaxInst - 1, NEW status
  PROVE  CommittedPrefix(log, upTo, status) \in -1 .. MaxInst - 1
<1> DEFINE S == {n \in upTo .. MaxInst - 1 :
                    n + 1 < MaxInst => log[n + 1].status # status}
<1>1. MaxInst - 1 \in S /\ \A n \in S : n \in Int /\ upTo <= n
  BY MaxInstAssumption
<1>2. PICK n \in S : \A m \in S : n <= m
  <2> HIDE DEF S
  <2> QED
    BY <1>1, LeastInteger
<1>3. ASSUME NEW i \in upTo + 1 .. n
      PROVE  log[i].status = status
  <2>1. i - 1 \in upTo .. MaxInst - 1 /\ ~ (n <= i - 1) /\ (i - 1) + 1 = i
    BY <1>2, MaxInstAssumption
  <2> QED
    BY <1>2, <2>1
<1>4. \E k \in upTo .. MaxInst - 1 :
        /\ \A i \in upTo + 1 .. k : log[i].status = status
        /\ k + 1 < MaxInst => log[k + 1].status # status
  BY <1>2, <1>3
<1>5. CommittedPrefix(log, upTo, status) \in upTo .. MaxInst - 1
  BY <1>4 DEF CommittedPrefix
<1> QED
  BY <1>5, MaxInstAssumption

-----------------------------------------------------------------------------
(* Ascending enumerations *)

LEMMA SubsetsAreFinite ==
  ASSUME NEW b \in Nat
  PROVE  \A S \in SUBSET (0 .. b) : IsFiniteSet(S) /\ Cardinality(S) \in Nat
<1>1. 0 \in Int /\ b \in Int
  OBVIOUS
<1>2. IsFiniteSet(0 .. b)
  BY <1>1, FS_Interval
<1> QED
  BY <1>2, FS_Subset, FS_CardinalityType

IsAscending(S, s) ==
    /\ s \in [1 .. Cardinality(S) -> S]
    /\ \A j, k \in DOMAIN s : j < k => s[j] < s[k]

\* One more element, above all others, can always be put at the end.
LEMMA AscendingExtends ==
  ASSUME NEW S, IsFiniteSet(S), S \subseteq Nat,
         NEW x \in S, \A y \in S : y <= x,
         NEW t, IsAscending(S \ {x}, t)
  PROVE  \E s : IsAscending(S, s)
<1> DEFINE n == Cardinality(S)
           s == [k \in 1 .. n |-> IF k = n THEN x ELSE t[k]]
<1>1. n \in Nat /\ Cardinality(S \ {x}) = n - 1 /\ n - 1 \in Nat
  <2>1. IsFiniteSet(S \ {x}) /\ Cardinality(S \ {x}) = n - 1
    BY FS_RemoveElement
  <2>2. n \in Nat /\ Cardinality(S \ {x}) \in Nat
    BY <2>1, FS_CardinalityType
  <2> QED
    BY <2>1, <2>2
<1>2. t \in [1 .. n - 1 -> S \ {x}]
  BY <1>1 DEF IsAscending
<1>3. ASSUME NEW k \in 1 .. n, k # n
      PROVE  k \in 1 .. n - 1 /\ t[k] \in S /\ t[k] < x
  <2>1. k \in 1 .. n - 1
    BY <1>1, <1>3
  <2>2. t[k] \in S /\ t[k] # x
    BY <1>2, <2>1
  <2>3. t[k] \in Nat /\ x \in Nat /\ t[k] <= x
    BY <2>2
  <2> QED
    BY <2>1, <2>2, <2>3
<1>4. s \in [1 .. n -> S]
  BY <1>3
<1>5. ASSUME NEW j \in 1 .. n, NEW k \in 1 .. n, j < k
      PROVE  s[j] < s[k]
  <2>1. j # n
    BY <1>1, <1>5
  <2>2. CASE k = n
    BY <1>3, <2>1, <2>2
  <2>3. CASE k # n
    <3>1. j \in 1 .. n - 1 /\ k \in 1 .. n - 1
      BY <1>1, <2>1, <2>3
    <3>2. t[j] < t[k]
      BY <1>2, <1>5, <3>1 DEF IsAscending
    <3> QED
      BY <2>1, <2>3, <3>2
  <2> QED
    BY <2>2, <2>3
<1>6. IsAscending(S, s)
  BY <1>4, <1>5 DEF IsAscending
<1> QED
  BY <1>6

LEMMA AscendingExists ==
  ASSUME NEW b \in Nat, NEW S \in SUBSET (0 .. b)
  PROVE  \E s : IsAscending(S, s)
<1> DEFINE Bad == {T \in SUBSET (0 .. b) : ~ \E s : IsAscending(T, s)}
           Sizes == {Cardinality(T) : T \in Bad}
<1>1. \A T \in SUBSET (0 .. b) : IsFiniteSet(T) /\ Cardinality(T) \in Nat
  BY SubsetsAreFinite
<1>2. SUFFICES ASSUME Bad # {} PROVE FALSE
  OBVIOUS
<1>3. Sizes # {} /\ Sizes \subseteq Nat
  BY <1>1, <1>2
<1>4. PICK n \in Sizes : \A m \in Sizes : n <= m
  <2> HIDE DEF Sizes
  <2> QED
    BY <1>3, LeastNatural
<1>5. PICK T \in Bad : Cardinality(T) = n
  BY <1>4
<1>6. T # {}
  <2> SUFFICES ASSUME T = {} PROVE FALSE
    OBVIOUS
  <2>1. Cardinality(T) = 0
    BY FS_EmptySet
  <2>2. IsAscending(T, <<>>)
    BY <2>1 DEF IsAscending
  <2> QED
    BY <1>5, <2>2
<1>7. PICK x \in T : \A y \in T : y <= x
  <2>1. T \subseteq 0 .. b
    BY <1>5
  <2> QED
    BY <1>6, <2>1, GreatestNatural
<1>8. Cardinality(T \ {x}) = n - 1 /\ n \in Nat
  BY <1>1, <1>5, FS_RemoveElement
<1>9. T \ {x} \notin Bad
  <2> SUFFICES ASSUME T \ {x} \in Bad PROVE FALSE
    OBVIOUS
  <2>1. n - 1 \in Sizes
    BY <1>8
  <2>2. n <= n - 1
    BY <1>4, <2>1
  <2> QED
    BY <1>8, <2>2
<1>10. PICK t : IsAscending(T \ {x}, t)
  BY <1>5, <1>9
<1>11. T \subseteq Nat /\ IsFiniteSet(T)
  BY <1>1, <1>5
<1>12. \E s : IsAscending(T, s)
  BY <1>7, <1>10, <1>11, AscendingExtends
<1> QED
  BY <1>5, <1>12

\* Ascending(S) enumerates S.
LEMMA AscendingType ==
  ASSUME NEW b \in Nat, NEW S \in SUBSET (0 .. b)
  PROVE  /\ Cardinality(S) \in Nat
         /\ Ascending(S) \in [1 .. Cardinality(S) -> S]
<1>1. Cardinality(S) \in Nat
  BY SubsetsAreFinite
<1>2. PICK s : IsAscending(S, s)
  BY AscendingExists
<1>3. Ascending(S) \in [1 .. Cardinality(S) -> S]
  BY <1>2 DEF Ascending, IsAscending
<1> QED
  BY <1>1, <1>3

-----------------------------------------------------------------------------
(* Types: instances, queues, Accepts *)

LEMMA MaxAcceptsType == MaxAccepts \in Nat
  BY NAssumption DEF MaxAccepts

LEMMA NewInstanceType ==
  ASSUME NEW status \in Status, NEW cmds \in SUBSET Cmds
  PROVE  NewInstance(status, cmds) \in Entry
  BY MaxAcceptsType DEF NewInstance, Entry

LEMMA CountedType ==
  ASSUME NEW e \in Entry
  PROVE  Counted(e) \in Entry
  BY MaxAcceptsType DEF Counted, Entry

LEMMA QueueTypes ==
  ASSUME NEW queue \in SUBSET Cmds, NEW cmds \in SUBSET Cmds
  PROVE  /\ AddToQueue(queue, cmds) \in SUBSET Cmds
         /\ DeleteFromQueue(queue, cmds) \in SUBSET Cmds
  BY DEF AddToQueue, DeleteFromQueue, Newest

LEMMA AcceptType ==
  ASSUME NEW accept \in Accepts
  PROVE  /\ DOMAIN accept \subseteq Inst
         /\ DOMAIN accept # {}
         /\ \A i \in DOMAIN accept : accept[i] \in SUBSET Cmds
  BY DEF Accepts

LEMMA BlankUpToType ==
  ASSUME NEW log \in Logs, NEW i \in Inst
  PROVE  BlankUpTo(log, i) \in Logs
<1>1. NewInstance("NULL", {}) \in Entry
  BY NewInstanceType DEF Status
<1> QED
  BY <1>1 DEF BlankUpTo, Logs

LEMMA AcceptedType ==
  ASSUME NEW log \in Logs, NEW accept \in Accepts,
         NEW insts \in SUBSET (DOMAIN accept), NEW status \in Status
  PROVE  Accepted(log, insts, accept, status) \in Logs
<1>1. ASSUME NEW i \in Inst, i \in insts
      PROVE  [log[i] EXCEPT !.status = status, !.cmds = accept[i]] \in Entry
  <2>1. accept[i] \in SUBSET Cmds
    BY <1>1, AcceptType
  <2>2. log[i] \in Entry
    BY DEF Logs
  <2> QED
    BY <2>1, <2>2 DEF Entry
<1> QED
  BY <1>1 DEF Accepted, Logs

LEMMA OverwrittenType ==
  ASSUME NEW log \in Logs, NEW accept \in Accepts, NEW i \in DOMAIN accept
  PROVE  Overwritten(log, i, accept) \in SUBSET Cmds
<1>1. accept[i] \in SUBSET Cmds /\ i \in Inst
  BY AcceptType
<1>2. log[i].cmds \in SUBSET Cmds
  BY <1>1 DEF Logs, Entry
<1> QED
  BY <1>1, <1>2 DEF Overwritten

LEMMA MockQueueAfterType ==
  ASSUME NEW queue \in SUBSET Cmds, NEW log \in Logs, NEW accept \in Accepts,
         NEW insts \in SUBSET (DOMAIN accept)
  PROVE  MockQueueAfter(queue, log, insts, accept) \in SUBSET Cmds
<1>1. \A i \in insts : Overwritten(log, i, accept) \in SUBSET Cmds
  BY OverwrittenType
<1> QED
  BY <1>1 DEF MockQueueAfter, Newest

-----------------------------------------------------------------------------
(* Types: Rotates and their merge *)

LEMMA LogReportType ==
  ASSUME NEW f \in LogReports
  PROVE  /\ DOMAIN f \subseteq Inst
         /\ \A i \in DOMAIN f : f[i] \in Reported
  BY DEF LogReports

LEMMA ReportType ==
  ASSUME NEW log \in Logs, NEW first \in Nat, NEW accepted, NEW committed
  PROVE  Report(log, first, accepted, committed) \in LogReports
<1> DEFINE D == first .. NextNil(log) - 1
           e(i) == [cmds   |-> log[i].cmds,
                    status |-> CASE log[i].status = committed -> "COMMITTED"
                                 [] log[i].status = accepted  -> "ACCEPTED"
                                 [] OTHER                     -> "RECEIVED"]
<1>1. NextNil(log) \in 0 .. MaxInst
  BY NextNilType
<1>2. D \in SUBSET Inst
  BY <1>1, MaxInstAssumption DEF Inst
<1>3. ASSUME NEW i \in D
      PROVE  e(i) \in Reported
  <2>1. log[i].cmds \in SUBSET Cmds
    BY <1>2 DEF Logs, Entry
  <2> QED
    BY <2>1 DEF Reported
<1>4. Report(log, first, accepted, committed) = [i \in D |-> e(i)]
  BY DEF Report
<1>5. [i \in D |-> e(i)] \in [D -> Reported]
  <2> HIDE DEF D, e
  <2> QED
    BY <1>3
<1> QED
  BY <1>2, <1>4, <1>5 DEF LogReports

LEMMA UnfirmIsHolder ==
  ASSUME NEW reports, NEW n \in Nat, NEW order \in [1 .. n -> DOMAIN reports],
         NEW i, NEW field, Holders(reports, order, i) # {}
  PROVE  Unfirm(reports, order, i, field) \in Holders(reports, order, i)
<1>1. PICK S : S = Holders(reports, order, i)
  OBVIOUS
<1>2. S \subseteq 0 .. n /\ S \subseteq Nat /\ S # {}
  BY <1>1 DEF Holders
<1>3. FirstOf(S) \in S
  BY <1>2, FirstOfIsMember
<1>4. LastOf(S) \in S
  BY <1>2, GreatestNatural DEF LastOf
<1> QED
  BY <1>1, <1>3, <1>4 DEF Unfirm

LEMMA MetadataType ==
  ASSUME NEW field, NEW reports, \A s \in DOMAIN reports : reports[s] \in LogReports,
         NEW n \in Nat, NEW order \in [1 .. n -> DOMAIN reports]
  PROVE  Metadata(reports, order, field) \in LogReports
<1> DEFINE D == UNION {DOMAIN reports[order[k]] : k \in DOMAIN order}
           At(k, i) == reports[order[k]][i]
<1>1. \A k \in DOMAIN order : reports[order[k]] \in LogReports
  OBVIOUS
<1>2. D \subseteq Inst
  BY <1>1, LogReportType
<1>3. \A k \in DOMAIN order : \A i \in DOMAIN reports[order[k]] :
            At(k, i) \in Reported
  BY <1>1, LogReportType
<1>4. ASSUME NEW i \in D
      PROVE  Metadata(reports, order, field)[i] \in Reported
  <2>1. Holders(reports, order, i) # {} /\ Holders(reports, order, i) \subseteq Nat
    BY <1>4 DEF Holders
  <2>2. Unfirm(reports, order, i, field) \in Holders(reports, order, i)
    BY <2>1, UnfirmIsHolder
  <2>3. At(Unfirm(reports, order, i, field), i) \in Reported
    BY <1>3, <2>2 DEF Holders
  <2>4. CASE Firm(reports, order, i) = {}
    BY <1>4, <2>3, <2>4 DEF Metadata
  <2>5. CASE Firm(reports, order, i) # {}
    <3>1. Firm(reports, order, i) \subseteq Holders(reports, order, i)
      BY DEF Firm
    <3>2. FirstOf(Firm(reports, order, i)) \in Firm(reports, order, i)
      BY <2>1, <2>5, <3>1, FirstOfIsMember
    <3>3. At(FirstOf(Firm(reports, order, i)), i) \in Reported
      BY <1>3, <3>1, <3>2 DEF Holders
    <3>4. At(FirstOf(Firm(reports, order, i)), i).cmds \in SUBSET Cmds
      BY <3>3 DEF Reported
    <3> QED
      BY <1>4, <2>5, <3>4 DEF Metadata, Reported
  <2> QED
    BY <2>4, <2>5
<1>5. Metadata(reports, order, field) = [i \in D |-> Metadata(reports, order, field)[i]]
  BY DEF Metadata
<1>6. [i \in D |-> Metadata(reports, order, field)[i]] \in [D -> Reported]
  <2> HIDE DEF D
  <2> QED
    BY <1>4
<1> QED
  BY <1>2, <1>5, <1>6 DEF LogReports

LEMMA MergedType ==
  ASSUME NEW field, NEW reports, \A s \in DOMAIN reports : reports[s] \in LogReports,
         IsFiniteSet(DOMAIN reports)
  PROVE  Merged(reports, field) \subseteq LogReports
<1>1. Cardinality(DOMAIN reports) \in Nat
  BY FS_CardinalityType
<1>2. ASSUME NEW order \in Orders(DOMAIN reports)
      PROVE  Metadata(reports, order, field) \in LogReports
  <2>1. PICK n : n = Cardinality(DOMAIN reports)
    OBVIOUS
  <2>2. n \in Nat /\ order \in [1 .. n -> DOMAIN reports]
    BY <1>1, <2>1 DEF Orders
  <2> QED
    BY <2>2, MetadataType
<1> QED
  BY <1>2 DEF Merged

-----------------------------------------------------------------------------
(* Reports that agree *)

\* a report is firm where the log has the instance accepted or committed
LEMMA ReportFirm ==
  ASSUME NEW log, NEW first, NEW accepted, NEW committed,
         NEW i \in first .. NextNil(log) - 1
  PROVE  /\ i \in DOMAIN Report(log, first, accepted, committed)
         /\ Report(log, first, accepted, committed)[i].cmds = log[i].cmds
         /\ Report(log, first, accepted, committed)[i].status # "RECEIVED"
                <=> log[i].status \in {accepted, committed}
  BY DEF Report

\* every firm report of an instance has the commands C gives it
Agreeing(reports, C) ==
  \A s \in DOMAIN reports : \A i \in DOMAIN reports[s] :
    reports[s][i].status # "RECEIVED" => reports[s][i].cmds = C[i]

LEMMA FirstFirm ==
  ASSUME NEW reports, NEW C, Agreeing(reports, C),
         NEW n \in Nat, NEW order \in [1 .. n -> DOMAIN reports], NEW i,
         Firm(reports, order, i) # {}
  PROVE  /\ FirstOf(Firm(reports, order, i)) \in Firm(reports, order, i)
         /\ \A k \in Firm(reports, order, i) :
                /\ k \in DOMAIN order /\ i \in DOMAIN reports[order[k]]
                /\ reports[order[k]][i].cmds = C[i]
<1>1. Firm(reports, order, i) \subseteq Nat
  BY DEF Firm, Holders
<1>2. FirstOf(Firm(reports, order, i)) \in Firm(reports, order, i)
  BY <1>1, FirstOfIsMember
<1>3. ASSUME NEW k \in Firm(reports, order, i)
      PROVE  /\ k \in DOMAIN order /\ i \in DOMAIN reports[order[k]]
             /\ reports[order[k]][i].cmds = C[i]
  <2>1. /\ k \in DOMAIN order /\ i \in DOMAIN reports[order[k]]
        /\ reports[order[k]][i].status # "RECEIVED"
    BY DEF Firm, Holders
  <2> QED
    BY <2>1 DEF Agreeing
<1> QED
  BY <1>2, <1>3

\* createRotateMetadataMap does not panic on them ...
LEMMA AgreeingMerge ==
  ASSUME NEW reports, IsFiniteSet(DOMAIN reports), NEW C, Agreeing(reports, C)
  PROVE  ~MergePanics(reports)
<1>1. Cardinality(DOMAIN reports) \in Nat
  BY FS_CardinalityType
<1> SUFFICES ASSUME NEW order \in Orders(DOMAIN reports)
             PROVE  ~MetadataConflict(reports, order)
  BY DEF MergePanics
<1>2. PICK n \in Nat : order \in [1 .. n -> DOMAIN reports]
  BY <1>1 DEF Orders
<1>3. ASSUME NEW i, NEW k \in Firm(reports, order, i)
      PROVE  Cardinality(reports[order[k]][i].cmds) = Cardinality(
                reports[order[FirstOf(Firm(reports, order, i))]][i].cmds)
  <2>1. /\ reports[order[k]][i].cmds = C[i]
        /\ reports[order[FirstOf(Firm(reports, order, i))]][i].cmds = C[i]
    BY <1>2, FirstFirm
  <2> QED
    BY <2>1
<1> QED
  BY <1>3 DEF MetadataConflict

\* ... and the map has C's commands wherever a report is firm
LEMMA AgreeingMerged ==
  ASSUME NEW field, NEW reports, IsFiniteSet(DOMAIN reports), NEW C, Agreeing(reports, C),
         NEW md \in Merged(reports, field)
  PROVE  /\ \A i \in DOMAIN md : md[i].status # "RECEIVED" => md[i].cmds = C[i]
         /\ \A s \in DOMAIN reports : \A i \in DOMAIN reports[s] :
                reports[s][i].status # "RECEIVED" =>
                    /\ i \in DOMAIN md
                    /\ md[i].cmds = C[i]
                    /\ md[i].status \in {"ACCEPTED", "COMMITTED"}
<1>1. Cardinality(DOMAIN reports) \in Nat
  BY FS_CardinalityType
<1>2. PICK order \in Orders(DOMAIN reports) : md = Metadata(reports, order, field)
  BY DEF Merged
<1>3. /\ \E n \in Nat : order \in [1 .. n -> DOMAIN reports]
      /\ \A s \in DOMAIN reports : \E k \in DOMAIN order : order[k] = s
  BY <1>1, <1>2 DEF Orders
<1>4. PICK n \in Nat : order \in [1 .. n -> DOMAIN reports]
  BY <1>3
<1>5. ASSUME NEW i \in DOMAIN md, Firm(reports, order, i) # {}
      PROVE  md[i].cmds = C[i] /\ md[i].status \in {"ACCEPTED", "COMMITTED"}
  <2>1. reports[order[FirstOf(Firm(reports, order, i))]][i].cmds = C[i]
    BY <1>4, <1>5, FirstFirm
  <2>2. /\ md[i].cmds = reports[order[FirstOf(Firm(reports, order, i))]][i].cmds
        /\ md[i].status \in {"ACCEPTED", "COMMITTED"}
    BY <1>2, <1>5 DEF Metadata
  <2> QED
    BY <2>1, <2>2
<1>6. ASSUME NEW i \in DOMAIN md, Firm(reports, order, i) = {}
      PROVE  md[i].status = "RECEIVED"
  <2>1. /\ i \in UNION {DOMAIN reports[order[k]] : k \in DOMAIN order}
        /\ md[i] = reports[order[Unfirm(reports, order, i, field)]][i]
    BY <1>2, <1>6 DEF Metadata
  <2>2. Holders(reports, order, i) # {} /\ Holders(reports, order, i) \subseteq Nat
    BY <1>4, <2>1 DEF Holders
  <2>3. Unfirm(reports, order, i, field) \in Holders(reports, order, i)
    BY <1>4, <2>2, UnfirmIsHolder
  <2> QED
    BY <1>6, <2>1, <2>3 DEF Firm
<1>7. ASSUME NEW s \in DOMAIN reports, NEW i \in DOMAIN reports[s],
             reports[s][i].status # "RECEIVED"
      PROVE  i \in DOMAIN md /\ Firm(reports, order, i) # {}
  <2>1. PICK k \in DOMAIN order : order[k] = s
    BY <1>3
  <2>2. k \in Firm(reports, order, i)
    BY <1>7, <2>1 DEF Firm, Holders
  <2>3. DOMAIN md = UNION {DOMAIN reports[order[j]] : j \in DOMAIN order}
    BY <1>2 DEF Metadata
  <2> QED
    BY <2>1, <2>2, <2>3
<1> QED
  BY <1>5, <1>6, <1>7

-----------------------------------------------------------------------------
(* Types: the logs after a rotation *)

LEMMA ReportedInstance ==
  ASSUME NEW md \in LogReports, NEW i \in DOMAIN md
  PROVE  /\ i \in Inst
         /\ md[i].cmds \in SUBSET Cmds
         /\ md[i].status \in Status
         /\ NewInstance(md[i].status, md[i].cmds) \in Entry
<1>1. i \in Inst /\ md[i] \in Reported
  BY LogReportType
<1>2. md[i].cmds \in SUBSET Cmds /\ md[i].status \in Status
  BY <1>1 DEF Reported, Status
<1> QED
  BY <1>1, <1>2, NewInstanceType

LEMMA BlankInstance == NewInstance("NULL", {}) \in Entry
  BY NewInstanceType DEF Status

LEMMA CommittedEntry ==
  ASSUME NEW e \in Entry, NEW status \in Status, NEW cmds \in SUBSET Cmds
  PROVE  [e EXCEPT !.status = status, !.cmds = cmds] \in Entry
  BY DEF Entry

LEMMA RealAfterRotateType ==
  ASSUME NEW log \in Logs, NEW md \in LogReports, NEW order
  PROVE  RealAfterRotate(log, md, order) \in Logs
<1>1. ASSUME NEW i \in Inst
      PROVE  RealAfterRotate(log, md, order)[i] \in Entry
  <2>1. log[i] \in Entry
    BY DEF Logs
  <2>2. CASE i \in CommitsOnRotate(log, md, order, "ACCEPTED")
    <3>1. md[i].cmds \in SUBSET Cmds
      BY <2>2, ReportedInstance DEF CommitsOnRotate
    <3>2. [log[i] EXCEPT !.status = "COMMITTED", !.cmds = md[i].cmds] \in Entry
      BY <2>1, <3>1, CommittedEntry DEF Status
    <3>3. i \notin AdoptsOnRotate(log, md, order)
      BY <2>2 DEF CommitsOnRotate, AdoptsOnRotate
    <3> QED
      BY <2>2, <3>2, <3>3 DEF RealAfterRotate
  <2>3. CASE /\ i \notin CommitsOnRotate(log, md, order, "ACCEPTED")
             /\ i \in AdoptsOnRotate(log, md, order)
    <3>1. NewInstance(md[i].status, md[i].cmds) \in Entry
      BY <2>3, ReportedInstance DEF AdoptsOnRotate
    <3> QED
      BY <2>3, <3>1 DEF RealAfterRotate
  <2>4. CASE /\ i \notin CommitsOnRotate(log, md, order, "ACCEPTED")
             /\ i \notin AdoptsOnRotate(log, md, order)
    BY <2>1, <2>4, BlankInstance DEF RealAfterRotate
  <2> QED
    BY <2>2, <2>3, <2>4
<1>2. RealAfterRotate(log, md, order) =
        [i \in Inst |-> RealAfterRotate(log, md, order)[i]]
  BY DEF RealAfterRotate
<1>3. [i \in Inst |-> RealAfterRotate(log, md, order)[i]] \in Logs
  BY <1>1 DEF Logs
<1> QED
  BY <1>2, <1>3

LEMMA MockAfterRotateType ==
  ASSUME NEW log \in Logs, NEW md \in LogReports, NEW order
  PROVE  MockAfterRotate(log, md, order) \in Logs
<1> DEFINE Adopts(i) == /\ i \in DOMAIN md /\ log[i].status = "RECEIVED"
                        /\ md[i].status = "ACCEPTED"
<1>1. ASSUME NEW i \in Inst
      PROVE  MockAfterRotate(log, md, order)[i] \in Entry
  <2>1. log[i] \in Entry
    BY DEF Logs
  <2>2. CASE i \in CommitsOnRotate(log, md, order, "MOCKACCEPTED")
    <3>1. md[i].cmds \in SUBSET Cmds
      BY <2>2, ReportedInstance DEF CommitsOnRotate
    <3>2. [log[i] EXCEPT !.status = "MOCKCOMMITTED", !.cmds = md[i].cmds]
            \in Entry
      BY <2>1, <3>1, CommittedEntry DEF Status
    <3>3. ~Adopts(i)
      BY <2>2 DEF CommitsOnRotate
    <3> QED
      BY <2>2, <3>2, <3>3 DEF MockAfterRotate
  <2>3. CASE /\ i \notin CommitsOnRotate(log, md, order, "MOCKACCEPTED")
             /\ Adopts(i)
    <3>1. NewInstance("ACCEPTED", md[i].cmds) \in Entry
      BY <2>3, ReportedInstance, NewInstanceType DEF Status
    <3> QED
      BY <2>3, <3>1 DEF MockAfterRotate
  <2>4. CASE /\ i \notin CommitsOnRotate(log, md, order, "MOCKACCEPTED")
             /\ ~Adopts(i)
    BY <2>1, <2>4, BlankInstance DEF MockAfterRotate
  <2> QED
    BY <2>2, <2>3, <2>4
<1>2. MockAfterRotate(log, md, order) =
        [i \in Inst |-> MockAfterRotate(log, md, order)[i]]
  BY DEF MockAfterRotate
<1>3. [i \in Inst |-> MockAfterRotate(log, md, order)[i]] \in Logs
  BY <1>1 DEF Logs
<1> QED
  BY <1>2, <1>3

LEMMA RealAfterMockRotateType ==
  ASSUME NEW log \in Logs, NEW mockLog, NEW md \in LogReports, NEW order
  PROVE  RealAfterMockRotate(log, mockLog, md, order) \in Logs
<1>1. ASSUME NEW i \in Inst
      PROVE  RealAfterMockRotate(log, mockLog, md, order)[i] \in Entry
  <2>1. CASE i \notin Clobbered(mockLog, md, order)
    BY <2>1 DEF RealAfterMockRotate, Logs
  <2>2. CASE i \in Clobbered(mockLog, md, order)
    <3>1. /\ NewInstance("GHOSTOVERCOMMITTED", md[i].cmds) \in Entry
          /\ NewInstance("RECEIVED", md[i].cmds) \in Entry
      BY <2>2, ReportedInstance, NewInstanceType DEF Clobbered, Status
    <3> QED
      BY <2>2, <3>1, BlankInstance DEF RealAfterMockRotate
  <2> QED
    BY <2>1, <2>2
<1>2. RealAfterMockRotate(log, mockLog, md, order) =
        [i \in Inst |-> RealAfterMockRotate(log, mockLog, md, order)[i]]
  BY DEF RealAfterMockRotate
<1>3. [i \in Inst |-> RealAfterMockRotate(log, mockLog, md, order)[i]] \in Logs
  BY <1>1 DEF Logs
<1> QED
  BY <1>2, <1>3

LEMMA LongAcceptType ==
  ASSUME NEW log \in Logs, NEW committed \in -1 .. MaxInst - 1,
         NEW queue \in SUBSET Cmds, NEW batched \in SUBSET Cmds,
         NEW status \in Status,
         LongAccept(log, committed, queue, batched, status).fits,
         NEW accept,
         accept = LongAccept(log, committed, queue, batched, status).accept
  PROVE  /\ LongAccept(log, committed, queue, batched, status).log \in Logs
         /\ DOMAIN accept # {} => accept \in Accepts
<1> DEFINE n == NextNil(log)
           m == IF queue = {} THEN n ELSE n + 1
           last == IF batched = {} THEN m - 1 ELSE m
           entry(i) == IF queue # {} /\ i = n THEN NewInstance(status, queue)
                       ELSE IF batched # {} /\ i = m
                            THEN NewInstance(status, batched) ELSE log[i]
           added == [i \in Inst |-> entry(i)]
           D == committed + 1 .. last
<1>1. /\ LongAccept(log, committed, queue, batched, status).log = added
      /\ last < MaxInst
      /\ accept = [i \in D |-> added[i].cmds]
  BY DEF LongAccept
<1>2. NewInstance(status, queue) \in Entry /\ NewInstance(status, batched) \in Entry
  BY NewInstanceType
<1>3. added \in Logs
  <2>1. \A i \in Inst : entry(i) \in Entry
    BY <1>2 DEF Logs
  <2> QED
    BY <2>1 DEF Logs
<1>4. n \in 0 .. MaxInst
  BY NextNilType
<1>5. D \subseteq Inst
  BY <1>1, <1>4, MaxInstAssumption DEF Inst
<1>6. \A i \in D : added[i].cmds \in SUBSET Cmds
  <2> HIDE DEF D, added
  <2> QED
    BY <1>3, <1>5 DEF Logs, Entry
<1>7. accept \in [D -> SUBSET Cmds]
  <2> HIDE DEF D, added
  <2> QED
    BY <1>1, <1>6
<1>8. DOMAIN accept # {} => accept \in Accepts
  <2> HIDE DEF D, added
  <2> QED
    BY <1>5, <1>7 DEF Accepts
<1> QED
  BY <1>1, <1>3, <1>8
=============================================================================
