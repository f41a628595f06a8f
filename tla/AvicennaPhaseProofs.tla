-------------------------- MODULE AvicennaPhaseProofs --------------------------
(***************************************************************************)
(* What holds as long as no replica has left phase 0, whatever Rotates are *)
(* on their way, and what the quorum of Rotates that ends the phase finds: *)
(* for any number of replicas, any clients' commands and any bounds.       *)
(***************************************************************************)
EXTENDS AvicennaMockProofs

-----------------------------------------------------------------------------
(* A quorum of Rotates meets every majority of those that accept            *)

\* among at least n numbers, at least n have fewer than n above them
LEMMA HighestOnes ==
    ASSUME NEW b \in Nat, NEW S \in SUBSET (0 .. b), NEW n \in Int,
           n <= Cardinality(S)
    PROVE  n <= Cardinality({k \in S : Cardinality({m \in S : m > k}) < n})
<1> DEFINE Above(k) == {m \in S : m > k}
           top      == {k \in S : Cardinality(Above(k)) < n}
<1>1. /\ IsFiniteSet(S) /\ Cardinality(S) \in Nat
      /\ \A T \in SUBSET S : IsFiniteSet(T) /\ Cardinality(T) \in Nat
      /\ S \subseteq Nat
  BY SubsetsAreFinite
<1>2. top \in SUBSET S
  OBVIOUS
<1>0. Cardinality(top) \in Nat
  BY <1>1, <1>2
<1> SUFFICES ASSUME Cardinality(top) < n
             PROVE  FALSE
  <2> HIDE DEF top
  <2>1. n <= Cardinality(top)
    BY <1>0
  <2> QED
    BY <2>1 DEF top
<1>3. S \ top # {}
  <2> HIDE DEF top
  <2>1. top # S
    BY <1>1
  <2> QED
    BY <1>2, <2>1
<1>4. PICK k \in S \ top : \A m \in S \ top : m <= k
  <2> HIDE DEF top
  <2> QED
    BY <1>3, GreatestNatural
<1>5. Above(k) \in SUBSET top
  <2> SUFFICES ASSUME NEW m \in S, m > k, m \notin top
               PROVE  FALSE
    OBVIOUS
  <2>1. m <= k /\ m \in Nat /\ k \in Nat
    BY <1>1, <1>4
  <2> QED
    BY <2>1
<1>6. Cardinality(Above(k)) <= Cardinality(top)
  <2> HIDE DEF top, Above
  <2> QED
    BY <1>1, <1>2, <1>5, FS_Subset
<1>7. Cardinality(Above(k)) \in Nat /\ Cardinality(top) \in Nat
  BY <1>1, <1>2
<1>8. Cardinality(Above(k)) < n
  <2> HIDE DEF top, Above
  <2> QED
    BY <1>6, <1>7
<1> QED
  BY <1>4, <1>8

LEMMA ReplicaCount == IsFiniteSet(Replica) /\ Cardinality(Replica) = N
  BY NAssumption, FS_Interval DEF Replica

\* all but three replicas are idle
LEMMA EnoughIdle ==
    ASSUME NEW i
    PROVE  /\ Idle(i) \in SUBSET (0 .. N)
           /\ NStandbys \in Int /\ NStandbys <= Cardinality(Idle(i))
<1>1. PICK x, y : x = (i + 1) % N /\ y = Delegate(i)
  OBVIOUS
<1>2. IsFiniteSet({i, x, y}) /\ Cardinality({i, x, y}) <= 3
  <2>1. IsFiniteSet({i}) /\ Cardinality({i}) = 1
    BY FS_Singleton
  <2>2. PICK A : A = {i} \union {x}
    OBVIOUS
  <2>3. IsFiniteSet(A) /\ Cardinality(A) <= 2 /\ Cardinality(A) \in Nat
    BY <2>1, <2>2, FS_AddElement, FS_CardinalityType
  <2>4. IsFiniteSet(A \union {y}) /\ Cardinality(A \union {y}) <= 3
    BY <2>3, FS_AddElement
  <2>5. A \union {y} = {i, x, y}
    BY <2>2
  <2> QED
    BY <2>4, <2>5
<1> DEFINE T == {i, x, y}
<1> HIDE DEF T
<1>3. /\ IsFiniteSet(T) /\ Cardinality(T) <= 3 /\ Cardinality(T) \in Nat
      /\ Idle(i) = Replica \ T
  BY <1>1, <1>2, FS_CardinalityType DEF T, Idle
<1>4. /\ Replica \cap T \in SUBSET T
      /\ Cardinality(Replica \cap T) <= Cardinality(T)
      /\ Cardinality(Replica \cap T) \in Nat
  BY <1>3, FS_Subset, FS_CardinalityType
<1>5. Cardinality(Idle(i)) = N - Cardinality(Replica \cap T)
  BY <1>3, ReplicaCount, FS_Difference
<1>6. NStandbys \in Int /\ NStandbys <= N - 3
  BY NAssumption DEF NStandbys
<1>7. Idle(i) \in SUBSET (0 .. N)
  BY NAssumption DEF Idle, Replica
<1> QED
  BY <1>3, <1>4, <1>5, <1>6, <1>7, NAssumption

LEMMA StandbyCount ==
    ASSUME NEW p \in Nat, ~IsArmageddon(p)
    PROVE  /\ Standbys(p) \in SUBSET Replica
           /\ NStandbys <= Cardinality(Standbys(p))
<1>1. PICK i : i = ConfigIndex(p)
  OBVIOUS
<1>2. i \in Replica
  BY <1>1, NAssumption DEF ConfigIndex, IsArmageddon, Replica
<1>3. Standbys(p) = {k \in Idle(i) : Cardinality({m \in Idle(i) : m > k}) < NStandbys}
  BY <1>1, <1>2 DEF Standbys, ConfigStandbys
<1>4. PICK S : S = Idle(i)
  OBVIOUS
<1>5. S \in SUBSET (0 .. N) /\ NStandbys \in Int /\ NStandbys <= Cardinality(S)
  BY <1>4, EnoughIdle
<1>6. NStandbys <= Cardinality({k \in S : Cardinality({m \in S : m > k}) < NStandbys})
  BY <1>5, NAssumption, HighestOnes
<1>7. Idle(i) \subseteq Replica
  BY DEF Idle
<1> QED
  BY <1>3, <1>4, <1>6, <1>7

LEMMA DisjointUnion ==
    ASSUME NEW S, NEW T, IsFiniteSet(S), IsFiniteSet(T), S \cap T = {}
    PROVE  Cardinality(S \union T) = Cardinality(S) + Cardinality(T)
<1>1. /\ Cardinality(S \union T) =
            Cardinality(S) + Cardinality(T) - Cardinality(S \cap T)
      /\ Cardinality(S \cap T) = 0
  BY FS_Union, FS_EmptySet
<1>2. Cardinality(S) \in Nat /\ Cardinality(T) \in Nat
  BY FS_CardinalityType
<1> QED
  BY <1>1, <1>2

\* The two Rotates of replicas that are not standbys for which gotRotateQuorum
\* asks are enough: in every phase but Armageddon, at least one of them comes
\* from any given majority among the replicas that accept for the coordinator.
THEOREM RotatesMeetMajorities ==
    \A p \in Nat, senders, V \in SUBSET Replica :
        /\ ~IsArmageddon(p) /\ RotateQuorum(p, senders)
        /\ V \cap Standbys(p) = {} /\ 2 * Cardinality(V) > N
        => (senders \ Standbys(p)) \cap V # {}
<1> SUFFICES ASSUME NEW p \in Nat, NEW senders \in SUBSET Replica,
                    NEW V \in SUBSET Replica,
                    ~IsArmageddon(p), RotateQuorum(p, senders),
                    V \cap Standbys(p) = {}, 2 * Cardinality(V) > N,
                    (senders \ Standbys(p)) \cap V = {}
             PROVE  FALSE
  OBVIOUS
<1>1. PICK B, Q : B = Standbys(p) /\ Q = senders \ B
  OBVIOUS
<1>2. /\ B \in SUBSET Replica /\ Q \in SUBSET Replica
      /\ N \div 2 - 1 <= Cardinality(B) /\ Cardinality(Q) > 1
  BY <1>1, StandbyCount DEF RotateQuorum, NStandbys
<1>3. \A S \in SUBSET Replica : /\ IsFiniteSet(S) /\ Cardinality(S) \in Nat
                                /\ Cardinality(S) <= N
  BY ReplicaCount, FS_Subset, FS_CardinalityType
<1>4. Cardinality(Q \union V) = Cardinality(Q) + Cardinality(V)
  <2>1. Q \cap V = {}
    BY <1>1
  <2> QED
    BY <1>2, <1>3, <2>1, DisjointUnion
<1>5. Cardinality((Q \union V) \union B) = Cardinality(Q \union V) + Cardinality(B)
  <2>1. (Q \union V) \cap B = {} /\ Q \union V \in SUBSET Replica
    BY <1>1, <1>2
  <2> QED
    BY <1>2, <1>3, <2>1, DisjointUnion
<1>6. Cardinality((Q \union V) \union B) <= N
  BY <1>2, <1>3
<1>7. Cardinality(Q) \in Nat /\ Cardinality(V) \in Nat /\ Cardinality(B) \in Nat
  BY <1>2, <1>3
<1> QED
  BY <1>2, <1>4, <1>5, <1>6, <1>7, NAssumption

-----------------------------------------------------------------------------
(* What a replica has accepted is what replica 0 proposed, and what it voted *)
(* for it still has                                                          *)

Known0(i) == ~IsNil(instanceSpace[0], i)

AcceptedAsProposed == \A r \in Replica, i \in Inst :
    instanceSpace[r][i].status = "ACCEPTED" =>
        /\ r \notin Standbys(0)
        /\ Known0(i)
        /\ instanceSpace[r][i].cmds = Cmds0(i)

VotesKept == \A v \in votes :
    instanceSpace[v.replica][v.inst].status \in {"ACCEPTED", "COMMITTED"}

Recorded == AcceptedAsProposed /\ VotesKept

LEMMA RecordedInit == Init => Recorded
<1> SUFFICES ASSUME Init PROVE Recorded
  OBVIOUS
<1>1. /\ \A r \in Replica, i \in Inst : instanceSpace[r][i] = NilInstance
      /\ votes = {}
  BY DEF Init, InitLog
<1> QED
  BY <1>1 DEF Recorded, AcceptedAsProposed, VotesKept, NilInstance, NewInstance

\* an entry is written, and perhaps voted for
LEMMA EntryRecorded ==
    ASSUME TypeOK, Recorded, NEW r \in Replica, NEW i \in Inst, NEW e,
           Writes(r, i, e),
           r = 0 => e.status # "NIL" /\ (Known0(i) => e.cmds = Cmds0(i)),
           e.status = "ACCEPTED" =>
                /\ r \notin Standbys(0)
                /\ r # 0 => Known0(i) /\ e.cmds = Cmds0(i),
           instanceSpace[r][i].status \in {"ACCEPTED", "COMMITTED"}
                => e.status \in {"ACCEPTED", "COMMITTED"},
           \A v \in votes' \ votes : /\ v.replica = r /\ v.inst = i
                                     /\ e.status \in {"ACCEPTED", "COMMITTED"}
    PROVE  Recorded'
<1>1. /\ 0 \in Replica
      /\ \A x \in Replica, j \in Inst :
            instanceSpace'[x][j] = IF x = r /\ j = i THEN e
                                   ELSE instanceSpace[x][j]
  BY FirstRoles DEF Writes
<1>2. \A j \in Inst : Known0(j) => Known0(j)' /\ Cmds0(j)' = Cmds0(j)
  BY <1>1 DEF Known0, Cmds0, IsNil
<1>3. AcceptedAsProposed'
  <2> SUFFICES ASSUME NEW x \in Replica, NEW j \in Inst,
                      instanceSpace'[x][j].status = "ACCEPTED"
               PROVE  /\ x \notin Standbys(0)
                      /\ Known0(j)'
                      /\ instanceSpace'[x][j].cmds = Cmds0(j)'
    BY DEF AcceptedAsProposed
  <2>1. CASE x = r /\ j = i
    <3>1. CASE r = 0
      BY <1>1, <2>1, <3>1 DEF Known0, Cmds0, IsNil
    <3>2. CASE r # 0
      BY <1>1, <1>2, <2>1, <3>2
    <3> QED
      BY <3>1, <3>2
  <2>2. CASE ~(x = r /\ j = i)
    BY <1>1, <1>2, <2>2 DEF Recorded, AcceptedAsProposed
  <2> QED
    BY <2>1, <2>2
<1>4. VotesKept'
  <2> SUFFICES ASSUME NEW v \in votes'
               PROVE  instanceSpace'[v.replica][v.inst].status
                        \in {"ACCEPTED", "COMMITTED"}
    BY DEF VotesKept
  <2>1. CASE v \in votes
    <3>1. v.replica \in Replica /\ v.inst \in Inst
      BY <2>1 DEF TypeOK, ChannelTypeOK, Decisions
    <3>2. instanceSpace[v.replica][v.inst].status \in {"ACCEPTED", "COMMITTED"}
      BY <2>1 DEF Recorded, VotesKept
    <3> QED
      BY <1>1, <3>1, <3>2
  <2>2. CASE v \notin votes
    BY <1>1, <2>2
  <2> QED
    BY <2>1, <2>2
<1> QED
  BY <1>3, <1>4 DEF Recorded

LEMMA EffectRecords ==
    ASSUME TypeOK, RealInv, Recorded, RealEffect
    PROVE  Recorded'
<1>1. /\ 0 \in Replica /\ 0 \notin Standbys(0)
      /\ CoordinatorLog /\ ProposalsInOrder /\ CommitsWereDecided
  BY FirstRoles DEF RealInv, Ordering, Deciding
<1>2. CASE Aside
  BY <1>2 DEF Aside, Recorded, AcceptedAsProposed, VotesKept, Known0, Cmds0
<1>3. ASSUME NEW cmds, Proposes(cmds)
      PROVE  Recorded'
  <2> DEFINE e == NewInstance("ACCEPTED", cmds)
  <2>1. e.status = "ACCEPTED"
    BY DEF NewInstance
  <2>2. /\ Proposed \in Inst /\ Writes(0, Proposed, e) /\ votes' = votes
    BY <1>3 DEF Proposes
  <2>3. ~Known0(Proposed)
    BY <1>1, <2>2 DEF CoordinatorLog, Known0, Inst
  <2> HIDE DEF e
  <2> QED
    BY <1>1, <2>1, <2>2, <2>3, EntryRecorded
<1>4. ASSUME NEW r \in Replica, ReceivesBatch(r)
      PROVE  Recorded'
  <2>1. PICK i \in Inst : \E e : /\ IsNil(instanceSpace[r], i)
                                 /\ e.status \notin {"NIL", "ACCEPTED", "COMMITTED"}
                                 /\ Writes(r, i, e)
    BY <1>4 DEF ReceivesBatch
  <2>2. PICK e : /\ instanceSpace[r][i].status = "NIL"
                 /\ e.status \notin {"NIL", "ACCEPTED", "COMMITTED"}
                 /\ Writes(r, i, e)
    BY <2>1 DEF IsNil
  <2>3. r # 0 /\ votes' = votes
    BY <1>4 DEF ReceivesBatch
  <2> QED
    BY <2>2, <2>3, EntryRecorded
<1>5. ASSUME NEW r \in Replica, Takes(r)
      PROVE  Recorded'
  <2>0. PICK i : i = Delivered(r)
    OBVIOUS
  <2>1. /\ r \in Followers /\ i \in Inst /\ i < Proposed
        /\ AcceptsProposal(r, i) \/ SkipsProposal(r, i)
    BY <1>1, <1>5, <2>0, FirstProposal DEF Takes
  <2>2. r # 0 /\ r \notin Standbys(0) /\ Known0(i)
    BY <1>1, <2>1 DEF Followers, Others, CoordinatorLog, Known0, IsNil
  <2>3. CASE AcceptsProposal(r, i)
    <3>1. PICK e : e.status = "ACCEPTED" /\ e.cmds = Cmds0(i) /\ Writes(r, i, e)
      BY <2>3 DEF AcceptsProposal
    <3>2. \A v \in votes' \ votes : v.replica = r /\ v.inst = i
      BY <2>3 DEF AcceptsProposal, Vote
    <3> QED
      BY <2>1, <2>2, <3>1, <3>2, EntryRecorded
  <2>4. CASE SkipsProposal(r, i)
    <3>1. PICK e : e = instanceSpace[r][i]
      OBVIOUS
    <3>2. e.status = "COMMITTED" /\ Writes(r, i, e) /\ votes' = votes
      BY <2>4, <3>1 DEF SkipsProposal, HasCommitted, Writes
    <3> QED
      BY <2>1, <2>2, <3>2, EntryRecorded
  <2> QED
    BY <2>1, <2>3, <2>4
<1>6. ASSUME NEW r \in Replica, Learns(r)
      PROVE  Recorded'
  <2>0. PICK i : i = Head(commitChan[r][0]).inst
    OBVIOUS
  <2>1. i \in Inst
    <3>1. commitChan[r][0] \in Seq(CommitMsgs) /\ commitChan[r][0] # <<>>
      BY <1>6, RealTypes DEF Learns
    <3>2. Head(commitChan[r][0]) \in CommitMsgs
      BY <3>1, OneLess
    <3> QED
      BY <2>0, <3>2 DEF CommitMsgs
  <2>2. PICK e : e.status = "COMMITTED" /\ Writes(r, i, e)
    BY <1>6, <2>0 DEF Learns
  <2>3. r # 0 /\ votes' = votes
    BY <1>6 DEF Learns
  <2> QED
    BY <2>1, <2>2, <2>3, EntryRecorded
<1>7. ASSUME NEW s \in Replica, NEW i, NEW e, Counts(s, i, e)
      PROVE  Recorded'
  <2>1. i \in Inst /\ i < Proposed
    BY <1>7, FirstReply DEF Counts, RealInv
  <2>2. /\ Writes(0, i, e) /\ e.cmds = Cmds0(i) /\ votes' = votes
        /\ e.status \in {instanceSpace[0][i].status, "COMMITTED"}
    BY <1>7 DEF Counts, CommitsNow, CommitsNothing
  <2>3. instanceSpace[0][i].status \in {"ACCEPTED", "COMMITTED"}
    BY <1>1, <2>1 DEF CoordinatorLog
  <2> QED
    BY <1>1, <2>1, <2>2, <2>3, EntryRecorded
<1> QED
  BY <1>2, <1>3, <1>4, <1>5, <1>6, <1>7 DEF RealEffect

-----------------------------------------------------------------------------
(* A Rotate of phase 0, on its way or tracked, reports the logs its sender   *)
(* still has: it handles nothing but Rotates since                           *)

IsOwn(s, report) == sentForPhase[s] /\ report = OwnReport(s)

ReportsAreLogs ==
    /\ \A m \in rotateChan : IsOwn(m.src, m.report)
    /\ \A r \in Replica : \A s \in DOMAIN rotateMessages[r] :
            IsOwn(s, rotateMessages[r][s])

SameLogs(s) == UNCHANGED <<instanceSpace[s], instanceSpaceMock[s],
                           globalMaxCommittedGhost[s]>>

LEMMA ReportsInit == Init => ReportsAreLogs
  BY DEF Init, InitQuiet, ReportsAreLogs

LEMMA SameReport ==
    ASSUME NEW s, SameLogs(s)
    PROVE  OwnReport(s)' = OwnReport(s)
  BY DEF SameLogs, OwnReport

LEMMA ReportsKept ==
    ASSUME TypeOK, ReportsAreLogs,
           \A s \in Replica : sentForPhase[s] => sentForPhase'[s] /\ SameLogs(s),
           \A m \in rotateChan' : m \in rotateChan \/ IsOwn(m.src, m.report)',
           \A r \in Replica : \A s \in DOMAIN rotateMessages'[r] :
              \/ /\ s \in DOMAIN rotateMessages[r]
                 /\ rotateMessages'[r][s] = rotateMessages[r][s]
              \/ IsOwn(s, rotateMessages[r][s])'
    PROVE  ReportsAreLogs'
<1>1. \A s \in Replica : \A report : IsOwn(s, report) => IsOwn(s, report)'
  <2>1. ASSUME NEW s \in Replica, NEW report, IsOwn(s, report)
        PROVE  sentForPhase'[s] /\ report = OwnReport(s)'
    BY <2>1, SameReport DEF IsOwn
  <2> QED
    BY <2>1 DEF IsOwn
<1>2. ASSUME NEW m \in rotateChan' PROVE IsOwn(m.src, m.report)'
  <2>1. CASE m \in rotateChan
    BY <1>1, <2>1 DEF ReportsAreLogs, TypeOK, RotationTypeOK, RotateMsgs
  <2> QED
    BY <1>2, <2>1
<1>3. ASSUME NEW r \in Replica, NEW s \in DOMAIN rotateMessages'[r]
      PROVE  IsOwn(s, rotateMessages[r][s])'
  <2>1. CASE /\ s \in DOMAIN rotateMessages[r]
             /\ rotateMessages'[r][s] = rotateMessages[r][s]
    <3>1. s \in Replica /\ IsOwn(s, rotateMessages[r][s])
      BY <2>1 DEF ReportsAreLogs, TypeOK, RotationTypeOK
    <3>2. PICK report : report = rotateMessages[r][s]
      OBVIOUS
    <3>3. IsOwn(s, report)'
      BY <1>1, <3>1, <3>2
    <3> QED
      BY <2>1, <3>2, <3>3 DEF IsOwn
  <2> QED
    BY <1>3, <2>1
<1> QED
  BY <1>2, <1>3 DEF ReportsAreLogs

\* a handler's step changes the logs of a replica that has not sent its Rotate
LEMMA HandlerLogs ==
    ASSUME TypeOK, NEW r \in Replica, Handles(r)
    PROVE  /\ ~sentForPhase[r]
           /\ UNCHANGED rotationVars
           /\ \A x \in Replica : x # r => SameLogs(x)
<1> DEFINE Local == /\ ~sentForPhase[r]
                    /\ UNCHANGED rotationVars
                    /\ \A x \in Replica : x # r => SameLogs(x)
<1>0. /\ instanceSpace \in [Replica -> [Inst -> Entry]]
      /\ instanceSpaceMock \in [Replica -> [Inst -> Entry]]
      /\ globalMaxCommittedGhost \in [Replica -> 0 .. MaxInst]
  BY DEF TypeOK, LogTypeOK
<1>1. CASE HandleProposeBatch(r)
  BY <1>0, <1>1 DEF HandleProposeBatch, Serving, SameLogs
<1>2. ASSUME NEW s \in Replica, TakeAcceptExecTime(r, s)
      PROVE  Local
  BY <1>0, <1>2 DEF TakeAcceptExecTime, AcceptExecTimeIgnored,
     AcceptExecTimeAhead, RealAcceptExecTime, MockAcceptExecTime, Serving,
     SameLogs, realVars, mockVars
<1>3. ASSUME NEW s \in Replica, TakeAcceptMsg(r, s)
      PROVE  Local
  BY <1>0, <1>3 DEF TakeAcceptMsg, AcceptIgnored, MockAcceptAhead,
     RealAccept, MockAccept, Serving, SameLogs, realVars, mockVars
<1>4. ASSUME NEW s \in Replica, TakeAcceptReply(r, s)
      PROVE  Local
  BY <1>0, <1>4 DEF TakeAcceptReply, AcceptReplyIgnored, RealAcceptReply,
     MockAcceptReply, Serving, SameLogs, realVars, mockVars
<1>5. ASSUME NEW s \in Replica, TakeCommit(r, s)
      PROVE  Local
  BY <1>0, <1>5 DEF TakeCommit, RealCommit, MockCommit, Serving, SameLogs,
     realVars, mockVars
<1> QED
  BY <1>1, <1>2, <1>3, <1>4, <1>5 DEF Handles

LEMMA HandlerReports ==
    ASSUME TypeOK, ReportsAreLogs, NEW r \in Replica, Handles(r)
    PROVE  ReportsAreLogs'
<1>1. /\ ~sentForPhase[r]
      /\ UNCHANGED <<sentForPhase, rotateChan, rotateMessages>>
      /\ \A x \in Replica : x # r => SameLogs(x)
  BY HandlerLogs DEF rotationVars
<1> QED
  BY <1>1, ReportsKept

\* a Rotate is sent, or tracked, or both
LEMMA TracksReports ==
    ASSUME TypeOK, ReportsAreLogs, NEW r \in Replica, NEW sends \in BOOLEAN,
           LogsRest,
           rotateChan' \subseteq rotateChan \union RotatesSent(r, sends),
           sentForPhase' = [sentForPhase EXCEPT ![r] = @ \/ sends],
           NEW messages, rotateMessages' = [rotateMessages EXCEPT ![r] = messages],
           \A s \in DOMAIN messages :
              \/ /\ s \in DOMAIN TrackedOwn(r, sends)
                 /\ messages[s] = TrackedOwn(r, sends)[s]
              \/ s \in Replica /\ IsOwn(s, messages[s])
    PROVE  ReportsAreLogs'
<1>1. \A s : SameLogs(s)
  BY DEF LogsRest, realVars, mockVars, SameLogs
<1>2. /\ \A s \in Replica : sentForPhase[s] => sentForPhase'[s]
      /\ sends => sentForPhase'[r]
  BY DEF TypeOK, RotationTypeOK
<1>3. sends => IsOwn(r, OwnReport(r))'
  BY <1>2 DEF IsOwn
<1>4. ASSUME NEW m \in rotateChan', m \notin rotateChan
      PROVE  IsOwn(m.src, m.report)'
  <2>1. sends /\ m.src = r /\ m.report = OwnReport(r)
    BY <1>4 DEF RotatesSent, RotateMsg
  <2>2. OwnReport(r)' = OwnReport(r)
    BY <1>1, SameReport
  <2> QED
    BY <1>2, <2>1, <2>2 DEF IsOwn
<1>5. ASSUME NEW x \in Replica, NEW s \in DOMAIN rotateMessages'[x]
      PROVE  \/ /\ s \in DOMAIN rotateMessages[x]
                /\ rotateMessages'[x][s] = rotateMessages[x][s]
             \/ IsOwn(s, rotateMessages[x][s])'
  <2>1. CASE x # r
    BY <1>5, <2>1 DEF TypeOK, RotationTypeOK
  <2>2. CASE x = r
    <3>1. rotateMessages'[x] = messages /\ s \in DOMAIN messages
      BY <1>5, <2>2 DEF TypeOK, RotationTypeOK
    <3>2. \/ /\ s \in DOMAIN TrackedOwn(r, sends)
             /\ messages[s] = TrackedOwn(r, sends)[s]
          \/ s \in Replica /\ IsOwn(s, messages[s])
      BY <3>1
    <3>3. CASE s \in Replica /\ IsOwn(s, messages[s])
      <4>1. OwnReport(s)' = OwnReport(s)
        BY <1>1, SameReport
      <4>2. sentForPhase'[s] /\ messages[s] = OwnReport(s)'
        BY <1>2, <3>3, <4>1 DEF IsOwn
      <4> QED
        BY <3>1, <4>2 DEF IsOwn
    <3>4. CASE /\ s \in DOMAIN TrackedOwn(r, sends)
               /\ messages[s] = TrackedOwn(r, sends)[s]
      <4>1. CASE sends /\ s = r
        <5>1. messages[s] = OwnReport(r)
          BY <3>4, <4>1 DEF TrackedOwn, Track
        <5>2. OwnReport(r)' = OwnReport(r)
          BY <1>1, SameReport
        <5> QED
          BY <1>2, <3>1, <4>1, <5>1, <5>2 DEF IsOwn
      <4>2. CASE ~(sends /\ s = r)
        <5>1. s \in DOMAIN rotateMessages[r] /\ messages[s] = rotateMessages[r][s]
          BY <3>4, <4>2 DEF TrackedOwn, Track
        <5> QED
          BY <2>2, <3>1, <5>1
      <4> QED
        BY <4>1, <4>2
    <3> QED
      BY <3>2, <3>3, <3>4
  <2> QED
    BY <2>1, <2>2
<1> QED
  BY <1>1, <1>2, <1>4, <1>5, ReportsKept

LEMMA OthersReport ==
    ASSUME TypeOK, ReportsAreLogs, NEW r \in Replica,
           Watches(r) \/ AwaitsQuorum(r)
    PROVE  ReportsAreLogs'
<1>1. LogsRest /\ \A s : SameLogs(s)
  BY OthersRest DEF LogsRest, realVars, mockVars, SameLogs
<1>2. ASSUME UNCHANGED <<sentForPhase, rotateMessages>>,
             rotateChan' \subseteq rotateChan
      PROVE  ReportsAreLogs'
  BY <1>1, <1>2, ReportsKept
<1>3. CASE ClientBatch(r)
  BY <1>2, <1>3 DEF ClientBatch, rotationVars
<1>4. CASE Suspect(r)
  <2>1. CASE RotatePanic(r) # "no"
    BY <1>2, <1>4, <2>1 DEF Suspect, rotationVars
  <2>2. CASE RotatePanic(r) = "no"
    <3>1. /\ rotateMessages' = [rotateMessages EXCEPT ![r] = TrackedOwn(r, TRUE)]
          /\ rotateChan' = rotateChan \union RotatesSent(r, TRUE)
          /\ sentForPhase' = [sentForPhase EXCEPT ![r] = TRUE]
      BY <1>4, <2>2 DEF Suspect
    <3>2. PICK messages : messages = TrackedOwn(r, TRUE)
      OBVIOUS
    <3> QED
      BY <1>1, <3>1, <3>2, TracksReports
  <2> QED
    BY <2>1, <2>2
<1>5. ASSUME NEW m \in rotateChan, RotatePanics(r, m)
      PROVE  ReportsAreLogs'
  BY <1>2, <1>5 DEF RotatePanics
<1>6. ASSUME NEW m \in rotateChan, NEW sends \in BOOLEAN, HandleRotate(r, m, sends)
      PROVE  ReportsAreLogs'
  <2>1. /\ rotateChan' = (rotateChan \ {m}) \union RotatesSent(r, sends)
        /\ rotateMessages' = [rotateMessages EXCEPT ![r] =
                                RotateMessagesAfter(r, m, sends)]
        /\ sentForPhase' = [sentForPhase EXCEPT ![r] = @ \/ sends]
    BY <1>6 DEF HandleRotate, StaysInPhase
  <2>2. PICK messages : messages = RotateMessagesAfter(r, m, sends)
    OBVIOUS
  <2>3. m.src \in Replica /\ IsOwn(m.src, m.report)
    BY DEF ReportsAreLogs, TypeOK, RotationTypeOK, RotateMsgs
  <2>4. \A s \in DOMAIN messages :
            \/ /\ s \in DOMAIN TrackedOwn(r, sends)
               /\ messages[s] = TrackedOwn(r, sends)[s]
            \/ s \in Replica /\ IsOwn(s, messages[s])
    BY <2>2, <2>3 DEF RotateMessagesAfter, Track
  <2>5. rotateChan' \subseteq rotateChan \union RotatesSent(r, sends)
    BY <2>1
  <2> QED
    BY <1>1, <2>1, <2>2, <2>4, <2>5, TracksReports
<1> QED
  BY <1>3, <1>4, <1>5, <1>6 DEF Watches, AwaitsQuorum

-----------------------------------------------------------------------------
(* The Rotate that completes the quorum of phase 0 finds reports that agree  *)

\* the reports in a quorum's map: own logs of replicas that are no standbys
LEMMA ReportsMerged ==
    ASSUME TypeOK, ReportsAreLogs, NEW r \in Replica, phase[r] = 0,
           NEW m \in rotateChan, NEW sends \in BOOLEAN,
           NEW messages, messages = RotateMessagesAfter(r, m, sends)
    PROVE  /\ IsMessages(messages) /\ IsFiniteSet(DOMAIN messages \ Standbys(0))
           /\ \A s \in DOMAIN messages :
                 s \in Replica /\ messages[s] = OwnReport(s)
<1>1. IsMessages(messages)
  BY RotateMessagesAfterType
<1>2. IsFiniteSet(DOMAIN messages \ Standbys(0))
  <2>1. DOMAIN messages \ Standbys(0) \in SUBSET Replica
    BY <1>1 DEF IsMessages
  <2> QED
    BY <2>1, ReplicasFinite, FS_Subset
<1>3. m.report = OwnReport(m.src)
  BY DEF ReportsAreLogs, IsOwn
<1>4. \A s \in DOMAIN rotateMessages[r] : rotateMessages[r][s] = OwnReport(s)
  BY DEF ReportsAreLogs, IsOwn
<1>5. \A s \in DOMAIN TrackedOwn(r, sends) : TrackedOwn(r, sends)[s] = OwnReport(s)
  BY <1>4 DEF TrackedOwn, Track
<1>6. \A s \in DOMAIN messages : messages[s] = OwnReport(s)
  BY <1>3, <1>5 DEF RotateMessagesAfter, Track
<1> QED
  BY <1>1, <1>2, <1>6 DEF IsMessages

RealOf(messages) == MergedReports(messages, 0, "real")
MockOf(messages) == MergedReports(messages, 0, "mock")
RealCmds == [i \in Inst |-> Cmds0(i)]
GhostCmds == [i \in Inst |-> MockCmds(i)]

\* accepted or committed, an instance has the commands replica 0 proposed
LEMMA RealFirm ==
    ASSUME TypeOK, RealInv, Recorded, NEW s \in Replica, NEW i \in Inst,
           instanceSpace[s][i].status \in {"ACCEPTED", "COMMITTED"}
    PROVE  instanceSpace[s][i].cmds = RealCmds[i]
<1>1. CASE HasCommitted(s, i)
  BY <1>1 DEF RealInv, Deciding, CommittedAsDecided, RealCmds
<1>2. CASE instanceSpace[s][i].status = "ACCEPTED"
  BY <1>2 DEF Recorded, AcceptedAsProposed, RealCmds
<1> QED
  BY <1>1, <1>2 DEF HasCommitted

\* mock-accepted or mock-committed, those replica 1 proposed
LEMMA MockFirm ==
    ASSUME MockInv, NEW s \in Replica, NEW i \in Inst,
           instanceSpaceMock[s][i].status \in {"MOCKACCEPTED", "MOCKCOMMITTED"}
    PROVE  instanceSpaceMock[s][i].cmds = GhostCmds[i]
<1>1. CASE HasMockCommitted(s, i)
  BY <1>1 DEF MockInv, MockFollows, MockCommittedAsDecided, GhostCmds
<1>2. CASE instanceSpaceMock[s][i].status = "MOCKACCEPTED"
  BY <1>2 DEF MockInv, MockFollows, MockAcceptedAsProposed, GhostCmds
<1> QED
  BY <1>1, <1>2 DEF HasMockCommitted

\* a report that is an own log's agrees with C if the log's firm entries do
LEMMA ReportAgrees ==
    ASSUME NEW log \in Logs, NEW first \in Nat, NEW accepted, NEW committed,
           NEW C,
           \A i \in Inst : log[i].status \in {accepted, committed}
                                => log[i].cmds = C[i],
           NEW i \in DOMAIN Report(log, first, accepted, committed),
           Report(log, first, accepted, committed)[i].status # "RECEIVED"
    PROVE  Report(log, first, accepted, committed)[i].cmds = C[i]
<1>1. i \in first .. NextNil(log) - 1
  BY DEF Report
<1>2. i \in Inst
  <2>1. NextNil(log) \in 0 .. MaxInst
    BY NextNilType
  <2> QED
    BY <1>1, <2>1, MaxInstAssumption DEF Inst
<1>3. /\ Report(log, first, accepted, committed)[i].cmds = log[i].cmds
      /\ log[i].status \in {accepted, committed}
  BY <1>1, ReportFirm
<1> QED
  BY <1>2, <1>3

LEMMA RealReportsAgree ==
    ASSUME TypeOK, RealInv, Recorded, NEW messages,
           \A s \in DOMAIN messages : s \in Replica /\ messages[s] = OwnReport(s)
    PROVE  Agreeing(RealOf(messages), RealCmds)
<1>1. ASSUME NEW s \in DOMAIN RealOf(messages),
             NEW i \in DOMAIN RealOf(messages)[s],
             RealOf(messages)[s][i].status # "RECEIVED"
      PROVE  RealOf(messages)[s][i].cmds = RealCmds[i]
  <2>1. s \in Replica
        /\ RealOf(messages)[s] = Report(instanceSpace[s], 0, "ACCEPTED", "COMMITTED")
    BY DEF RealOf, MergedReports, OwnReport
  <2>2. PICK log : log = instanceSpace[s]
    OBVIOUS
  <2>3. log \in Logs
    BY <2>1, <2>2, LocalTypes
  <2>4. \A j \in Inst : log[j].status \in {"ACCEPTED", "COMMITTED"}
                            => log[j].cmds = RealCmds[j]
    BY <2>1, <2>2, RealFirm
  <2> QED
    BY <1>1, <2>1, <2>2, <2>3, <2>4, ReportAgrees
<1> QED
  BY <1>1 DEF Agreeing

LEMMA MockReportsAgree ==
    ASSUME TypeOK, MockInv, NEW messages,
           \A s \in DOMAIN messages : s \in Replica /\ messages[s] = OwnReport(s)
    PROVE  Agreeing(MockOf(messages), GhostCmds)
<1>1. ASSUME NEW s \in DOMAIN MockOf(messages),
             NEW i \in DOMAIN MockOf(messages)[s],
             MockOf(messages)[s][i].status # "RECEIVED"
      PROVE  MockOf(messages)[s][i].cmds = GhostCmds[i]
  <2>1. PICK first : first = globalMaxCommittedGhost[s]
    OBVIOUS
  <2>2. /\ s \in Replica
        /\ MockOf(messages)[s] = Report(instanceSpaceMock[s], first,
                                        "MOCKACCEPTED", "MOCKCOMMITTED")
    BY <2>1 DEF MockOf, MergedReports, OwnReport
  <2>3. PICK log : log = instanceSpaceMock[s]
    OBVIOUS
  <2>4. log \in Logs /\ first \in Nat
    BY <2>1, <2>2, <2>3, LocalTypes
  <2>5. \A j \in Inst : log[j].status \in {"MOCKACCEPTED", "MOCKCOMMITTED"}
                            => log[j].cmds = GhostCmds[j]
    BY <2>2, <2>3, MockFirm
  <2> QED
    BY <1>1, <2>2, <2>3, <2>4, <2>5, ReportAgrees
<1> QED
  BY <1>1 DEF Agreeing

\* no local entry contradicts a map that has C's commands where it is firm
LEMMA NoConflict ==
    ASSUME NEW md \in LogReports, NEW C, NEW log, NEW local,
           \A i \in DOMAIN md : md[i].status # "RECEIVED" => md[i].cmds = C[i],
           \A i \in Inst : log[i].status \in local => log[i].cmds = C[i]
    PROVE  RotateConflicts(log, md, local) = {}
<1>1. DOMAIN md \subseteq Inst
  BY LogReportType
<1>2. ASSUME NEW i \in RotateConflicts(log, md, local)
      PROVE  FALSE
  <2>1. /\ i \in DOMAIN md /\ md[i].status = "COMMITTED"
        /\ log[i].status \in local
        /\ Cardinality(md[i].cmds) # Cardinality(log[i].cmds)
    BY <1>2 DEF RotateConflicts
  <2>2. md[i].cmds = C[i] /\ log[i].cmds = C[i]
    BY <1>1, <2>1
  <2> QED
    BY <2>1, <2>2
<1> QED
  BY <1>2

LEMMA CompletionLeaves ==
    ASSUME TypeOK, FirstPhase, RealInv, MockInv, Recorded, ReportsAreLogs,
           NEW r \in Replica, Completes(r)
    PROVE  phase' # phase
<1>1. PICK m \in rotateChan, sends \in BOOLEAN : CompleteRotation(r, m, sends)
  BY DEF Completes
<1>2. phase[r] = 0
  BY DEF FirstPhase
<1>3. PICK messages : messages = RotateMessagesAfter(r, m, sends)
  OBVIOUS
<1>4. /\ IsMessages(messages)
      /\ IsFiniteSet(DOMAIN messages \ Standbys(0))
      /\ \A s \in DOMAIN messages : s \in Replica /\ messages[s] = OwnReport(s)
  BY <1>1, <1>2, <1>3, ReportsMerged
<1>5. PICK real, mock : real = RealOf(messages) /\ mock = MockOf(messages)
  OBVIOUS
<1>6. MergeReports(r, m, sends, real, mock)
  BY <1>1, <1>2, <1>3, <1>5 DEF CompleteRotation, RealOf, MockOf
<1>7. /\ DOMAIN real = DOMAIN messages \ Standbys(0)
      /\ DOMAIN mock = DOMAIN messages \ Standbys(0)
  BY <1>5 DEF RealOf, MockOf, MergedReports
<1>8. Agreeing(real, RealCmds) /\ Agreeing(mock, GhostCmds)
  BY <1>4, <1>5, RealReportsAgree, MockReportsAgree
<1>9. ~MergePanics(real) /\ ~MergePanics(mock)
  BY <1>4, <1>7, <1>8, AgreeingMerge
<1>10. PICK md \in Merged(real, "real"), mdMock \in Merged(mock, "mock") :
          \E ro \in Orders(DOMAIN md), mo \in Orders(DOMAIN mdMock) :
            ProcessRotateQuorum(r, m, sends, md, mdMock, ro, mo)
  BY <1>6, <1>9 DEF MergeReports
<1>11. PICK ro, mo : ProcessRotateQuorum(r, m, sends, md, mdMock, ro, mo)
  BY <1>10
<1>12. md \in LogReports /\ mdMock \in LogReports
  BY <1>4, <1>5, MergedReportsType DEF RealOf, MockOf
<1>13. /\ \A i \in DOMAIN md : md[i].status # "RECEIVED" => md[i].cmds = RealCmds[i]
       /\ \A i \in DOMAIN mdMock : mdMock[i].status # "RECEIVED"
                                        => mdMock[i].cmds = GhostCmds[i]
  <2>1. IsFiniteSet(DOMAIN real) /\ IsFiniteSet(DOMAIN mock)
    BY <1>4, <1>7
  <2>2. \A i \in DOMAIN md : md[i].status # "RECEIVED" => md[i].cmds = RealCmds[i]
    BY <1>8, <2>1, AgreeingMerged
  <2>3. \A i \in DOMAIN mdMock : mdMock[i].status # "RECEIVED"
                                        => mdMock[i].cmds = GhostCmds[i]
    BY <1>8, <2>1, AgreeingMerged
  <2> QED
    BY <2>2, <2>3
<1>14. /\ RotateConflicts(instanceSpace[r], md, {"COMMITTED", "ACCEPTED"}) = {}
       /\ RotateConflicts(instanceSpaceMock[r], mdMock, {"MOCKACCEPTED"}) = {}
  <2>1. \A i \in Inst : instanceSpace[r][i].status \in {"COMMITTED", "ACCEPTED"}
                            => instanceSpace[r][i].cmds = RealCmds[i]
    BY RealFirm
  <2>2. \A i \in Inst : instanceSpaceMock[r][i].status \in {"MOCKACCEPTED"}
                            => instanceSpaceMock[r][i].cmds = GhostCmds[i]
    BY MockFirm
  <2> QED
    BY <1>12, <1>13, <2>1, <2>2, NoConflict
<1>15. \E p, log, mockLog, queue, mockQueue :
            p = phase[r] + 1 /\ BeginPhase(r, p, log, mockLog, queue, mockQueue)
  BY <1>11, <1>14 DEF ProcessRotateQuorum
<1>16. phase' = [phase EXCEPT ![r] = phase[r] + 1]
  BY <1>15 DEF BeginPhase
<1>17. phase'[r] = 1
  BY <1>2, <1>16 DEF TypeOK, RotationTypeOK
<1> QED
  BY <1>2, <1>17

-----------------------------------------------------------------------------
(* The inductive invariant of phase 0 *)

PhaseZeroInv == /\ Traffic
                /\ RealInv
                /\ MockInv
                /\ GhostInv
                /\ Recorded
                /\ ReportsAreLogs

\* As long as nobody has left phase 0, the channels carry what its coordinators
\* send, the two logs are in the order in which they made them, and the Rotates
\* report what their senders have.
FirstPhaseInv == FirstPhase => PhaseZeroInv

LEMMA FirstPhaseInit == Init /\ TypeOK => FirstPhaseInv
  BY TrafficInit, RealInit, MockInit, GhostInit, RecordedInit, ReportsInit
     DEF FirstPhaseInv, PhaseZeroInv

LEMMA PhaseZeroHandlers ==
    ASSUME TypeOK, TypeOK', FirstPhase, PhaseZeroInv,
           NEW r \in Replica, Handles(r)
    PROVE  PhaseZeroInv' /\ RealEffect /\ UNCHANGED panicked
<1>1. Traffic' /\ RealEffect
  BY HandlerEffect DEF PhaseZeroInv
<1>2. RealInv'
  BY <1>1, EffectKeeps DEF PhaseZeroInv
<1>3. Recorded'
  BY <1>1, EffectRecords DEF PhaseZeroInv
<1>4. MockInv' /\ UNCHANGED panicked
  BY MockHandlerStep DEF PhaseZeroInv
<1>5. GhostInv'
  BY GhostHandlerStep DEF PhaseZeroInv
<1>6. ReportsAreLogs'
  BY HandlerReports DEF PhaseZeroInv
<1> QED
  BY <1>1, <1>2, <1>3, <1>4, <1>5, <1>6 DEF PhaseZeroInv

LEMMA PhaseZeroOthers ==
    ASSUME TypeOK, TypeOK', PhaseZeroInv, LogsRest, ReportsAreLogs'
    PROVE  PhaseZeroInv' /\ RealEffect
<1>1. Traffic' /\ RealEffect
  BY RestEffect DEF PhaseZeroInv, RealEffect
<1>2. RealInv'
  BY <1>1, EffectKeeps DEF PhaseZeroInv
<1>3. Recorded'
  BY <1>1, EffectRecords DEF PhaseZeroInv
<1>4. MockInv'
  <2>1. UNCHANGED <<instanceSpaceMock, channels>>
    BY DEF LogsRest, mockVars
  <2> QED
    BY <2>1, MockQuietKeeps DEF PhaseZeroInv
<1>5. GhostInv'
  BY GhostQuiet DEF PhaseZeroInv
<1> QED
  BY <1>1, <1>2, <1>3, <1>4, <1>5 DEF PhaseZeroInv

LEMMA FirstPhaseStep ==
    ASSUME TypeOK, TypeOK', FirstPhaseInv, [Next]_vars, FirstPhase'
    PROVE  /\ FirstPhase /\ PhaseZeroInv /\ PhaseZeroInv'
           /\ RealEffect
           /\ \/ UNCHANGED panicked
              \/ \E r \in Replica : Watches(r) \/ AwaitsQuorum(r)
<1>1. CASE Next
  <2>1. FirstPhase /\ PhaseZeroInv
    BY <1>1, FirstPhaseSteps DEF FirstPhaseInv
  <2>2. PICK r \in Replica : \/ Handles(r)
                             \/ Watches(r) \/ AwaitsQuorum(r)
                             \/ Completes(r) /\ phase' = phase
    BY <1>1, FirstPhaseSteps
  <2>3. CASE Handles(r)
    BY <2>1, <2>3, PhaseZeroHandlers
  <2>4. CASE Watches(r) \/ AwaitsQuorum(r)
    <3>1. LogsRest
      BY <2>4, OthersRest
    <3>2. ReportsAreLogs'
      BY <2>1, <2>4, OthersReport DEF PhaseZeroInv
    <3>3. PhaseZeroInv' /\ RealEffect
      BY <2>1, <3>1, <3>2, PhaseZeroOthers
    <3> QED
      BY <2>1, <2>4, <3>3
  <2>5. CASE Completes(r) /\ phase' = phase
    BY <2>1, <2>5, CompletionLeaves DEF PhaseZeroInv
  <2> QED
    BY <2>2, <2>3, <2>4, <2>5
<1>2. CASE UNCHANGED vars
  <2>1. /\ UNCHANGED <<phase, sentForPhase, rotateMessages, rotateChan, panicked>>
        /\ LogsRest
    BY <1>2 DEF vars, rotationVars, LogsRest
  <2>2. FirstPhase /\ PhaseZeroInv
    BY <2>1 DEF FirstPhase, FirstPhaseInv
  <2>3. ReportsAreLogs'
    <3>1. \A s : SameLogs(s)
      BY <2>1 DEF LogsRest, realVars, mockVars, SameLogs
    <3> QED
      BY <2>1, <2>2, <3>1, ReportsKept DEF PhaseZeroInv
  <2>4. PhaseZeroInv' /\ RealEffect
    BY <2>1, <2>2, <2>3, PhaseZeroOthers
  <2> QED
    BY <2>1, <2>2, <2>4
<1> QED
  BY <1>1, <1>2

\* As long as no replica has left phase 0, and whatever Rotates are under way:
\* replica 0's instances are a row of proposals, what bcastAccept sent a follower
\* is the end of that row, the follower has all that came before, a reply is
\* under way only once and for a vote; what is accepted or committed anywhere in
\* either log is what its coordinator proposed or committed; and a Rotate reports
\* the logs its sender still has.
THEOREM FirstPhaseOrder == Spec => []FirstPhaseInv
<1>1. Init /\ TypeOK => FirstPhaseInv
  BY FirstPhaseInit
<1>2. TypeOK /\ TypeOK' /\ FirstPhaseInv /\ [Next]_vars => FirstPhaseInv'
  BY FirstPhaseStep DEF FirstPhaseInv
<1> QED
  BY <1>1, <1>2, TypesCorrect, PTL DEF Spec

-----------------------------------------------------------------------------
(* What it is worth *)

\* As long as no replica has left phase 0, no two replicas have commit()ed
\* different commands as one instance, however the commits of
\* handleAcceptReplyReal and the Accepts overtake each other.
THEOREM AgreementInPhaseZero == Spec => [](FirstPhase => Agreement)
<1>1. FirstPhaseInv => (FirstPhase => Agreement)
  BY DEF FirstPhaseInv, PhaseZeroInv, RealInv, Deciding, CommittedAsDecided,
     Agreement
<1> QED
  BY <1>1, FirstPhaseOrder, PTL

\* Until then the replies that handleAcceptReply counts are of different
\* replicas, each of which accepted these very commands: accepts + 1 of them are
\* a majority.
THEOREM QuorumsInPhaseZero == Spec => [](FirstPhase => CommitHasQuorum)
<1>1. FirstPhaseInv => (FirstPhase => CommitHasQuorum)
  BY DEF FirstPhaseInv, PhaseZeroInv, RealInv, Deciding
<1> QED
  BY <1>1, FirstPhaseOrder, PTL

\* Until then executeCommands, which runs up to committedUpTo, meets committed
\* instances only.
THEOREM PrefixInPhaseZero == Spec => [](FirstPhase => ExecutablePrefix)
<1>1. FirstPhaseInv => (FirstPhase => ExecutablePrefix)
  BY DEF FirstPhaseInv, PhaseZeroInv, RealInv, Deciding
<1> QED
  BY <1>1, FirstPhaseOrder, PTL

\* Until then no two replicas have mockCommit()ed different commands as one
\* instance: the mock log that the detectors compare latencies on is the same
\* everywhere.
THEOREM MockAgreementInPhaseZero == Spec => [](FirstPhase => MockAgreement)
<1>1. FirstPhaseInv => (FirstPhase => MockAgreement)
  BY DEF FirstPhaseInv, PhaseZeroInv, MockInv, MockFollows,
     MockCommittedAsDecided, MockAgreement
<1> QED
  BY <1>1, FirstPhaseOrder, PTL

\* In a run that stays in phase 0, no handler overwrites a committed instance:
\* neither the blanks of handleRealAcceptExecTime nor a commit that comes again.
THEOREM CommittedStaysInPhaseZero == Spec /\ []FirstPhase => CommittedIsStable
<1>1. ASSUME TypeOK, TypeOK', FirstPhaseInv, FirstPhase', [Next]_vars
      PROVE  \A r \in Replica, i \in Inst :
              HasCommitted(r, i) => /\ HasCommitted(r, i)'
                                    /\ instanceSpace'[r][i].cmds =
                                          instanceSpace[r][i].cmds
  <2>1. RealEffect /\ RealInv
    BY <1>1, FirstPhaseStep DEF PhaseZeroInv
  <2>2. \A r \in Replica, i \in Inst : Keeps(r, i)
    BY <1>1, <2>1, EffectKeeps
  <2> QED
    BY <2>2 DEF Keeps, HasCommitted
<1>2. TypeOK /\ TypeOK' /\ FirstPhaseInv /\ FirstPhase' /\ [Next]_vars
        => [\A r \in Replica, i \in Inst :
              HasCommitted(r, i) => /\ HasCommitted(r, i)'
                                    /\ instanceSpace'[r][i].cmds =
                                          instanceSpace[r][i].cmds]_vars
  BY <1>1
<1> QED
  BY <1>2, TypesCorrect, FirstPhaseOrder, PTL DEF Spec, CommittedIsStable

\* In a run that stays in phase 0, every step of the handlers is a step of the
\* one abstract log, or none: handleAcceptReplyReal chooses the commands of an
\* instance once, handleRealCommit tells what was chosen, and nothing else
\* changes what a replica has committed.
THEOREM PhaseZeroImplementsLog == Spec /\ []FirstPhase => ImplementsLog
<1>1. Init => Log!Init
  <2> SUFFICES ASSUME Init PROVE Log!Init
    OBVIOUS
  <2>1. decided = {} /\ \A r \in Replica, i \in Inst : ~HasCommitted(r, i)
    BY DEF Init, InitLog, HasCommitted, NilInstance, NewInstance
  <2>2. chosen = {}
    BY <2>1 DEF chosen
  <2>3. learned = [r \in Replica |-> {}]
    BY <2>1 DEF learned
  <2> QED
    BY <2>2, <2>3 DEF Log!Init
<1>2. ASSUME TypeOK, TypeOK', FirstPhaseInv, FirstPhase', [Next]_vars
      PROVE  [Log!Next]_(Log!lvars)
  <2>1. RealEffect /\ RealInv
    BY <1>2, FirstPhaseStep DEF PhaseZeroInv
  <2> QED
    BY <1>2, <2>1, LogStep
<1>3. TypeOK /\ TypeOK' /\ FirstPhaseInv /\ FirstPhase' /\ [Next]_vars
        => [Log!Next]_(Log!lvars)
  BY <1>2
<1> QED
  BY <1>1, <1>3, TypesCorrect, FirstPhaseOrder, PTL
     DEF Spec, ImplementsLog, Log!Spec

-----------------------------------------------------------------------------
(* What does not panic in phase 0 *)

\* no replica sends a Rotate it panics over: its globalMaxCommittedGhost is not
\* beyond its log, and no standby has accepted anything
LEMMA RotatesSafely ==
    ASSUME TypeOK, FirstPhase, PhaseZeroInv, NEW r \in Replica
    PROVE  RotatePanic(r) = "no"
<1>1. ~(globalMaxCommittedGhost[r] > NextNil(instanceSpaceMock[r]))
  <2>1. NextNil(instanceSpaceMock[r]) \in 0 .. MaxInst
    BY NextNilProperties, LocalTypes
  <2>2. globalMaxCommittedGhost[r] <= NextNil(instanceSpaceMock[r])
    BY GhostBound DEF PhaseZeroInv
  <2>3. globalMaxCommittedGhost[r] \in 0 .. MaxInst
    BY MockTypes
  <2> QED
    BY <2>1, <2>2, <2>3, MaxInstAssumption
<1>2. ASSUME IsStandby(r), NEW first \in Nat
      PROVE  /\ ~Reports(instanceSpace[r], 0, "ACCEPTED")
             /\ ~Reports(instanceSpaceMock[r], first, "MOCKACCEPTED")
  <2>1. r \in Standbys(0)
    BY <1>2, FirstPhaseRoles
  <2>2. /\ \A i \in Inst : instanceSpace[r][i].status # "ACCEPTED"
        /\ \A i \in Inst : instanceSpaceMock[r][i].status # "MOCKACCEPTED"
    BY <2>1 DEF PhaseZeroInv, Recorded, AcceptedAsProposed, MockInv,
       MockFollows, MockAcceptedAsProposed
  <2>3. \A log \in Logs, n \in Nat :
            \A i \in n .. NextNil(log) - 1 : i \in Inst
    BY NextNilType, MaxInstAssumption DEF Inst
  <2> QED
    BY <2>2, <2>3, LocalTypes DEF Reports
<1>3. globalMaxCommittedGhost[r] \in Nat
  BY MockTypes
<1> QED
  BY <1>1, <1>2, <1>3 DEF RotatePanic

\* Until a replica leaves phase 0, no handler and no Rotate panics: no reply or
\* commit is for an instance that is nil or has another number of commands, and
\* bcastRotate makes no array of negative length, because globalMaxCommittedGhost
\* is set to instances that came before it in the channel.
THEOREM NoPanicInPhaseZero == Spec => [](FirstPhase => NoPanic)
<1>1. Init => NoPanic
  BY DEF Init, InitQuiet, NoPanic
<1>2. ASSUME TypeOK, TypeOK', FirstPhaseInv, FirstPhase => NoPanic,
             [Next]_vars, FirstPhase'
      PROVE  NoPanic'
  <2>1. FirstPhase /\ PhaseZeroInv /\ NoPanic
    BY <1>2, FirstPhaseStep
  <2>2. \/ UNCHANGED panicked
        \/ \E r \in Replica : Watches(r) \/ AwaitsQuorum(r)
    BY <1>2, FirstPhaseStep
  <2>3. ASSUME NEW r \in Replica, Watches(r) \/ AwaitsQuorum(r)
        PROVE  UNCHANGED panicked
    <3>1. RotatePanic(r) = "no"
      BY <1>2, <2>1, RotatesSafely
    <3> QED
      BY <2>3, <3>1
         DEF Watches, ClientBatch, Suspect, AwaitsQuorum, RotatePanics,
             HandleRotate
  <2> QED
    BY <2>1, <2>2, <2>3 DEF NoPanic
<1>3. TypeOK /\ TypeOK' /\ FirstPhaseInv /\ (FirstPhase => NoPanic)
        /\ [Next]_vars => (FirstPhase => NoPanic)'
  BY <1>2
<1> QED
  BY <1>1, <1>3, TypesCorrect, FirstPhaseOrder, PTL DEF Spec

-----------------------------------------------------------------------------
(* The quorum that ends phase 0 hands over what was committed there          *)

\* a replica behind a commit reports the instance: nothing below it is nil
LEMMA BackerReports ==
    ASSUME TypeOK, PhaseZeroInv, NEW d \in decided, NEW s \in Replica,
           \/ s = 0
           \/ \E v \in votes : v.replica = s /\ v.inst = d.inst
    PROVE  /\ d.inst \in DOMAIN OwnReport(s).real
           /\ OwnReport(s).real[d.inst].status # "RECEIVED"
<1>1. PICK i : i = d.inst
  OBVIOUS
<1>2. i \in Inst /\ HasCommitted(0, i)
  BY <1>1 DEF PhaseZeroInv, RealInv, Deciding, DecidedIsCommitted, TypeOK,
     ChannelTypeOK, Decisions
<1>3. /\ Ordering /\ VotesKept
      /\ instanceSpace[s] \in Logs /\ instanceSpace[0] \in Logs
  BY LocalTypes, FirstRoles DEF PhaseZeroInv, RealInv, Recorded
<1>4. /\ instanceSpace[s][i].status \in {"ACCEPTED", "COMMITTED"}
      /\ \A j \in Inst : j <= i => ~IsNil(instanceSpace[s], j)
  <2>1. CASE s = 0
    <3>1. i < Proposed
      BY <1>2, <1>3, RealTypes DEF Ordering, CoordinatorLog, HasCommitted, IsNil, Inst
    <3>2. \A j \in Inst : j <= i => ~IsNil(instanceSpace[0], j)
      BY <1>2, <1>3, <3>1, RealTypes DEF Ordering, CoordinatorLog, IsNil, Inst
    <3> QED
      BY <1>2, <2>1, <3>2 DEF HasCommitted
  <2>2. CASE s # 0
    <3>1. PICK v \in votes : v.replica = s /\ v.inst = i
      BY <1>1, <2>2
    <3>2. s \in Followers /\ i < Delivered(s)
      BY <1>3, <3>1 DEF Ordering, VotesForProposals
    <3>3. Delivered(s) \in Int
      BY RealTypes DEF Delivered
    <3>4. \A j \in Inst : j <= i => ~IsNil(instanceSpace[s], j)
      BY <1>2, <1>3, <3>2, <3>3 DEF Ordering, FollowersKeepUp, Inst
    <3> QED
      BY <1>3, <3>1, <3>4 DEF VotesKept
  <2> QED
    BY <2>1, <2>2
<1>5. i \in 0 .. NextNil(instanceSpace[s]) - 1
  <2>1. PICK n : n = NextNil(instanceSpace[s])
    OBVIOUS
  <2>2. n \in 0 .. MaxInst /\ (n < MaxInst => IsNil(instanceSpace[s], n))
    BY <1>3, <2>1, NextNilProperties
  <2> QED
    BY <1>2, <1>4, <2>1, <2>2, MaxInstAssumption DEF Inst
<1>6. OwnReport(s).real = Report(instanceSpace[s], 0, "ACCEPTED", "COMMITTED")
  BY DEF OwnReport
<1> QED
  BY <1>1, <1>4, <1>5, <1>6, ReportFirm

LEMMA CommitIsReported ==
    ASSUME TypeOK, PhaseZeroInv, NEW d \in decided,
           NEW senders \in SUBSET Replica, RotateQuorum(0, senders)
    PROVE  \E s \in senders \ Standbys(0) :
              /\ d.inst \in DOMAIN OwnReport(s).real
              /\ OwnReport(s).real[d.inst].status # "RECEIVED"
<1>1. d.replica = 0
  BY DEF PhaseZeroInv, RealInv, Deciding, DecidedIsCommitted, Vote
<1> DEFINE voters == {v.replica : v \in {w \in votes :
                          w.phase = d.phase /\ w.inst = d.inst
                                            /\ w.cmds = d.cmds}}
           V == voters \union {0}
<1>2. 2 * Cardinality(V) > N
  BY <1>1 DEF PhaseZeroInv, RealInv, Deciding, CommitHasQuorum
<1>3. \A s \in voters : \E v \in votes : v.replica = s /\ v.inst = d.inst
  OBVIOUS
<1>4. V \in SUBSET Replica /\ V \cap Standbys(0) = {}
  <2>1. \A v \in votes : v.replica \in Followers
    BY DEF PhaseZeroInv, RealInv, Ordering, VotesForProposals
  <2>2. \A s \in voters : s \in Replica /\ s \notin Standbys(0)
    BY <2>1 DEF Followers, Others
  <2> HIDE DEF voters
  <2> QED
    BY <2>2, FirstRoles
<1>5. ~IsArmageddon(0) /\ 0 \in Nat
  BY NAssumption DEF IsArmageddon
<1>6. (senders \ Standbys(0)) \cap V # {}
  <2> HIDE DEF V
  <2> QED
    BY <1>2, <1>4, <1>5, RotatesMeetMajorities
<1>7. PICK s \in senders \ Standbys(0) : s \in voters \union {0}
  BY <1>6
<1>8. s \in Replica /\ (s = 0 \/ \E v \in votes : v.replica = s /\ v.inst = d.inst)
  <2> HIDE DEF voters
  <2> QED
    BY <1>3, <1>7
<1>9. /\ d.inst \in DOMAIN OwnReport(s).real
      /\ OwnReport(s).real[d.inst].status # "RECEIVED"
  BY <1>8, BackerReports
<1> QED
  BY <1>7, <1>9

LEMMA QuorumKeepsChosen ==
    ASSUME TypeOK, FirstPhase, PhaseZeroInv,
           NEW r \in Replica, NEW m \in rotateChan, NEW sends \in BOOLEAN,
           CompletesQuorum(r, m, sends)
    PROVE  \A reports :
              reports = MergedReports(RotateMessagesAfter(r, m, sends),
                                      phase[r], "real") =>
                 /\ ~MergePanics(reports)
                 /\ \A md \in Merged(reports, "real"), d \in decided :
                        /\ d.inst \in DOMAIN md
                        /\ md[d.inst].cmds = d.cmds
                        /\ md[d.inst].status \in {"ACCEPTED", "COMMITTED"}
<1>1. phase[r] = 0
  BY DEF FirstPhase
<1>2. PICK messages : messages = RotateMessagesAfter(r, m, sends)
  OBVIOUS
<1>3. /\ IsMessages(messages)
      /\ IsFiniteSet(DOMAIN messages \ Standbys(0))
      /\ \A s \in DOMAIN messages : s \in Replica /\ messages[s] = OwnReport(s)
  <2>1. ReportsAreLogs
    BY DEF PhaseZeroInv
  <2> QED
    BY <1>1, <1>2, <2>1, ReportsMerged
<1> SUFFICES ASSUME NEW reports,
                    reports = MergedReports(RotateMessagesAfter(r, m, sends),
                                            phase[r], "real")
             PROVE  /\ ~MergePanics(reports)
                    /\ \A md \in Merged(reports, "real"), d \in decided :
                         /\ d.inst \in DOMAIN md
                         /\ md[d.inst].cmds = d.cmds
                         /\ md[d.inst].status \in {"ACCEPTED", "COMMITTED"}
  OBVIOUS
<1>4. /\ reports = RealOf(messages)
      /\ DOMAIN reports = DOMAIN messages \ Standbys(0)
      /\ \A s \in DOMAIN reports : reports[s] = OwnReport(s).real
  BY <1>1, <1>2, <1>3 DEF RealOf, MergedReports
<1>5. Agreeing(reports, RealCmds) /\ IsFiniteSet(DOMAIN reports)
  BY <1>3, <1>4, RealReportsAgree DEF PhaseZeroInv
<1>6. ASSUME NEW md \in Merged(reports, "real"), NEW d \in decided
      PROVE  /\ d.inst \in DOMAIN md
             /\ md[d.inst].cmds = d.cmds
             /\ md[d.inst].status \in {"ACCEPTED", "COMMITTED"}
  <2>1. RotateQuorum(0, DOMAIN messages) /\ DOMAIN messages \in SUBSET Replica
    BY <1>1, <1>2, <1>3 DEF CompletesQuorum
  <2>2. PICK s \in DOMAIN messages \ Standbys(0) :
            /\ d.inst \in DOMAIN OwnReport(s).real
            /\ OwnReport(s).real[d.inst].status # "RECEIVED"
    BY <2>1, CommitIsReported
  <2>3. /\ s \in DOMAIN reports /\ d.inst \in DOMAIN reports[s]
        /\ reports[s][d.inst].status # "RECEIVED"
    BY <1>4, <2>2
  <2>4. /\ d.inst \in DOMAIN md
        /\ md[d.inst].cmds = RealCmds[d.inst]
        /\ md[d.inst].status \in {"ACCEPTED", "COMMITTED"}
    BY <1>5, <2>3, AgreeingMerged
  <2>5. d.inst \in Inst /\ d.cmds = Cmds0(d.inst)
    BY DEF PhaseZeroInv, RealInv, Deciding, DecidedIsCommitted, Vote, TypeOK,
       ChannelTypeOK, Decisions
  <2> QED
    BY <2>4, <2>5 DEF RealCmds
<1> QED
  BY <1>5, <1>6, AgreeingMerge

\* Whichever Rotates make up the quorum that ends phase 0, and in whatever order
\* createRotateMetadataMap meets their reports: it does not panic, and its map
\* has every instance committed in the phase, with the commands committed.
THEOREM PhaseZeroIsHandedOver == Spec => []ChosenIsMerged
<1>1. TypeOK /\ FirstPhaseInv => ChosenIsMerged
  <2> SUFFICES ASSUME TypeOK, FirstPhase, PhaseZeroInv,
                      NEW r \in Replica, NEW m \in rotateChan,
                      NEW sends \in BOOLEAN,
                      RotateOfPhase(r, m, sends), CompletesQuorum(r, m, sends)
               PROVE  LET reports == MergedReports(
                                RotateMessagesAfter(r, m, sends), phase[r], "real")
                      IN  /\ ~MergePanics(reports)
                          /\ \A md \in Merged(reports, "real"), d \in decided :
                                /\ d.inst \in DOMAIN md
                                /\ md[d.inst].cmds = d.cmds
                                /\ md[d.inst].status \in {"ACCEPTED", "COMMITTED"}
    BY DEF ChosenIsMerged, FirstPhaseInv
  <2> QED
    BY QuorumKeepsChosen
<1> QED
  BY <1>1, TypesCorrect, FirstPhaseOrder, PTL

=============================================================================
