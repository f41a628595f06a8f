---------------------------- MODULE AvicennaProofs ----------------------------
(***************************************************************************)
(* Proofs about the rotation of Avicenna: for any number of replicas, any  *)
(* commands, any bounds and any suspicions.                                *)
(***************************************************************************)
EXTENDS Avicenna, FiniteSetTheorems, TLAPS

-----------------------------------------------------------------------------
(* Quorums of Rotates *)

LEMMA ReplicasFinite == IsFiniteSet(Replica)
<1>1. 0 \in Int /\ N - 1 \in Int
  BY NAssumption
<1> QED
  BY <1>1, FS_Interval DEF Replica

\* A quorum stays one when more Rotates come in.
LEMMA QuorumMonotone ==
    ASSUME NEW p, NEW S, NEW T, S \subseteq T, T \subseteq Replica,
           RotateQuorum(p, S)
    PROVE  RotateQuorum(p, T)
<1> DEFINE A == S \ Standbys(p)
           B == T \ Standbys(p)
<1>1. B \in SUBSET Replica /\ A \in SUBSET B
  OBVIOUS
<1>2. IsFiniteSet(B)
  BY <1>1, ReplicasFinite, FS_Subset
<1>3. /\ IsFiniteSet(A)
      /\ Cardinality(A) <= Cardinality(B)
  BY <1>1, <1>2, FS_Subset
<1>4. Cardinality(A) \in Nat /\ Cardinality(B) \in Nat
  BY <1>2, <1>3, FS_CardinalityType
<1>5. Cardinality(A) > 1
  BY DEF RotateQuorum
<1> HIDE DEF A, B
<1>6. Cardinality(B) > 1
  BY <1>3, <1>4, <1>5
<1> QED
  BY <1>6 DEF RotateQuorum, B

\* Nobody's Rotate counts in the first Armageddon phase.
LEMMA NoQuorumInArmageddon ==
    ASSUME NEW S, S \subseteq Replica
    PROVE  ~RotateQuorum(N, S)
<1>1. (N + 1) % (N + 1) = 0
  BY NAssumption
<1>2. Standbys(N) = Replica
  BY <1>1 DEF Standbys, IsArmageddon
<1>3. S \ Standbys(N) = {}
  BY <1>2
<1>4. Cardinality(S \ Standbys(N)) = 0
  BY <1>3, FS_EmptySet
<1> QED
  BY <1>4 DEF RotateQuorum

-----------------------------------------------------------------------------
(* The inductive invariant of rotation *)

RotationShape ==
    /\ phase \in [Replica -> Nat]
    /\ sentForPhase \in [Replica -> BOOLEAN]
    /\ rotateMessages = [r \in Replica |-> rotateMessages[r]]
    /\ rotated \subseteq (Replica \X Nat)

\* a replica's Rotates are of phases it has reached, and after the one of its
\* present phase it is marked as having sent it
RotatedIsPast ==
    \A r \in Replica, p \in Nat :
        <<r, p>> \in rotated => p <= phase[r] /\ (p = phase[r] => sentForPhase[r])

\* Rotates under way were sent, and so were those that are being collected
InFlightWasSent ==
    \A m \in rotateChan : <<m.src, m.phase>> \in rotated

CollectedWasSent ==
    \A r \in Replica : DOMAIN rotateMessages[r] \subseteq Rotators(phase[r])

RotationInv == /\ RotationShape
               /\ RotatedIsPast
               /\ InFlightWasSent
               /\ CollectedWasSent
               /\ PhaseBacked

LEMMA RotationInit == Init => RotationInv
<1> SUFFICES ASSUME Init PROVE RotationInv
  OBVIOUS
<1> USE DEF Init, InitPhase, InitLog, InitMockLog, InitQuiet
<1>1. RotationShape
  BY DEF RotationShape
<1>2. RotatedIsPast
  BY DEF RotatedIsPast
<1>3. InFlightWasSent
  BY DEF InFlightWasSent
<1>4. CollectedWasSent
  <2>1. DOMAIN (<<>>) = {}
    OBVIOUS
  <2> QED
    BY <2>1 DEF CollectedWasSent
<1>5. PhaseBacked
  BY DEF PhaseBacked
<1> QED
  BY <1>1, <1>2, <1>3, <1>4, <1>5 DEF RotationInv

-----------------------------------------------------------------------------
(* The three kinds of step that change the state of rotation.  In each, r   *)
(* handles a message or a suspicion; "sends" says that it broadcasts its    *)
(* Rotate.                                                                  *)

\* r may send its Rotate, tracks Rotates of its phase and stays in it
Tracks(r, sends) ==
    /\ phase' = phase
    /\ sentForPhase' = [sentForPhase EXCEPT ![r] = @ \/ sends]
    /\ rotated' = rotated \union RotatedNow(r, sends)
    /\ \E messages :
        /\ rotateMessages' = [rotateMessages EXCEPT ![r] = messages]
        /\ DOMAIN messages \subseteq {x \in Replica : <<x, phase[r]>> \in rotated'}
    /\ \A m \in rotateChan' : \/ m \in rotateChan
                              \/ sends /\ m.src = r /\ m.phase = phase[r]

\* r goes on to phase p, for which it has sent nothing
Moves(r, sends, p) ==
    /\ p \in Nat /\ p > phase[r]
    /\ phase' = [phase EXCEPT ![r] = p]
    /\ sentForPhase' = [sentForPhase EXCEPT ![r] = FALSE]
    /\ rotated' = rotated \union RotatedNow(r, sends)
    /\ \E messages :
        /\ rotateMessages' = [rotateMessages EXCEPT ![r] = messages]
        /\ DOMAIN messages \subseteq {x \in Replica : <<x, p>> \in rotated'}
    /\ \A q \in 0 .. p - 1 :
        RotateQuorum(q, {x \in Replica : <<x, q>> \in rotated'})
    /\ \A m \in rotateChan' : \/ m \in rotateChan
                              \/ sends /\ m.src = r /\ m.phase = phase[r]

LEMMA TracksKeeps ==
    ASSUME RotationInv, NEW r \in Replica, NEW sends \in BOOLEAN,
           Tracks(r, sends)
    PROVE  RotationInv'
<1> USE DEF Tracks, RotatedNow
<1>1. RotationShape /\ RotatedIsPast /\ InFlightWasSent /\ CollectedWasSent
  BY DEF RotationInv
<1>2. PICK messages :
        /\ rotateMessages' = [rotateMessages EXCEPT ![r] = messages]
        /\ DOMAIN messages \subseteq {x \in Replica : <<x, phase[r]>> \in rotated'}
  OBVIOUS
<1>3. rotated \subseteq rotated'
  OBVIOUS
<1>4. RotationShape'
  BY SMTT(20), <1>1, <1>2 DEF RotationShape
<1>5. RotatedIsPast'
  <2> SUFFICES ASSUME NEW s \in Replica, NEW p \in Nat, <<s, p>> \in rotated'
               PROVE  p <= phase[s] /\ (p = phase[s] => sentForPhase'[s])
    BY DEF RotatedIsPast
  <2>1. CASE <<s, p>> \in rotated
    BY <2>1, <1>1 DEF RotatedIsPast, RotationShape
  <2>2. CASE <<s, p>> \notin rotated
    <3>1. sends /\ s = r /\ p = phase[r]
      BY <2>2
    <3>2. phase[s] \in Nat /\ sentForPhase \in [Replica -> BOOLEAN]
      BY <1>1 DEF RotationShape
    <3>3. sentForPhase'[r]
      BY <3>1, <3>2, Zenon
    <3> QED
      BY <3>1, <3>2, <3>3
  <2> QED
    BY <2>1, <2>2
<1>6. InFlightWasSent'
  BY <1>1 DEF InFlightWasSent
<1>7. CollectedWasSent'
  <2> SUFFICES ASSUME NEW s \in Replica
               PROVE  DOMAIN rotateMessages'[s] \subseteq Rotators(phase[s])'
    BY DEF CollectedWasSent
  <2>1. CASE s = r
    BY <2>1, <1>1, <1>2 DEF Rotators, RotationShape
  <2>2. CASE s # r
    BY <2>2, <1>1, <1>2, <1>3 DEF Rotators, RotationShape, CollectedWasSent
  <2> QED
    BY <2>1, <2>2
<1>8. PhaseBacked'
  <2> SUFFICES ASSUME NEW s \in Replica, NEW p \in 0 .. phase[s] - 1
               PROVE  RotateQuorum(p, Rotators(p)')
    BY DEF PhaseBacked
  <2>1. RotateQuorum(p, Rotators(p))
    BY DEF RotationInv, PhaseBacked
  <2>2. Rotators(p) \subseteq Rotators(p)' /\ Rotators(p)' \subseteq Replica
    BY <1>3 DEF Rotators
  <2> QED
    BY <2>1, <2>2, QuorumMonotone
<1> QED
  BY <1>4, <1>5, <1>6, <1>7, <1>8 DEF RotationInv

LEMMA MovesKeeps ==
    ASSUME RotationInv, NEW r \in Replica, NEW sends \in BOOLEAN, NEW p,
           Moves(r, sends, p)
    PROVE  RotationInv'
<1> USE DEF Moves, RotatedNow
<1>1. RotationShape /\ RotatedIsPast /\ InFlightWasSent /\ CollectedWasSent
  BY DEF RotationInv
<1>2. PICK messages :
        /\ rotateMessages' = [rotateMessages EXCEPT ![r] = messages]
        /\ DOMAIN messages \subseteq {x \in Replica : <<x, p>> \in rotated'}
  OBVIOUS
<1>3. rotated \subseteq rotated'
  OBVIOUS
<1>4. RotationShape'
  BY <1>1, <1>2 DEF RotationShape
<1>5. RotatedIsPast'
  <2> SUFFICES ASSUME NEW s \in Replica, NEW q \in Nat, <<s, q>> \in rotated'
               PROVE  q <= phase'[s] /\ (q = phase'[s] => sentForPhase'[s])
    BY DEF RotatedIsPast
  <2>1. q <= phase[s] /\ (q = phase[s] => s = r \/ sentForPhase[s])
    <3>1. CASE <<s, q>> \in rotated
      BY <3>1, <1>1 DEF RotatedIsPast
    <3>2. CASE <<s, q>> \notin rotated
      BY <3>2, <1>1 DEF RotationShape
    <3> QED
      BY <3>1, <3>2
  <2>2. CASE s = r
    BY <2>1, <2>2, <1>1 DEF RotationShape
  <2>3. CASE s # r
    BY <2>1, <2>3, <1>1 DEF RotationShape
  <2> QED
    BY <2>2, <2>3
<1>6. InFlightWasSent'
  BY <1>1 DEF InFlightWasSent
<1>7. CollectedWasSent'
  <2> SUFFICES ASSUME NEW s \in Replica
               PROVE  DOMAIN rotateMessages'[s] \subseteq Rotators(phase[s])'
    BY DEF CollectedWasSent
  <2>1. CASE s = r
    BY <2>1, <1>1, <1>2 DEF Rotators, RotationShape
  <2>2. CASE s # r
    BY <2>2, <1>1, <1>2, <1>3 DEF Rotators, RotationShape, CollectedWasSent
  <2> QED
    BY <2>1, <2>2
<1>8. PhaseBacked'
  <2> SUFFICES ASSUME NEW s \in Replica, NEW q \in 0 .. phase'[s] - 1
               PROVE  RotateQuorum(q, Rotators(q)')
    BY DEF PhaseBacked
  <2>1. CASE s = r
    BY <2>1, <1>1 DEF Rotators, RotationShape
  <2>2. CASE s # r
    <3>1. RotateQuorum(q, Rotators(q))
      BY <2>2, <1>1 DEF RotationInv, PhaseBacked, RotationShape
    <3>2. Rotators(q) \subseteq Rotators(q)' /\ Rotators(q)' \subseteq Replica
      BY <1>3 DEF Rotators
    <3> QED
      BY <3>1, <3>2, QuorumMonotone
  <2> QED
    BY <2>1, <2>2
<1> QED
  BY <1>4, <1>5, <1>6, <1>7, <1>8 DEF RotationInv

-----------------------------------------------------------------------------
(* Every step of the replica is of one of these kinds *)

LEMMA TrackDomain ==
    ASSUME NEW messages, NEW s, NEW report
    PROVE  DOMAIN Track(messages, s, report) = DOMAIN messages \union {s}
  BY DEF Track

\* what r has collected once its own Rotate, if any, is tracked
LEMMA TrackedOwnWasSent ==
    ASSUME RotationInv, NEW r \in Replica, NEW sends \in BOOLEAN,
           rotated' = rotated \union RotatedNow(r, sends)
    PROVE  DOMAIN TrackedOwn(r, sends)
                \subseteq {x \in Replica : <<x, phase[r]>> \in rotated'}
<1>1. DOMAIN rotateMessages[r] \subseteq {x \in Replica : <<x, phase[r]>> \in rotated'}
  BY DEF RotationInv, CollectedWasSent, Rotators
<1>2. CASE sends
  <2>1. <<r, phase[r]>> \in rotated'
    BY <1>2 DEF RotatedNow
  <2>2. DOMAIN TrackedOwn(r, sends) = DOMAIN rotateMessages[r] \union {r}
    BY <1>2, TrackDomain DEF TrackedOwn
  <2> QED
    BY <1>1, <2>1, <2>2
<1>3. CASE ~sends
  BY <1>1, <1>3 DEF TrackedOwn
<1> QED
  BY <1>2, <1>3

\* a message of the channel, of r's phase, is tracked too
LEMMA MessagesAfterWereSent ==
    ASSUME RotationInv, NEW r \in Replica, NEW sends \in BOOLEAN,
           NEW m \in rotateChan, m.phase = phase[r],
           rotated' = rotated \union RotatedNow(r, sends)
    PROVE  DOMAIN RotateMessagesAfter(r, m, sends)
                \subseteq {x \in Replica : <<x, phase[r]>> \in rotated'}
<1>1. <<m.src, phase[r]>> \in rotated' /\ m.src \in Replica
  BY DEF RotationInv, InFlightWasSent, RotationShape
<1>2. DOMAIN RotateMessagesAfter(r, m, sends)
            \subseteq DOMAIN TrackedOwn(r, sends) \union {m.src}
  <2>1. DOMAIN Track(TrackedOwn(r, sends), m.src, m.report)
            = DOMAIN TrackedOwn(r, sends) \union {m.src}
    BY TrackDomain, Zenon
  <2>2. CASE m.src \in Standbys(phase[r])
    BY <2>2 DEF RotateMessagesAfter
  <2>3. CASE m.src \notin Standbys(phase[r])
    <3>1. RotateMessagesAfter(r, m, sends)
                = Track(TrackedOwn(r, sends), m.src, m.report)
      BY <2>3 DEF RotateMessagesAfter
    <3> QED
      BY <2>1, <3>1
  <2> QED
    BY <2>2, <2>3
<1> QED
  BY <1>1, <1>2, TrackedOwnWasSent

\* all that a broadcast adds to the network is r's Rotate for its phase
LEMMA SentRotates ==
    ASSUME NEW r, NEW sends, NEW m \in RotatesSent(r, sends)
    PROVE  sends /\ m.src = r /\ m.phase = phase[r]
<1>1. sends
  BY DEF RotatesSent
<1>2. PICK d \in Others(r) : m = RotateMsg(r, d)
  BY <1>1 DEF RotatesSent
<1> QED
  BY <1>1, <1>2 DEF RotateMsg

LEMMA SuspectTracks ==
    ASSUME RotationInv, NEW r \in Replica, Suspect(r),
           RotatePanic(r) = "no"
    PROVE  Tracks(r, TRUE)
<1>1. /\ rotateMessages' = [rotateMessages EXCEPT ![r] = TrackedOwn(r, TRUE)]
      /\ rotateChan' = rotateChan \union RotatesSent(r, TRUE)
      /\ rotated' = rotated \union RotatedNow(r, TRUE)
      /\ sentForPhase' = [sentForPhase EXCEPT ![r] = TRUE]
      /\ phase' = phase
  BY DEF Suspect
<1>2. sentForPhase' = [sentForPhase EXCEPT ![r] = @ \/ TRUE]
  BY <1>1
<1>3. DOMAIN TrackedOwn(r, TRUE)
            \subseteq {x \in Replica : <<x, phase[r]>> \in rotated'}
  BY <1>1, TrackedOwnWasSent
<1>4. \A m \in rotateChan' : m \in rotateChan \/ (m.src = r /\ m.phase = phase[r])
  BY <1>1, SentRotates
<1> QED
  BY <1>1, <1>2, <1>3, <1>4 DEF Tracks

\* m is handled in phase phase[r] and r stays there
LEMMA StayingTracks ==
    ASSUME RotationInv, NEW r \in Replica, NEW sends \in BOOLEAN,
           NEW m \in rotateChan, m.phase = phase[r],
           StaysInPhase(r, m, sends),
           rotated' = rotated \union RotatedNow(r, sends),
           rotateChan' \subseteq rotateChan \union RotatesSent(r, sends)
    PROVE  Tracks(r, sends)
<1>1. DOMAIN RotateMessagesAfter(r, m, sends)
            \subseteq {x \in Replica : <<x, phase[r]>> \in rotated'}
  BY MessagesAfterWereSent
<1>2. \A k \in rotateChan' :
        k \in rotateChan \/ (sends /\ k.src = r /\ k.phase = phase[r])
  BY SentRotates
<1> QED
  BY <1>1, <1>2 DEF Tracks, StaysInPhase

LEMMA RotatePanicsTracks ==
    ASSUME RotationInv, NEW r \in Replica, NEW m \in rotateChan,
           RotatePanics(r, m)
    PROVE  Tracks(r, FALSE)
<1>1. /\ phase' = phase /\ rotateMessages' = rotateMessages
      /\ rotated' = rotated /\ rotateChan' \subseteq rotateChan
      /\ sentForPhase' = sentForPhase
  BY DEF RotatePanics
<1>2. sentForPhase' = [sentForPhase EXCEPT ![r] = @ \/ FALSE]
  <2>1. sentForPhase \in [Replica -> BOOLEAN]
    BY DEF RotationInv, RotationShape
  <2> QED
    BY <1>1, <2>1
<1>3. rotateMessages' = [rotateMessages EXCEPT ![r] = rotateMessages[r]]
  BY <1>1 DEF RotationInv, RotationShape
<1>4. DOMAIN rotateMessages[r] \subseteq {x \in Replica : <<x, phase[r]>> \in rotated'}
  BY <1>1 DEF RotationInv, CollectedWasSent, Rotators
<1>5. rotated' = rotated \union RotatedNow(r, FALSE)
  BY <1>1 DEF RotatedNow
<1> QED
  BY <1>1, <1>2, <1>3, <1>4, <1>5 DEF Tracks

LEMMA HandleRotateTracks ==
    ASSUME RotationInv, NEW r \in Replica, NEW sends \in BOOLEAN,
           NEW m \in rotateChan, HandleRotate(r, m, sends)
    PROVE  Tracks(r, sends)
<1>1. /\ m.phase = phase[r]
      /\ StaysInPhase(r, m, sends)
      /\ rotated' = rotated \union RotatedNow(r, sends)
      /\ rotateChan' \subseteq rotateChan \union RotatesSent(r, sends)
  BY DEF HandleRotate, RotateOfPhase
<1> QED
  BY <1>1, StayingTracks

\* The sender of the Rotate is in its phase or past it, so the phases that r
\* leaves out are backed.
LEMMA RotateAheadMoves ==
    ASSUME RotationInv, NEW r \in Replica, NEW m \in rotateChan,
           RotateAhead(r, m)
    PROVE  Moves(r, FALSE, m.phase)
<1>1. /\ m.phase > phase[r]
      /\ phase' = [phase EXCEPT ![r] = m.phase]
      /\ sentForPhase' = [sentForPhase EXCEPT ![r] = FALSE]
      /\ rotateMessages' = [rotateMessages EXCEPT ![r] =
                                Track(<<>>, m.src, m.report)]
      /\ rotateChan' \subseteq rotateChan
      /\ rotated' = rotated
  BY DEF RotateAhead
<1>2. /\ <<m.src, m.phase>> \in rotated
      /\ m.src \in Replica /\ m.phase \in Nat
      /\ phase[m.src] \in Nat
  BY DEF RotationInv, InFlightWasSent, RotationShape
<1>3. m.phase <= phase[m.src]
  BY <1>2 DEF RotationInv, RotatedIsPast
<1>4. ASSUME NEW q \in 0 .. m.phase - 1
      PROVE  RotateQuorum(q, {x \in Replica : <<x, q>> \in rotated'})
  <2>1. q \in 0 .. phase[m.src] - 1
    BY <1>2, <1>3
  <2>2. RotateQuorum(q, Rotators(q))
    BY <1>2, <2>1 DEF RotationInv, PhaseBacked
  <2> QED
    BY <1>1, <2>2 DEF Rotators
<1>5. DOMAIN Track(<<>>, m.src, m.report) = {m.src}
  <2>1. DOMAIN Track(<<>>, m.src, m.report) = DOMAIN (<<>>) \union {m.src}
    BY TrackDomain
  <2>2. DOMAIN (<<>>) = {}
    OBVIOUS
  <2> HIDE DEF Track
  <2> QED
    BY <2>1, <2>2
<1>6. DOMAIN Track(<<>>, m.src, m.report)
            \subseteq {x \in Replica : <<x, m.phase>> \in rotated'}
  BY <1>1, <1>2, <1>5
<1>7. rotated' = rotated \union RotatedNow(r, FALSE)
  BY <1>1 DEF RotatedNow
<1> QED
  BY <1>1, <1>2, <1>4, <1>6, <1>7 DEF Moves

\* processRotateQuorum panics, or ends in goToPhase
LEMMA CompleteRotationOutcome ==
    ASSUME NEW r \in Replica, NEW sends \in BOOLEAN, NEW m,
           CompleteRotation(r, m, sends)
    PROVE  \/ StaysInPhase(r, m, sends)
           \/ /\ phase' = [phase EXCEPT ![r] = phase[r] + 1]
              /\ sentForPhase' = [sentForPhase EXCEPT ![r] = FALSE]
              /\ rotateMessages' = [rotateMessages EXCEPT ![r] = <<>>]
<1> DEFINE Begins == /\ phase' = [phase EXCEPT ![r] = phase[r] + 1]
                     /\ sentForPhase' = [sentForPhase EXCEPT ![r] = FALSE]
                     /\ rotateMessages' = [rotateMessages EXCEPT ![r] = <<>>]
<1>1. ASSUME NEW p, NEW log, NEW mockLog, NEW queue, NEW mockQueue,
             p = phase[r] + 1, BeginPhase(r, p, log, mockLog, queue, mockQueue)
      PROVE  Begins
  BY <1>1 DEF BeginPhase
<1>2. ASSUME NEW md, NEW mdMock, NEW ro, NEW mo,
             ProcessRotateQuorum(r, m, sends, md, mdMock, ro, mo)
      PROVE  StaysInPhase(r, m, sends) \/ Begins
  <2> HIDE DEF Begins
  <2> QED
    BY <1>1, <1>2 DEF ProcessRotateQuorum, StopsInRotation
<1>3. ASSUME NEW real, NEW mock, MergeReports(r, m, sends, real, mock)
      PROVE  StaysInPhase(r, m, sends) \/ Begins
  <2> HIDE DEF Begins
  <2> QED
    BY <1>2, <1>3 DEF MergeReports, StopsInRotation
<1>4. PICK real, mock : MergeReports(r, m, sends, real, mock)
  BY DEF CompleteRotation
<1> QED
  BY <1>3, <1>4

LEMMA CompleteRotationKeeps ==
    ASSUME RotationInv, NEW r \in Replica, NEW sends \in BOOLEAN,
           NEW m \in rotateChan, CompleteRotation(r, m, sends)
    PROVE  Tracks(r, sends) \/ Moves(r, sends, phase[r] + 1)
<1>1. /\ m.phase = phase[r]
      /\ CompletesQuorum(r, m, sends)
      /\ rotateChan' \subseteq rotateChan \union RotatesSent(r, sends)
      /\ rotated' = rotated \union RotatedNow(r, sends)
  BY DEF CompleteRotation, RotateOfPhase, Stale
<1>2. CASE StaysInPhase(r, m, sends)
  BY <1>1, <1>2, StayingTracks
<1>3. CASE /\ phase' = [phase EXCEPT ![r] = phase[r] + 1]
           /\ sentForPhase' = [sentForPhase EXCEPT ![r] = FALSE]
           /\ rotateMessages' = [rotateMessages EXCEPT ![r] = <<>>]
  <2>1. phase[r] \in Nat
    BY DEF RotationInv, RotationShape
  <2>2. DOMAIN (<<>>) \subseteq {x \in Replica : <<x, phase[r] + 1>> \in rotated'}
    OBVIOUS
  <2>3. ASSUME NEW q \in 0 .. phase[r]
        PROVE  RotateQuorum(q, {x \in Replica : <<x, q>> \in rotated'})
    <3>1. CASE q = phase[r]
      <4>1. RotateQuorum(q, DOMAIN RotateMessagesAfter(r, m, sends))
        BY <1>1, <3>1 DEF CompletesQuorum
      <4>2. DOMAIN RotateMessagesAfter(r, m, sends)
                \subseteq {x \in Replica : <<x, q>> \in rotated'}
        BY <1>1, <3>1, MessagesAfterWereSent
      <4>3. PICK S, T : /\ S = DOMAIN RotateMessagesAfter(r, m, sends)
                        /\ T = {x \in Replica : <<x, q>> \in rotated'}
        OBVIOUS
      <4>4. RotateQuorum(q, T)
        <5>1. RotateQuorum(q, S) /\ S \subseteq T /\ T \subseteq Replica
          BY <4>1, <4>2, <4>3
        <5> QED
          BY <5>1, QuorumMonotone
      <4> QED
        BY <4>3, <4>4
    <3>2. CASE q # phase[r]
      <4>1. q \in 0 .. phase[r] - 1
        BY <2>1, <3>2
      <4>2. RotateQuorum(q, Rotators(q))
        BY <4>1 DEF RotationInv, PhaseBacked
      <4>3. Rotators(q) \subseteq {x \in Replica : <<x, q>> \in rotated'}
        BY <1>1 DEF Rotators
      <4> QED
        BY <4>2, <4>3, QuorumMonotone
    <3> QED
      BY <3>1, <3>2
  <2>4. \A k \in rotateChan' :
            k \in rotateChan \/ (sends /\ k.src = r /\ k.phase = phase[r])
    BY <1>1, SentRotates
  <2>5. phase[r] + 1 \in Nat /\ phase[r] + 1 > phase[r]
        /\ 0 .. phase[r] + 1 - 1 = 0 .. phase[r]
    BY <2>1
  <2>6. \E messages :
            /\ rotateMessages' = [rotateMessages EXCEPT ![r] = messages]
            /\ DOMAIN messages \subseteq
                    {x \in Replica : <<x, phase[r] + 1>> \in rotated'}
    <3> WITNESS <<>>
    <3> QED
      BY <1>3, <2>2
  <2>7. Moves(r, sends, phase[r] + 1)
    <3> DEFINE p == phase[r] + 1
    <3>1. p \in Nat /\ p > phase[r]
      BY <2>5
    <3>2. /\ phase' = [phase EXCEPT ![r] = p]
          /\ sentForPhase' = [sentForPhase EXCEPT ![r] = FALSE]
          /\ rotated' = rotated \union RotatedNow(r, sends)
      BY <1>1, <1>3
    <3>3. \E messages :
            /\ rotateMessages' = [rotateMessages EXCEPT ![r] = messages]
            /\ DOMAIN messages \subseteq {x \in Replica : <<x, p>> \in rotated'}
      BY <2>6
    <3>4. \A q \in 0 .. p - 1 :
            RotateQuorum(q, {x \in Replica : <<x, q>> \in rotated'})
      <4> SUFFICES ASSUME NEW q \in 0 .. p - 1
                   PROVE  RotateQuorum(q, {x \in Replica : <<x, q>> \in rotated'})
        OBVIOUS
      <4>1. q \in 0 .. phase[r]
        BY <2>1
      <4> QED
        BY <4>1, <2>3
    <3> HIDE DEF p
    <3>5. Moves(r, sends, p)
      BY <3>1, <3>2, <3>3, <3>4, <2>4, Zenon DEF Moves
    <3> QED
      BY <3>5 DEF p
  <2> QED
    BY <2>7
<1> QED
  BY <1>2, <1>3, CompleteRotationOutcome

\* all other actions leave the rotation alone
LEMMA RotationStep ==
    ASSUME RotationInv, [Next]_vars
    PROVE  RotationInv'
<1>1. ASSUME UNCHANGED rotationVars
      PROVE  RotationInv'
  BY <1>1 DEF rotationVars, RotationInv, RotationShape, RotatedIsPast,
              InFlightWasSent, CollectedWasSent, PhaseBacked, Rotators
<1>2. CASE UNCHANGED vars
  BY <1>1, <1>2 DEF vars, rotationVars
<1>3. ASSUME NEW r \in Replica, ClientBatch(r)
      PROVE  RotationInv'
  BY <1>1, <1>3 DEF ClientBatch
<1>4. ASSUME NEW r \in Replica, HandleProposeBatch(r)
      PROVE  RotationInv'
  BY <1>1, <1>4 DEF HandleProposeBatch
<1>5. ASSUME NEW r \in Replica, Suspect(r)
      PROVE  RotationInv'
  <2>1. CASE RotatePanic(r) # "no"
    BY <1>1, <1>5, <2>1 DEF Suspect
  <2>2. CASE RotatePanic(r) = "no"
    BY <1>5, <2>2, SuspectTracks, TracksKeeps
  <2> QED
    BY <2>1, <2>2
<1>6. ASSUME NEW r \in Replica, NEW s \in Replica, TakeAcceptExecTime(r, s)
      PROVE  RotationInv'
  BY <1>1, <1>6 DEF TakeAcceptExecTime, AcceptExecTimeIgnored,
        AcceptExecTimeAhead, RealAcceptExecTime, MockAcceptExecTime
<1>7. ASSUME NEW r \in Replica, NEW s \in Replica, TakeAcceptMsg(r, s)
      PROVE  RotationInv'
  BY <1>1, <1>7 DEF TakeAcceptMsg, AcceptIgnored, MockAcceptAhead, RealAccept,
                    MockAccept
<1>8. ASSUME NEW r \in Replica, NEW s \in Replica, TakeAcceptReply(r, s)
      PROVE  RotationInv'
  BY <1>1, <1>8 DEF TakeAcceptReply, AcceptReplyIgnored, RealAcceptReply,
                    MockAcceptReply
<1>9. ASSUME NEW r \in Replica, NEW s \in Replica, TakeCommit(r, s)
      PROVE  RotationInv'
  BY <1>1, <1>9 DEF TakeCommit, RealCommit, MockCommit
<1>10. ASSUME NEW r \in Replica, NEW m \in rotateChan, TakeRotate(r, m)
       PROVE  RotationInv'
  <2>1. CASE RotateAhead(r, m)
    BY <2>1, RotateAheadMoves, MovesKeeps
  <2>2. CASE RotatePanics(r, m)
    BY <2>2, RotatePanicsTracks, TracksKeeps
  <2>3. ASSUME NEW sends \in BOOLEAN, HandleRotate(r, m, sends)
        PROVE  RotationInv'
    BY <2>3, HandleRotateTracks, TracksKeeps
  <2>4. ASSUME NEW sends \in BOOLEAN, CompleteRotation(r, m, sends)
        PROVE  RotationInv'
    BY <2>4, CompleteRotationKeeps, TracksKeeps, MovesKeeps
  <2> QED
    BY <1>10, <2>1, <2>2, <2>3, <2>4 DEF TakeRotate
<1> QED
  BY <1>2, <1>3, <1>4, <1>5, <1>6, <1>7, <1>8, <1>9, <1>10 DEF Next

\* A replica that serves Accepts has sent no Rotate for its phase or a later
\* one, and the Accepts it serves are of those phases.
LEMMA ServesNoRotatedPhase ==
    ASSUME RotationInv, NEW r \in Replica, Serving(r),
           NEW p, phase[r] \in Nat, p >= phase[r]
    PROVE  <<r, p>> \notin rotated
<1> SUFFICES ASSUME <<r, p>> \in rotated
             PROVE  FALSE
  OBVIOUS
<1>1. p \in Nat
  BY DEF RotationInv, RotationShape
<1>2. p <= phase[r] /\ (p = phase[r] => sentForPhase[r])
  BY <1>1 DEF RotationInv, RotatedIsPast
<1>3. p = phase[r]
  BY <1>1, <1>2
<1> QED
  BY <1>2, <1>3 DEF Serving

LEMMA VoteStep ==
    ASSUME RotationInv, [Next]_vars, NEW v \in votes' \ votes
    PROVE  <<v.replica, v.phase>> \notin rotated
<1>1. ASSUME UNCHANGED votes
      PROVE  FALSE
  BY <1>1
<1>2. ASSUME NEW r \in Replica, NEW p, Serving(r), p >= phase[r],
             \A w \in votes' : w \in votes \/ (w.replica = r /\ w.phase = p)
      PROVE  <<v.replica, v.phase>> \notin rotated
  <2>1. v.replica = r /\ v.phase = p
    BY <1>2
  <2>2. phase[r] \in Nat
    BY DEF RotationInv, RotationShape
  <2> QED
    BY <1>2, <2>1, <2>2, ServesNoRotatedPhase
<1>3. CASE UNCHANGED vars
  BY <1>1, <1>3 DEF vars, history
<1>4. ASSUME NEW r \in Replica, ClientBatch(r) \/ HandleProposeBatch(r) \/ Suspect(r)
      PROVE  FALSE
  BY <1>1, <1>4 DEF ClientBatch, HandleProposeBatch, Suspect, history
<1>5. ASSUME NEW r \in Replica, NEW s \in Replica, TakeAcceptExecTime(r, s)
      PROVE  <<v.replica, v.phase>> \notin rotated
  <2>1. CASE RealAcceptExecTime(r, s)
    <3> DEFINE m == Next1(acceptExecTimeChan, r, s)
               log == instanceSpace[r]
               i == CHOOSE j \in DOMAIN m.accept : TRUE
               voted == Votes(BlankUpTo(log, i), {i}, "COMMITTED")
    <3>1. phase[r] \in Nat
      BY DEF RotationInv, RotationShape
    <3>2. /\ Serving(r) /\ m.phase = phase[r]
          /\ votes' = votes \union {Vote(r, m.phase, j, m.accept[j]) : j \in voted}
      BY <2>1 DEF RealAcceptExecTime
    <3>3. m.phase >= phase[r]
      BY <3>1, <3>2
    <3> HIDE DEF m, voted
    <3>4. \A w \in votes' : w \in votes \/ (w.replica = r /\ w.phase = m.phase)
      BY <3>2 DEF Vote
    <3> QED
      BY <1>2, <3>2, <3>3, <3>4
  <2>2. CASE ~RealAcceptExecTime(r, s)
    BY <1>1, <1>5, <2>2 DEF TakeAcceptExecTime, AcceptExecTimeIgnored,
        AcceptExecTimeAhead, MockAcceptExecTime, history
  <2> QED
    BY <2>1, <2>2
<1>6. ASSUME NEW r \in Replica, NEW s \in Replica, TakeAcceptMsg(r, s)
      PROVE  <<v.replica, v.phase>> \notin rotated
  <2>1. CASE RealAccept(r, s)
    <3> DEFINE m == Next1(acceptChan, r, s)
               log == instanceSpace[r]
               voted == Votes(log, Acceptable(log, m.accept), "COMMITTED")
    <3>1. /\ Serving(r) /\ m.phase >= phase[r]
          /\ votes' = votes \union {Vote(r, m.phase, i, m.accept[i]) : i \in voted}
      BY <2>1 DEF RealAccept
    <3>2. \A w \in votes' : w \in votes \/ (w.replica = r /\ w.phase = m.phase)
      BY <3>1 DEF Vote
    <3> HIDE DEF m, voted
    <3> QED
      BY <1>2, <3>1, <3>2
  <2>2. CASE ~RealAccept(r, s)
    BY <1>1, <1>6, <2>2 DEF TakeAcceptMsg, AcceptIgnored, MockAcceptAhead,
        MockAccept, history
  <2> QED
    BY <2>1, <2>2
<1>7. ASSUME NEW r \in Replica, NEW s \in Replica,
             TakeAcceptReply(r, s) \/ TakeCommit(r, s)
      PROVE  FALSE
  BY <1>1, <1>7 DEF TakeAcceptReply, AcceptReplyIgnored, RealAcceptReply,
        MockAcceptReply, TakeCommit, RealCommit, MockCommit, history
<1>8. ASSUME NEW r \in Replica, NEW m \in rotateChan, TakeRotate(r, m)
      PROVE  FALSE
  BY <1>1, <1>8 DEF TakeRotate, RotateAhead, RotatePanics, HandleRotate,
        CompleteRotation, history
<1> QED
  BY <1>3, <1>4, <1>5, <1>6, <1>7, <1>8 DEF Next

-----------------------------------------------------------------------------
(* Theorems *)

\* RotationInv holds in every reachable state.
THEOREM RotationInvariant == Spec => []RotationInv
<1>1. Init => RotationInv
  BY RotationInit
<1>2. RotationInv /\ [Next]_vars => RotationInv'
  BY RotationStep
<1> QED
  BY <1>1, <1>2, PTL DEF Spec

\* For any number of replicas, however the Rotates and the suspicions
\* interleave, no replica is past a phase for which handleRotate did not have
\* a quorum of Rotates, its own quorum or that of a replica it caught up with.
THEOREM PhasesAreBacked == Spec => []PhaseBacked
<1>1. RotationInv => PhaseBacked
  BY DEF RotationInv
<1> QED
  BY <1>1, RotationInvariant, PTL

\* Phase N, the first Armageddon configuration of setupConfigurations, is never
\* left: no index beyond configArmageddon is ever used.
THEOREM ArmageddonTerminates == Spec => []ArmageddonIsTerminal
<1>1. RotationInv => ArmageddonIsTerminal
  <2> SUFFICES ASSUME RotationInv, NEW r \in Replica, phase[r] > N
               PROVE  FALSE
    BY NAssumption DEF ArmageddonIsTerminal, RotationInv, RotationShape
  <2>1. N \in 0 .. phase[r] - 1
    BY NAssumption DEF RotationInv, RotationShape
  <2>2. RotateQuorum(N, Rotators(N))
    BY <2>1 DEF RotationInv, PhaseBacked
  <2>3. Rotators(N) \subseteq Replica
    BY DEF Rotators
  <2> QED
    BY <2>2, <2>3, NoQuorumInArmageddon
<1> QED
  BY <1>1, RotationInvariant, PTL

\* After the Rotate of bcastRotate for a phase, the two Accept handlers of the
\* real log add no acceptance in that phase: the quorum of Rotates that
\* processRotateQuorum merges cannot miss a later vote of a replica in it.
THEOREM RotatedReplicasDoNotVote == Spec => NoVoteAfterRotate
<1>1. RotationInv /\ [Next]_vars
        => [\A v \in votes' \ votes : <<v.replica, v.phase>> \notin rotated]_vars
  BY VoteStep
<1> QED
  BY <1>1, RotationInvariant, PTL DEF Spec, NoVoteAfterRotate
=============================================================================
