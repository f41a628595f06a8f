-------------------------- MODULE AvicennaTypeProofs --------------------------
(***************************************************************************)
(* Type correctness of Avicenna, one lemma per action.  What has to be     *)
(* shown is that every choice a handler makes has a candidate, so that the *)
(* logs, queues and messages it builds are ones the others can handle.     *)
(***************************************************************************)
EXTENDS Avicenna, AvicennaLogProofs

-----------------------------------------------------------------------------
(* Channels *)

Channel(M) == [Replica -> [Replica -> Seq(M)]]

LEMMA OneMessage ==
  ASSUME NEW M, NEW m \in M
  PROVE  <<m>> \in Seq(M)
  OBVIOUS

LEMMA SentType ==
  ASSUME NEW M, NEW chan \in Channel(M), NEW s \in Replica, NEW dsts,
         NEW ms \in Seq(M)
  PROVE  Sent(chan, s, dsts, ms) \in Channel(M)
<1>1. ASSUME NEW d \in Replica
      PROVE  [chan[d] EXCEPT ![s] = @ \o ms] \in [Replica -> Seq(M)]
  <2>1. chan[d] \in [Replica -> Seq(M)]
    BY DEF Channel
  <2>2. chan[d][s] \o ms \in Seq(M)
    BY <2>1, ConcatProperties
  <2> QED
    BY <2>1, <2>2
<1> QED
  BY <1>1 DEF Sent, Channel

LEMMA ReceivedType ==
  ASSUME NEW M, NEW chan \in Channel(M), NEW r \in Replica, NEW s \in Replica,
         chan[r][s] # <<>>
  PROVE  /\ Next1(chan, r, s) \in M
         /\ Received(chan, r, s) \in Channel(M)
<1>1. chan[r][s] \in Seq(M)
  BY DEF Channel
<1>2. Head(chan[r][s]) \in M /\ Tail(chan[r][s]) \in Seq(M)
  BY <1>1, HeadTailProperties
<1>3. [chan EXCEPT ![r][s] = Tail(@)] \in Channel(M)
  BY <1>2 DEF Channel
<1> QED
  BY <1>2, <1>3 DEF Next1, Received

LEMMA PutBackType ==
  ASSUME NEW M, NEW chan \in Channel(M), NEW r \in Replica, NEW s \in Replica,
         chan[r][s] # <<>>, NEW c \in PutBack(chan, r, s)
  PROVE  c \in Channel(M)
<1> DEFINE q == chan[r][s]
<1>1. q \in Seq(M)
  BY DEF Channel
<1>2. PICK i \in DOMAIN q :
        c = [chan EXCEPT ![r][s] = SubSeq(q, 2, i) \o <<q[1]>>
                                    \o SubSeq(q, i + 1, Len(q))]
  BY DEF PutBack
<1>3. /\ Len(q) \in Nat /\ DOMAIN q = 1 .. Len(q) /\ 1 \in DOMAIN q
      /\ \A k \in 1 .. Len(q) : q[k] \in M
  BY <1>1, <1>2, ElementOfSeq, LenProperties
<1>4. SubSeq(q, 2, i) \in Seq(M)
  BY <1>3, SubSeqProperties
<1>5. SubSeq(q, i + 1, Len(q)) \in Seq(M)
  BY <1>3, SubSeqProperties
<1>6. <<q[1]>> \in Seq(M)
  BY <1>3
<1>7. SubSeq(q, 2, i) \o <<q[1]>> \in Seq(M)
  <2> HIDE DEF q
  <2> QED
    BY <1>4, <1>6, ConcatProperties
<1>8. SubSeq(q, 2, i) \o <<q[1]>> \o SubSeq(q, i + 1, Len(q)) \in Seq(M)
  <2> HIDE DEF q
  <2> QED
    BY <1>5, <1>7, ConcatProperties
<1> QED
  <2> HIDE DEF q
  <2> QED
    BY <1>2, <1>8 DEF Channel

\* a sequence built from an enumeration of instances or positions
LEMMA EnumeratedSeq ==
  ASSUME NEW M, NEW n \in Nat, NEW f \in [1 .. n -> M]
  PROVE  f \in Seq(M)
  BY SeqDef

LEMMA RepliesType ==
  ASSUME NEW p \in Phase, NEW insts \in SUBSET Inst, NEW mock \in BOOLEAN
  PROVE  Replies(p, insts, mock) \in Seq(ReplyMsgs)
<1>1. MaxInst # 0 => MaxInst - 1 \in Nat
  BY MaxInstAssumption
<1>2. /\ Cardinality(insts) \in Nat
      /\ Ascending(insts) \in [1 .. Cardinality(insts) -> insts]
  <2>1. CASE MaxInst = 0
    <3>1. insts \in SUBSET (0 .. 0)
      BY <2>1 DEF Inst
    <3> QED
      BY <3>1, AscendingType
  <2>2. CASE MaxInst # 0
    BY <1>1, <2>2, AscendingType DEF Inst
  <2> QED
    BY <2>1, <2>2
<1>3. Replies(p, insts, mock) \in [1 .. Cardinality(insts) -> ReplyMsgs]
  BY <1>2 DEF Replies, Reply, ReplyMsgs
<1> QED
  BY <1>2, <1>3, EnumeratedSeq

-----------------------------------------------------------------------------
(* The initial states, and what one replica's part of the state holds *)

LEMMA TypesInit == Init => TypeOK
<1> SUFFICES ASSUME Init
             PROVE  TypeOK
  OBVIOUS
<1> USE DEF Init, InitPhase, InitLog, InitMockLog, InitQuiet
<1>1. RotationTypeOK
  BY MaxPhaseAssumption DEF RotationTypeOK, Phase
<1>2. NilInstance \in Entry
  BY NewInstanceType DEF NilInstance, Status
<1>3. LogTypeOK
  BY <1>2, MaxInstAssumption, ArrivalsAssumption DEF LogTypeOK
<1>4. ChannelTypeOK
  <2>1. /\ <<>> \in Seq(AcceptMsgs)
        /\ <<>> \in Seq(ReplyMsgs)
        /\ <<>> \in Seq(CommitMsgs)
    BY EmptySeq
  <2>2. panicked \in [Replica -> Panics]
    BY DEF Panics
  <2>3. /\ acceptExecTimeChan \in [Replica -> [Replica -> Seq(AcceptMsgs)]]
        /\ acceptChan \in [Replica -> [Replica -> Seq(AcceptMsgs)]]
    BY <2>1
  <2>4. /\ acceptReplyChan \in [Replica -> [Replica -> Seq(ReplyMsgs)]]
        /\ commitChan \in [Replica -> [Replica -> Seq(CommitMsgs)]]
    BY <2>1
  <2> QED
    BY <2>2, <2>3, <2>4 DEF ChannelTypeOK
<1> QED
  BY <1>1, <1>3, <1>4 DEF TypeOK

LEMMA LocalTypes ==
  ASSUME TypeOK, NEW r \in Replica
  PROVE  /\ phase[r] \in Phase
         /\ sentForPhase[r] \in BOOLEAN
         /\ instanceSpace[r] \in Logs
         /\ instanceSpaceMock[r] \in Logs
         /\ committedUpTo[r] \in -1 .. MaxInst - 1
         /\ mockCommittedUpTo[r] \in -1 .. MaxInst - 1
         /\ latestCmdSeen[r] \in SUBSET Cmds
         /\ latestCmdSeenMock[r] \in SUBSET Cmds
         /\ batchedCmdsChan[r] \in SUBSET Cmds
         /\ globalMaxCommittedGhost[r] \in 0 .. MaxInst
  BY DEF TypeOK, RotationTypeOK, LogTypeOK, Logs

LEMMA ChannelTypes ==
  ASSUME TypeOK
  PROVE  /\ acceptExecTimeChan \in Channel(AcceptMsgs)
         /\ acceptChan \in Channel(AcceptMsgs)
         /\ acceptReplyChan \in Channel(ReplyMsgs)
         /\ commitChan \in Channel(CommitMsgs)
  BY DEF TypeOK, ChannelTypeOK, Channel

LEMMA StutterKeepsTypes == TypeOK /\ UNCHANGED vars => TypeOK'
  BY DEF TypeOK, RotationTypeOK, LogTypeOK, ChannelTypeOK, vars, rotationVars,
         realVars, mockVars, clientVars, channels, history

LEMMA UnchangedRotation == RotationTypeOK /\ UNCHANGED rotationVars => RotationTypeOK'
  BY DEF RotationTypeOK, rotationVars

-----------------------------------------------------------------------------
(* Clients and batching *)

LEMMA ClientBatchTypes ==
  ASSUME TypeOK, NEW r \in Replica, ClientBatch(r)
  PROVE  TypeOK'
<1>1. RotationTypeOK'
  BY UnchangedRotation DEF TypeOK, ClientBatch
<1>2. LogTypeOK'
  BY DEF TypeOK, LogTypeOK, ClientBatch, realVars, mockVars
<1>3. ChannelTypeOK'
  BY DEF TypeOK, ChannelTypeOK, ClientBatch, channels, history
<1> QED
  BY <1>1, <1>2, <1>3 DEF TypeOK

LEMMA AcceptMsgType ==
  ASSUME TypeOK, NEW r \in Replica, NEW i \in Inst, NEW cmds \in SUBSET Cmds
  PROVE  <<AcceptMsg(r, Only(i, cmds))>> \in Seq(AcceptMsgs)
<1>1. Only(i, cmds) \in [{i} -> SUBSET Cmds]
  BY DEF Only
<1>2. {i} \in (SUBSET Inst) \ {{}}
  OBVIOUS
<1>3. Only(i, cmds) \in Accepts
  BY <1>1, <1>2 DEF Accepts
<1>4. phase[r] \in Phase
  BY LocalTypes
<1>5. AcceptMsg(r, Only(i, cmds)) \in AcceptMsgs
  BY <1>3, <1>4 DEF AcceptMsg, AcceptMsgs
<1> QED
  BY <1>5, OneMessage

LEMMA HandleProposeBatchTypes ==
  ASSUME TypeOK, NEW r \in Replica, HandleProposeBatch(r)
  PROVE  TypeOK'
<1> DEFINE cmds   == batchedCmdsChan[r]
           doMock == cmds \cap Ghost # {}
           real   == NextNil(instanceSpace[r])
           mock   == NextNil(instanceSpaceMock[r])
           leads  == IsCoordinator(r)
           mocks  == ~leads /\ doMock /\ IsMockCoordinator(r)
<1>1. RotationTypeOK'
  BY UnchangedRotation DEF TypeOK, HandleProposeBatch
<1>2. cmds \in SUBSET Cmds
  BY LocalTypes
<1>3. real \in Inst
  <2>1. real \in 0 .. MaxInst /\ real < MaxInst
    BY LocalTypes, NextNilType DEF HandleProposeBatch
  <2> QED
    BY <2>1, MaxInstAssumption DEF Inst
<1>4. doMock => mock \in Inst
  <2>1. mock \in 0 .. MaxInst /\ (doMock => mock < MaxInst)
    BY LocalTypes, NextNilType DEF HandleProposeBatch
  <2> QED
    BY <2>1, MaxInstAssumption DEF Inst
<1>5. /\ NewInstance("ACCEPTED", cmds) \in Entry
      /\ NewInstance("RECEIVED", cmds) \in Entry
      /\ NewInstance("MOCKACCEPTED", cmds) \in Entry
  BY <1>2, NewInstanceType DEF Status
<1>6. LogTypeOK'
  <2>1. instanceSpace' \in [Replica -> [Inst -> Entry]]
    BY <1>5 DEF TypeOK, LogTypeOK, HandleProposeBatch
  <2>2. instanceSpaceMock' \in [Replica -> [Inst -> Entry]]
    BY <1>5 DEF TypeOK, LogTypeOK, HandleProposeBatch
  <2>3. batchedCmdsChan' \in [Replica -> SUBSET Cmds]
    BY DEF TypeOK, LogTypeOK, HandleProposeBatch
  <2> QED
    BY <2>1, <2>2, <2>3 DEF TypeOK, LogTypeOK, HandleProposeBatch
<1>7. acceptExecTimeChan' \in Channel(AcceptMsgs)
  <2>1. CASE leads
    <3>1. <<AcceptMsg(r, Only(real, cmds))>> \in Seq(AcceptMsgs)
      BY <1>2, <1>3, AcceptMsgType
    <3>2. Sent(acceptExecTimeChan, r, Acceptors(r),
               <<AcceptMsg(r, Only(real, cmds))>>) \in Channel(AcceptMsgs)
      BY <3>1, ChannelTypes, SentType
    <3> QED
      BY <2>1, <3>2 DEF HandleProposeBatch
  <2>2. CASE mocks
    <3>1. <<AcceptMsg(r, Only(mock, cmds))>> \in Seq(AcceptMsgs)
      BY <1>2, <1>4, <2>2, AcceptMsgType
    <3>2. Sent(acceptExecTimeChan, r, Others(r),
               <<AcceptMsg(r, Only(mock, cmds))>>) \in Channel(AcceptMsgs)
      BY <3>1, ChannelTypes, SentType
    <3> QED
      BY <2>2, <3>2 DEF HandleProposeBatch
  <2>3. CASE ~leads /\ ~mocks
    BY <2>3, ChannelTypes DEF HandleProposeBatch
  <2> QED
    BY <2>1, <2>2, <2>3
<1>8. ChannelTypeOK'
  BY <1>7 DEF TypeOK, ChannelTypeOK, HandleProposeBatch, history, Channel
<1> QED
  BY <1>1, <1>6, <1>8 DEF TypeOK

-----------------------------------------------------------------------------
(* Accepting *)

LEMMA AcceptExecTimeIgnoredTypes ==
  ASSUME TypeOK, NEW r \in Replica, NEW s \in Replica, AcceptExecTimeIgnored(r, s)
  PROVE  TypeOK'
<1>1. RotationTypeOK'
  BY UnchangedRotation DEF TypeOK, AcceptExecTimeIgnored
<1>2. LogTypeOK'
  BY DEF TypeOK, LogTypeOK, AcceptExecTimeIgnored, realVars, mockVars, clientVars
<1>3. Received(acceptExecTimeChan, r, s) \in Channel(AcceptMsgs)
  BY ChannelTypes, ReceivedType DEF AcceptExecTimeIgnored
<1>4. ChannelTypeOK'
  BY <1>3 DEF TypeOK, ChannelTypeOK, Channel, AcceptExecTimeIgnored, history
<1> QED
  BY <1>1, <1>2, <1>4 DEF TypeOK

LEMMA AcceptExecTimeAheadTypes ==
  ASSUME TypeOK, NEW r \in Replica, NEW s \in Replica, AcceptExecTimeAhead(r, s)
  PROVE  TypeOK'
<1>1. RotationTypeOK'
  BY UnchangedRotation DEF TypeOK, AcceptExecTimeAhead
<1>2. LogTypeOK'
  BY DEF TypeOK, LogTypeOK, AcceptExecTimeAhead, realVars, mockVars, clientVars
<1>3. acceptExecTimeChan' \in Channel(AcceptMsgs)
  BY ChannelTypes, PutBackType DEF AcceptExecTimeAhead
<1>4. ChannelTypeOK'
  BY <1>3 DEF TypeOK, ChannelTypeOK, Channel, AcceptExecTimeAhead, history
<1> QED
  BY <1>1, <1>2, <1>4 DEF TypeOK

LEMMA AcceptMessage ==
  ASSUME NEW m \in AcceptMsgs
  PROVE  /\ m.phase \in Phase
         /\ m.accept \in Accepts
         /\ DOMAIN m.accept \subseteq Inst
         /\ (CHOOSE j \in DOMAIN m.accept : TRUE) \in DOMAIN m.accept
         /\ \A i \in DOMAIN m.accept : m.accept[i] \in SUBSET Cmds
<1>1. m.phase \in Phase /\ m.accept \in Accepts
  BY DEF AcceptMsgs
<1> QED
  BY <1>1, AcceptType

LEMMA VotesType ==
  ASSUME NEW r \in Replica, NEW m \in AcceptMsgs,
         NEW voted \in SUBSET (DOMAIN m.accept)
  PROVE  {Vote(r, m.phase, j, m.accept[j]) : j \in voted} \subseteq Decisions
  BY AcceptMessage DEF Vote, Decisions

LEMMA RealAcceptExecTimeTypes ==
  ASSUME TypeOK, NEW r \in Replica, NEW s \in Replica, RealAcceptExecTime(r, s)
  PROVE  TypeOK'
<1> DEFINE m     == Next1(acceptExecTimeChan, r, s)
           log   == instanceSpace[r]
           i     == CHOOSE j \in DOMAIN m.accept : TRUE
           blank == BlankUpTo(log, i)
           voted == Votes(blank, {i}, "COMMITTED")
           queue == IF voted = {} THEN latestCmdSeen[r]
                    ELSE AddToQueue(latestCmdSeen[r], Overwritten(log, i, m.accept))
<1>1. m \in AcceptMsgs /\ Received(acceptExecTimeChan, r, s) \in Channel(AcceptMsgs)
  BY ChannelTypes, ReceivedType DEF RealAcceptExecTime
<1>2. /\ m.phase \in Phase /\ m.accept \in Accepts /\ i \in DOMAIN m.accept
      /\ i \in Inst
  BY <1>1, AcceptMessage
<1>3. voted \in SUBSET (DOMAIN m.accept) /\ voted \in SUBSET Inst
  BY <1>2 DEF Votes
<1>4. blank \in Logs
  BY <1>2, LocalTypes, BlankUpToType
<1>5. Accepted(blank, voted, m.accept, "ACCEPTED") \in Logs
  BY <1>2, <1>3, <1>4, AcceptedType DEF Status
<1>6. queue \in SUBSET Cmds
  BY <1>2, LocalTypes, OverwrittenType, QueueTypes
<1>7. Replies(m.phase, voted, FALSE) \in Seq(ReplyMsgs)
  BY <1>2, <1>3, RepliesType
<1>8. {Vote(r, m.phase, j, m.accept[j]) : j \in voted} \subseteq Decisions
  BY <1>1, <1>3, VotesType
<1>9. RotationTypeOK'
  BY UnchangedRotation DEF TypeOK, RealAcceptExecTime
<1>10. LogTypeOK'
  <2>1. instanceSpace' \in [Replica -> [Inst -> Entry]]
    <3>1. instanceSpace' = [instanceSpace EXCEPT ![r] =
                                Accepted(blank, voted, m.accept, "ACCEPTED")]
      BY DEF RealAcceptExecTime
    <3> QED
      BY <1>5, <3>1 DEF TypeOK, LogTypeOK, Logs
  <2>2. latestCmdSeen' \in [Replica -> SUBSET Cmds]
    <3>1. latestCmdSeen' = [latestCmdSeen EXCEPT ![r] = queue]
      BY DEF RealAcceptExecTime
    <3> QED
      BY <1>6, <3>1 DEF TypeOK, LogTypeOK
  <2> QED
    BY <2>1, <2>2 DEF TypeOK, LogTypeOK, RealAcceptExecTime, mockVars, clientVars
<1>11. ChannelTypeOK'
  <2>1. acceptReplyChan' \in Channel(ReplyMsgs)
    BY <1>7, ChannelTypes, SentType DEF RealAcceptExecTime
  <2>2. acceptExecTimeChan' \in Channel(AcceptMsgs)
    BY <1>1 DEF RealAcceptExecTime
  <2>3. votes' \subseteq Decisions
    BY <1>8 DEF RealAcceptExecTime, TypeOK, ChannelTypeOK
  <2> QED
    BY <2>1, <2>2, <2>3 DEF TypeOK, ChannelTypeOK, Channel, RealAcceptExecTime
<1> QED
  BY <1>9, <1>10, <1>11 DEF TypeOK

LEMMA MockAcceptExecTimeTypes ==
  ASSUME TypeOK, NEW r \in Replica, NEW s \in Replica, MockAcceptExecTime(r, s)
  PROVE  TypeOK'
<1> DEFINE m     == Next1(acceptExecTimeChan, r, s)
           log   == instanceSpaceMock[r]
           i     == CHOOSE j \in DOMAIN m.accept : TRUE
           voted == Votes(log, {i}, "MOCKCOMMITTED")
           queue == IF voted = {} THEN latestCmdSeenMock[r]
                    ELSE DeleteFromQueue(AddToQueue(latestCmdSeenMock[r],
                                                    log[i].cmds), m.accept[i])
<1>1. m \in AcceptMsgs /\ Received(acceptExecTimeChan, r, s) \in Channel(AcceptMsgs)
  BY ChannelTypes, ReceivedType DEF MockAcceptExecTime
<1>2. /\ m.phase \in Phase /\ m.accept \in Accepts /\ i \in DOMAIN m.accept
      /\ i \in Inst /\ m.accept[i] \in SUBSET Cmds
  BY <1>1, AcceptMessage
<1>3. voted \in SUBSET (DOMAIN m.accept) /\ voted \in SUBSET Inst
  BY <1>2 DEF Votes
<1>4. log \in Logs /\ log[i].cmds \in SUBSET Cmds
  BY <1>2, LocalTypes DEF Logs, Entry
<1>5. Accepted(log, voted, m.accept, "MOCKACCEPTED") \in Logs
  BY <1>2, <1>3, <1>4, AcceptedType DEF Status
<1>6. queue \in SUBSET Cmds
  <2>1. AddToQueue(latestCmdSeenMock[r], log[i].cmds) \in SUBSET Cmds
    BY <1>4, LocalTypes, QueueTypes
  <2>2. DeleteFromQueue(AddToQueue(latestCmdSeenMock[r], log[i].cmds),
                        m.accept[i]) \in SUBSET Cmds
    BY <1>2, <2>1, QueueTypes
  <2> QED
    BY <2>2, LocalTypes
<1>7. Replies(m.phase, voted, TRUE) \in Seq(ReplyMsgs)
  BY <1>2, <1>3, RepliesType
<1>8. RotationTypeOK'
  BY UnchangedRotation DEF TypeOK, MockAcceptExecTime
<1>9. LogTypeOK'
  <2>1. instanceSpaceMock' \in [Replica -> [Inst -> Entry]]
    <3>1. instanceSpaceMock' = [instanceSpaceMock EXCEPT ![r] =
                                  Accepted(log, voted, m.accept, "MOCKACCEPTED")]
      BY DEF MockAcceptExecTime
    <3> QED
      BY <1>5, <3>1 DEF TypeOK, LogTypeOK, Logs
  <2>2. latestCmdSeenMock' \in [Replica -> SUBSET Cmds]
    <3>1. latestCmdSeenMock' = [latestCmdSeenMock EXCEPT ![r] = queue]
      BY DEF MockAcceptExecTime
    <3> QED
      BY <1>6, <3>1 DEF TypeOK, LogTypeOK
  <2> QED
    BY <2>1, <2>2 DEF TypeOK, LogTypeOK, MockAcceptExecTime, realVars, clientVars
<1>10. ChannelTypeOK'
  <2>1. acceptReplyChan' \in Channel(ReplyMsgs)
    BY <1>7, ChannelTypes, SentType DEF MockAcceptExecTime
  <2>2. acceptExecTimeChan' \in Channel(AcceptMsgs)
    BY <1>1 DEF MockAcceptExecTime
  <2> QED
    BY <2>1, <2>2 DEF TypeOK, ChannelTypeOK, Channel, MockAcceptExecTime, history
<1> QED
  BY <1>8, <1>9, <1>10 DEF TypeOK

LEMMA AcceptIgnoredTypes ==
  ASSUME TypeOK, NEW r \in Replica, NEW s \in Replica, AcceptIgnored(r, s)
  PROVE  TypeOK'
<1>1. RotationTypeOK'
  BY UnchangedRotation DEF TypeOK, AcceptIgnored
<1>2. LogTypeOK'
  BY DEF TypeOK, LogTypeOK, AcceptIgnored, realVars, mockVars, clientVars
<1>3. Received(acceptChan, r, s) \in Channel(AcceptMsgs)
  BY ChannelTypes, ReceivedType DEF AcceptIgnored
<1>4. ChannelTypeOK'
  BY <1>3 DEF TypeOK, ChannelTypeOK, Channel, AcceptIgnored, history
<1> QED
  BY <1>1, <1>2, <1>4 DEF TypeOK

LEMMA MockAcceptAheadTypes ==
  ASSUME TypeOK, NEW r \in Replica, NEW s \in Replica, MockAcceptAhead(r, s)
  PROVE  TypeOK'
<1>1. RotationTypeOK'
  BY UnchangedRotation DEF TypeOK, MockAcceptAhead
<1>2. LogTypeOK'
  BY DEF TypeOK, LogTypeOK, MockAcceptAhead, realVars, mockVars, clientVars
<1>3. acceptChan' \in Channel(AcceptMsgs)
  BY ChannelTypes, PutBackType DEF MockAcceptAhead
<1>4. ChannelTypeOK'
  BY <1>3 DEF TypeOK, ChannelTypeOK, Channel, MockAcceptAhead, history
<1> QED
  BY <1>1, <1>2, <1>4 DEF TypeOK

LEMMA TakeAcceptType ==
  ASSUME TypeOK, NEW r \in Replica, NEW s \in Replica, NEW wholly \in BOOLEAN,
         acceptChan[r][s] # <<>>, TakeAccept(r, s, wholly)
  PROVE  acceptChan' \in Channel(AcceptMsgs)
<1>1. CASE wholly
  BY <1>1, ChannelTypes, ReceivedType DEF TakeAccept
<1>2. CASE ~wholly
  BY <1>2, ChannelTypes, PutBackType DEF TakeAccept
<1> QED
  BY <1>1, <1>2

LEMMA RealAcceptTypes ==
  ASSUME TypeOK, NEW r \in Replica, NEW s \in Replica, RealAccept(r, s)
  PROVE  TypeOK'
<1> DEFINE m     == Next1(acceptChan, r, s)
           log   == instanceSpace[r]
           insts == Acceptable(log, m.accept)
           voted == Votes(log, insts, "COMMITTED")
           added == UNION {Overwritten(log, i, m.accept) : i \in voted}
<1>1. m \in AcceptMsgs
  BY ChannelTypes, ReceivedType DEF RealAccept
<1>2. m.phase \in Phase /\ m.accept \in Accepts /\ DOMAIN m.accept \subseteq Inst
  BY <1>1, AcceptMessage
<1>3. voted \in SUBSET (DOMAIN m.accept) /\ voted \in SUBSET Inst
  BY <1>2 DEF Votes, Acceptable
<1>4. log \in Logs
  BY LocalTypes
<1>5. Accepted(log, voted, m.accept, "ACCEPTED") \in Logs
  BY <1>2, <1>3, <1>4, AcceptedType DEF Status
<1>6. AddToQueue(latestCmdSeen[r], added) \in SUBSET Cmds
  <2>1. \A i \in voted : Overwritten(log, i, m.accept) \in SUBSET Cmds
    BY <1>2, <1>3, <1>4, OverwrittenType
  <2>2. added \in SUBSET Cmds
    BY <2>1
  <2> QED
    BY <2>2, LocalTypes, QueueTypes
<1>7. Replies(m.phase, voted, FALSE) \in Seq(ReplyMsgs)
  BY <1>2, <1>3, RepliesType
<1>8. {Vote(r, m.phase, i, m.accept[i]) : i \in voted} \subseteq Decisions
  BY <1>1, <1>3, VotesType
<1>9. RotationTypeOK'
  BY UnchangedRotation DEF TypeOK, RealAccept
<1>10. LogTypeOK'
  <2>1. instanceSpace' \in [Replica -> [Inst -> Entry]]
    <3>1. instanceSpace' = [instanceSpace EXCEPT ![r] =
                                Accepted(log, voted, m.accept, "ACCEPTED")]
      BY DEF RealAccept
    <3> QED
      BY <1>5, <3>1 DEF TypeOK, LogTypeOK, Logs
  <2>2. latestCmdSeen' \in [Replica -> SUBSET Cmds]
    <3>1. latestCmdSeen' = [latestCmdSeen EXCEPT ![r] =
                                AddToQueue(latestCmdSeen[r], added)]
      BY DEF RealAccept
    <3> QED
      BY <1>6, <3>1 DEF TypeOK, LogTypeOK
  <2> QED
    BY <2>1, <2>2 DEF TypeOK, LogTypeOK, RealAccept, mockVars, clientVars
<1>11. ChannelTypeOK'
  <2>1. acceptReplyChan' \in Channel(ReplyMsgs)
    BY <1>7, ChannelTypes, SentType DEF RealAccept
  <2>2. acceptChan' \in Channel(AcceptMsgs)
    BY TakeAcceptType DEF RealAccept
  <2>3. votes' \subseteq Decisions
    BY <1>8 DEF RealAccept, TypeOK, ChannelTypeOK
  <2> QED
    BY <2>1, <2>2, <2>3 DEF TypeOK, ChannelTypeOK, Channel, RealAccept
<1> QED
  BY <1>9, <1>10, <1>11 DEF TypeOK

LEMMA MockAcceptTypes ==
  ASSUME TypeOK, NEW r \in Replica, NEW s \in Replica, MockAccept(r, s)
  PROVE  TypeOK'
<1> DEFINE m     == Next1(acceptChan, r, s)
           log   == instanceSpaceMock[r]
           insts == Acceptable(log, m.accept)
           voted == Votes(log, insts, "MOCKCOMMITTED")
           queue == MockQueueAfter(latestCmdSeenMock[r], log, voted, m.accept)
<1>1. m \in AcceptMsgs
  BY ChannelTypes, ReceivedType DEF MockAccept
<1>2. m.phase \in Phase /\ m.accept \in Accepts /\ DOMAIN m.accept \subseteq Inst
  BY <1>1, AcceptMessage
<1>3. voted \in SUBSET (DOMAIN m.accept) /\ voted \in SUBSET Inst
  BY <1>2 DEF Votes, Acceptable
<1>4. log \in Logs
  BY LocalTypes
<1>5. Accepted(log, voted, m.accept, "MOCKACCEPTED") \in Logs
  BY <1>2, <1>3, <1>4, AcceptedType DEF Status
<1>6. queue \in SUBSET Cmds
  BY <1>2, <1>3, <1>4, LocalTypes, MockQueueAfterType
<1>7. Replies(m.phase, voted, TRUE) \in Seq(ReplyMsgs)
  BY <1>2, <1>3, RepliesType
<1>8. RotationTypeOK'
  BY UnchangedRotation DEF TypeOK, MockAccept
<1>9. LogTypeOK'
  <2>1. instanceSpaceMock' \in [Replica -> [Inst -> Entry]]
    <3>1. instanceSpaceMock' = [instanceSpaceMock EXCEPT ![r] =
                                  Accepted(log, voted, m.accept, "MOCKACCEPTED")]
      BY DEF MockAccept
    <3> QED
      BY <1>5, <3>1 DEF TypeOK, LogTypeOK, Logs
  <2>2. latestCmdSeenMock' \in [Replica -> SUBSET Cmds]
    <3>1. latestCmdSeenMock' = [latestCmdSeenMock EXCEPT ![r] = queue]
      BY DEF MockAccept
    <3> QED
      BY <1>6, <3>1 DEF TypeOK, LogTypeOK
  <2> QED
    BY <2>1, <2>2 DEF TypeOK, LogTypeOK, MockAccept, realVars, clientVars
<1>10. ChannelTypeOK'
  <2>1. acceptReplyChan' \in Channel(ReplyMsgs)
    BY <1>7, ChannelTypes, SentType DEF MockAccept
  <2>2. acceptChan' \in Channel(AcceptMsgs)
    BY TakeAcceptType DEF MockAccept
  <2> QED
    BY <2>1, <2>2 DEF TypeOK, ChannelTypeOK, Channel, MockAccept, history
<1> QED
  BY <1>8, <1>9, <1>10 DEF TypeOK

-----------------------------------------------------------------------------
(* Committing *)

LEMMA AcceptReplyIgnoredTypes ==
  ASSUME TypeOK, NEW r \in Replica, NEW s \in Replica, AcceptReplyIgnored(r, s)
  PROVE  TypeOK'
<1>1. RotationTypeOK'
  BY UnchangedRotation DEF TypeOK, AcceptReplyIgnored
<1>2. LogTypeOK'
  BY DEF TypeOK, LogTypeOK, AcceptReplyIgnored, realVars, mockVars, clientVars
<1>3. Received(acceptReplyChan, r, s) \in Channel(ReplyMsgs)
  BY ChannelTypes, ReceivedType DEF AcceptReplyIgnored
<1>4. ChannelTypeOK'
  BY <1>3 DEF TypeOK, ChannelTypeOK, Channel, AcceptReplyIgnored, history
<1> QED
  BY <1>1, <1>2, <1>4 DEF TypeOK

LEMMA CommittedType ==
  ASSUME NEW log \in Logs, NEW i \in Inst, NEW cmds \in SUBSET Cmds,
         NEW status \in Status
  PROVE  Committed(log, i, cmds, status) \in Logs
<1>1. [log[i] EXCEPT !.status = status, !.cmds = cmds] \in Entry
  BY CommittedEntry DEF Logs
<1> QED
  BY <1>1 DEF Committed, Logs

LEMMA CommitMsgType ==
  ASSUME NEW i \in Inst, NEW cmds \in SUBSET Cmds, NEW mock \in BOOLEAN,
         NEW max \in 0 .. MaxInst
  PROVE  CommitMsg(i, cmds, mock, max) \in CommitMsgs
  BY DEF CommitMsg, CommitMsgs

LEMMA CountedLog ==
  ASSUME NEW log \in Logs, NEW i \in Inst
  PROVE  [log EXCEPT ![i] = Counted(@)] \in Logs
<1>1. Counted(log[i]) \in Entry
  BY CountedType DEF Logs
<1> QED
  BY <1>1 DEF Logs

LEMMA PanicType ==
  ASSUME TypeOK, NEW r \in Replica, NEW where \in Panics, Panic(r, where)
  PROVE  panicked' \in [Replica -> Panics]
  BY DEF TypeOK, ChannelTypeOK, Panic

LEMMA RealAcceptReplyTypes ==
  ASSUME TypeOK, NEW r \in Replica, NEW s \in Replica, RealAcceptReply(r, s)
  PROVE  TypeOK'
<1> DEFINE m       == Next1(acceptReplyChan, r, s)
           i       == m.inst
           log     == [instanceSpace[r] EXCEPT ![i] = Counted(@)]
           commits == /\ log[i].status # "COMMITTED"
                      /\ EnoughAccepts(log[i].accepts)
           cmds    == log[i].cmds
           new     == IF commits THEN Committed(log, i, cmds, "COMMITTED")
                                 ELSE log
           upTo    == CommittedPrefix(new, committedUpTo[r], "COMMITTED")
           queue   == IF commits THEN AddToQueue(latestCmdSeen[r], cmds)
                                 ELSE latestCmdSeen[r]
<1>1. m \in ReplyMsgs /\ Received(acceptReplyChan, r, s) \in Channel(ReplyMsgs)
  BY ChannelTypes, ReceivedType DEF RealAcceptReply
<1>2. i \in Inst
  BY <1>1 DEF ReplyMsgs
<1>3. log \in Logs
  BY <1>2, LocalTypes, CountedLog
<1>4. cmds \in SUBSET Cmds
  BY <1>2, <1>3 DEF Logs, Entry
<1>5. new \in Logs
  <2> HIDE DEF log, cmds
  <2> QED
    BY <1>2, <1>3, <1>4, CommittedType DEF Status
<1>6. upTo \in -1 .. MaxInst - 1
  <2> HIDE DEF new
  <2> QED
    BY <1>5, LocalTypes, CommittedPrefixType
<1>7. queue \in SUBSET Cmds
  <2> HIDE DEF cmds
  <2> QED
    BY <1>4, LocalTypes, QueueTypes
<1>8. <<CommitMsg(i, cmds, FALSE, 0)>> \in Seq(CommitMsgs)
  <2> HIDE DEF cmds, i
  <2>1. 0 \in 0 .. MaxInst /\ FALSE \in BOOLEAN
    BY MaxInstAssumption
  <2>2. CommitMsg(i, cmds, FALSE, 0) \in CommitMsgs
    BY <1>2, <1>4, <2>1, CommitMsgType
  <2> QED
    BY <2>2, OneMessage
<1>9. Vote(r, phase[r], i, cmds) \in Decisions
  <2> HIDE DEF cmds, i
  <2> QED
    BY <1>2, <1>4, LocalTypes DEF Vote, Decisions
<1>10. RotationTypeOK'
  BY UnchangedRotation DEF TypeOK, RealAcceptReply
<1>11. CASE IsNil(instanceSpace[r], i)
  <2>1. LogTypeOK'
    BY <1>11 DEF TypeOK, LogTypeOK, RealAcceptReply, realVars, mockVars, clientVars
  <2>2. Panic(r, "nil instance in handleAcceptReply")
    BY <1>11 DEF RealAcceptReply
  <2>3. panicked' \in [Replica -> Panics]
    BY <2>2, PanicType DEF Panics
  <2>4. ChannelTypeOK'
    BY <1>1, <1>11, <2>3 DEF TypeOK, ChannelTypeOK, Channel, RealAcceptReply
  <2> QED
    BY <1>10, <2>1, <2>4 DEF TypeOK
<1>12. CASE ~IsNil(instanceSpace[r], i)
  <2>1. /\ instanceSpace' = [instanceSpace EXCEPT ![r] = new]
        /\ committedUpTo' = [committedUpTo EXCEPT ![r] = upTo]
        /\ latestCmdSeen' = [latestCmdSeen EXCEPT ![r] = queue]
    BY <1>12 DEF RealAcceptReply
  <2>2. LogTypeOK'
    <3> HIDE DEF new, upTo, queue
    <3>1. instanceSpace' \in [Replica -> [Inst -> Entry]]
      BY <1>5, <2>1 DEF TypeOK, LogTypeOK, Logs
    <3>2. committedUpTo' \in [Replica -> -1 .. MaxInst - 1]
      BY <1>6, <2>1 DEF TypeOK, LogTypeOK
    <3>3. latestCmdSeen' \in [Replica -> SUBSET Cmds]
      BY <1>7, <2>1 DEF TypeOK, LogTypeOK
    <3> QED
      BY <3>1, <3>2, <3>3
         DEF TypeOK, LogTypeOK, RealAcceptReply, mockVars, clientVars
  <2>3. commitChan' \in Channel(CommitMsgs)
    <3>1. commitChan' = IF commits
                        THEN Sent(commitChan, r, Others(r),
                                  <<CommitMsg(i, cmds, FALSE, 0)>>)
                        ELSE commitChan
      BY <1>12 DEF RealAcceptReply
    <3> HIDE DEF cmds, i, commits
    <3> QED
      BY <1>8, <3>1, ChannelTypes, SentType
  <2>4. decided' \subseteq Decisions
    <3>1. decided' = IF commits
                     THEN decided \union {Vote(r, phase[r], i, cmds)}
                     ELSE decided
      BY <1>12 DEF RealAcceptReply
    <3> HIDE DEF cmds, i, commits
    <3> QED
      BY <1>9, <3>1 DEF TypeOK, ChannelTypeOK
  <2>5. ChannelTypeOK'
    BY <1>1, <1>12, <2>3, <2>4
       DEF TypeOK, ChannelTypeOK, Channel, RealAcceptReply
  <2> QED
    BY <1>10, <2>2, <2>5 DEF TypeOK
<1> QED
  BY <1>11, <1>12

LEMMA GlobalMaxFromType ==
  ASSUME NEW log \in Logs, NEW i \in Inst
  PROVE  GlobalMaxFrom(log, i) \in 0 .. MaxInst
<1> DEFINE full == (N \div 2) + 1
           S == {n \in i .. MaxInst - 1 :
                    n + 1 < MaxInst => log[n + 1].accepts # full}
<1> HIDE DEF full
<1>1. MaxInst - 1 \in S /\ (\A n \in S : n \in Int /\ i <= n) /\ i \in Int
  BY MaxInstAssumption DEF Inst
<1>2. PICK n \in S : \A m \in S : n <= m
  <2> HIDE DEF S
  <2> QED
    BY <1>1, LeastInteger
<1>3. ASSUME NEW j \in i + 1 .. n
      PROVE  log[j].accepts = full
  <2>1. j - 1 \in i .. MaxInst - 1 /\ ~ (n <= j - 1) /\ (j - 1) + 1 = j
    BY <1>2, MaxInstAssumption DEF Inst
  <2> QED
    BY <1>2, <2>1
<1>4. \E k \in i .. MaxInst - 1 :
        /\ \A j \in i + 1 .. k : log[j].accepts = full
        /\ k + 1 < MaxInst => log[k + 1].accepts # full
  BY <1>2, <1>3
<1>5. GlobalMaxFrom(log, i) \in i .. MaxInst - 1
  BY <1>4 DEF GlobalMaxFrom, full
<1> QED
  BY <1>5, MaxInstAssumption DEF Inst

LEMMA MockAcceptReplyTypes ==
  ASSUME TypeOK, NEW r \in Replica, NEW s \in Replica, MockAcceptReply(r, s)
  PROVE  TypeOK'
<1> DEFINE m       == Next1(acceptReplyChan, r, s)
           i       == m.inst
           log     == [instanceSpaceMock[r] EXCEPT ![i] = Counted(@)]
           commits == /\ log[i].status # "MOCKCOMMITTED"
                      /\ EnoughAccepts(log[i].accepts)
           cmds    == log[i].cmds
           new     == IF commits THEN Committed(log, i, cmds, "MOCKCOMMITTED")
                                 ELSE log
           max     == globalMaxCommittedGhost[r]
           upTo    == CommittedPrefix(new, mockCommittedUpTo[r],
                                      "MOCKCOMMITTED")
           queue   == IF commits
                      THEN DeleteFromQueue(latestCmdSeenMock[r], cmds)
                      ELSE latestCmdSeenMock[r]
           globalMax == IF /\ log[i].status = "MOCKCOMMITTED"
                           /\ log[i].accepts = (N \div 2) + 1
                           /\ max = i - 1
                        THEN GlobalMaxFrom(log, i) ELSE max
<1>1. m \in ReplyMsgs /\ Received(acceptReplyChan, r, s) \in Channel(ReplyMsgs)
  BY ChannelTypes, ReceivedType DEF MockAcceptReply
<1>2. i \in Inst
  BY <1>1 DEF ReplyMsgs
<1>3. log \in Logs
  BY <1>2, LocalTypes, CountedLog
<1>4. cmds \in SUBSET Cmds
  BY <1>2, <1>3 DEF Logs, Entry
<1>5. new \in Logs
  <2> HIDE DEF log, cmds
  <2> QED
    BY <1>2, <1>3, <1>4, CommittedType DEF Status
<1>6. upTo \in -1 .. MaxInst - 1
  <2> HIDE DEF new
  <2> QED
    BY <1>5, LocalTypes, CommittedPrefixType
<1>7. queue \in SUBSET Cmds
  <2> HIDE DEF cmds
  <2> QED
    BY <1>4, LocalTypes, QueueTypes
<1>8. globalMax \in 0 .. MaxInst
  <2> HIDE DEF log, i
  <2> QED
    BY <1>2, <1>3, LocalTypes, GlobalMaxFromType
<1>9. <<CommitMsg(i, cmds, TRUE, max)>> \in Seq(CommitMsgs)
  <2> HIDE DEF cmds, i, max
  <2>1. max \in 0 .. MaxInst /\ TRUE \in BOOLEAN
    BY LocalTypes DEF max
  <2>2. CommitMsg(i, cmds, TRUE, max) \in CommitMsgs
    BY <1>2, <1>4, <2>1, CommitMsgType
  <2> QED
    BY <2>2, OneMessage
<1>10. RotationTypeOK'
  BY UnchangedRotation DEF TypeOK, MockAcceptReply
<1>11. CASE IsNil(instanceSpaceMock[r], i)
  <2>1. LogTypeOK'
    BY <1>11 DEF TypeOK, LogTypeOK, MockAcceptReply, realVars, mockVars, clientVars
  <2>2. Panic(r, "nil instance in handleAcceptReply for a MockAccept")
    BY <1>11 DEF MockAcceptReply
  <2>3. panicked' \in [Replica -> Panics]
    BY <2>2, PanicType DEF Panics
  <2>4. ChannelTypeOK'
    BY <1>1, <1>11, <2>3
       DEF TypeOK, ChannelTypeOK, Channel, MockAcceptReply, history
  <2> QED
    BY <1>10, <2>1, <2>4 DEF TypeOK
<1>12. CASE ~IsNil(instanceSpaceMock[r], i)
  <2>1. /\ instanceSpaceMock' = [instanceSpaceMock EXCEPT ![r] = new]
        /\ mockCommittedUpTo' = [mockCommittedUpTo EXCEPT ![r] = upTo]
        /\ latestCmdSeenMock' = [latestCmdSeenMock EXCEPT ![r] = queue]
        /\ globalMaxCommittedGhost' =
                [globalMaxCommittedGhost EXCEPT ![r] = globalMax]
    BY <1>12 DEF MockAcceptReply
  <2>2. LogTypeOK'
    <3> HIDE DEF new, upTo, queue, globalMax
    <3>1. instanceSpaceMock' \in [Replica -> [Inst -> Entry]]
      BY <1>5, <2>1 DEF TypeOK, LogTypeOK, Logs
    <3>2. mockCommittedUpTo' \in [Replica -> -1 .. MaxInst - 1]
      BY <1>6, <2>1 DEF TypeOK, LogTypeOK
    <3>3. latestCmdSeenMock' \in [Replica -> SUBSET Cmds]
      BY <1>7, <2>1 DEF TypeOK, LogTypeOK
    <3>4. globalMaxCommittedGhost' \in [Replica -> 0 .. MaxInst]
      BY <1>8, <2>1 DEF TypeOK, LogTypeOK
    <3> QED
      BY <3>1, <3>2, <3>3, <3>4
         DEF TypeOK, LogTypeOK, MockAcceptReply, realVars, clientVars
  <2>3. commitChan' \in Channel(CommitMsgs)
    <3>1. commitChan' = IF commits
                        THEN Sent(commitChan, r, Others(r),
                                  <<CommitMsg(i, cmds, TRUE, max)>>)
                        ELSE commitChan
      BY <1>12 DEF MockAcceptReply
    <3> HIDE DEF cmds, i, commits, max
    <3> QED
      BY <1>9, <3>1, ChannelTypes, SentType
  <2>4. ChannelTypeOK'
    BY <1>1, <1>12, <2>3
       DEF TypeOK, ChannelTypeOK, Channel, MockAcceptReply, history
  <2> QED
    BY <1>10, <2>2, <2>4 DEF TypeOK
<1> QED
  BY <1>11, <1>12

LEMMA RealCommitTypes ==
  ASSUME TypeOK, NEW r \in Replica, NEW s \in Replica, RealCommit(r, s)
  PROVE  TypeOK'
<1> DEFINE m     == Next1(commitChan, r, s)
           i     == m.inst
           log   == instanceSpace[r]
           new   == Committed(log, i, m.cmds, "COMMITTED")
           queue == AddToQueue(latestCmdSeen[r], log[i].cmds \union m.cmds)
           next  == NextNil(new)
           proposes == IsCoordinator(r) /\ queue # {}
           log2  == IF proposes
                    THEN [new EXCEPT ![next] = NewInstance("ACCEPTED", queue)]
                    ELSE new
           upTo  == CommittedPrefix(new, committedUpTo[r], "COMMITTED")
<1>1. m \in CommitMsgs /\ Received(commitChan, r, s) \in Channel(CommitMsgs)
  BY ChannelTypes, ReceivedType DEF RealCommit
<1>2. i \in Inst /\ m.cmds \in SUBSET Cmds
  BY <1>1 DEF CommitMsgs
<1>3. log \in Logs
  BY LocalTypes
<1>4. new \in Logs
  <2> HIDE DEF log, m
  <2> QED
    BY <1>2, <1>3, CommittedType DEF Status
<1>5. upTo \in -1 .. MaxInst - 1 /\ next \in 0 .. MaxInst
  <2> HIDE DEF new
  <2> QED
    BY <1>4, LocalTypes, CommittedPrefixType, NextNilType
<1>6. queue \in SUBSET Cmds
  <2>1. log[i].cmds \in SUBSET Cmds
    BY <1>2, <1>3 DEF Logs, Entry
  <2>2. latestCmdSeen[r] \in SUBSET Cmds
    BY LocalTypes
  <2> HIDE DEF log, m, i
  <2> QED
    BY <1>2, <2>1, <2>2, QueueTypes
<1>7. RotationTypeOK'
  BY UnchangedRotation DEF TypeOK, RealCommit
<1>8. CASE log[i].status = "COMMITTED"
  <2>1. LogTypeOK'
    BY <1>2, <1>8
       DEF TypeOK, LogTypeOK, RealCommit, realVars, mockVars, clientVars
  <2>2. panicked' = panicked \/ Panic(r, WrongSize)
    BY <1>8 DEF RealCommit
  <2>3. panicked' \in [Replica -> Panics]
    BY <2>2, PanicType DEF Panics, TypeOK, ChannelTypeOK
  <2>4. ChannelTypeOK'
    BY <1>1, <1>8, <2>3
       DEF TypeOK, ChannelTypeOK, Channel, RealCommit, history
  <2> QED
    BY <1>7, <2>1, <2>4 DEF TypeOK
<1>9. CASE log[i].status # "COMMITTED"
  <2>1. /\ proposes => next < MaxInst
        /\ instanceSpace' = [instanceSpace EXCEPT ![r] = log2]
        /\ committedUpTo' = [committedUpTo EXCEPT ![r] = upTo]
        /\ latestCmdSeen' = [latestCmdSeen EXCEPT ![r] =
                                IF proposes THEN {} ELSE queue]
    BY <1>9 DEF RealCommit
  <2>2. proposes => next \in Inst
    <3> HIDE DEF next, proposes
    <3> QED
      BY <1>5, <2>1, MaxInstAssumption DEF Inst
  <2>3. log2 \in Logs
    <3> HIDE DEF next, proposes, new, queue
    <3>1. NewInstance("ACCEPTED", queue) \in Entry
      BY <1>6, NewInstanceType DEF Status
    <3> QED
      BY <1>4, <2>2, <3>1 DEF Logs
  <2>4. LogTypeOK'
    <3> HIDE DEF log2, upTo, queue, proposes
    <3>1. instanceSpace' \in [Replica -> [Inst -> Entry]]
      BY <2>1, <2>3 DEF TypeOK, LogTypeOK, Logs
    <3>2. committedUpTo' \in [Replica -> -1 .. MaxInst - 1]
      BY <1>5, <2>1 DEF TypeOK, LogTypeOK
    <3>3. latestCmdSeen' \in [Replica -> SUBSET Cmds]
      BY <1>6, <2>1 DEF TypeOK, LogTypeOK
    <3> QED
      BY <3>1, <3>2, <3>3
         DEF TypeOK, LogTypeOK, RealCommit, mockVars, clientVars
  <2>5. acceptChan' \in Channel(AcceptMsgs)
    <3>1. acceptChan' = IF proposes
                        THEN Sent(acceptChan, r, Acceptors(r),
                                  <<AcceptMsg(r, Only(next, queue))>>)
                        ELSE acceptChan
      BY <1>9 DEF RealCommit
    <3> HIDE DEF next, queue, proposes
    <3>2. CASE proposes
      <4>1. <<AcceptMsg(r, Only(next, queue))>> \in Seq(AcceptMsgs)
        BY <1>6, <2>2, <3>2, AcceptMsgType
      <4> QED
        BY <3>1, <3>2, <4>1, ChannelTypes, SentType
    <3> QED
      BY <3>1, <3>2, ChannelTypes
  <2>6. ChannelTypeOK'
    BY <1>1, <1>9, <2>5
       DEF TypeOK, ChannelTypeOK, Channel, RealCommit, history
  <2> QED
    BY <1>7, <2>4, <2>6 DEF TypeOK
<1> QED
  BY <1>8, <1>9

LEMMA MockCommitTypes ==
  ASSUME TypeOK, NEW r \in Replica, NEW s \in Replica, MockCommit(r, s)
  PROVE  TypeOK'
<1> DEFINE m     == Next1(commitChan, r, s)
           i     == m.inst
           log   == instanceSpaceMock[r]
           new   == Committed(log, i, m.cmds, "MOCKCOMMITTED")
           queue == DeleteFromQueue(AddToQueue(latestCmdSeenMock[r], log[i].cmds),
                                 m.cmds)
           next  == NextNil(new)
           proposes == IsMockCoordinator(r) /\ queue # {}
           log2  == IF proposes
                    THEN [new EXCEPT ![next] = NewInstance("MOCKACCEPTED", queue)]
                    ELSE new
           upTo  == CommittedPrefix(new, mockCommittedUpTo[r], "MOCKCOMMITTED")
<1>1. m \in CommitMsgs /\ Received(commitChan, r, s) \in Channel(CommitMsgs)
  BY ChannelTypes, ReceivedType DEF MockCommit
<1>2. i \in Inst /\ m.cmds \in SUBSET Cmds /\ m.globalMax \in 0 .. MaxInst
  BY <1>1 DEF CommitMsgs
<1>3. log \in Logs
  BY LocalTypes
<1>4. new \in Logs
  <2> HIDE DEF log, m
  <2> QED
    BY <1>2, <1>3, CommittedType DEF Status
<1>5. upTo \in -1 .. MaxInst - 1 /\ next \in 0 .. MaxInst
  <2> HIDE DEF new
  <2> QED
    BY <1>4, LocalTypes, CommittedPrefixType, NextNilType
<1>6. queue \in SUBSET Cmds
  <2>1. log[i].cmds \in SUBSET Cmds
    BY <1>2, <1>3 DEF Logs, Entry
  <2>2. latestCmdSeenMock[r] \in SUBSET Cmds
    BY LocalTypes
  <2> HIDE DEF log, m, i
  <2> QED
    BY <1>2, <2>1, <2>2, QueueTypes
<1>7. RotationTypeOK'
  BY UnchangedRotation DEF TypeOK, MockCommit
<1>8. globalMaxCommittedGhost' \in [Replica -> 0 .. MaxInst]
  <2>1. globalMaxCommittedGhost' =
            [globalMaxCommittedGhost EXCEPT ![r] = m.globalMax]
    BY DEF MockCommit
  <2> HIDE DEF m
  <2> QED
    BY <1>2, <2>1 DEF TypeOK, LogTypeOK
<1>9. CASE log[i].status = "MOCKCOMMITTED"
  <2>1. LogTypeOK'
    BY <1>2, <1>9, <1>8
       DEF TypeOK, LogTypeOK, MockCommit, realVars, mockVars, clientVars
  <2>2. panicked' = panicked \/ Panic(r, WrongSize)
    BY <1>9 DEF MockCommit
  <2>3. panicked' \in [Replica -> Panics]
    BY <2>2, PanicType DEF Panics, TypeOK, ChannelTypeOK
  <2>4. ChannelTypeOK'
    BY <1>1, <1>9, <2>3
       DEF TypeOK, ChannelTypeOK, Channel, MockCommit, history
  <2> QED
    BY <1>7, <2>1, <2>4 DEF TypeOK
<1>10. CASE log[i].status # "MOCKCOMMITTED"
  <2>1. /\ proposes => next < MaxInst
        /\ instanceSpaceMock' = [instanceSpaceMock EXCEPT ![r] = log2]
        /\ mockCommittedUpTo' = [mockCommittedUpTo EXCEPT ![r] = upTo]
        /\ latestCmdSeenMock' = [latestCmdSeenMock EXCEPT ![r] =
                                IF proposes THEN {} ELSE queue]
    BY <1>10 DEF MockCommit
  <2>2. proposes => next \in Inst
    <3> HIDE DEF next, proposes
    <3> QED
      BY <1>5, <2>1, MaxInstAssumption DEF Inst
  <2>3. log2 \in Logs
    <3> HIDE DEF next, proposes, new, queue
    <3>1. NewInstance("MOCKACCEPTED", queue) \in Entry
      BY <1>6, NewInstanceType DEF Status
    <3> QED
      BY <1>4, <2>2, <3>1 DEF Logs
  <2>4. LogTypeOK'
    <3> HIDE DEF log2, upTo, queue, proposes
    <3>1. instanceSpaceMock' \in [Replica -> [Inst -> Entry]]
      BY <2>1, <2>3 DEF TypeOK, LogTypeOK, Logs
    <3>2. mockCommittedUpTo' \in [Replica -> -1 .. MaxInst - 1]
      BY <1>5, <2>1 DEF TypeOK, LogTypeOK
    <3>3. latestCmdSeenMock' \in [Replica -> SUBSET Cmds]
      BY <1>6, <2>1 DEF TypeOK, LogTypeOK
    <3> QED
      BY <3>1, <3>2, <3>3, <1>8
         DEF TypeOK, LogTypeOK, MockCommit, realVars, clientVars
  <2>5. acceptChan' \in Channel(AcceptMsgs)
    <3>1. acceptChan' = IF proposes
                        THEN Sent(acceptChan, r, Acceptors(r),
                                  <<AcceptMsg(r, Only(next, queue))>>)
                        ELSE acceptChan
      BY <1>10 DEF MockCommit
    <3> HIDE DEF next, queue, proposes
    <3>2. CASE proposes
      <4>1. <<AcceptMsg(r, Only(next, queue))>> \in Seq(AcceptMsgs)
        BY <1>6, <2>2, <3>2, AcceptMsgType
      <4> QED
        BY <3>1, <3>2, <4>1, ChannelTypes, SentType
    <3> QED
      BY <3>1, <3>2, ChannelTypes
  <2>6. ChannelTypeOK'
    BY <1>1, <1>10, <2>5
       DEF TypeOK, ChannelTypeOK, Channel, MockCommit, history
  <2> QED
    BY <1>7, <2>4, <2>6 DEF TypeOK
<1> QED
  BY <1>9, <1>10

-----------------------------------------------------------------------------
(* Rotation *)

IsMessages(f) == \A s \in DOMAIN f : s \in Replica /\ f[s] \in RotateReports

LEMMA OwnReportType ==
  ASSUME TypeOK, NEW r \in Replica
  PROVE  OwnReport(r) \in RotateReports
<1>1. globalMaxCommittedGhost[r] \in Nat /\ 0 \in Nat
  BY LocalTypes, MaxInstAssumption
<1>2. /\ Report(instanceSpace[r], 0, "ACCEPTED", "COMMITTED") \in LogReports
      /\ Report(instanceSpaceMock[r], globalMaxCommittedGhost[r],
                "MOCKACCEPTED", "MOCKCOMMITTED") \in LogReports
  BY <1>1, LocalTypes, ReportType
<1> QED
  BY <1>2 DEF OwnReport, RotateReports

LEMMA RotatesSentType ==
  ASSUME TypeOK, NEW r \in Replica, NEW sends \in BOOLEAN
  PROVE  /\ RotatesSent(r, sends) \subseteq RotateMsgs
         /\ RotatedNow(r, sends) \subseteq (Replica \X Phase)
<1>1. phase[r] \in Phase
  BY LocalTypes
<1>2. ASSUME NEW d \in Replica
      PROVE  RotateMsg(r, d) \in RotateMsgs
  BY <1>1, OwnReportType DEF RotateMsg, RotateMsgs
<1> QED
  BY <1>1, <1>2 DEF RotatesSent, RotatedNow, Others

LEMMA TrackType ==
  ASSUME NEW f, IsMessages(f), NEW s \in Replica, NEW report \in RotateReports
  PROVE  IsMessages(Track(f, s, report))
  BY DEF IsMessages, Track

LEMMA TrackedOwnType ==
  ASSUME TypeOK, NEW r \in Replica, NEW sends \in BOOLEAN
  PROVE  IsMessages(TrackedOwn(r, sends))
<1>1. IsMessages(rotateMessages[r])
  BY DEF TypeOK, RotationTypeOK, IsMessages
<1> QED
  BY <1>1, OwnReportType, TrackType DEF TrackedOwn

LEMMA RotateMessagesAfterType ==
  ASSUME TypeOK, NEW r \in Replica, NEW m \in rotateChan, NEW sends \in BOOLEAN
  PROVE  IsMessages(RotateMessagesAfter(r, m, sends))
<1>1. m.src \in Replica /\ m.report \in RotateReports
  BY DEF TypeOK, RotationTypeOK, RotateMsgs
<1>2. IsMessages(TrackedOwn(r, sends))
  BY TrackedOwnType
<1> QED
  BY <1>1, <1>2, TrackType DEF RotateMessagesAfter

LEMMA RotatePanicType ==
  ASSUME NEW r
  PROVE  RotatePanic(r) \in Panics
  BY DEF RotatePanic, Panics

\* what an action that touches the rotation of r only has to assign
LEMMA RotationTypes ==
  ASSUME TypeOK, NEW r \in Replica,
         NEW p \in Phase, phase' = [phase EXCEPT ![r] = p],
         NEW sent \in BOOLEAN, sentForPhase' = [sentForPhase EXCEPT ![r] = sent],
         NEW f, IsMessages(f),
         rotateMessages' = [rotateMessages EXCEPT ![r] = f],
         rotateChan' \subseteq RotateMsgs,
         rotated' \subseteq (Replica \X Phase)
  PROVE  RotationTypeOK'
<1>1. phase' \in [Replica -> Phase] /\ sentForPhase' \in [Replica -> BOOLEAN]
  BY DEF TypeOK, RotationTypeOK
<1>2. /\ DOMAIN rotateMessages' = Replica
      /\ \A x \in Replica : rotateMessages'[x] =
                                IF x = r THEN f ELSE rotateMessages[x]
  BY DEF TypeOK, RotationTypeOK
<1>3. ASSUME NEW x \in Replica
      PROVE  \A s \in DOMAIN rotateMessages'[x] :
                s \in Replica /\ rotateMessages'[x][s] \in RotateReports
  BY <1>2 DEF TypeOK, RotationTypeOK, IsMessages
<1> QED
  BY <1>1, <1>2, <1>3 DEF RotationTypeOK

\* ... and one that touches nothing else
LEMMA OtherTypes ==
  ASSUME TypeOK,
         UNCHANGED <<realVars, mockVars, clientVars, channels, history>>
  PROVE  LogTypeOK' /\ (panicked' \in [Replica -> Panics] => ChannelTypeOK')
<1>1. LogTypeOK'
  BY DEF TypeOK, LogTypeOK, realVars, mockVars, clientVars
<1>2. panicked' \in [Replica -> Panics] => ChannelTypeOK'
  BY DEF TypeOK, ChannelTypeOK, channels, history
<1> QED
  BY <1>1, <1>2

LEMMA SuspectTypes ==
  ASSUME TypeOK, NEW r \in Replica, Suspect(r)
  PROVE  TypeOK'
<1>1. UNCHANGED <<realVars, mockVars, clientVars, channels, history>>
  BY DEF Suspect
<1>2. CASE RotatePanic(r) # "no"
  <2>1. RotationTypeOK'
    BY <1>2, UnchangedRotation DEF Suspect, TypeOK
  <2>2. panicked' \in [Replica -> Panics]
    BY <1>2, RotatePanicType, PanicType DEF Suspect
  <2> QED
    BY <1>1, <2>1, <2>2, OtherTypes DEF TypeOK
<1>3. CASE RotatePanic(r) = "no"
  <2>1. /\ phase' = [phase EXCEPT ![r] = phase[r]]
        /\ sentForPhase' = [sentForPhase EXCEPT ![r] = TRUE]
        /\ rotateMessages' = [rotateMessages EXCEPT ![r] = TrackedOwn(r, TRUE)]
        /\ rotateChan' = rotateChan \union RotatesSent(r, TRUE)
        /\ rotated' = rotated \union RotatedNow(r, TRUE)
        /\ panicked' = panicked
    BY <1>3 DEF Suspect, TypeOK, RotationTypeOK
  <2>2. /\ rotateChan' \subseteq RotateMsgs
        /\ rotated' \subseteq (Replica \X Phase)
    BY <2>1, RotatesSentType DEF TypeOK, RotationTypeOK
  <2>3. IsMessages(TrackedOwn(r, TRUE)) /\ phase[r] \in Phase
    BY TrackedOwnType, LocalTypes
  <2>4. RotationTypeOK'
    BY <2>1, <2>2, <2>3, RotationTypes
  <2>5. panicked' \in [Replica -> Panics]
    BY <2>1 DEF TypeOK, ChannelTypeOK
  <2> QED
    BY <1>1, <2>4, <2>5, OtherTypes DEF TypeOK
<1> QED
  BY <1>2, <1>3

LEMMA RotatePanicsTypes ==
  ASSUME TypeOK, NEW r \in Replica, NEW m \in rotateChan, RotatePanics(r, m)
  PROVE  TypeOK'
<1>1. UNCHANGED <<realVars, mockVars, clientVars, channels, history>>
  BY DEF RotatePanics
<1>2. RotationTypeOK'
  BY DEF RotatePanics, TypeOK, RotationTypeOK
<1>3. panicked' \in [Replica -> Panics]
  BY RotatePanicType, PanicType DEF RotatePanics
<1> QED
  BY <1>1, <1>2, <1>3, OtherTypes DEF TypeOK

LEMMA HandleRotateTypes ==
  ASSUME TypeOK, NEW r \in Replica, NEW m \in rotateChan,
         NEW sends \in BOOLEAN, HandleRotate(r, m, sends)
  PROVE  TypeOK'
<1>1. UNCHANGED <<realVars, mockVars, clientVars, channels, history>>
  BY DEF HandleRotate
<1>2. /\ phase' = [phase EXCEPT ![r] = phase[r]]
      /\ sentForPhase' = [sentForPhase EXCEPT ![r] = sentForPhase[r] \/ sends]
      /\ rotateMessages' = [rotateMessages EXCEPT ![r] =
                                RotateMessagesAfter(r, m, sends)]
      /\ rotateChan' = (rotateChan \ {m}) \union RotatesSent(r, sends)
      /\ rotated' = rotated \union RotatedNow(r, sends)
      /\ panicked' = panicked
  BY DEF HandleRotate, StaysInPhase, TypeOK, RotationTypeOK
<1>3. /\ rotateChan' \subseteq RotateMsgs
      /\ rotated' \subseteq (Replica \X Phase)
  BY <1>2, RotatesSentType DEF TypeOK, RotationTypeOK
<1>4. /\ IsMessages(RotateMessagesAfter(r, m, sends))
      /\ phase[r] \in Phase
      /\ (sentForPhase[r] \/ sends) \in BOOLEAN
  BY RotateMessagesAfterType, LocalTypes
<1>5. RotationTypeOK'
  BY <1>2, <1>3, <1>4, RotationTypes
<1>6. panicked' \in [Replica -> Panics]
  BY <1>2 DEF TypeOK, ChannelTypeOK
<1> QED
  BY <1>1, <1>5, <1>6, OtherTypes DEF TypeOK

LEMMA RotateAheadTypes ==
  ASSUME TypeOK, NEW r \in Replica, NEW m \in rotateChan, RotateAhead(r, m)
  PROVE  TypeOK'
<1>1. UNCHANGED <<realVars, mockVars, clientVars, channels, history>>
  BY DEF RotateAhead
<1>2. /\ phase' = [phase EXCEPT ![r] = m.phase]
      /\ sentForPhase' = [sentForPhase EXCEPT ![r] = FALSE]
      /\ rotateMessages' = [rotateMessages EXCEPT ![r] =
                                Track(<<>>, m.src, m.report)]
      /\ rotateChan' = rotateChan \ (Stale(r, m.phase) \union {m})
      /\ rotated' = rotated
      /\ panicked' = panicked
  BY DEF RotateAhead
<1>3. /\ rotateChan' \subseteq RotateMsgs
      /\ rotated' \subseteq (Replica \X Phase)
  BY <1>2 DEF TypeOK, RotationTypeOK
<1>4. /\ m.phase \in Phase
      /\ m.src \in Replica
      /\ m.report \in RotateReports
  BY DEF TypeOK, RotationTypeOK, RotateMsgs
<1>5. IsMessages(<<>>)
  BY DEF IsMessages
<1>6. IsMessages(Track(<<>>, m.src, m.report))
  BY <1>4, <1>5, TrackType
<1>7. RotationTypeOK'
  BY <1>2, <1>3, <1>4, <1>6, RotationTypes
<1>8. panicked' \in [Replica -> Panics]
  BY <1>2 DEF TypeOK, ChannelTypeOK
<1> QED
  BY <1>1, <1>7, <1>8, OtherTypes DEF TypeOK

-----------------------------------------------------------------------------
(* A quorum of Rotates *)

LEMMA InstancesAreFinite ==
  ASSUME NEW S \in SUBSET Inst
  PROVE  IsFiniteSet(S) /\ Cardinality(S) \in Nat
<1>1. S \in SUBSET (0 .. MaxInst) /\ MaxInst \in Nat
  BY MaxInstAssumption DEF Inst
<1> QED
  BY <1>1, SubsetsAreFinite

LEMMA OrdersType ==
  ASSUME NEW S \in SUBSET Inst, NEW order \in Orders(S)
  PROVE  order \in Seq(S)
<1>1. Cardinality(S) \in Nat
  BY InstancesAreFinite
<1>2. order \in [1 .. Cardinality(S) -> S]
  BY DEF Orders
<1> QED
  BY <1>1, <1>2, EnumeratedSeq

LEMMA UntilType ==
  ASSUME NEW S, NEW order \in Seq(S), NEW stop
  PROVE  Until(order, stop) \in Seq(S)
<1> DEFINE len == Len(order)
           C == {n \in 0 .. len : n < len => order[n + 1] \in stop}
<1>1. len \in Nat /\ \A k \in 1 .. len : order[k] \in S
  BY LenProperties, ElementOfSeq
<1> HIDE DEF len
<1>2. C \subseteq Nat /\ C # {}
  <2>1. len \in C /\ C \subseteq 0 .. len /\ 0 .. len \subseteq Nat
    BY <1>1
  <2> HIDE DEF C
  <2> QED
    BY <2>1
<1>3. PICK n \in C : \A m \in C : n <= m
  <2> HIDE DEF C
  <2> QED
    BY <1>2, LeastNatural
<1>4. ASSUME NEW k \in 1 .. n
      PROVE  order[k] \notin stop
  <2>1. k - 1 \in 0 .. len /\ ~ (n <= k - 1) /\ (k - 1) + 1 = k
    BY <1>1, <1>3
  <2> QED
    BY <1>3, <2>1
<1>5. \E k \in 0 .. len : /\ \A j \in 1 .. k : order[j] \notin stop
                          /\ k < len => order[k + 1] \in stop
  BY <1>3, <1>4
<1> DEFINE last == CHOOSE k \in 0 .. len :
                        /\ \A j \in 1 .. k : order[j] \notin stop
                        /\ k < len => order[k + 1] \in stop
<1>6. last \in 0 .. len
  BY <1>5
<1>7. Until(order, stop) = SubSeq(order, 1, last)
  BY DEF Until, len
<1> HIDE DEF last
<1>8. last \in Int /\ \A k \in 1 .. last : order[k] \in S
  BY <1>1, <1>6
<1> QED
  BY <1>7, <1>8, SubSeqProperties

LEMMA CommitsForType ==
  ASSUME NEW md \in LogReports, NEW order \in Seq(DOMAIN md), NEW insts,
         NEW mock \in BOOLEAN, NEW max \in 0 .. MaxInst
  PROVE  CommitsFor(order, insts, md, mock, max) \in Seq(CommitMsgs)
<1> DEFINE S  == {k \in DOMAIN order : order[k] \in insts}
           at == Ascending(S)
           n  == Cardinality(S)
<1>1. /\ Len(order) \in Nat
      /\ DOMAIN order = 1 .. Len(order)
      /\ \A k \in 1 .. Len(order) : order[k] \in DOMAIN md
  BY LenProperties, ElementOfSeq
<1>2. S \in SUBSET (0 .. Len(order))
  BY <1>1
<1>3. n \in Nat /\ at \in [1 .. n -> S]
  <2> HIDE DEF S
  <2> QED
    BY <1>1, <1>2, AscendingType
<1>4. ASSUME NEW k \in 1 .. n
      PROVE  CommitMsg(order[at[k]], md[order[at[k]]].cmds, mock, max)
                \in CommitMsgs
  <2>1. at[k] \in DOMAIN order
    BY <1>3
  <2>2. order[at[k]] \in DOMAIN md
    BY <1>1, <2>1
  <2>3. order[at[k]] \in Inst /\ md[order[at[k]]].cmds \in SUBSET Cmds
    BY <2>2, ReportedInstance
  <2> QED
    BY <2>3, CommitMsgType
<1>5. CommitsFor(order, insts, md, mock, max) =
        [k \in 1 .. n |-> CommitMsg(order[at[k]], md[order[at[k]]].cmds,
                                    mock, max)]
  BY <1>3 DEF CommitsFor
<1> HIDE DEF n, at
<1>6. CommitsFor(order, insts, md, mock, max) \in [1 .. n -> CommitMsgs]
  BY <1>4, <1>5
<1> QED
  BY <1>3, <1>6, EnumeratedSeq

LEMMA MergedReportsType ==
  ASSUME NEW messages, IsMessages(messages), NEW p
  PROVE  /\ Merged(MergedReports(messages, p, "real"), "real") \subseteq LogReports
         /\ Merged(MergedReports(messages, p, "mock"), "mock") \subseteq LogReports
<1>1. IsFiniteSet(DOMAIN messages \ Standbys(p))
  <2>1. DOMAIN messages \ Standbys(p) \in SUBSET (0 .. N)
    BY NAssumption DEF IsMessages, Replica
  <2> QED
    BY <2>1, NAssumption, SubsetsAreFinite
<1>2. ASSUME NEW field \in {"real", "mock"}
      PROVE  Merged(MergedReports(messages, p, field), field) \subseteq LogReports
  <2> DEFINE reports == MergedReports(messages, p, field)
  <2>1. DOMAIN reports = DOMAIN messages \ Standbys(p)
    BY DEF MergedReports
  <2>2. \A s \in DOMAIN reports : reports[s] \in LogReports
    BY DEF MergedReports, IsMessages, RotateReports
  <2> HIDE DEF reports
  <2>3. Merged(reports, field) \subseteq LogReports
    BY <1>1, <2>1, <2>2, MergedType
  <2> QED
    BY <2>3 DEF reports
<1> QED
  BY <1>2

\* a panic in processRotateQuorum leaves the logs as they are
LEMMA StopsInRotationTypes ==
  ASSUME TypeOK, NEW r \in Replica, NEW m \in rotateChan,
         NEW sends \in BOOLEAN, StopsInRotation(r, m, sends),
         NEW where \in Panics, Panic(r, where),
         commitChan' \in Channel(CommitMsgs),
         rotateChan' \subseteq RotateMsgs, rotated' \subseteq (Replica \X Phase),
         UNCHANGED <<unbatched, acceptExecTimeChan, acceptReplyChan, history>>
  PROVE  TypeOK'
<1>1. LogTypeOK'
  BY DEF StopsInRotation, TypeOK, LogTypeOK, realVars, mockVars
<1>2. panicked' \in [Replica -> Panics]
  BY PanicType
<1>3. ChannelTypeOK'
  BY <1>2 DEF StopsInRotation, TypeOK, ChannelTypeOK, Channel, history
<1>4. /\ phase' = [phase EXCEPT ![r] = phase[r]]
      /\ sentForPhase' = [sentForPhase EXCEPT ![r] = sentForPhase[r] \/ sends]
      /\ rotateMessages' = [rotateMessages EXCEPT ![r] =
                                RotateMessagesAfter(r, m, sends)]
  BY DEF StopsInRotation, StaysInPhase, TypeOK, RotationTypeOK
<1>5. /\ IsMessages(RotateMessagesAfter(r, m, sends))
      /\ phase[r] \in Phase
      /\ (sentForPhase[r] \/ sends) \in BOOLEAN
  BY RotateMessagesAfterType, LocalTypes
<1>6. RotationTypeOK'
  BY <1>4, <1>5, RotationTypes
<1> QED
  BY <1>1, <1>3, <1>6 DEF TypeOK

LEMMA BeginPhaseTypes ==
  ASSUME TypeOK, NEW r \in Replica, NEW p \in Nat,
         NEW log \in Logs, NEW mockLog \in Logs,
         NEW queue \in SUBSET Cmds, NEW mockQueue \in SUBSET Cmds,
         BeginPhase(r, p, log, mockLog, queue, mockQueue),
         committedUpTo' \in [Replica -> -1 .. MaxInst - 1],
         mockCommittedUpTo' \in [Replica -> -1 .. MaxInst - 1],
         rotateChan' \subseteq RotateMsgs, rotated' \subseteq (Replica \X Phase),
         UNCHANGED <<unbatched, globalMaxCommittedGhost>>
  PROVE  RotationTypeOK' /\ LogTypeOK' /\ acceptChan' \in Channel(AcceptMsgs)
<1> DEFINE upTo   == committedUpTo'[r]
           upToM  == mockCommittedUpTo'[r]
           leads  == r = Coordinator(p)
           mocks  == r = MockCoordinator(p)
           real   == LongAccept(log, upTo, queue, batchedCmdsChan[r], "ACCEPTED")
           mock   == LongAccept(mockLog, upToM, mockQueue, {}, "MOCKACCEPTED")
           accept == IF leads THEN real.accept ELSE mock.accept
<1>1. upTo \in -1 .. MaxInst - 1 /\ upToM \in -1 .. MaxInst - 1
  OBVIOUS
<1>2. /\ p <= MaxPhase
      /\ leads => real.fits
      /\ mocks => mock.fits
      /\ phase' = [phase EXCEPT ![r] = p]
      /\ sentForPhase' = [sentForPhase EXCEPT ![r] = FALSE]
      /\ rotateMessages' = [rotateMessages EXCEPT ![r] = <<>>]
      /\ instanceSpace' = [instanceSpace EXCEPT ![r] =
                              IF leads THEN real.log ELSE log]
      /\ instanceSpaceMock' = [instanceSpaceMock EXCEPT ![r] =
                                  IF mocks THEN mock.log ELSE mockLog]
      /\ latestCmdSeen' = [latestCmdSeen EXCEPT ![r] =
                              IF leads THEN {} ELSE queue]
      /\ latestCmdSeenMock' = [latestCmdSeenMock EXCEPT ![r] =
                                  IF mocks THEN {} ELSE mockQueue]
      /\ batchedCmdsChan' = [batchedCmdsChan EXCEPT ![r] =
                              IF leads THEN {} ELSE @]
      /\ acceptChan' = IF (leads \/ mocks) /\ DOMAIN accept # {}
                       THEN Sent(acceptChan, r, Others(r),
                                 <<[phase |-> p, accept |-> accept]>>)
                       ELSE acceptChan
  BY DEF BeginPhase
<1>3. p \in Phase
  BY <1>2, MaxPhaseAssumption DEF Phase
<1>4. leads => /\ real.log \in Logs
               /\ DOMAIN real.accept # {} => real.accept \in Accepts
  <2> HIDE DEF upTo, leads
  <2>1. batchedCmdsChan[r] \in SUBSET Cmds /\ "ACCEPTED" \in Status
    BY LocalTypes DEF Status
  <2> QED
    BY <1>1, <1>2, <2>1, LongAcceptType
<1>5. mocks => /\ mock.log \in Logs
               /\ DOMAIN mock.accept # {} => mock.accept \in Accepts
  <2> HIDE DEF upToM, mocks
  <2>1. {} \in SUBSET Cmds /\ "MOCKACCEPTED" \in Status
    BY DEF Status
  <2> QED
    BY <1>1, <1>2, <2>1, LongAcceptType
<1> HIDE DEF upTo, upToM, leads, mocks, real, mock
<1>6. RotationTypeOK'
  <2>1. IsMessages(<<>>)
    BY DEF IsMessages
  <2> QED
    BY <1>2, <1>3, <2>1, RotationTypes
<1>7. LogTypeOK'
  <2>1. instanceSpace' \in [Replica -> [Inst -> Entry]]
    BY <1>2, <1>4 DEF TypeOK, LogTypeOK, Logs
  <2>2. instanceSpaceMock' \in [Replica -> [Inst -> Entry]]
    BY <1>2, <1>5 DEF TypeOK, LogTypeOK, Logs
  <2>3. /\ latestCmdSeen' \in [Replica -> SUBSET Cmds]
        /\ latestCmdSeenMock' \in [Replica -> SUBSET Cmds]
        /\ batchedCmdsChan' \in [Replica -> SUBSET Cmds]
    BY <1>2 DEF TypeOK, LogTypeOK
  <2> QED
    BY <2>1, <2>2, <2>3 DEF TypeOK, LogTypeOK
<1>8. acceptChan' \in Channel(AcceptMsgs)
  <2>1. CASE (leads \/ mocks) /\ DOMAIN accept # {}
    <3>1. accept \in Accepts
      BY <1>4, <1>5, <2>1
    <3> HIDE DEF accept
    <3>2. [phase |-> p, accept |-> accept] \in AcceptMsgs
      BY <1>3, <3>1 DEF AcceptMsgs
    <3>3. <<[phase |-> p, accept |-> accept]>> \in Seq(AcceptMsgs)
      BY <3>2, OneMessage
    <3> QED
      BY <1>2, <2>1, <3>3, ChannelTypes, SentType
  <2>2. CASE ~((leads \/ mocks) /\ DOMAIN accept # {})
    BY <1>2, <2>2, ChannelTypes
  <2> QED
    BY <2>1, <2>2
<1> QED
  BY <1>6, <1>7, <1>8

LEMMA ProcessRotateQuorumTypes ==
  ASSUME TypeOK, NEW r \in Replica, NEW m \in rotateChan,
         NEW sends \in BOOLEAN,
         NEW md \in LogReports, NEW mdMock \in LogReports,
         NEW ro \in Orders(DOMAIN md), NEW mo \in Orders(DOMAIN mdMock),
         ProcessRotateQuorum(r, m, sends, md, mdMock, ro, mo),
         rotateChan' \subseteq RotateMsgs, rotated' \subseteq (Replica \X Phase),
         UNCHANGED <<unbatched, acceptExecTimeChan, acceptReplyChan, history>>
  PROVE  TypeOK'
<1> DEFINE log      == instanceSpace[r]
           mockLog  == instanceSpaceMock[r]
           bad      == RotateConflicts(log, md, {"COMMITTED", "ACCEPTED"})
           badMock  == RotateConflicts(mockLog, mdMock, {"MOCKACCEPTED"})
           commits  == CommitsOnRotate(log, md, ro, "ACCEPTED")
           mocks    == CommitsOnRotate(mockLog, mdMock, mo, "MOCKACCEPTED")
           afterRO  == RealAfterRotate(log, md, ro)
           afterMO  == MockAfterRotate(mockLog, mdMock, mo)
           afterBoth == RealAfterMockRotate(afterRO, mockLog, mdMock, mo)
           done     == Until(ro, bad)
           doneMock == IF bad = {} THEN Until(mo, badMock) ELSE <<>>
           queue    == AddToQueue(latestCmdSeen[r],
                                  UNION {md[i].cmds : i \in commits})
           mockQueue == DeleteFromQueue(latestCmdSeenMock[r],
                                  UNION {mdMock[i].cmds : i \in mocks})
<1>1. log \in Logs /\ mockLog \in Logs
  BY LocalTypes
<1>2. commitChan' \in Channel(CommitMsgs)
  <2> DEFINE sent1 == CommitsFor(done, RealCommitted(log, md, ro), md, FALSE, 0)
             sent2 == CommitsFor(doneMock, mocks, mdMock, TRUE,
                                 globalMaxCommittedGhost[r])
  <2>1. commitChan' = Sent(commitChan, r, Others(r), sent1 \o sent2)
    BY DEF ProcessRotateQuorum
  <2>2. DOMAIN md \in SUBSET Inst /\ DOMAIN mdMock \in SUBSET Inst
    BY LogReportType
  <2>3. ro \in Seq(DOMAIN md) /\ mo \in Seq(DOMAIN mdMock)
    BY <2>2, OrdersType
  <2>4. done \in Seq(DOMAIN md)
    BY <2>3, UntilType
  <2>5. doneMock \in Seq(DOMAIN mdMock)
    <3>1. Until(mo, badMock) \in Seq(DOMAIN mdMock)
      BY <2>3, UntilType
    <3>2. <<>> \in Seq(DOMAIN mdMock)
      BY EmptySeq
    <3> QED
      BY <3>1, <3>2
  <2>6. /\ 0 \in 0 .. MaxInst
        /\ globalMaxCommittedGhost[r] \in 0 .. MaxInst
        /\ TRUE \in BOOLEAN /\ FALSE \in BOOLEAN
    BY LocalTypes, MaxInstAssumption
  <2>7. sent1 \in Seq(CommitMsgs)
    <3> HIDE DEF done
    <3> QED
      BY <2>4, <2>6, CommitsForType
  <2>8. sent2 \in Seq(CommitMsgs)
    <3> HIDE DEF doneMock
    <3> QED
      BY <2>5, <2>6, CommitsForType
  <2> HIDE DEF sent1, sent2
  <2>9. sent1 \o sent2 \in Seq(CommitMsgs)
    BY <2>7, <2>8, ConcatProperties
  <2> QED
    BY <2>1, <2>9, ChannelTypes, SentType
<1>3. CASE bad # {} \/ badMock # {}
  <2>1. /\ Panic(r, "locally accepted or committed, but receive commit")
        /\ StopsInRotation(r, m, sends)
    BY <1>3 DEF ProcessRotateQuorum
  <2>2. "locally accepted or committed, but receive commit" \in Panics
    BY DEF Panics
  <2> QED
    BY <1>2, <2>1, <2>2, StopsInRotationTypes
<1>4. CASE ~(bad # {} \/ badMock # {})
  <2>1. /\ committedUpTo' = [committedUpTo EXCEPT ![r] =
                CommittedPrefix(afterRO, committedUpTo[r], "COMMITTED")]
        /\ mockCommittedUpTo' = [mockCommittedUpTo EXCEPT ![r] =
                CommittedPrefix(afterMO, mockCommittedUpTo[r], "MOCKCOMMITTED")]
        /\ BeginPhase(r, phase[r] + 1, afterBoth, afterMO, queue, mockQueue)
        /\ UNCHANGED <<globalMaxCommittedGhost, panicked>>
    BY <1>4 DEF ProcessRotateQuorum
  <2>2. afterRO \in Logs /\ afterMO \in Logs
    BY <1>1, RealAfterRotateType, MockAfterRotateType
  <2>3. afterBoth \in Logs
    <3> HIDE DEF afterRO
    <3> QED
      BY <2>2, RealAfterMockRotateType
  <2>4. queue \in SUBSET Cmds
    <3>1. UNION {md[i].cmds : i \in commits} \in SUBSET Cmds
      BY ReportedInstance DEF CommitsOnRotate
    <3> QED
      BY <3>1, LocalTypes, QueueTypes
  <2>5. mockQueue \in SUBSET Cmds
    <3>1. UNION {mdMock[i].cmds : i \in mocks} \in SUBSET Cmds
      BY ReportedInstance DEF CommitsOnRotate
    <3> QED
      BY <3>1, LocalTypes, QueueTypes
  <2>6. phase[r] + 1 \in Nat
    BY LocalTypes DEF Phase
  <2> HIDE DEF afterRO, afterMO, afterBoth, queue, mockQueue
  <2>7. /\ committedUpTo' \in [Replica -> -1 .. MaxInst - 1]
        /\ mockCommittedUpTo' \in [Replica -> -1 .. MaxInst - 1]
    <3>1. /\ CommittedPrefix(afterRO, committedUpTo[r], "COMMITTED")
                \in -1 .. MaxInst - 1
          /\ CommittedPrefix(afterMO, mockCommittedUpTo[r], "MOCKCOMMITTED")
                \in -1 .. MaxInst - 1
      BY <2>2, LocalTypes, CommittedPrefixType
    <3> QED
      BY <2>1, <3>1 DEF TypeOK, LogTypeOK
  <2>8. RotationTypeOK' /\ LogTypeOK' /\ acceptChan' \in Channel(AcceptMsgs)
    BY <2>1, <2>2, <2>3, <2>4, <2>5, <2>6, <2>7, BeginPhaseTypes
  <2>9. ChannelTypeOK'
    BY <1>2, <2>1, <2>8 DEF TypeOK, ChannelTypeOK, Channel, history
  <2> QED
    BY <2>8, <2>9 DEF TypeOK
<1> QED
  BY <1>3, <1>4

LEMMA CompleteRotationTypes ==
  ASSUME TypeOK, NEW r \in Replica, NEW m \in rotateChan,
         NEW sends \in BOOLEAN, CompleteRotation(r, m, sends)
  PROVE  TypeOK'
<1> DEFINE messages == RotateMessagesAfter(r, m, sends)
           real     == MergedReports(messages, phase[r], "real")
           mock     == MergedReports(messages, phase[r], "mock")
<1>1. /\ rotateChan' \subseteq RotateMsgs
      /\ rotated' \subseteq (Replica \X Phase)
  BY RotatesSentType DEF CompleteRotation, TypeOK, RotationTypeOK
<1>2. /\ MergeReports(r, m, sends, real, mock)
      /\ UNCHANGED <<unbatched, acceptExecTimeChan, acceptReplyChan, history>>
  BY DEF CompleteRotation
<1>3. Merged(real, "real") \subseteq LogReports /\ Merged(mock, "mock") \subseteq LogReports
  <2>1. IsMessages(messages)
    BY RotateMessagesAfterType
  <2> HIDE DEF messages
  <2> QED
    BY <2>1, MergedReportsType
<1> HIDE DEF real, mock
<1>4. CASE /\ Panic(r, "accepted, but also accepted or committed otherwise")
           /\ StopsInRotation(r, m, sends)
           /\ UNCHANGED commitChan
  <2>1. "accepted, but also accepted or committed otherwise" \in Panics
    BY DEF Panics
  <2>2. commitChan' \in Channel(CommitMsgs)
    BY <1>4, ChannelTypes
  <2> QED
    BY <1>1, <1>2, <1>4, <2>1, <2>2, StopsInRotationTypes
<1>5. CASE \E md \in Merged(real, "real"), mdMock \in Merged(mock, "mock") :
             \E ro \in Orders(DOMAIN md), mo \in Orders(DOMAIN mdMock) :
                ProcessRotateQuorum(r, m, sends, md, mdMock, ro, mo)
  <2>1. PICK md \in Merged(real, "real"), mdMock \in Merged(mock, "mock") :
             \E ro \in Orders(DOMAIN md), mo \in Orders(DOMAIN mdMock) :
                ProcessRotateQuorum(r, m, sends, md, mdMock, ro, mo)
    BY <1>5
  <2>2. PICK ro \in Orders(DOMAIN md), mo \in Orders(DOMAIN mdMock) :
                ProcessRotateQuorum(r, m, sends, md, mdMock, ro, mo)
    BY <2>1
  <2>3. md \in LogReports /\ mdMock \in LogReports
    BY <1>3, <2>1
  <2> QED
    BY <1>1, <1>2, <2>2, <2>3, ProcessRotateQuorumTypes
<1> QED
  BY <1>2, <1>4, <1>5 DEF MergeReports

-----------------------------------------------------------------------------
(* The theorem *)

LEMMA TypesStep == TypeOK /\ [Next]_vars => TypeOK'
<1> SUFFICES ASSUME TypeOK, [Next]_vars
             PROVE  TypeOK'
  OBVIOUS
<1>1. CASE UNCHANGED vars
  BY <1>1, StutterKeepsTypes
<1>2. ASSUME NEW r \in Replica,
             ClientBatch(r) \/ HandleProposeBatch(r) \/ Suspect(r)
      PROVE  TypeOK'
  BY <1>2, ClientBatchTypes, HandleProposeBatchTypes, SuspectTypes
<1>3. ASSUME NEW r \in Replica, NEW s \in Replica, TakeAcceptExecTime(r, s)
      PROVE  TypeOK'
  BY <1>3, AcceptExecTimeIgnoredTypes, AcceptExecTimeAheadTypes,
     RealAcceptExecTimeTypes, MockAcceptExecTimeTypes DEF TakeAcceptExecTime
<1>4. ASSUME NEW r \in Replica, NEW s \in Replica, TakeAcceptMsg(r, s)
      PROVE  TypeOK'
  BY <1>4, AcceptIgnoredTypes, MockAcceptAheadTypes, RealAcceptTypes,
     MockAcceptTypes DEF TakeAcceptMsg
<1>5. ASSUME NEW r \in Replica, NEW s \in Replica, TakeAcceptReply(r, s)
      PROVE  TypeOK'
  BY <1>5, AcceptReplyIgnoredTypes, RealAcceptReplyTypes, MockAcceptReplyTypes
     DEF TakeAcceptReply
<1>6. ASSUME NEW r \in Replica, NEW s \in Replica, TakeCommit(r, s)
      PROVE  TypeOK'
  BY <1>6, RealCommitTypes, MockCommitTypes DEF TakeCommit
<1>7. ASSUME NEW r \in Replica, NEW m \in rotateChan, TakeRotate(r, m)
      PROVE  TypeOK'
  BY <1>7, RotateAheadTypes, RotatePanicsTypes, HandleRotateTypes,
     CompleteRotationTypes DEF TakeRotate
<1> QED
  BY <1>1, <1>2, <1>3, <1>4, <1>5, <1>6, <1>7 DEF Next

\* However the handlers of avicenna.go, the put-backs and the iterations over
\* maps are interleaved, every replica's logs, prefixes and queues, and every
\* message in a channel, keep their types: a report, a merge or a long Accept
\* never leads to an instance outside the log or to an entry no handler knows.
THEOREM TypesCorrect == Spec => []TypeOK
<1> QED
  BY TypesInit, TypesStep, PTL DEF Spec
=============================================================================
