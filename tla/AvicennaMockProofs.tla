------------------------- MODULE AvicennaMockProofs -------------------------
(***************************************************************************)
(* The mock log as long as no replica has left phase 0: replica 1 orders   *)
(* it, all others follow.  With the real log this excludes the panics of   *)
(* the reply and commit handlers.  Replies are counted in turn, so that    *)
(* the mock log is committed in turn and globalMaxCommittedGhost, which a  *)
(* Rotate starts its report of the mock log with, is never beyond the log. *)
(***************************************************************************)
EXTENDS AvicennaOrderProofs

-----------------------------------------------------------------------------
(* The inductive invariant of the mock log *)

MockCmds(i) == instanceSpaceMock[1][i].cmds
MockKnown(i) == ~IsNil(instanceSpaceMock[1], i)

\* what the mock coordinator's channels hold: Accepts and replies are of
\* instances it has, commits say what it committed
MockProposals == {m \in AcceptMsgs : \A i \in DOMAIN m.accept :
                        MockKnown(i) /\ m.accept[i] = MockCmds(i)}
MockReplies == {m \in ReplyMsgs : MockKnown(m.inst)}
MockCommits == {m \in CommitMsgs : /\ HasMockCommitted(1, m.inst)
                                   /\ m.cmds = MockCmds(m.inst)}

MockTraffic == \A r \in Replica :
    /\ acceptExecTimeChan[r][1] \in Seq(MockProposals)
    /\ acceptReplyChan[1][r] \in Seq(MockReplies)
    /\ commitChan[r][1] \in Seq(MockCommits)

MockCommittedAsDecided == \A r \in Replica, i \in Inst :
    HasMockCommitted(r, i) => /\ HasMockCommitted(1, i)
                              /\ instanceSpaceMock[r][i].cmds = MockCmds(i)

MockAcceptedAsProposed == \A r \in Replica, i \in Inst :
    instanceSpaceMock[r][i].status = "MOCKACCEPTED" =>
        /\ r \notin Standbys(0)
        /\ MockKnown(i)
        /\ instanceSpaceMock[r][i].cmds = MockCmds(i)

MockFollows == MockCommittedAsDecided /\ MockAcceptedAsProposed

MockInv == MockTraffic /\ MockFollows

LEMMA MockInit == Init => MockInv
<1> SUFFICES ASSUME Init PROVE MockInv
  OBVIOUS
<1>1. MockTraffic
  <2>1. ASSUME NEW M PROVE <<>> \in Seq(M)
    OBVIOUS
  <2> QED
    BY <2>1, FirstRoles DEF MockTraffic, Init, InitQuiet
<1>2. MockFollows
  BY DEF MockFollows, MockCommittedAsDecided, MockAcceptedAsProposed,
     HasMockCommitted, Init, InitMockLog, NilInstance, NewInstance
<1> QED
  BY <1>1, <1>2 DEF MockInv

-----------------------------------------------------------------------------
(* A step that drops nothing from the coordinator's mock log and sends what *)
(* fits it keeps the channels in order                                      *)

\* the mock coordinator keeps its instances and what it committed
MockLogGrows == \A i \in Inst :
    /\ MockKnown(i) => /\ ~IsNil(instanceSpaceMock'[1], i)
                       /\ instanceSpaceMock'[1][i].cmds = MockCmds(i)
    /\ HasMockCommitted(1, i) => instanceSpaceMock'[1][i].status = "MOCKCOMMITTED"

LEMMA CommittedIsKnown ==
    ASSUME NEW i, HasMockCommitted(1, i)
    PROVE  MockKnown(i)
  BY DEF HasMockCommitted, MockKnown, IsNil

\* q becomes t: unchanged, without its first message or with ms at its end
Shifts(q, t, M) ==
    \/ t = q
    \/ q # <<>> /\ t = Tail(q)
    \/ \E ms \in Seq(M) : t = q \o ms

LEMMA ShiftsWithin ==
    ASSUME NEW K, NEW M, K \subseteq M, NEW q \in Seq(K), NEW t, Shifts(q, t, M)
    PROVE  t \in Seq(M)
<1>1. q \in Seq(M)
  BY SeqMonotonic
<1>2. CASE q # <<>> /\ t = Tail(q)
  BY <1>1, <1>2, OneLess
<1>3. ASSUME NEW ms \in Seq(M), t = q \o ms
      PROVE  t \in Seq(M)
  BY <1>1, <1>3, ConcatProperties
<1> QED
  BY <1>1, <1>2, <1>3 DEF Shifts

LEMMA MockTrafficKept ==
    ASSUME TypeOK, MockTraffic, MockLogGrows,
           \A r \in Replica :
              /\ Shifts(acceptExecTimeChan[r][1], acceptExecTimeChan'[r][1],
                       MockProposals')
              /\ Shifts(acceptReplyChan[1][r], acceptReplyChan'[1][r], MockReplies')
              /\ Shifts(commitChan[r][1], commitChan'[r][1], MockCommits')
    PROVE  MockTraffic'
<1>1. MockProposals \subseteq MockProposals'
  <2> SUFFICES ASSUME NEW m \in MockProposals, NEW i \in DOMAIN m.accept
               PROVE  /\ ~IsNil(instanceSpaceMock'[1], i)
                      /\ m.accept[i] = instanceSpaceMock'[1][i].cmds
    BY DEF MockProposals, MockKnown, MockCmds
  <2>1. m \in AcceptMsgs /\ MockKnown(i) /\ m.accept[i] = MockCmds(i)
    BY DEF MockProposals
  <2>2. i \in Inst
    BY <2>1, AcceptType DEF AcceptMsgs
  <2> QED
    BY <2>1, <2>2 DEF MockLogGrows
<1>2. MockReplies \subseteq MockReplies'
  BY DEF MockReplies, MockLogGrows, MockKnown, ReplyMsgs
<1>3. MockCommits \subseteq MockCommits'
  BY CommittedIsKnown
     DEF MockCommits, MockLogGrows, MockCmds, HasMockCommitted, CommitMsgs
<1>4. ASSUME NEW r \in Replica
      PROVE  /\ acceptExecTimeChan'[r][1] \in Seq(MockProposals')
             /\ acceptReplyChan'[1][r] \in Seq(MockReplies')
             /\ commitChan'[r][1] \in Seq(MockCommits')
  <2>1. acceptExecTimeChan'[r][1] \in Seq(MockProposals')
    BY <1>1, ShiftsWithin DEF MockTraffic
  <2>2. acceptReplyChan'[1][r] \in Seq(MockReplies')
    BY <1>2, ShiftsWithin DEF MockTraffic
  <2>3. commitChan'[r][1] \in Seq(MockCommits')
    BY <1>3, ShiftsWithin DEF MockTraffic
  <2> QED
    BY <2>1, <2>2, <2>3
<1> QED
  BY <1>4 DEF MockTraffic

\* how a channel to or from the mock coordinator moves
LEMMA ReceivedShifts ==
    ASSUME NEW M, NEW chan \in Channel(M), NEW K,
           NEW r \in Replica, NEW s \in Replica, chan[r][s] # <<>>,
           NEW d \in Replica, NEW x \in Replica
    PROVE  Shifts(chan[d][x], Received(chan, r, s)[d][x], K)
  BY ReceivedAt DEF Shifts

LEMMA SentShifts ==
    ASSUME NEW M, NEW chan \in Channel(M), NEW K,
           NEW s \in Replica, NEW dsts, NEW ms,
           NEW d \in Replica, NEW x \in Replica,
           (d \in dsts /\ x = s) => ms \in Seq(K)
    PROVE  Shifts(chan[d][x], Sent(chan, s, dsts, ms)[d][x], K)
<1>1. Sent(chan, s, dsts, ms)[d][x] =
            IF d \in dsts /\ x = s THEN chan[d][x] \o ms ELSE chan[d][x]
  BY SentAt
<1> QED
  BY <1>1 DEF Shifts

LEMMA StaysShifts ==
    ASSUME NEW q, NEW K
    PROVE  Shifts(q, q, K)
  BY DEF Shifts

\* an entry of the mock logs is written
MockWrites(r, i, e) == \A x \in Replica, j \in Inst :
    instanceSpaceMock'[x][j] = IF x = r /\ j = i THEN e
                                                 ELSE instanceSpaceMock[x][j]

LEMMA MockWritesOne ==
    ASSUME TypeOK, NEW r \in Replica, NEW i \in Inst, NEW e, NEW new,
           \A j \in Inst : new[j] = IF j = i THEN e ELSE instanceSpaceMock[r][j],
           instanceSpaceMock' = [instanceSpaceMock EXCEPT ![r] = new]
    PROVE  MockWrites(r, i, e)
  BY DEF TypeOK, LogTypeOK, MockWrites

\* an entry written over one that is not committed, and not with a commit
LEMMA MockAccepts ==
    ASSUME MockInv, NEW r \in Replica, NEW i \in Inst, NEW e, MockWrites(r, i, e),
           ~HasMockCommitted(r, i), r = 1 => ~MockKnown(i),
           e.status \notin {"NIL", "MOCKCOMMITTED"},
           e.status = "MOCKACCEPTED" =>
                /\ r \notin Standbys(0)
                /\ r # 1 => MockKnown(i) /\ e.cmds = MockCmds(i)
    PROVE  MockLogGrows /\ MockFollows'
<1>1. /\ 1 \in Replica
      /\ \A x \in Replica, j \in Inst :
            instanceSpaceMock'[x][j] = IF x = r /\ j = i THEN e
                                       ELSE instanceSpaceMock[x][j]
  BY FirstRoles DEF MockWrites
<1>2. MockLogGrows
  BY <1>1 DEF MockLogGrows, MockKnown, HasMockCommitted, MockCmds, IsNil
<1>3. MockCommittedAsDecided'
  BY <1>1 DEF MockInv, MockFollows, MockCommittedAsDecided, HasMockCommitted,
     MockCmds
<1>4. MockAcceptedAsProposed'
  BY <1>1, <1>2 DEF MockInv, MockFollows, MockAcceptedAsProposed, MockLogGrows,
     MockKnown, MockCmds, IsNil
<1> QED
  BY <1>2, <1>3, <1>4 DEF MockFollows

LEMMA MockLogStays ==
    ASSUME MockInv,
           \A x \in Replica, j \in Inst :
                instanceSpaceMock'[x][j] = instanceSpaceMock[x][j]
    PROVE  MockLogGrows /\ MockFollows'
<1>1. 1 \in Replica
  BY FirstRoles
<1>2. MockLogGrows
  BY <1>1 DEF MockLogGrows, MockKnown, HasMockCommitted, MockCmds, IsNil
<1>3. MockCommittedAsDecided'
  BY <1>1 DEF MockInv, MockFollows, MockCommittedAsDecided, HasMockCommitted,
     MockCmds
<1>4. MockAcceptedAsProposed'
  BY <1>1, <1>2 DEF MockInv, MockFollows, MockAcceptedAsProposed, MockLogGrows,
     MockKnown, MockCmds, IsNil
<1> QED
  BY <1>2, <1>3, <1>4 DEF MockFollows

\* what remains to be shown of a step
MockShifts == \A x \in Replica :
    /\ Shifts(acceptExecTimeChan[x][1], acceptExecTimeChan'[x][1], MockProposals')
    /\ Shifts(acceptReplyChan[1][x], acceptReplyChan'[1][x], MockReplies')
    /\ Shifts(commitChan[x][1], commitChan'[x][1], MockCommits')

LEMMA MockKept ==
    ASSUME TypeOK, MockInv, MockLogGrows, MockFollows', MockShifts
    PROVE  MockInv'
  BY MockTrafficKept DEF MockInv, MockShifts

-----------------------------------------------------------------------------
(* Steps that leave the mock log aside *)

LEMMA MockQuietKeeps ==
    ASSUME TypeOK, MockInv, UNCHANGED <<instanceSpaceMock, channels>>
    PROVE  MockInv'
<1>1. MockLogGrows /\ MockFollows'
  BY MockLogStays
<1>2. UNCHANGED <<acceptExecTimeChan, acceptReplyChan, commitChan>>
  BY DEF channels
<1>3. MockShifts
  BY <1>2 DEF MockShifts, Shifts
<1> QED
  BY <1>1, <1>3, MockKept

LEMMA IgnoredKeepsMock ==
    ASSUME TypeOK, MockInv, NEW r \in Replica, NEW s \in Replica,
           AcceptExecTimeIgnored(r, s)
    PROVE  MockInv'
<1>1. /\ acceptExecTimeChan[r][s] # <<>>
      /\ acceptExecTimeChan' = Received(acceptExecTimeChan, r, s)
      /\ UNCHANGED <<instanceSpaceMock, acceptReplyChan, commitChan>>
  BY DEF AcceptExecTimeIgnored, mockVars
<1>2. MockLogGrows /\ MockFollows' /\ 1 \in Replica
  BY <1>1, MockLogStays, FirstRoles
<1>3. \A x \in Replica : Shifts(acceptExecTimeChan[x][1],
                                Received(acceptExecTimeChan, r, s)[x][1],
                                MockProposals')
  BY <1>1, <1>2, ChannelTypes, ReceivedShifts
<1>4. MockShifts
  BY <1>1, <1>3, StaysShifts DEF MockShifts
<1> QED
  BY <1>2, <1>4, MockKept

LEMMA RealAcceptKeepsMock ==
    ASSUME TypeOK, MockInv, NEW r \in Replica, RealAcceptExecTime(r, 0)
    PROVE  MockInv'
<1>1. /\ acceptExecTimeChan[r][0] # <<>>
      /\ acceptExecTimeChan' = Received(acceptExecTimeChan, r, 0)
      /\ \E ms : acceptReplyChan' = Sent(acceptReplyChan, r, {0}, ms)
      /\ UNCHANGED <<instanceSpaceMock, commitChan>>
  BY DEF RealAcceptExecTime, mockVars
<1>2. /\ MockLogGrows /\ MockFollows'
      /\ 0 \in Replica /\ 1 \in Replica
  BY <1>1, MockLogStays, FirstRoles
<1>3. \A x \in Replica : Shifts(acceptExecTimeChan[x][1],
                                Received(acceptExecTimeChan, r, 0)[x][1],
                                MockProposals')
  BY <1>1, <1>2, ChannelTypes, ReceivedShifts
<1>4. \A x \in Replica : acceptReplyChan'[1][x] = acceptReplyChan[1][x]
  <2>1. PICK ms : acceptReplyChan' = Sent(acceptReplyChan, r, {0}, ms)
    BY <1>1
  <2>2. \A x \in Replica : Sent(acceptReplyChan, r, {0}, ms)[1][x] =
            IF 1 \in {0} /\ x = r THEN acceptReplyChan[1][x] \o ms
                                  ELSE acceptReplyChan[1][x]
    BY <1>2, ChannelTypes, SentAt
  <2> QED
    BY <2>1, <2>2
<1>5. MockShifts
  BY <1>1, <1>3, <1>4, StaysShifts DEF MockShifts
<1> QED
  BY <1>2, <1>5, MockKept

LEMMA RealReplyKeepsMock ==
    ASSUME TypeOK, MockInv, NEW s \in Replica, RealAcceptReply(0, s)
    PROVE  MockInv'
<1>1. /\ acceptReplyChan' = Received(acceptReplyChan, 0, s)
      /\ \/ commitChan' = commitChan
         \/ \E ms : commitChan' = Sent(commitChan, 0, Others(0), ms)
      /\ UNCHANGED <<instanceSpaceMock, acceptExecTimeChan>>
  BY DEF RealAcceptReply, mockVars
<1>2. /\ MockLogGrows /\ MockFollows'
      /\ 0 \in Replica /\ 1 \in Replica
  BY <1>1, MockLogStays, FirstRoles
<1>3. \A x \in Replica : acceptReplyChan'[1][x] = acceptReplyChan[1][x]
  <2>1. \A x \in Replica : Received(acceptReplyChan, 0, s)[1][x] =
            IF 1 = 0 /\ x = s THEN Tail(acceptReplyChan[1][x])
                              ELSE acceptReplyChan[1][x]
    BY <1>2, ChannelTypes, ReceivedAt
  <2> QED
    BY <1>1, <2>1
<1>4. \A x \in Replica : commitChan'[x][1] = commitChan[x][1]
  <2>1. ASSUME NEW ms, NEW x \in Replica
        PROVE  Sent(commitChan, 0, Others(0), ms)[x][1] = commitChan[x][1]
    BY <1>2, ChannelTypes, SentAt
  <2> QED
    BY <1>1, <2>1
<1>5. MockShifts
  BY <1>1, <1>3, <1>4, StaysShifts DEF MockShifts
<1> QED
  BY <1>2, <1>5, MockKept

LEMMA RealCommitKeepsMock ==
    ASSUME TypeOK, MockInv, NEW r \in Replica, RealCommit(r, 0)
    PROVE  MockInv'
<1>1. /\ commitChan' = Received(commitChan, r, 0)
      /\ UNCHANGED <<instanceSpaceMock, acceptExecTimeChan, acceptReplyChan>>
  BY DEF RealCommit, mockVars
<1>2. /\ MockLogGrows /\ MockFollows'
      /\ 0 \in Replica /\ 1 \in Replica
  BY <1>1, MockLogStays, FirstRoles
<1>3. \A x \in Replica : commitChan'[x][1] = commitChan[x][1]
  <2>1. \A x \in Replica : Received(commitChan, r, 0)[x][1] =
            IF x = r /\ 1 = 0 THEN Tail(commitChan[x][1]) ELSE commitChan[x][1]
    BY <1>2, ChannelTypes, ReceivedAt
  <2> QED
    BY <1>1, <2>1
<1>4. MockShifts
  BY <1>1, <1>3, StaysShifts DEF MockShifts
<1> QED
  BY <1>2, <1>4, MockKept

-----------------------------------------------------------------------------
(* Steps of the mock log *)

LEMMA BatchKeepsMock ==
    ASSUME TypeOK, FirstPhase, MockInv,
           NEW r \in Replica, HandleProposeBatch(r)
    PROVE  MockInv'
<1>0. PICK cmds, mock : /\ cmds = batchedCmdsChan[r]
                        /\ mock = NextNil(instanceSpaceMock[r])
  OBVIOUS
<1> DEFINE doMock == cmds \cap Ghost # {}
           leads  == IsCoordinator(r)
           mocks  == ~leads /\ doMock /\ IsMockCoordinator(r)
           e == NewInstance(IF mocks THEN "MOCKACCEPTED" ELSE "RECEIVED", cmds)
<1>1. /\ 0 \in Replica /\ 1 \in Replica
      /\ leads <=> r = 0
      /\ IsMockCoordinator(r) <=> r = 1
      /\ instanceSpaceMock[r] \in Logs
      /\ cmds \in SUBSET Cmds
      /\ r # 0 => phase[r] = 0
  BY <1>0, FirstRoles, FirstPhaseRoles, LocalTypes DEF FirstPhase
<1>2. /\ doMock => mock < MaxInst
      /\ IF doMock
         THEN instanceSpaceMock' = [instanceSpaceMock EXCEPT ![r][mock] = e]
         ELSE instanceSpaceMock' = instanceSpaceMock
      /\ \/ mocks /\ acceptExecTimeChan' = Sent(acceptExecTimeChan, r, Others(r),
                                        <<AcceptMsg(r, Only(mock, cmds))>>)
         \/ ~mocks /\ ~leads /\ acceptExecTimeChan' = acceptExecTimeChan
         \/ leads /\ \E dsts, ms : acceptExecTimeChan' =
                                        Sent(acceptExecTimeChan, r, dsts, ms)
      /\ UNCHANGED <<acceptReplyChan, commitChan>>
  BY <1>0 DEF HandleProposeBatch
<1>3. /\ e.status \notin {"NIL", "MOCKCOMMITTED"} /\ e.cmds = cmds
      /\ e.status = "MOCKACCEPTED" => r = 1 /\ r \notin Standbys(0)
  BY <1>1, FirstRoles DEF NewInstance
<1>4. ASSUME doMock
      PROVE  mock \in Inst /\ IsNil(instanceSpaceMock[r], mock)
  <2>1. mock < MaxInst
    BY <1>2, <1>4
  <2>2. mock \in 0 .. MaxInst /\ IsNil(instanceSpaceMock[r], mock)
    BY <1>0, <1>1, <2>1, NextNilProperties
  <2> QED
    BY <2>1, <2>2, MaxInstAssumption DEF Inst
<1> HIDE DEF e
<1>5. ASSUME doMock
      PROVE  MockWrites(r, mock, e)
  <2> DEFINE new == [instanceSpaceMock[r] EXCEPT ![mock] = e]
  <2>1. \A j \in Inst : new[j] = IF j = mock THEN e ELSE instanceSpaceMock[r][j]
    BY <1>1 DEF Logs
  <2>2. instanceSpaceMock' = [instanceSpaceMock EXCEPT ![r] = new]
    BY <1>2, <1>5
  <2> HIDE DEF new
  <2> QED
    BY <1>4, <1>5, <2>1, <2>2, MockWritesOne
<1>6. MockLogGrows /\ MockFollows'
  <2>1. CASE doMock
    <3>1. ~HasMockCommitted(r, mock) /\ (r = 1 => ~MockKnown(mock))
      BY <1>4, <2>1 DEF HasMockCommitted, IsNil, MockKnown
    <3> QED
      BY <1>3, <1>4, <1>5, <2>1, <3>1, MockAccepts
  <2>2. CASE ~doMock
    <3>1. instanceSpaceMock' = instanceSpaceMock
      BY <1>2, <2>2
    <3> QED
      BY <3>1, MockLogStays
  <2> QED
    BY <2>1, <2>2
<1>7. \A x \in Replica : Shifts(acceptExecTimeChan[x][1],
                                acceptExecTimeChan'[x][1], MockProposals')
  <2>1. CASE mocks
    <3> DEFINE m == AcceptMsg(r, Only(mock, cmds))
    <3>1. r = 1 /\ mock \in Inst /\ phase[r] = 0
      BY <1>1, <1>4, <2>1
    <3>2. /\ <<m>> \in Seq(AcceptMsgs) /\ DOMAIN m.accept = {mock}
          /\ m.accept[mock] = cmds
      BY <1>1, <3>1, AcceptMsgType DEF AcceptMsg, Only
    <3>3. acceptExecTimeChan' = Sent(acceptExecTimeChan, r, Others(r), <<m>>)
      BY <1>2, <2>1
    <3> HIDE DEF m
    <3>4. m \in AcceptMsgs
      BY <3>2, HeadTailProperties
    <3>5. ~IsNil(instanceSpaceMock'[1], mock)
          /\ instanceSpaceMock'[1][mock].cmds = cmds
      <4>1. instanceSpaceMock'[1][mock] = e
        BY <1>1, <1>5, <2>1, <3>1 DEF MockWrites
      <4> QED
        BY <1>3, <4>1 DEF IsNil
    <3>6. m \in MockProposals'
      BY <3>2, <3>4, <3>5 DEF MockProposals, MockKnown, MockCmds
    <3>7. <<m>> \in Seq(MockProposals')
      BY <3>6, OneMessage
    <3>8. \A x \in Replica : Shifts(acceptExecTimeChan[x][1],
              Sent(acceptExecTimeChan, r, Others(r), <<m>>)[x][1], MockProposals')
      BY <1>1, <3>7, ChannelTypes, SentShifts
    <3> QED
      BY <3>3, <3>8
  <2>2. CASE ~mocks /\ ~leads
    BY <1>2, <2>2, StaysShifts
  <2>3. CASE leads
    <3>1. PICK dsts, ms : acceptExecTimeChan' =
                                Sent(acceptExecTimeChan, r, dsts, ms)
      BY <1>2, <2>3
    <3>2. r # 1
      BY <1>1, <2>3
    <3>3. \A x \in Replica : Shifts(acceptExecTimeChan[x][1],
              Sent(acceptExecTimeChan, r, dsts, ms)[x][1], MockProposals')
      BY <1>1, <3>2, ChannelTypes, SentShifts
    <3> QED
      BY <3>1, <3>3
  <2> QED
    BY <2>1, <2>2, <2>3
<1>8. MockShifts
  BY <1>2, <1>7, StaysShifts DEF MockShifts
<1> QED
  BY <1>6, <1>8, MockKept

\* what the mock coordinator's next Accept is about
LEMMA TakenProposal ==
    ASSUME MockInv, NEW r \in Replica, acceptExecTimeChan[r][1] # <<>>
    PROVE  Next1(acceptExecTimeChan, r, 1) \in MockProposals
  BY OneLess DEF MockInv, MockTraffic, Next1

LEMMA TakenMockReply ==
    ASSUME MockInv, NEW s \in Replica, acceptReplyChan[1][s] # <<>>
    PROVE  Next1(acceptReplyChan, 1, s) \in MockReplies
  BY OneLess DEF MockInv, MockTraffic, Next1

LEMMA TakenMockCommit ==
    ASSUME MockInv, NEW r \in Replica, commitChan[r][1] # <<>>
    PROVE  Next1(commitChan, r, 1) \in MockCommits
  BY OneLess DEF MockInv, MockTraffic, Next1

LEMMA MockAcceptKeepsMock ==
    ASSUME TypeOK, FirstPhase, MockInv, NEW r \in Replica, r # 1,
           MockAcceptExecTime(r, 1)
    PROVE  MockInv'
<1>0. PICK m, i : /\ m = Next1(acceptExecTimeChan, r, 1)
                  /\ i = CHOOSE j \in DOMAIN m.accept : TRUE
  OBVIOUS
<1>1. /\ acceptExecTimeChan[r][1] # <<>>
      /\ acceptExecTimeChan' = Received(acceptExecTimeChan, r, 1)
      /\ UNCHANGED commitChan
      /\ 1 \in Replica /\ instanceSpaceMock[r] \in [Inst -> Entry]
  BY FirstRoles, LocalTypes DEF MockAcceptExecTime, Logs
<1>2. m \in MockProposals
  BY <1>0, <1>1, TakenProposal
<1>3. /\ i \in DOMAIN m.accept /\ i \in Inst
      /\ MockKnown(i) /\ m.accept[i] = MockCmds(i)
      /\ r \notin Standbys(0)
  <2>1. DOMAIN m.accept # {} /\ DOMAIN m.accept \subseteq Inst
    BY <1>2, AcceptType DEF MockProposals, AcceptMsgs
  <2>2. i \in DOMAIN m.accept
    BY <1>0, <2>1
  <2> QED
    BY <1>2, <2>1, <2>2, FirstPhaseRoles DEF MockProposals, MockAcceptExecTime
<1> DEFINE log   == instanceSpaceMock[r]
           voted == Votes(log, {i}, "MOCKCOMMITTED")
           new   == Accepted(log, voted, m.accept, "MOCKACCEPTED")
           ms    == Replies(m.phase, voted, TRUE)
<1>4. /\ instanceSpaceMock' = [instanceSpaceMock EXCEPT ![r] = new]
      /\ acceptReplyChan' = Sent(acceptReplyChan, r, {1}, ms)
  BY <1>0 DEF MockAcceptExecTime
<1>5. MockLogGrows /\ MockFollows'
  <2>1. CASE HasMockCommitted(r, i)
    <3>1. voted = {}
      BY <2>1 DEF Votes, HasMockCommitted
    <3>2. \A j \in Inst : new[j] = log[j]
      BY <3>1 DEF Accepted
    <3> HIDE DEF new
    <3>3. \A x \in Replica, j \in Inst :
                instanceSpaceMock'[x][j] = instanceSpaceMock[x][j]
      BY <1>4, <3>2 DEF TypeOK, LogTypeOK
    <3> QED
      BY <3>3, MockLogStays
  <2>2. CASE ~HasMockCommitted(r, i)
    <3> DEFINE e == [log[i] EXCEPT !.status = "MOCKACCEPTED",
                                   !.cmds = m.accept[i]]
    <3>1. voted = {i}
      BY <2>2 DEF Votes, HasMockCommitted
    <3>2. \A j \in Inst : new[j] = IF j = i THEN e ELSE log[j]
      BY <3>1 DEF Accepted
    <3>3. e.status = "MOCKACCEPTED" /\ e.cmds = MockCmds(i)
      BY <1>1, <1>3 DEF Entry
    <3> HIDE DEF new, e
    <3>4. MockWrites(r, i, e)
      BY <1>3, <1>4, <3>2, MockWritesOne
    <3> QED
      BY <1>3, <2>2, <3>3, <3>4, MockAccepts
  <2> QED
    BY <2>1, <2>2
<1>6. ~IsNil(instanceSpaceMock'[1], i)
  BY <1>3, <1>5 DEF MockLogGrows
<1>7. ms \in Seq(MockReplies')
  <2>1. m.phase \in Phase
    BY <1>2 DEF MockProposals, AcceptMsgs
  <2>2. voted = {} \/ voted = {i}
    BY DEF Votes
  <2>3. CASE voted = {}
    <3>1. ms = <<>>
      BY <2>3, NoReply
    <3> HIDE DEF ms
    <3> QED
      BY <3>1
  <2>4. CASE voted = {i}
    <3>1. ms = <<Reply(m.phase, i, TRUE)>>
      BY <1>3, <2>4, OneReply
    <3>2. Reply(m.phase, i, TRUE) \in MockReplies'
      BY <1>3, <1>6, <2>1 DEF MockReplies, MockKnown, Reply, ReplyMsgs
    <3> HIDE DEF ms
    <3> QED
      BY <3>1, <3>2, OneMessage
  <2> QED
    BY <2>2, <2>3, <2>4
<1> HIDE DEF ms
<1>8. \A x \in Replica : Shifts(acceptReplyChan[1][x], acceptReplyChan'[1][x],
                                MockReplies')
  <2>1. \A x \in Replica : Shifts(acceptReplyChan[1][x],
            Sent(acceptReplyChan, r, {1}, ms)[1][x], MockReplies')
    BY <1>1, <1>7, ChannelTypes, SentShifts
  <2> QED
    BY <1>4, <2>1
<1>9. \A x \in Replica : Shifts(acceptExecTimeChan[x][1],
                                acceptExecTimeChan'[x][1], MockProposals')
  <2>1. \A x \in Replica : Shifts(acceptExecTimeChan[x][1],
                Received(acceptExecTimeChan, r, 1)[x][1], MockProposals')
    BY <1>1, ChannelTypes, ReceivedShifts
  <2> QED
    BY <1>1, <2>1
<1>10. MockShifts
  BY <1>1, <1>8, <1>9, StaysShifts DEF MockShifts
<1> QED
  BY <1>5, <1>10, MockKept

\* an entry of the mock coordinator is counted, and perhaps committed
LEMMA MockDecides ==
    ASSUME MockInv, NEW i \in Inst, NEW e, MockWrites(1, i, e),
           MockKnown(i), e.status # "NIL", e.cmds = MockCmds(i),
           HasMockCommitted(1, i) => e.status = "MOCKCOMMITTED",
           e.status \in {instanceSpaceMock[1][i].status, "MOCKCOMMITTED"}
    PROVE  MockLogGrows /\ MockFollows'
<1>1. /\ 1 \in Replica
      /\ \A x \in Replica, j \in Inst :
            instanceSpaceMock'[x][j] = IF x = 1 /\ j = i THEN e
                                       ELSE instanceSpaceMock[x][j]
  BY FirstRoles DEF MockWrites
<1>2. MockLogGrows
  BY <1>1 DEF MockLogGrows, MockKnown, HasMockCommitted, MockCmds, IsNil
<1>3. MockCommittedAsDecided'
  BY <1>1 DEF MockInv, MockFollows, MockCommittedAsDecided, HasMockCommitted,
     MockCmds
<1>4. MockAcceptedAsProposed'
  BY <1>1, <1>2 DEF MockInv, MockFollows, MockAcceptedAsProposed, MockLogGrows,
     MockKnown, MockCmds, IsNil
<1> QED
  BY <1>2, <1>3, <1>4 DEF MockFollows

LEMMA MockReplyKeepsMock ==
    ASSUME TypeOK, MockInv, NEW s \in Replica, MockAcceptReply(1, s)
    PROVE  MockInv' /\ UNCHANGED panicked
<1>0. PICK i : i = Next1(acceptReplyChan, 1, s).inst
  OBVIOUS
<1> DEFINE old     == instanceSpaceMock[1]
           log     == [old EXCEPT ![i] = Counted(@)]
           commits == /\ log[i].status # "MOCKCOMMITTED"
                      /\ EnoughAccepts(log[i].accepts)
           cmds    == log[i].cmds
           new     == IF commits THEN Committed(log, i, cmds, "MOCKCOMMITTED")
                                 ELSE log
           max     == globalMaxCommittedGhost[1]
           e       == IF commits THEN [log[i] EXCEPT !.status = "MOCKCOMMITTED",
                                                     !.cmds = cmds]
                                 ELSE log[i]
<1>1. /\ acceptReplyChan[1][s] # <<>>
      /\ acceptReplyChan' = Received(acceptReplyChan, 1, s)
      /\ UNCHANGED acceptExecTimeChan
      /\ 1 \in Replica /\ old \in [Inst -> Entry] /\ max \in 0 .. MaxInst
  BY FirstRoles, LocalTypes DEF MockAcceptReply, Logs
<1>2. i \in Inst /\ MockKnown(i)
  <2>1. Next1(acceptReplyChan, 1, s) \in MockReplies
    BY <1>1, TakenMockReply
  <2> QED
    BY <1>0, <2>1 DEF MockReplies, ReplyMsgs
<1>3. /\ instanceSpaceMock' = [instanceSpaceMock EXCEPT ![1] = new]
      /\ commitChan' = IF commits
                       THEN Sent(commitChan, 1, Others(1),
                                 <<CommitMsg(i, cmds, TRUE, max)>>)
                       ELSE commitChan
      /\ UNCHANGED panicked
  BY <1>0, <1>2 DEF MockAcceptReply, MockKnown
<1>4. /\ \A j \in Inst : log[j] = IF j = i THEN Counted(old[i]) ELSE old[j]
      /\ log[i] \in Entry /\ log[i].status = old[i].status
      /\ log[i].cmds = old[i].cmds /\ log[i].cmds \in SUBSET Cmds
      /\ log \in [Inst -> Entry]
  <2>1. Counted(old[i]) \in Entry /\ old[i] \in Entry
    BY <1>1, <1>2, CountedType
  <2>2. Counted(old[i]).status = old[i].status /\ Counted(old[i]).cmds = old[i].cmds
        /\ old[i].cmds \in SUBSET Cmds
    BY <2>1 DEF Counted, Entry
  <2>3. \A j \in Inst : log[j] = IF j = i THEN Counted(old[i]) ELSE old[j]
    BY <1>1, <1>2
  <2>4. log \in [Inst -> Entry]
    BY <1>1, <1>2, <2>1
  <2> QED
    BY <1>2, <2>1, <2>2, <2>3, <2>4
<1>5. /\ \A j \in Inst : new[j] = IF j = i THEN e ELSE old[j]
      /\ e.cmds = MockCmds(i)
      /\ e.status \in {old[i].status, "MOCKCOMMITTED"}
      /\ commits => e.status = "MOCKCOMMITTED"
  <2> HIDE DEF log, old
  <2>1. CASE commits
    <3>1. new = [log EXCEPT ![i] = e]
      BY <2>1 DEF Committed
    <3>2. \A j \in Inst : new[j] = IF j = i THEN e ELSE log[j]
      BY <1>2, <1>4, <3>1
    <3>3. e.status = "MOCKCOMMITTED" /\ e.cmds = log[i].cmds
      BY <1>4, <2>1 DEF Entry
    <3> QED
      BY <1>4, <3>2, <3>3 DEF MockCmds, old
  <2>2. CASE ~commits
    <3>1. new = log /\ e = log[i]
      BY <2>2
    <3> QED
      BY <1>4, <2>2, <3>1 DEF MockCmds, old
  <2> QED
    BY <2>1, <2>2
<1>6. MockWrites(1, i, e)
  <2> HIDE DEF new, e
  <2> QED
    BY <1>1, <1>2, <1>3, <1>5, MockWritesOne
<1>7. MockLogGrows /\ MockFollows'
  <2>1. e.status # "NIL" /\ (HasMockCommitted(1, i) => e.status = "MOCKCOMMITTED")
    <3> HIDE DEF e, new
    <3> QED
      BY <1>2, <1>5 DEF MockKnown, IsNil, HasMockCommitted
  <2> HIDE DEF e
  <2> QED
    BY <1>2, <1>5, <1>6, <2>1, MockDecides
<1>8. \A x \in Replica : Shifts(commitChan[x][1], commitChan'[x][1], MockCommits')
  <2>1. CASE commits
    <3> DEFINE c == CommitMsg(i, cmds, TRUE, max)
    <3>1. c \in CommitMsgs /\ c.inst = i /\ c.cmds = MockCmds(i)
      <4>1. c \in CommitMsgs
        <5> HIDE DEF log, max
        <5> QED
          BY <1>1, <1>2, <1>4, CommitMsgType
      <4> QED
        BY <1>4, <4>1 DEF CommitMsg, MockCmds
    <3>2. /\ instanceSpaceMock'[1][i].status = "MOCKCOMMITTED"
          /\ instanceSpaceMock'[1][i].cmds = MockCmds(i)
      <4>1. instanceSpaceMock'[1][i] = e
        <5> HIDE DEF e
        <5> QED
          BY <1>1, <1>2, <1>6 DEF MockWrites
      <4> HIDE DEF e
      <4> QED
        BY <1>5, <2>1, <4>1
    <3> HIDE DEF c
    <3>3. <<c>> \in Seq(MockCommits')
      <4>1. c \in MockCommits'
        BY <3>1, <3>2 DEF MockCommits, HasMockCommitted, MockCmds
      <4> QED
        BY <4>1, OneMessage
    <3>4. commitChan' = Sent(commitChan, 1, Others(1), <<c>>)
      BY <1>3, <2>1 DEF c
    <3>5. \A x \in Replica : Shifts(commitChan[x][1],
            Sent(commitChan, 1, Others(1), <<c>>)[x][1], MockCommits')
      BY <1>1, <3>3, ChannelTypes, SentShifts
    <3> QED
      BY <3>4, <3>5
  <2>2. CASE ~commits
    BY <1>3, <2>2, StaysShifts
  <2> QED
    BY <2>1, <2>2
<1>9. \A x \in Replica : Shifts(acceptReplyChan[1][x], acceptReplyChan'[1][x],
                                MockReplies')
  <2>1. \A x \in Replica : Shifts(acceptReplyChan[1][x],
            Received(acceptReplyChan, 1, s)[1][x], MockReplies')
    BY <1>1, ChannelTypes, ReceivedShifts
  <2> QED
    BY <1>1, <2>1
<1>10. MockShifts
  BY <1>1, <1>8, <1>9, StaysShifts DEF MockShifts
<1> QED
  BY <1>3, <1>7, <1>10, MockKept

\* an entry is committed as the mock coordinator committed it
LEMMA MockLearns ==
    ASSUME MockInv, NEW r \in Replica, r # 1, NEW i \in Inst, NEW e,
           MockWrites(r, i, e), HasMockCommitted(1, i), e.cmds = MockCmds(i),
           e.status = "MOCKCOMMITTED"
    PROVE  MockLogGrows /\ MockFollows'
<1>1. /\ 1 \in Replica
      /\ \A x \in Replica, j \in Inst :
            instanceSpaceMock'[x][j] = IF x = r /\ j = i THEN e
                                       ELSE instanceSpaceMock[x][j]
  BY FirstRoles DEF MockWrites
<1>2. MockLogGrows
  BY <1>1 DEF MockLogGrows, MockKnown, HasMockCommitted, MockCmds, IsNil
<1>3. MockCommittedAsDecided'
  BY <1>1 DEF MockInv, MockFollows, MockCommittedAsDecided, HasMockCommitted,
     MockCmds
<1>4. MockAcceptedAsProposed'
  BY <1>1, <1>2 DEF MockInv, MockFollows, MockAcceptedAsProposed, MockLogGrows,
     MockKnown, MockCmds, IsNil
<1> QED
  BY <1>2, <1>3, <1>4 DEF MockFollows

LEMMA MockCommitKeepsMock ==
    ASSUME TypeOK, MockInv, NEW r \in Replica, r # 1, ~IsMockCoordinator(r),
           MockCommit(r, 1)
    PROVE  MockInv' /\ UNCHANGED panicked
<1>0. PICK m, i : m = Next1(commitChan, r, 1) /\ i = m.inst
  OBVIOUS
<1> DEFINE log == instanceSpaceMock[r]
           new == Committed(log, i, m.cmds, "MOCKCOMMITTED")
           e   == [log[i] EXCEPT !.status = "MOCKCOMMITTED", !.cmds = m.cmds]
<1>1. /\ commitChan[r][1] # <<>>
      /\ commitChan' = Received(commitChan, r, 1)
      /\ UNCHANGED <<acceptExecTimeChan, acceptReplyChan>>
      /\ 1 \in Replica /\ log \in [Inst -> Entry]
  BY FirstRoles, LocalTypes DEF MockCommit, Logs
<1>2. /\ i \in Inst /\ HasMockCommitted(1, i) /\ m.cmds = MockCmds(i)
  <2>1. m \in MockCommits
    BY <1>0, <1>1, TakenMockCommit
  <2> QED
    BY <1>0, <2>1 DEF MockCommits, CommitMsgs
<1>3. /\ MockLogGrows /\ MockFollows'
      /\ UNCHANGED panicked
  <2>1. CASE HasMockCommitted(r, i)
    <3>1. log[i].cmds = m.cmds
      BY <1>2, <2>1 DEF MockInv, MockFollows, MockCommittedAsDecided
    <3>2. UNCHANGED <<instanceSpaceMock, panicked>>
      BY <1>0, <2>1, <3>1 DEF MockCommit, HasMockCommitted
    <3> QED
      BY <3>2, MockLogStays
  <2>2. CASE ~HasMockCommitted(r, i)
    <3>1. instanceSpaceMock' = [instanceSpaceMock EXCEPT ![r] = new]
          /\ UNCHANGED panicked
      BY <1>0, <2>2 DEF MockCommit, HasMockCommitted
    <3>2. \A j \in Inst : new[j] = IF j = i THEN e ELSE log[j]
      BY <1>1, <1>2 DEF Committed
    <3>3. e.cmds = MockCmds(i) /\ e.status = "MOCKCOMMITTED"
      BY <1>1, <1>2 DEF Entry
    <3> HIDE DEF new, e
    <3>4. MockWrites(r, i, e)
      BY <1>2, <3>1, <3>2, MockWritesOne
    <3> QED
      BY <1>2, <3>1, <3>3, <3>4, MockLearns
  <2> QED
    BY <2>1, <2>2
<1>4. \A x \in Replica : Shifts(commitChan[x][1], commitChan'[x][1], MockCommits')
  <2>1. \A x \in Replica : Shifts(commitChan[x][1],
            Received(commitChan, r, 1)[x][1], MockCommits')
    BY <1>1, ChannelTypes, ReceivedShifts
  <2> QED
    BY <1>1, <2>1
<1>5. MockShifts
  BY <1>1, <1>4, StaysShifts DEF MockShifts
<1> QED
  BY <1>3, <1>5, MockKept

-----------------------------------------------------------------------------
(* All steps, and the panics they do not end in *)

\* a commit that comes again, or for what an Accept brought, has the commands
\* that are there
LEMMA RealCommitFits ==
    ASSUME TypeOK, RealInv, NEW r \in Replica, RealCommit(r, 0)
    PROVE  UNCHANGED panicked
<1>0. PICK m, i : m = Next1(commitChan, r, 0) /\ i = m.inst
  OBVIOUS
<1>1. /\ 0 \in Replica /\ commitChan[r][0] # <<>>
      /\ CommitsWereDecided /\ CommittedAsDecided
  BY FirstRoles DEF RealCommit, RealInv, Deciding
<1>2. m = commitChan[r][0][1] /\ 1 \in 1 .. Len(commitChan[r][0])
      /\ m \in CommitMsgs
  <2>1. commitChan[r][0] \in Seq(CommitMsgs)
    BY RealTypes
  <2> QED
    BY <1>0, <1>1, <2>1, OneLess DEF Next1
<1>3. i \in Inst /\ HasCommitted(0, i) /\ m.cmds = Cmds0(i)
  BY <1>0, <1>1, <1>2 DEF CommitsWereDecided, CommitMsgs
<1>4. CASE HasCommitted(r, i)
  <2>1. instanceSpace[r][i].cmds = m.cmds
    BY <1>1, <1>3, <1>4 DEF CommittedAsDecided
  <2> QED
    BY <1>0, <1>4, <2>1 DEF RealCommit, HasCommitted
<1>5. CASE ~HasCommitted(r, i)
  BY <1>0, <1>5 DEF RealCommit, HasCommitted
<1> QED
  BY <1>4, <1>5

LEMMA MockHandlerStep ==
    ASSUME TypeOK, FirstPhase, Traffic, RealInv, MockInv,
           NEW r \in Replica, Handles(r)
    PROVE  MockInv' /\ UNCHANGED panicked
<1>1. CASE HandleProposeBatch(r)
  <2>1. UNCHANGED panicked
    BY <1>1 DEF HandleProposeBatch
  <2> QED
    BY <1>1, <2>1, BatchKeepsMock
<1>2. ASSUME NEW s \in Replica, TakeAcceptExecTime(r, s)
      PROVE  MockInv' /\ UNCHANGED panicked
  <2>1. /\ ~AcceptExecTimeAhead(r, s) /\ acceptExecTimeChan[r][s] # <<>>
        /\ UNCHANGED panicked
    BY <1>2, TakeAcceptExecTimeTraffic
       DEF TakeAcceptExecTime, AcceptExecTimeIgnored, AcceptExecTimeAhead,
           RealAcceptExecTime, MockAcceptExecTime
  <2>2. s \in {0, 1} /\ r # s /\ Next1(acceptExecTimeChan, r, s).phase = 0
    BY <2>1, TakenAccept
  <2>3. CASE AcceptExecTimeIgnored(r, s)
    BY <2>1, <2>3, IgnoredKeepsMock
  <2>4. CASE RealAcceptExecTime(r, s)
    <3>1. s = 0
      BY <2>2, <2>4, FirstRoles DEF RealAcceptExecTime
    <3> QED
      BY <2>1, <2>4, <3>1, RealAcceptKeepsMock
  <2>5. CASE MockAcceptExecTime(r, s)
    <3>1. s = 1
      BY <2>2, <2>5, FirstRoles DEF MockAcceptExecTime
    <3> QED
      BY <2>1, <2>2, <2>5, <3>1, MockAcceptKeepsMock
  <2> QED
    BY <1>2, <2>1, <2>3, <2>4, <2>5 DEF TakeAcceptExecTime
<1>3. ASSUME NEW s \in Replica, TakeAcceptReply(r, s)
      PROVE  MockInv' /\ UNCHANGED panicked
  <2>1. \/ r = 0 /\ RealAcceptReply(r, s)
        \/ r = 1 /\ MockAcceptReply(r, s)
    BY <1>3, TakeAcceptReplyTraffic
  <2> QED
    BY <2>1, CoordinatorCounts, RealReplyKeepsMock, MockReplyKeepsMock
<1>4. ASSUME NEW s \in Replica, TakeCommit(r, s)
      PROVE  MockInv' /\ UNCHANGED panicked
  <2>1. \/ s = 0 /\ RealCommit(r, s)
        \/ s = 1 /\ ~IsMockCoordinator(r) /\ MockCommit(r, s)
    BY <1>4, TakeCommitTraffic
  <2>2. CASE s = 0 /\ RealCommit(r, s)
    BY <2>2, RealCommitKeepsMock, RealCommitFits
  <2>3. CASE s = 1 /\ ~IsMockCoordinator(r) /\ MockCommit(r, s)
    <3>1. r # 1
      BY <2>3, FirstPhaseRoles
    <3> QED
      BY <2>3, <3>1, MockCommitKeepsMock
  <2> QED
    BY <2>1, <2>2, <2>3
<1>5. \A s \in Replica : ~TakeAcceptMsg(r, s)
  BY NoAcceptMsg
<1> QED
  BY <1>1, <1>2, <1>3, <1>4, <1>5 DEF Handles

-----------------------------------------------------------------------------
(* Rising lines of instances: what waits for a replica, and what it has     *)
(* replied to                                                               *)

Rises(q) == \A k, l \in DOMAIN q : k < l => q[k] < q[l]
OnLine(q, i) == \E k \in DOMAIN q : q[k] = i

\* t is q with m at its end; t is q without its first element
Adds(q, t, m) == \E n \in Nat :
    /\ DOMAIN q = 1 .. n /\ DOMAIN t = 1 .. n + 1
    /\ t[n + 1] = m /\ \A k \in 1 .. n : t[k] = q[k]
Drops(q, t) == \E n \in Nat :
    /\ DOMAIN q = 1 .. n + 1 /\ DOMAIN t = 1 .. n
    /\ \A k \in 1 .. n : t[k] = q[k + 1]

LEMMA MessageAdds ==
    ASSUME NEW M, NEW q \in Seq(M), NEW m \in M
    PROVE  Adds(q, q \o <<m>>, m)
<1>1. PICK n, t : n = Len(q) /\ t = q \o <<m>>
  OBVIOUS
<1>2. /\ t \in Seq(M) /\ n \in Nat /\ Len(t) = n + 1 /\ t[n + 1] = m
      /\ \A k \in 1 .. n : t[k] = q[k]
  BY <1>1, OneMore
<1>3. DOMAIN q = 1 .. n /\ DOMAIN t = 1 .. n + 1
  BY <1>1, <1>2, LenProperties
<1> QED
  BY <1>1, <1>2, <1>3 DEF Adds

LEMMA TailDrops ==
    ASSUME NEW M, NEW q \in Seq(M), q # <<>>
    PROVE  Drops(q, Tail(q))
<1>1. PICK n, t : n = Len(q) - 1 /\ t = Tail(q)
  OBVIOUS
<1>2. /\ t \in Seq(M) /\ n \in Nat /\ Len(t) = n /\ Len(q) = n + 1
      /\ \A k \in 1 .. n : t[k] = q[k + 1]
  BY <1>1, OneLess
<1>3. DOMAIN q = 1 .. n + 1 /\ DOMAIN t = 1 .. n
  BY <1>1, <1>2, LenProperties
<1> QED
  BY <1>1, <1>2, <1>3 DEF Drops

LEMMA AddsRises ==
    ASSUME NEW q, NEW t, NEW i, Adds(q, t, i)
    PROVE  /\ \A j : OnLine(t, j) <=> (OnLine(q, j) \/ j = i)
           /\ Rises(q) /\ (\A j : OnLine(q, j) => j < i) => Rises(t)
<1>1. PICK n \in Nat :
        /\ DOMAIN q = 1 .. n /\ DOMAIN t = 1 .. n + 1
        /\ t[n + 1] = i /\ \A k \in 1 .. n : t[k] = q[k]
  BY DEF Adds
<1>2. \A k : k \in 1 .. n + 1 <=> (k \in 1 .. n \/ k = n + 1)
  OBVIOUS
<1>3. \A j : OnLine(t, j) <=> (OnLine(q, j) \/ j = i)
  BY <1>1, <1>2 DEF OnLine
<1>4. ASSUME Rises(q), \A j : OnLine(q, j) => j < i,
             NEW k \in DOMAIN t, NEW l \in DOMAIN t, k < l
      PROVE  t[k] < t[l]
  <2>1. k \in 1 .. n
    BY <1>1, <1>4
  <2>2. OnLine(q, q[k]) /\ t[k] = q[k]
    BY <1>1, <2>1 DEF OnLine
  <2>3. CASE l = n + 1
    BY <1>1, <1>4, <2>2, <2>3
  <2>4. CASE l \in 1 .. n
    BY <1>1, <1>4, <2>1, <2>2, <2>4 DEF Rises
  <2> QED
    BY <1>1, <1>2, <1>4, <2>3, <2>4
<1> QED
  BY <1>3, <1>4 DEF Rises

LEMMA DropsRises ==
    ASSUME NEW q, NEW t, Drops(q, t), Rises(q),
           \A k \in DOMAIN q : q[k] \in Int
    PROVE  /\ Rises(t) /\ 1 \in DOMAIN q
           /\ \A j : OnLine(q, j) <=> (OnLine(t, j) \/ j = q[1])
           /\ \A j : OnLine(t, j) => q[1] < j
<1>1. PICK n \in Nat :
        /\ DOMAIN q = 1 .. n + 1 /\ DOMAIN t = 1 .. n
        /\ \A k \in 1 .. n : t[k] = q[k + 1]
  BY DEF Drops
<1>2. 1 \in 1 .. n + 1 /\ \A k \in 1 .. n : k + 1 \in 1 .. n + 1 /\ 1 < k + 1
  OBVIOUS
<1>3. Rises(t)
  <2> SUFFICES ASSUME NEW k \in 1 .. n, NEW l \in 1 .. n, k < l
               PROVE  t[k] < t[l]
    BY <1>1 DEF Rises
  <2>1. k + 1 \in 1 .. n + 1 /\ l + 1 \in 1 .. n + 1 /\ k + 1 < l + 1
    OBVIOUS
  <2> QED
    BY <1>1, <2>1 DEF Rises
<1>4. \A k \in 1 .. n + 1 : k = 1 \/ (k - 1 \in 1 .. n /\ (k - 1) + 1 = k)
  OBVIOUS
<1>5. ASSUME NEW j
      PROVE  OnLine(q, j) <=> (OnLine(t, j) \/ j = q[1])
  <2>1. ASSUME OnLine(q, j), j # q[1]
        PROVE  OnLine(t, j)
    <3>1. PICK k \in 1 .. n + 1 : q[k] = j
      BY <1>1, <2>1 DEF OnLine
    <3>2. k - 1 \in 1 .. n /\ (k - 1) + 1 = k
      BY <1>4, <2>1, <3>1
    <3>3. t[k - 1] = j
      BY <1>1, <3>1, <3>2
    <3> QED
      BY <1>1, <3>2, <3>3 DEF OnLine
  <2>2. OnLine(t, j) => OnLine(q, j)
    BY <1>1, <1>2 DEF OnLine
  <2>3. OnLine(q, q[1])
    BY <1>1, <1>2 DEF OnLine
  <2> QED
    BY <2>1, <2>2, <2>3
<1>6. ASSUME NEW j, OnLine(t, j)
      PROVE  q[1] < j
  <2>1. PICK k \in 1 .. n : t[k] = j
    BY <1>1, <1>6 DEF OnLine
  <2> QED
    BY <1>1, <1>2, <2>1 DEF Rises
<1> QED
  BY <1>1, <1>2, <1>3, <1>5, <1>6

\* the instances the messages of a channel are about
About(m) == CHOOSE j \in DOMAIN m.accept : TRUE
AboutAll(q) == [k \in DOMAIN q |-> About(q[k])]
InstsOf(q) == [k \in DOMAIN q |-> q[k].inst]

LEMMA LinesMove ==
    ASSUME NEW q, NEW t
    PROVE  /\ Drops(q, t) => /\ Drops(AboutAll(q), AboutAll(t))
                             /\ Drops(InstsOf(q), InstsOf(t))
           /\ \A m : Adds(q, t, m) => /\ Adds(AboutAll(q), AboutAll(t), About(m))
                                      /\ Adds(InstsOf(q), InstsOf(t), m.inst)
<1>1. ASSUME Drops(q, t)
      PROVE  /\ Drops(AboutAll(q), AboutAll(t))
             /\ Drops(InstsOf(q), InstsOf(t))
  <2>1. PICK n \in Nat :
        /\ DOMAIN q = 1 .. n + 1 /\ DOMAIN t = 1 .. n
        /\ \A k \in 1 .. n : t[k] = q[k + 1]
    BY <1>1 DEF Drops
  <2>2. \A k \in 1 .. n : k + 1 \in 1 .. n + 1
    OBVIOUS
  <2>3. \A k \in 1 .. n : /\ AboutAll(t)[k] = AboutAll(q)[k + 1]
                          /\ InstsOf(t)[k] = InstsOf(q)[k + 1]
    BY <2>1, <2>2 DEF AboutAll, InstsOf
  <2>4. /\ DOMAIN AboutAll(q) = DOMAIN q /\ DOMAIN AboutAll(t) = DOMAIN t
        /\ DOMAIN InstsOf(q) = DOMAIN q /\ DOMAIN InstsOf(t) = DOMAIN t
    BY DEF AboutAll, InstsOf
  <2> QED
    BY <2>1, <2>3, <2>4 DEF Drops
<1>2. ASSUME NEW m, Adds(q, t, m)
      PROVE  /\ Adds(AboutAll(q), AboutAll(t), About(m))
             /\ Adds(InstsOf(q), InstsOf(t), m.inst)
  <2>1. PICK n \in Nat :
        /\ DOMAIN q = 1 .. n /\ DOMAIN t = 1 .. n + 1
        /\ t[n + 1] = m /\ \A k \in 1 .. n : t[k] = q[k]
    BY <1>2 DEF Adds
  <2>2. n + 1 \in 1 .. n + 1 /\ \A k \in 1 .. n : k \in 1 .. n + 1
    OBVIOUS
  <2>3. /\ AboutAll(t)[n + 1] = About(m) /\ InstsOf(t)[n + 1] = m.inst
        /\ \A k \in 1 .. n : /\ AboutAll(t)[k] = AboutAll(q)[k]
                             /\ InstsOf(t)[k] = InstsOf(q)[k]
    BY <2>1, <2>2 DEF AboutAll, InstsOf
  <2>4. /\ DOMAIN AboutAll(q) = DOMAIN q /\ DOMAIN AboutAll(t) = DOMAIN t
        /\ DOMAIN InstsOf(q) = DOMAIN q /\ DOMAIN InstsOf(t) = DOMAIN t
    BY DEF AboutAll, InstsOf
  <2> QED
    BY <2>1, <2>3, <2>4 DEF Adds
<1> QED
  BY <1>1, <1>2

-----------------------------------------------------------------------------
(* The invariant of the counts: the replies to an instance come in turn     *)

MockWaiting(s) == AboutAll(acceptExecTimeChan[s][1])
MockReplying(s) == InstsOf(acceptReplyChan[1][s])
MockFollowers == Others(1) \ Standbys(0)

\* s may still reply to i, or its reply is on its way; and who has had its turn
MockPending(s, i) == OnLine(MockWaiting(s), i) \/ OnLine(MockReplying(s), i)
MockCount(i) == instanceSpaceMock[1][i].accepts
MockCounted(i) == {s \in MockFollowers : ~MockPending(s, i)}

MockRow == \A i, j \in Inst : (j < i /\ MockKnown(i)) => MockKnown(j)

InTurn(s) ==
    /\ Rises(MockWaiting(s)) /\ Rises(MockReplying(s))
    /\ \A i : OnLine(MockReplying(s), i) =>
            s \in MockFollowers /\ \A j : OnLine(MockWaiting(s), j) => i < j

CountIsRight(i) ==
    /\ HasMockCommitted(1, i) <=> EnoughAccepts(MockCount(i))
    /\ MockKnown(i) => MockCount(i) <= Cardinality(MockCounted(i))
    /\ (MockKnown(i) /\ ~HasMockCommitted(1, i))
            => MockCount(i) = Cardinality(MockCounted(i))

PendingInTurn(s) == \A i, j \in Inst :
    (j < i /\ MockKnown(i) /\ ~HasMockCommitted(1, j) /\ MockPending(s, j))
        => MockPending(s, i)

CountingInv ==
    /\ MockRow
    /\ \A s \in Replica : InTurn(s)
    /\ \A i \in Inst : CountIsRight(i)
    /\ \A s \in MockFollowers : PendingInTurn(s)

LEMMA MockTypes ==
    ASSUME TypeOK
    PROVE  /\ \A s \in Replica :
                /\ acceptExecTimeChan[s][1] \in Seq(AcceptMsgs)
                /\ acceptReplyChan[1][s] \in Seq(ReplyMsgs)
                /\ commitChan[s][1] \in Seq(CommitMsgs)
                /\ globalMaxCommittedGhost[s] \in 0 .. MaxInst
           /\ \A i \in Inst : MockCount(i) \in Nat
           /\ 1 \in Replica /\ MockFollowers \in SUBSET Replica
<1>1. 1 \in Replica /\ MockFollowers \in SUBSET Replica
  BY FirstRoles DEF MockFollowers, Others
<1>2. \A i \in Inst : MockCount(i) \in Nat
  BY <1>1, MaxAcceptsType DEF TypeOK, LogTypeOK, Entry, MockCount
<1> QED
  BY <1>1, <1>2 DEF TypeOK, LogTypeOK, ChannelTypeOK

LEMMA CountedSets ==
    ASSUME TypeOK, NEW i
    PROVE  /\ IsFiniteSet(MockCounted(i)) /\ Cardinality(MockCounted(i)) \in Nat
           /\ IsFiniteSet(MockFollowers)
<1>1. MockCounted(i) \in SUBSET Replica /\ MockFollowers \in SUBSET Replica
  BY MockTypes DEF MockCounted
<1> QED
  BY <1>1, ReplicasFinite, FS_Subset, FS_CardinalityType

\* whatever is under way is about an instance that the mock coordinator has
LEMMA PendingIsKnown ==
    ASSUME TypeOK, MockInv, NEW s \in Replica
    PROVE  /\ \A k \in DOMAIN MockWaiting(s) :
                    MockWaiting(s)[k] \in Inst /\ MockKnown(MockWaiting(s)[k])
           /\ \A k \in DOMAIN MockReplying(s) :
                    MockReplying(s)[k] \in Inst /\ MockKnown(MockReplying(s)[k])
           /\ \A i : MockPending(s, i) => i \in Inst /\ MockKnown(i)
<1>1. ASSUME NEW k \in DOMAIN MockWaiting(s)
      PROVE  MockWaiting(s)[k] \in Inst /\ MockKnown(MockWaiting(s)[k])
  <2>1. PICK m : m = acceptExecTimeChan[s][1][k] /\ MockWaiting(s)[k] = About(m)
    BY <1>1 DEF MockWaiting, AboutAll
  <2>2. m \in MockProposals
    <3>1. k \in DOMAIN acceptExecTimeChan[s][1]
          /\ acceptExecTimeChan[s][1] \in Seq(MockProposals)
      BY <1>1 DEF MockWaiting, AboutAll, MockInv, MockTraffic
    <3> QED
      BY <2>1, <3>1, ElementOfSeq, LenProperties
  <2>3. DOMAIN m.accept # {} /\ DOMAIN m.accept \subseteq Inst
    BY <2>2, AcceptType DEF MockProposals, AcceptMsgs
  <2>4. About(m) \in DOMAIN m.accept
    BY <2>3 DEF About
  <2> QED
    BY <2>1, <2>2, <2>3, <2>4 DEF MockProposals
<1>2. ASSUME NEW k \in DOMAIN MockReplying(s)
      PROVE  MockReplying(s)[k] \in Inst /\ MockKnown(MockReplying(s)[k])
  <2>1. PICK m : m = acceptReplyChan[1][s][k] /\ MockReplying(s)[k] = m.inst
    BY <1>2 DEF MockReplying, InstsOf
  <2>2. m \in MockReplies
    <3>1. k \in DOMAIN acceptReplyChan[1][s]
          /\ acceptReplyChan[1][s] \in Seq(MockReplies)
      BY <1>2 DEF MockReplying, InstsOf, MockInv, MockTraffic
    <3> QED
      BY <2>1, <3>1, ElementOfSeq, LenProperties
  <2> QED
    BY <2>1, <2>2 DEF MockReplies, ReplyMsgs
<1>3. \A i : MockPending(s, i) => i \in Inst /\ MockKnown(i)
  BY <1>1, <1>2 DEF MockPending, OnLine
<1> QED
  BY <1>1, <1>2, <1>3

\* replies count in turn, so the instances are committed in turn
LEMMA CommitsInTurn ==
    ASSUME TypeOK, CountingInv, NEW i \in Inst, NEW j \in Inst, j < i,
           HasMockCommitted(1, i)
    PROVE  HasMockCommitted(1, j)
<1> SUFFICES ASSUME ~HasMockCommitted(1, j)
             PROVE  FALSE
  OBVIOUS
<1>1. MockKnown(i) /\ MockKnown(j)
  BY CommittedIsKnown DEF CountingInv, MockRow
<1>2. MockCounted(i) \subseteq MockCounted(j)
  BY <1>1 DEF CountingInv, PendingInTurn, MockCounted
<1>3. Cardinality(MockCounted(i)) <= Cardinality(MockCounted(j))
  BY <1>2, CountedSets, FS_Subset
<1>4. /\ EnoughAccepts(MockCount(i)) /\ ~EnoughAccepts(MockCount(j))
      /\ MockCount(i) <= Cardinality(MockCounted(i))
      /\ MockCount(j) = Cardinality(MockCounted(j))
  BY <1>1 DEF CountingInv, CountIsRight
<1>5. MockCount(i) \in Nat /\ MockCount(j) \in Nat
  BY MockTypes
<1>6. Cardinality(MockCounted(i)) \in Nat
  BY CountedSets
<1>7. MockCount(i) <= MockCount(j)
  BY <1>3, <1>4, <1>5, <1>6
<1> QED
  BY <1>4, <1>5, <1>7, NAssumption DEF EnoughAccepts

-----------------------------------------------------------------------------
(* What the steps do to the counts *)

MockRowStays == \A j \in Inst : instanceSpaceMock'[1][j] = instanceSpaceMock[1][j]

LinesStay(s) == MockWaiting(s)' = MockWaiting(s) /\ MockReplying(s)' = MockReplying(s)

LEMMA TurnStays ==
    ASSUME NEW s, InTurn(s), LinesStay(s)
    PROVE  InTurn(s)' /\ \A i : MockPending(s, i)' <=> MockPending(s, i)
<1>1. PICK w, p : w = MockWaiting(s) /\ p = MockReplying(s)
  OBVIOUS
<1>2. MockWaiting(s)' = w /\ MockReplying(s)' = p
  BY <1>1 DEF LinesStay
<1> QED
  BY <1>1, <1>2 DEF InTurn, MockPending, Rises, OnLine, MockFollowers, Others

\* the mock coordinator's instances stay; what is no longer pending is committed
LEMMA CountsStay ==
    ASSUME TypeOK, CountingInv, MockRowStays, \A s \in Replica : InTurn(s)',
           \A s \in MockFollowers, i \in Inst :
                /\ MockPending(s, i)' => MockPending(s, i)
                /\ MockPending(s, i) => MockPending(s, i)' \/ HasMockCommitted(1, i)
    PROVE  CountingInv'
<1>1. \A i \in Inst : /\ MockKnown(i)' <=> MockKnown(i)
                      /\ HasMockCommitted(1, i)' <=> HasMockCommitted(1, i)
                      /\ MockCount(i)' = MockCount(i)
  BY DEF MockRowStays, MockKnown, IsNil, HasMockCommitted, MockCount
<1>2. MockRow'
  BY <1>1 DEF CountingInv, MockRow
<1>3. MockFollowers' = MockFollowers
  BY DEF MockFollowers, Others
<1>4. ASSUME NEW i \in Inst
      PROVE  CountIsRight(i)'
  <2>1. PICK old, new :
            /\ old = MockCounted(i)
            /\ new = {s \in MockFollowers : ~MockPending(s, i)'}
    OBVIOUS
  <2>2. MockCounted(i)' = new
    BY <1>3, <2>1 DEF MockCounted
  <2>3. old \subseteq new /\ (~HasMockCommitted(1, i) => new = old)
    BY <2>1 DEF MockCounted
  <2>4. IsFiniteSet(new) /\ new \subseteq MockFollowers
    BY <2>1, CountedSets, FS_Subset
  <2>5. /\ Cardinality(old) <= Cardinality(new)
        /\ Cardinality(old) \in Nat /\ Cardinality(new) \in Nat
    BY <2>3, <2>4, FS_Subset, FS_CardinalityType
  <2>6. CountIsRight(i) /\ MockCount(i) \in Nat
    BY MockTypes DEF CountingInv
  <2>7. /\ HasMockCommitted(1, i)' <=> EnoughAccepts(MockCount(i))
        /\ MockKnown(i)' => MockCount(i) <= Cardinality(new)
        /\ (MockKnown(i)' /\ ~HasMockCommitted(1, i)')
                => MockCount(i) = Cardinality(new)
    BY <1>1, <2>1, <2>3, <2>5, <2>6 DEF CountIsRight
  <2> QED
    BY <1>1, <2>2, <2>7 DEF CountIsRight
<1>5. ASSUME NEW s \in MockFollowers
      PROVE  PendingInTurn(s)'
  <2>1. ASSUME NEW i \in Inst, NEW j \in Inst, j < i, MockKnown(i),
               ~HasMockCommitted(1, j), MockPending(s, j)'
        PROVE  MockPending(s, i)'
    <3>1. MockPending(s, i)
      BY <2>1 DEF CountingInv, PendingInTurn
    <3>2. ~HasMockCommitted(1, i)
      BY <2>1, CommitsInTurn
    <3> QED
      BY <3>1, <3>2
  <2> QED
    BY <1>1, <2>1 DEF PendingInTurn
<1> QED
  BY <1>2, <1>3, <1>4, <1>5 DEF CountingInv

\* an Accept is sent to s, after all others
LEMMA TurnAdds ==
    ASSUME NEW s, InTurn(s), NEW i, Adds(MockWaiting(s), MockWaiting(s)', i),
           MockReplying(s)' = MockReplying(s), \A j : MockPending(s, j) => j < i
    PROVE  InTurn(s)' /\ \A j : MockPending(s, j)' <=> (MockPending(s, j) \/ j = i)
<1>1. PICK q, t, p : q = MockWaiting(s) /\ t = MockWaiting(s)' /\ p = MockReplying(s)
  OBVIOUS
<1>2. MockReplying(s)' = p /\ Adds(q, t, i) /\ Rises(q) /\ Rises(p)
  BY <1>1 DEF InTurn
<1>3. \A j : OnLine(q, j) \/ OnLine(p, j) => j < i
  BY <1>1 DEF MockPending
<1>4. Rises(t) /\ \A j : OnLine(t, j) <=> (OnLine(q, j) \/ j = i)
  BY <1>2, <1>3, AddsRises
<1>5. \A k : OnLine(p, k) => s \in MockFollowers /\ \A j : OnLine(t, j) => k < j
  BY <1>1, <1>3, <1>4 DEF InTurn
<1>6. /\ Rises(MockWaiting(s))' <=> Rises(t)
      /\ Rises(MockReplying(s))' <=> Rises(p)
      /\ \A k : OnLine(MockWaiting(s), k)' <=> OnLine(t, k)
      /\ \A k : OnLine(MockReplying(s), k)' <=> OnLine(p, k)
      /\ MockFollowers' = MockFollowers
  BY <1>1, <1>2 DEF Rises, OnLine, MockFollowers, Others
<1> QED
  BY <1>1, <1>2, <1>4, <1>5, <1>6 DEF InTurn, MockPending

\* s takes the Accept and replies ...
LEMMA TurnVotes ==
    ASSUME NEW s \in MockFollowers, InTurn(s), Drops(MockWaiting(s), MockWaiting(s)'),
           \A k \in DOMAIN MockWaiting(s) : MockWaiting(s)[k] \in Int,
           Adds(MockReplying(s), MockReplying(s)', MockWaiting(s)[1])
    PROVE  InTurn(s)' /\ \A j : MockPending(s, j)' <=> MockPending(s, j)
<1>1. PICK q, t, p, u, i : /\ q = MockWaiting(s) /\ t = MockWaiting(s)'
                           /\ p = MockReplying(s) /\ u = MockReplying(s)'
                           /\ i = q[1]
  OBVIOUS
<1>2. Drops(q, t) /\ Adds(p, u, i) /\ Rises(q) /\ Rises(p)
      /\ \A k : OnLine(p, k) => \A j : OnLine(q, j) => k < j
  BY <1>1 DEF InTurn
<1>3. /\ Rises(t)
      /\ \A j : OnLine(q, j) <=> (OnLine(t, j) \/ j = i)
      /\ \A j : OnLine(t, j) => i < j
  BY <1>1, <1>2, DropsRises
<1>4. Rises(u) /\ \A j : OnLine(u, j) <=> (OnLine(p, j) \/ j = i)
  BY <1>2, <1>3, AddsRises
<1>5. /\ Rises(MockWaiting(s))' <=> Rises(t)
      /\ Rises(MockReplying(s))' <=> Rises(u)
      /\ \A k : OnLine(MockWaiting(s), k)' <=> OnLine(t, k)
      /\ \A k : OnLine(MockReplying(s), k)' <=> OnLine(u, k)
      /\ MockFollowers' = MockFollowers
  BY <1>1 DEF Rises, OnLine, MockFollowers, Others
<1>6. \A k : OnLine(u, k) => \A j : OnLine(t, j) => k < j
  BY <1>2, <1>3, <1>4
<1>7. InTurn(s)'
  BY <1>3, <1>4, <1>5, <1>6 DEF InTurn
<1> QED
  BY <1>1, <1>3, <1>4, <1>5, <1>7 DEF MockPending

\* ... or does not reply
LEMMA TurnSkips ==
    ASSUME NEW s, InTurn(s), Drops(MockWaiting(s), MockWaiting(s)'),
           \A k \in DOMAIN MockWaiting(s) : MockWaiting(s)[k] \in Int,
           MockReplying(s)' = MockReplying(s)
    PROVE  /\ InTurn(s)'
           /\ \A j : MockPending(s, j)' => MockPending(s, j)
           /\ \A j : MockPending(s, j) => MockPending(s, j)' \/ j = MockWaiting(s)[1]
<1>1. PICK q, t, p : q = MockWaiting(s) /\ t = MockWaiting(s)' /\ p = MockReplying(s)
  OBVIOUS
<1>2. Drops(q, t) /\ Rises(q) /\ Rises(p) /\ MockReplying(s)' = p
      /\ \A k : OnLine(p, k) =>
            s \in MockFollowers /\ \A j : OnLine(q, j) => k < j
  BY <1>1 DEF InTurn
<1>3. /\ Rises(t)
      /\ \A j : OnLine(q, j) <=> (OnLine(t, j) \/ j = q[1])
  BY <1>1, <1>2, DropsRises
<1>4. /\ Rises(MockWaiting(s))' <=> Rises(t)
      /\ Rises(MockReplying(s))' <=> Rises(p)
      /\ \A k : OnLine(MockWaiting(s), k)' <=> OnLine(t, k)
      /\ \A k : OnLine(MockReplying(s), k)' <=> OnLine(p, k)
      /\ MockFollowers' = MockFollowers
  BY <1>1, <1>2 DEF Rises, OnLine, MockFollowers, Others
<1>5. InTurn(s)'
  BY <1>2, <1>3, <1>4 DEF InTurn
<1> QED
  BY <1>1, <1>3, <1>4, <1>5 DEF MockPending

\* the mock coordinator takes the reply: s had no earlier turn left
LEMMA TurnCounted ==
    ASSUME NEW s, InTurn(s), Drops(MockReplying(s), MockReplying(s)'),
           \A k \in DOMAIN MockReplying(s) : MockReplying(s)[k] \in Int,
           MockWaiting(s)' = MockWaiting(s), NEW i, i = MockReplying(s)[1]
    PROVE  /\ InTurn(s)' /\ s \in MockFollowers /\ i \in Int
           /\ \A j : MockPending(s, j) <=> (MockPending(s, j)' \/ j = i)
           /\ \A j : MockPending(s, j)' => i < j
<1>1. PICK q, p, u : q = MockWaiting(s) /\ p = MockReplying(s) /\ u = MockReplying(s)'
  OBVIOUS
<1>2. Drops(p, u) /\ Rises(q) /\ Rises(p) /\ MockWaiting(s)' = q
      /\ \A k : OnLine(p, k) =>
            s \in MockFollowers /\ \A j : OnLine(q, j) => k < j
  BY <1>1 DEF InTurn
<1>3. /\ Rises(u) /\ 1 \in DOMAIN p
      /\ \A j : OnLine(p, j) <=> (OnLine(u, j) \/ j = i)
      /\ \A j : OnLine(u, j) => i < j
  BY <1>1, <1>2, DropsRises
<1>4. /\ Rises(MockWaiting(s))' <=> Rises(q)
      /\ Rises(MockReplying(s))' <=> Rises(u)
      /\ \A k : OnLine(MockWaiting(s), k)' <=> OnLine(q, k)
      /\ \A k : OnLine(MockReplying(s), k)' <=> OnLine(u, k)
      /\ MockFollowers' = MockFollowers
  BY <1>1, <1>2 DEF Rises, OnLine, MockFollowers, Others
<1>5. s \in MockFollowers /\ i \in Int /\ \A j : OnLine(q, j) => i < j
  BY <1>1, <1>2, <1>3
<1>6. InTurn(s)'
  BY <1>2, <1>3, <1>4 DEF InTurn
<1> QED
  BY <1>1, <1>3, <1>4, <1>5, <1>6 DEF MockPending

\* the mock coordinator proposes its next instance
LEMMA CountsPropose ==
    ASSUME TypeOK, MockInv, CountingInv, NEW i \in Inst, ~MockKnown(i),
           \A j \in Inst : j < i => MockKnown(j),
           NEW e, MockWrites(1, i, e), e.status = "MOCKACCEPTED", e.accepts = 0,
           LinesStay(1),
           \A s \in Others(1) : /\ Adds(MockWaiting(s), MockWaiting(s)', i)
                                /\ MockReplying(s)' = MockReplying(s)
    PROVE  CountingInv'
<1>1. /\ 1 \in Replica
      /\ \A j \in Inst : instanceSpaceMock'[1][j] = IF j = i THEN e
                                                    ELSE instanceSpaceMock[1][j]
  BY MockTypes DEF MockWrites
<1>2. /\ \A j \in Inst : j # i =>
            /\ MockKnown(j)' <=> MockKnown(j)
            /\ HasMockCommitted(1, j)' <=> HasMockCommitted(1, j)
            /\ MockCount(j)' = MockCount(j)
      /\ MockKnown(i)' /\ ~HasMockCommitted(1, i)' /\ MockCount(i)' = 0
  BY <1>1 DEF MockKnown, IsNil, HasMockCommitted, MockCount
<1>3. \A s \in Replica : \A j : MockPending(s, j) => j < i
  <2> SUFFICES ASSUME NEW s \in Replica, NEW j, MockPending(s, j)
               PROVE  j < i
    OBVIOUS
  <2>1. j \in Inst /\ MockKnown(j)
    BY PendingIsKnown
  <2>2. ~(i < j)
    BY <2>1 DEF CountingInv, MockRow
  <2> QED
    BY <2>1, <2>2 DEF Inst
<1>4. \A s \in Others(1) :
        InTurn(s)' /\ \A j : MockPending(s, j)' <=> (MockPending(s, j) \/ j = i)
  BY <1>3, TurnAdds DEF CountingInv, Others
<1>5. \A s \in Replica : InTurn(s)'
  BY <1>1, <1>4, TurnStays DEF CountingInv, Others
<1>6. MockRow'
  BY <1>2 DEF CountingInv, MockRow, Inst
<1>7. MockFollowers' = MockFollowers /\ MockFollowers \subseteq Others(1)
  BY DEF MockFollowers, Others
<1>8. CountIsRight(i)'
  <2>1. MockCounted(i)' = {}
    BY <1>4, <1>7 DEF MockCounted
  <2>2. ~EnoughAccepts(0)
    BY NAssumption DEF EnoughAccepts
  <2>3. Cardinality({}) = 0
    BY FS_EmptySet
  <2> QED
    BY <1>2, <2>1, <2>2, <2>3 DEF CountIsRight
<1>9. ASSUME NEW j \in Inst, j # i
      PROVE  CountIsRight(j)'
  <2>1. MockCounted(j)' = MockCounted(j)
    BY <1>4, <1>7, <1>9 DEF MockCounted
  <2> QED
    BY <1>2, <1>9, <2>1 DEF CountIsRight, CountingInv
<1>10. ASSUME NEW s \in MockFollowers
       PROVE  PendingInTurn(s)'
  <2> SUFFICES ASSUME NEW a \in Inst, NEW b \in Inst, b < a, MockKnown(a)',
                      ~HasMockCommitted(1, b)', MockPending(s, b)'
               PROVE  MockPending(s, a)'
    BY DEF PendingInTurn
  <2>1. CASE a = i
    BY <1>4, <1>7, <2>1
  <2>2. CASE a # i
    <3>1. MockKnown(a) /\ b # i
      BY <1>2, <2>2 DEF CountingInv, MockRow
    <3>2. MockPending(s, b) /\ ~HasMockCommitted(1, b)
      BY <1>2, <1>4, <1>7, <3>1
    <3>3. MockPending(s, a)
      BY <3>1, <3>2 DEF CountingInv, PendingInTurn
    <3> QED
      BY <1>4, <1>7, <3>3
  <2> QED
    BY <2>1, <2>2
<1> QED
  BY <1>5, <1>6, <1>7, <1>8, <1>9, <1>10 DEF CountingInv

\* the mock coordinator counts a reply, and commits as soon as they are enough
LEMMA CountsReply ==
    ASSUME TypeOK, MockInv, CountingInv, NEW s \in Replica,
           NEW i, i = MockReplying(s)[1],
           Drops(MockReplying(s), MockReplying(s)'), MockWaiting(s)' = MockWaiting(s),
           \A x \in Replica : x # s => LinesStay(x),
           NEW e, MockWrites(1, i, e), e.status # "NIL",
           e.status = "MOCKCOMMITTED" <=> \/ HasMockCommitted(1, i)
                                          \/ EnoughAccepts(e.accepts),
           e.accepts = IF MockCount(i) < MaxAccepts THEN MockCount(i) + 1
                                                    ELSE MockCount(i)
    PROVE  CountingInv' /\ i \in Inst
<1>1. /\ InTurn(s)' /\ s \in MockFollowers
      /\ \A j : MockPending(s, j) <=> (MockPending(s, j)' \/ j = i)
      /\ \A j : MockPending(s, j)' => i < j
  <2>1. \A k \in DOMAIN MockReplying(s) : MockReplying(s)[k] \in Int
    BY PendingIsKnown DEF Inst
  <2> QED
    BY <2>1, TurnCounted DEF CountingInv
<1>2. i \in Inst /\ MockKnown(i)
  BY <1>1, PendingIsKnown
<1>3. \A x \in Replica : x # s =>
        InTurn(x)' /\ \A j : MockPending(x, j)' <=> MockPending(x, j)
  BY TurnStays DEF CountingInv
<1>4. /\ 1 \in Replica
      /\ \A j \in Inst : instanceSpaceMock'[1][j] = IF j = i THEN e
                                                    ELSE instanceSpaceMock[1][j]
  BY MockTypes DEF MockWrites
<1>5. /\ \A j \in Inst : MockKnown(j)' <=> MockKnown(j)
      /\ \A j \in Inst : j # i =>
            /\ HasMockCommitted(1, j)' <=> HasMockCommitted(1, j)
            /\ MockCount(j)' = MockCount(j)
      /\ HasMockCommitted(1, i)' <=> e.status = "MOCKCOMMITTED"
      /\ MockCount(i)' = e.accepts
  BY <1>2, <1>4 DEF MockKnown, IsNil, HasMockCommitted, MockCount
<1>6. MockRow'
  BY <1>5 DEF CountingInv, MockRow
<1>7. MockFollowers' = MockFollowers /\ MockFollowers \subseteq Replica
  BY DEF MockFollowers, Others
<1>8. ~MockPending(s, i)'
  BY <1>1, <1>2 DEF Inst
<1>9. CountIsRight(i)'
  <2>1. PICK old, c : old = MockCounted(i) /\ c = MockCount(i)
    OBVIOUS
  <2>2. MockCounted(i)' = old \union {s} /\ s \notin old
    BY <1>1, <1>3, <1>7, <1>8, <2>1 DEF MockCounted
  <2>3. /\ Cardinality(old \union {s}) = Cardinality(old) + 1
        /\ Cardinality(old) \in Nat
    BY <2>1, <2>2, CountedSets, FS_AddElement
  <2>4. /\ c \in Nat /\ c <= Cardinality(old)
        /\ HasMockCommitted(1, i) <=> EnoughAccepts(c)
        /\ ~HasMockCommitted(1, i) => c = Cardinality(old)
    BY <1>2, <2>1, MockTypes DEF CountingInv, CountIsRight
  <2>5. e.accepts = IF c < MaxAccepts THEN c + 1 ELSE c
    BY <2>1
  <2>6. EnoughAccepts(c) => EnoughAccepts(e.accepts)
    BY <2>4, <2>5, NAssumption DEF EnoughAccepts
  <2>7. ~EnoughAccepts(c) => c < MaxAccepts
    BY <2>4, NAssumption DEF EnoughAccepts, MaxAccepts
  <2>8. /\ HasMockCommitted(1, i)' <=> EnoughAccepts(e.accepts)
        /\ e.accepts <= Cardinality(old) + 1
        /\ ~HasMockCommitted(1, i)' => e.accepts = Cardinality(old) + 1
    BY <1>5, <2>3, <2>4, <2>5, <2>6, <2>7
  <2> QED
    BY <1>5, <2>2, <2>3, <2>8 DEF CountIsRight
<1>10. ASSUME NEW j \in Inst, j # i
       PROVE  CountIsRight(j)'
  <2>1. MockCounted(j)' = MockCounted(j)
    BY <1>1, <1>3, <1>7, <1>10 DEF MockCounted
  <2> QED
    BY <1>5, <1>10, <2>1 DEF CountIsRight, CountingInv
<1>11. ASSUME NEW x \in MockFollowers
       PROVE  PendingInTurn(x)'
  <2> SUFFICES ASSUME NEW a \in Inst, NEW b \in Inst, b < a, MockKnown(a)',
                      ~HasMockCommitted(1, b)', MockPending(x, b)'
               PROVE  MockPending(x, a)'
    BY DEF PendingInTurn
  <2>1. MockKnown(a) /\ ~HasMockCommitted(1, b)
    BY <1>5
  <2>2. MockPending(x, b)
    BY <1>1, <1>3, <1>7
  <2>3. MockPending(x, a)
    BY <2>1, <2>2 DEF CountingInv, PendingInTurn
  <2>4. CASE x = s /\ a = i
    BY <1>1, <2>4 DEF Inst
  <2> QED
    BY <1>1, <1>3, <1>7, <2>3, <2>4
<1> QED
  BY <1>1, <1>2, <1>3, <1>6, <1>7, <1>9, <1>10, <1>11 DEF CountingInv

-----------------------------------------------------------------------------
(* The invariant of globalMaxCommittedGhost: a replica has all instances    *)
(* below it                                                                 *)

MockHas(r, j) == ~IsNil(instanceSpaceMock[r], j)
MockCommitsTo(r) == commitChan[r][1]

GlobalMaxCommitted ==
    \A j \in Inst : j < globalMaxCommittedGhost[1] => HasMockCommitted(1, j)

\* what was committed r has or is about to be told, in turn
Told(r) ==
    /\ \A j \in Inst : HasMockCommitted(1, j) =>
          MockHas(r, j) \/ \E k \in DOMAIN MockCommitsTo(r) :
                                MockCommitsTo(r)[k].inst = j
    /\ \A k \in DOMAIN MockCommitsTo(r), j \in Inst :
          j < MockCommitsTo(r)[k].globalMax =>
            MockHas(r, j) \/ \E l \in DOMAIN MockCommitsTo(r) :
                                l < k /\ MockCommitsTo(r)[l].inst = j
    /\ \A j \in Inst : j < globalMaxCommittedGhost[r] => MockHas(r, j)

ToldInv == GlobalMaxCommitted /\ \A r \in Others(1) : Told(r)

MockHasGrows(r) == \A j \in Inst : MockHas(r, j) => MockHas(r, j)'
NoMockCommit == \A j \in Inst : HasMockCommitted(1, j)' => HasMockCommitted(1, j)

LEMMA ToldStays ==
    ASSUME NEW r, Told(r), MockHasGrows(r), NoMockCommit,
           MockCommitsTo(r)' = MockCommitsTo(r),
           globalMaxCommittedGhost'[r] = globalMaxCommittedGhost[r]
    PROVE  Told(r)'
<1>1. PICK q, n : q = MockCommitsTo(r) /\ n = globalMaxCommittedGhost[r]
  OBVIOUS
<1>2. MockCommitsTo(r)' = q /\ globalMaxCommittedGhost'[r] = n
  BY <1>1
<1> QED
  BY <1>1, <1>2 DEF Told, MockHasGrows, NoMockCommit

LEMMA ToldMore ==
    ASSUME NEW r, Told(r), MockHasGrows(r),
           NEW c, Adds(MockCommitsTo(r), MockCommitsTo(r)', c),
           \A j \in Inst : j < c.globalMax => HasMockCommitted(1, j),
           \A j \in Inst : HasMockCommitted(1, j)' =>
                                HasMockCommitted(1, j) \/ j = c.inst,
           globalMaxCommittedGhost'[r] = globalMaxCommittedGhost[r]
    PROVE  Told(r)'
<1>1. PICK q, t : q = MockCommitsTo(r) /\ t = MockCommitsTo(r)'
  OBVIOUS
<1>2. PICK n \in Nat :
        /\ DOMAIN q = 1 .. n /\ DOMAIN t = 1 .. n + 1
        /\ t[n + 1] = c /\ \A k \in 1 .. n : t[k] = q[k]
  BY <1>1 DEF Adds
<1>3. /\ n + 1 \in 1 .. n + 1
      /\ \A k \in 1 .. n : k \in 1 .. n + 1 /\ k < n + 1
      /\ \A k \in 1 .. n + 1 : k \in 1 .. n \/ k = n + 1
  OBVIOUS
<1>4. ASSUME NEW j \in Inst, HasMockCommitted(1, j)
      PROVE  MockHas(r, j)' \/ \E k \in 1 .. n : q[k].inst = j
  BY <1>1, <1>2, <1>4 DEF Told, MockHasGrows
<1>5. ASSUME NEW j \in Inst, HasMockCommitted(1, j)'
      PROVE  MockHas(r, j)' \/ \E k \in DOMAIN t : t[k].inst = j
  BY <1>2, <1>3, <1>4, <1>5
<1>6. ASSUME NEW k \in DOMAIN t, NEW j \in Inst, j < t[k].globalMax
      PROVE  MockHas(r, j)' \/ \E l \in DOMAIN t : l < k /\ t[l].inst = j
  <2>1. CASE k = n + 1
    BY <1>2, <1>3, <1>4, <1>6, <2>1
  <2>2. CASE k \in 1 .. n
    <3>1. MockHas(r, j) \/ \E l \in 1 .. n : l < k /\ q[l].inst = j
      BY <1>1, <1>2, <1>6, <2>2 DEF Told
    <3> QED
      BY <1>2, <1>3, <3>1 DEF MockHasGrows
  <2> QED
    BY <1>2, <1>3, <1>6, <2>1, <2>2
<1>7. \A j \in Inst : j < globalMaxCommittedGhost'[r] => MockHas(r, j)'
  BY DEF Told, MockHasGrows
<1> QED
  BY <1>1, <1>5, <1>6, <1>7 DEF Told

LEMMA ToldLess ==
    ASSUME NEW r, Told(r), MockHasGrows(r), NoMockCommit,
           Drops(MockCommitsTo(r), MockCommitsTo(r)'),
           NEW i, i = MockCommitsTo(r)[1].inst, MockHas(r, i)',
           globalMaxCommittedGhost'[r] = MockCommitsTo(r)[1].globalMax
    PROVE  Told(r)'
<1>1. PICK q, t : q = MockCommitsTo(r) /\ t = MockCommitsTo(r)'
  OBVIOUS
<1>2. PICK n \in Nat :
        /\ DOMAIN q = 1 .. n + 1 /\ DOMAIN t = 1 .. n
        /\ \A k \in 1 .. n : t[k] = q[k + 1]
  BY <1>1 DEF Drops
<1>3. /\ 1 \in 1 .. n + 1
      /\ \A k \in 1 .. n : k + 1 \in 1 .. n + 1
      /\ \A k \in 1 .. n + 1 : k = 1 \/ (k - 1 \in 1 .. n /\ (k - 1) + 1 = k)
      /\ \A k \in 1 .. n + 1 : ~(k < 1)
  OBVIOUS
<1>4. ASSUME NEW j \in Inst, NEW k \in 1 .. n + 1, q[k].inst = j
      PROVE  MockHas(r, j)' \/ (k - 1 \in 1 .. n /\ t[k - 1].inst = j)
  <2>1. CASE k = 1
    BY <1>1, <1>4, <2>1
  <2>2. CASE k - 1 \in 1 .. n /\ (k - 1) + 1 = k
    BY <1>2, <1>4, <2>2
  <2> QED
    BY <1>3, <2>1, <2>2
<1>5. ASSUME NEW j \in Inst, HasMockCommitted(1, j)'
      PROVE  MockHas(r, j)' \/ \E k \in DOMAIN t : t[k].inst = j
  <2>1. MockHas(r, j) \/ \E k \in 1 .. n + 1 : q[k].inst = j
    <3>1. HasMockCommitted(1, j)
      BY <1>5 DEF NoMockCommit
    <3> QED
      BY <1>1, <1>2, <3>1 DEF Told
  <2> QED
    BY <1>2, <1>4, <2>1 DEF MockHasGrows
<1>6. ASSUME NEW k \in DOMAIN t, NEW j \in Inst, j < t[k].globalMax
      PROVE  MockHas(r, j)' \/ \E l \in DOMAIN t : l < k /\ t[l].inst = j
  <2>1. k \in 1 .. n /\ k + 1 \in 1 .. n + 1 /\ t[k] = q[k + 1]
    BY <1>2, <1>3, <1>6
  <2>2. MockHas(r, j) \/ \E l \in 1 .. n + 1 : l < k + 1 /\ q[l].inst = j
    <3>1. PICK m : m = k + 1
      OBVIOUS
    <3>2. m \in DOMAIN q /\ j < q[m].globalMax
      BY <1>2, <1>6, <2>1, <3>1
    <3>3. MockHas(r, j) \/ \E l \in DOMAIN q : l < m /\ q[l].inst = j
      BY <1>1, <3>2 DEF Told
    <3> QED
      BY <1>2, <3>1, <3>3
  <2>3. ASSUME NEW l \in 1 .. n + 1, l < k + 1, q[l].inst = j
        PROVE  MockHas(r, j)' \/ (l - 1 \in 1 .. n /\ t[l - 1].inst = j /\ l - 1 < k)
    BY <1>4, <2>1, <2>3
  <2> QED
    BY <1>2, <2>2, <2>3 DEF MockHasGrows
<1>7. \A j \in Inst : j < globalMaxCommittedGhost'[r] => MockHas(r, j)'
  <2>1. ASSUME NEW j \in Inst, j < q[1].globalMax
        PROVE  MockHas(r, j)
    <3>1. MockHas(r, j) \/ \E l \in 1 .. n + 1 : l < 1 /\ q[l].inst = j
      BY <1>1, <1>2, <1>3, <2>1 DEF Told
    <3> QED
      BY <1>3, <3>1
  <2> QED
    BY <1>1, <2>1 DEF MockHasGrows
<1> QED
  BY <1>1, <1>5, <1>6, <1>7 DEF Told

-----------------------------------------------------------------------------
(* Both along the steps of phase 0 *)

GhostInv == CountingInv /\ ToldInv

LEMMA GhostInit == Init => GhostInv
<1> SUFFICES ASSUME Init PROVE GhostInv
  OBVIOUS
<1>1. /\ 1 \in Replica
      /\ \A j \in Inst : instanceSpaceMock[1][j] = NilInstance
      /\ \A r \in Replica : /\ acceptExecTimeChan[r][1] = <<>>
                            /\ acceptReplyChan[1][r] = <<>>
                            /\ commitChan[r][1] = <<>>
                            /\ globalMaxCommittedGhost[r] = 0
  BY FirstRoles DEF Init, InitMockLog, InitQuiet
<1>2. \A j \in Inst : /\ ~MockKnown(j) /\ ~HasMockCommitted(1, j)
                      /\ MockCount(j) = 0
  BY <1>1 DEF MockKnown, IsNil, HasMockCommitted, MockCount, NilInstance,
     NewInstance
<1>3. ~EnoughAccepts(0)
  BY NAssumption DEF EnoughAccepts
<1>4. \A r \in Replica : InTurn(r)
  <2>1. AboutAll(<<>>) = <<>> /\ InstsOf(<<>>) = <<>>
    BY DEF AboutAll, InstsOf
  <2> QED
    BY <1>1, <2>1 DEF InTurn, MockWaiting, MockReplying, Rises, OnLine
<1>5. CountingInv
  BY <1>2, <1>3, <1>4
     DEF CountingInv, MockRow, CountIsRight, PendingInTurn, MockFollowers, Others
<1>6. ToldInv
  BY <1>1, <1>2 DEF ToldInv, GlobalMaxCommitted, Told, MockCommitsTo, Inst, Others
<1> QED
  BY <1>5, <1>6 DEF GhostInv

LEMMA CountsAside ==
    ASSUME TypeOK, CountingInv, MockRowStays, \A s \in Replica : LinesStay(s)
    PROVE  CountingInv'
<1>1. \A s \in Replica :
        InTurn(s)' /\ \A i : MockPending(s, i)' <=> MockPending(s, i)
  BY TurnStays DEF CountingInv
<1> QED
  BY <1>1, MockTypes, CountsStay

LEMMA ToldAside ==
    ASSUME ToldInv, MockRowStays, UNCHANGED globalMaxCommittedGhost,
           \A x \in Others(1) : /\ MockHasGrows(x)
                                /\ MockCommitsTo(x)' = MockCommitsTo(x)
    PROVE  ToldInv'
<1>1. NoMockCommit /\ GlobalMaxCommitted'
  BY DEF MockRowStays, NoMockCommit, HasMockCommitted, GlobalMaxCommitted, ToldInv
<1>2. \A x \in Others(1) : Told(x)'
  BY <1>1, ToldStays DEF ToldInv
<1> QED
  BY <1>1, <1>2 DEF ToldInv, Others

\* nothing of the mock coordinator's moves
LEMMA GhostAside ==
    ASSUME TypeOK, GhostInv, MockRowStays, UNCHANGED globalMaxCommittedGhost,
           \A x \in Replica : /\ x # 1 => MockHasGrows(x)
                              /\ acceptExecTimeChan'[x][1] = acceptExecTimeChan[x][1]
                              /\ acceptReplyChan'[1][x] = acceptReplyChan[1][x]
                              /\ commitChan'[x][1] = commitChan[x][1]
    PROVE  GhostInv'
<1>1. \A s \in Replica : LinesStay(s) /\ MockCommitsTo(s)' = MockCommitsTo(s)
  BY DEF LinesStay, MockWaiting, MockReplying, MockCommitsTo
<1>2. CountingInv'
  BY <1>1, CountsAside DEF GhostInv
<1>3. ToldInv'
  BY <1>1, ToldAside DEF GhostInv, Others
<1> QED
  BY <1>2, <1>3 DEF GhostInv

LEMMA UnchangedMockLog ==
    ASSUME UNCHANGED instanceSpaceMock
    PROVE  MockRowStays /\ \A x : MockHasGrows(x)
  BY DEF MockRowStays, MockHasGrows, MockHas, IsNil

\* an entry of another replica's log is written
LEMMA OtherMockWrite ==
    ASSUME TypeOK, NEW r \in Replica, r # 1, NEW i \in Inst, NEW e,
           MockWrites(r, i, e), e.status # "NIL"
    PROVE  /\ MockRowStays /\ MockHas(r, i)'
           /\ \A x \in Replica : MockHasGrows(x)
<1>1. /\ 1 \in Replica
      /\ \A x \in Replica, j \in Inst :
            instanceSpaceMock'[x][j] = IF x = r /\ j = i THEN e
                                       ELSE instanceSpaceMock[x][j]
  BY MockTypes DEF MockWrites
<1> QED
  BY <1>1 DEF MockRowStays, MockHas, MockHasGrows, IsNil

\* taking a message from another than the mock coordinator, or sending one
LEMMA OtherLines ==
    ASSUME TypeOK, NEW r \in Replica, NEW s \in Replica, NEW dsts, NEW ms
    PROVE  \A x \in Replica :
        /\ s # 1 => Received(acceptExecTimeChan, r, s)[x][1] = acceptExecTimeChan[x][1]
        /\ s # 1 => Received(commitChan, r, s)[x][1] = commitChan[x][1]
        /\ r # 1 => Received(acceptReplyChan, r, s)[1][x] = acceptReplyChan[1][x]
        /\ s # 1 => Sent(acceptExecTimeChan, s, dsts, ms)[x][1] =
                        acceptExecTimeChan[x][1]
        /\ s # 1 => Sent(commitChan, s, dsts, ms)[x][1] = commitChan[x][1]
        /\ 1 \notin dsts => Sent(acceptReplyChan, s, dsts, ms)[1][x] =
                                acceptReplyChan[1][x]
<1> TAKE x \in Replica
<1>1. 1 \in Replica
  BY MockTypes
<1>2. /\ Received(acceptExecTimeChan, r, s)[x][1] =
            IF x = r /\ 1 = s THEN Tail(acceptExecTimeChan[x][1])
                              ELSE acceptExecTimeChan[x][1]
      /\ Received(commitChan, r, s)[x][1] =
            IF x = r /\ 1 = s THEN Tail(commitChan[x][1]) ELSE commitChan[x][1]
      /\ Received(acceptReplyChan, r, s)[1][x] =
            IF 1 = r /\ x = s THEN Tail(acceptReplyChan[1][x])
                              ELSE acceptReplyChan[1][x]
  BY <1>1, ChannelTypes, ReceivedAt
<1>3. /\ Sent(acceptExecTimeChan, s, dsts, ms)[x][1] =
            IF x \in dsts /\ 1 = s THEN acceptExecTimeChan[x][1] \o ms
                                   ELSE acceptExecTimeChan[x][1]
      /\ Sent(commitChan, s, dsts, ms)[x][1] =
            IF x \in dsts /\ 1 = s THEN commitChan[x][1] \o ms ELSE commitChan[x][1]
      /\ Sent(acceptReplyChan, s, dsts, ms)[1][x] =
            IF 1 \in dsts /\ x = s THEN acceptReplyChan[1][x] \o ms
                                   ELSE acceptReplyChan[1][x]
  BY <1>1, ChannelTypes, SentAt
<1> QED
  BY <1>2, <1>3

\* r takes the mock coordinator's next Accept
LEMMA TakenLines ==
    ASSUME TypeOK, NEW r \in Replica, acceptExecTimeChan[r][1] # <<>>,
           acceptExecTimeChan' = Received(acceptExecTimeChan, r, 1)
    PROVE  /\ Drops(MockWaiting(r), MockWaiting(r)')
           /\ MockWaiting(r)[1] = About(Next1(acceptExecTimeChan, r, 1))
           /\ \A x \in Replica : x # r => MockWaiting(x)' = MockWaiting(x)
<1>1. 1 \in Replica /\ acceptExecTimeChan[r][1] \in Seq(AcceptMsgs)
  BY MockTypes
<1>2. \A x \in Replica : acceptExecTimeChan'[x][1] =
            IF x = r THEN Tail(acceptExecTimeChan[x][1])
                     ELSE acceptExecTimeChan[x][1]
  BY <1>1, ChannelTypes, ReceivedAt
<1>3. PICK q, t : q = acceptExecTimeChan[r][1] /\ t = Tail(q)
  OBVIOUS
<1>4. Drops(q, t)
  BY <1>1, <1>3, TailDrops
<1>5. Drops(AboutAll(q), AboutAll(t))
  BY <1>4, LinesMove
<1>6. acceptExecTimeChan'[r][1] = t
  BY <1>2, <1>3
<1>7. MockWaiting(r)' = AboutAll(t) /\ MockWaiting(r) = AboutAll(q)
  BY <1>3, <1>6 DEF MockWaiting
<1>8. 1 \in DOMAIN q /\ q[1] = Next1(acceptExecTimeChan, r, 1)
  <2>1. Len(q) \in Nat /\ Len(q) >= 1 /\ Head(q) = q[1] /\ DOMAIN q = 1 .. Len(q)
    BY <1>1, <1>3, OneLess, LenProperties
  <2> QED
    BY <1>3, <2>1 DEF Next1
<1>9. MockWaiting(r)[1] = About(Next1(acceptExecTimeChan, r, 1))
  BY <1>7, <1>8 DEF AboutAll
<1>10. \A x \in Replica : x # r => MockWaiting(x)' = MockWaiting(x)
  BY <1>2 DEF MockWaiting
<1> QED
  BY <1>5, <1>7, <1>9, <1>10

LEMMA IgnoredKeepsGhost ==
    ASSUME TypeOK, FirstPhase, Traffic, MockInv, GhostInv,
           NEW r \in Replica, NEW s \in Replica,
           AcceptExecTimeIgnored(r, s)
    PROVE  GhostInv'
<1>1. /\ acceptExecTimeChan[r][s] # <<>>
      /\ acceptExecTimeChan' = Received(acceptExecTimeChan, r, s)
      /\ UNCHANGED <<instanceSpaceMock, globalMaxCommittedGhost,
                     acceptReplyChan, commitChan>>
  BY DEF AcceptExecTimeIgnored, mockVars
<1>2. MockRowStays /\ \A x : MockHasGrows(x)
  BY <1>1, UnchangedMockLog
<1>3. CASE s # 1
  <2>1. \A x \in Replica : acceptExecTimeChan'[x][1] = acceptExecTimeChan[x][1]
    BY <1>1, <1>3, OtherLines
  <2> QED
    BY <1>1, <1>2, <2>1, GhostAside
<1>4. CASE s = 1
  <2>1. r \in Standbys(0)
    <3>1. Next1(acceptExecTimeChan, r, s).phase = 0 /\ phase[r] = 0
      BY <1>1, TakenAccept DEF FirstPhase
    <3> QED
      BY <3>1, FirstPhaseRoles DEF AcceptExecTimeIgnored
  <2>2. r \notin MockFollowers
    BY <2>1 DEF MockFollowers
  <2>3. /\ Drops(MockWaiting(r), MockWaiting(r)')
        /\ \A x \in Replica : x # r => MockWaiting(x)' = MockWaiting(x)
    BY <1>1, <1>4, TakenLines
  <2>4. \A x \in Replica : MockReplying(x)' = MockReplying(x)
    BY <1>1 DEF MockReplying
  <2>5. \A k \in DOMAIN MockWaiting(r) : MockWaiting(r)[k] \in Int
    BY PendingIsKnown DEF Inst
  <2>6. InTurn(r)'
    BY <2>3, <2>4, <2>5, TurnSkips DEF GhostInv, CountingInv
  <2>7. \A x \in Replica : x # r =>
          InTurn(x)' /\ \A i : MockPending(x, i)' <=> MockPending(x, i)
    BY <2>3, <2>4, TurnStays DEF GhostInv, CountingInv, LinesStay
  <2>8. CountingInv'
    BY <1>2, <2>2, <2>6, <2>7, MockTypes, CountsStay DEF GhostInv
  <2>9. \A x : MockCommitsTo(x)' = MockCommitsTo(x)
    BY <1>1 DEF MockCommitsTo
  <2>10. ToldInv'
    BY <1>1, <1>2, <2>9, ToldAside DEF GhostInv
  <2> QED
    BY <2>8, <2>10 DEF GhostInv
<1> QED
  BY <1>3, <1>4

LEMMA RealAcceptKeepsGhost ==
    ASSUME TypeOK, GhostInv, NEW r \in Replica, RealAcceptExecTime(r, 0)
    PROVE  GhostInv'
<1>1. /\ acceptExecTimeChan' = Received(acceptExecTimeChan, r, 0)
      /\ \E ms : acceptReplyChan' = Sent(acceptReplyChan, r, {0}, ms)
      /\ UNCHANGED <<instanceSpaceMock, globalMaxCommittedGhost, commitChan>>
  BY DEF RealAcceptExecTime, mockVars
<1>2. 0 \in Replica /\ MockRowStays /\ \A x : MockHasGrows(x)
  BY <1>1, UnchangedMockLog, FirstRoles
<1>3. \A x \in Replica : acceptExecTimeChan'[x][1] = acceptExecTimeChan[x][1]
  BY <1>1, <1>2, OtherLines
<1>4. \A x \in Replica : acceptReplyChan'[1][x] = acceptReplyChan[1][x]
  <2>1. PICK ms : acceptReplyChan' = Sent(acceptReplyChan, r, {0}, ms)
    BY <1>1
  <2>2. 1 \notin {0}
    OBVIOUS
  <2> QED
    BY <2>1, <2>2, OtherLines
<1> QED
  BY <1>1, <1>2, <1>3, <1>4, GhostAside

LEMMA RealReplyKeepsGhost ==
    ASSUME TypeOK, GhostInv, NEW s \in Replica, RealAcceptReply(0, s)
    PROVE  GhostInv'
<1>1. /\ acceptReplyChan' = Received(acceptReplyChan, 0, s)
      /\ \/ commitChan' = commitChan
         \/ \E ms : commitChan' = Sent(commitChan, 0, Others(0), ms)
      /\ UNCHANGED <<instanceSpaceMock, globalMaxCommittedGhost, acceptExecTimeChan>>
  BY DEF RealAcceptReply, mockVars
<1>2. 0 \in Replica /\ MockRowStays /\ \A x : MockHasGrows(x)
  BY <1>1, UnchangedMockLog, FirstRoles
<1>3. \A x \in Replica : acceptReplyChan'[1][x] = acceptReplyChan[1][x]
  BY <1>1, <1>2, OtherLines
<1>4. \A x \in Replica : commitChan'[x][1] = commitChan[x][1]
  BY <1>1, <1>2, OtherLines
<1> QED
  BY <1>1, <1>2, <1>3, <1>4, GhostAside

LEMMA RealCommitKeepsGhost ==
    ASSUME TypeOK, GhostInv, NEW r \in Replica, RealCommit(r, 0)
    PROVE  GhostInv'
<1>1. /\ commitChan' = Received(commitChan, r, 0)
      /\ UNCHANGED <<instanceSpaceMock, globalMaxCommittedGhost,
                     acceptExecTimeChan, acceptReplyChan>>
  BY DEF RealCommit, mockVars
<1>2. 0 \in Replica /\ MockRowStays /\ \A x : MockHasGrows(x)
  BY <1>1, UnchangedMockLog, FirstRoles
<1>3. \A x \in Replica : commitChan'[x][1] = commitChan[x][1]
  BY <1>1, <1>2, OtherLines
<1> QED
  BY <1>1, <1>2, <1>3, GhostAside

\* an Accept is sent to all others
LEMMA SentLines ==
    ASSUME TypeOK, NEW m \in AcceptMsgs,
           acceptExecTimeChan' = Sent(acceptExecTimeChan, 1, Others(1), <<m>>)
    PROVE  /\ MockWaiting(1)' = MockWaiting(1)
           /\ \A x \in Others(1) : Adds(MockWaiting(x), MockWaiting(x)', About(m))
<1>1. 1 \in Replica /\ 1 \notin Others(1)
  BY MockTypes DEF Others
<1>2. \A x \in Replica : acceptExecTimeChan'[x][1] =
            IF x \in Others(1) THEN acceptExecTimeChan[x][1] \o <<m>>
                               ELSE acceptExecTimeChan[x][1]
  BY <1>1, ChannelTypes, SentAt
<1>3. MockWaiting(1)' = MockWaiting(1)
  BY <1>1, <1>2 DEF MockWaiting
<1>4. ASSUME NEW x \in Others(1)
      PROVE  Adds(MockWaiting(x), MockWaiting(x)', About(m))
  <2>1. PICK q, t : q = acceptExecTimeChan[x][1] /\ t = q \o <<m>>
    OBVIOUS
  <2>2. q \in Seq(AcceptMsgs) /\ acceptExecTimeChan'[x][1] = t
    BY <1>2, <2>1, MockTypes DEF Others
  <2>3. Adds(q, t, m)
    BY <2>1, <2>2, MessageAdds
  <2>4. Adds(AboutAll(q), AboutAll(t), About(m))
    BY <2>3, LinesMove
  <2>5. MockWaiting(x)' = AboutAll(t) /\ MockWaiting(x) = AboutAll(q)
    BY <2>1, <2>2 DEF MockWaiting
  <2> QED
    BY <2>4, <2>5
<1> QED
  BY <1>3, <1>4

LEMMA ProposeKeepsGhost ==
    ASSUME TypeOK, FirstPhase, MockInv, GhostInv, HandleProposeBatch(1),
           batchedCmdsChan[1] \cap Ghost # {}
    PROVE  GhostInv'
<1>0. PICK cmds, i : /\ cmds = batchedCmdsChan[1]
                     /\ i = NextNil(instanceSpaceMock[1])
  OBVIOUS
<1> DEFINE e == NewInstance("MOCKACCEPTED", cmds)
           m == AcceptMsg(1, Only(i, cmds))
<1>1. /\ 1 \in Replica /\ ~IsCoordinator(1) /\ IsMockCoordinator(1)
      /\ instanceSpaceMock[1] \in Logs
      /\ cmds \in SUBSET Cmds /\ phase[1] = 0
  BY <1>0, FirstRoles, FirstPhaseRoles, LocalTypes DEF FirstPhase
<1>2. /\ i < MaxInst
      /\ instanceSpaceMock' = [instanceSpaceMock EXCEPT ![1][i] = e]
      /\ acceptExecTimeChan' = Sent(acceptExecTimeChan, 1, Others(1), <<m>>)
      /\ UNCHANGED <<acceptReplyChan, commitChan, globalMaxCommittedGhost>>
  BY <1>0, <1>1 DEF HandleProposeBatch
<1>3. /\ i \in Inst /\ ~MockKnown(i)
      /\ \A j \in Inst : j < i => MockKnown(j)
  <2>1. /\ i \in 0 .. MaxInst /\ IsNil(instanceSpaceMock[1], i)
        /\ \A j \in 0 .. i - 1 : ~IsNil(instanceSpaceMock[1], j)
    BY <1>0, <1>1, <1>2, NextNilProperties
  <2> QED
    BY <1>2, <2>1, MaxInstAssumption DEF Inst, MockKnown
<1>4. e.status = "MOCKACCEPTED" /\ e.accepts = 0
  BY DEF NewInstance
<1> HIDE DEF e
<1>5. MockWrites(1, i, e)
  <2> DEFINE new == [instanceSpaceMock[1] EXCEPT ![i] = e]
  <2>1. \A j \in Inst : new[j] = IF j = i THEN e ELSE instanceSpaceMock[1][j]
    BY <1>1 DEF Logs
  <2>2. instanceSpaceMock' = [instanceSpaceMock EXCEPT ![1] = new]
    BY <1>2
  <2> HIDE DEF new
  <2> QED
    BY <1>1, <1>3, <2>1, <2>2, MockWritesOne
<1>6. m \in AcceptMsgs /\ About(m) = i
  <2>1. <<m>> \in Seq(AcceptMsgs)
    BY <1>1, <1>3, AcceptMsgType
  <2>2. About(m) = i
    BY OnlyInstance DEF AcceptMsg, About
  <2> HIDE DEF m
  <2>3. m \in AcceptMsgs
    BY <2>1, HeadTailProperties
  <2> QED
    BY <2>2, <2>3
<1> HIDE DEF m
<1>7. /\ MockWaiting(1)' = MockWaiting(1)
      /\ \A x \in Others(1) : Adds(MockWaiting(x), MockWaiting(x)', i)
  BY <1>2, <1>6, SentLines
<1>8. \A x : /\ MockReplying(x)' = MockReplying(x)
             /\ MockCommitsTo(x)' = MockCommitsTo(x)
  BY <1>2 DEF MockReplying, MockCommitsTo
<1>9. CountingInv'
  BY <1>3, <1>4, <1>5, <1>7, <1>8, CountsPropose DEF GhostInv, LinesStay
<1>10. NoMockCommit /\ GlobalMaxCommitted'
  <2>1. \A j \in Inst : HasMockCommitted(1, j)' <=> HasMockCommitted(1, j)
    BY <1>1, <1>3, <1>4, <1>5, CommittedIsKnown DEF MockWrites, HasMockCommitted
  <2> QED
    BY <1>2, <2>1 DEF NoMockCommit, GlobalMaxCommitted, GhostInv, ToldInv
<1>11. \A x \in Others(1) : MockHasGrows(x)
  BY <1>5 DEF MockWrites, MockHasGrows, MockHas, IsNil, Others
<1>12. \A x \in Others(1) : Told(x)'
  BY <1>2, <1>8, <1>10, <1>11, ToldStays DEF GhostInv, ToldInv
<1> QED
  BY <1>9, <1>10, <1>12 DEF GhostInv, ToldInv, Others

LEMMA BatchKeepsGhost ==
    ASSUME TypeOK, FirstPhase, MockInv, GhostInv,
           NEW r \in Replica, HandleProposeBatch(r)
    PROVE  GhostInv'
<1>0. PICK cmds, i : /\ cmds = batchedCmdsChan[r]
                     /\ i = NextNil(instanceSpaceMock[r])
  OBVIOUS
<1> DEFINE doMock == cmds \cap Ghost # {}
           mocks  == ~IsCoordinator(r) /\ doMock /\ IsMockCoordinator(r)
           e == NewInstance(IF mocks THEN "MOCKACCEPTED" ELSE "RECEIVED", cmds)
<1>1. CASE r = 1 /\ doMock
  BY <1>0, <1>1, ProposeKeepsGhost
<1>2. CASE ~(r = 1 /\ doMock)
  <2>1. /\ IsCoordinator(r) <=> r = 0
        /\ IsMockCoordinator(r) <=> r = 1
        /\ instanceSpaceMock[r] \in Logs
    BY FirstPhaseRoles, LocalTypes
  <2>2. ~mocks
    BY <1>2, <2>1
  <2>3. /\ doMock => i < MaxInst
        /\ IF doMock
           THEN instanceSpaceMock' = [instanceSpaceMock EXCEPT ![r][i] = e]
           ELSE instanceSpaceMock' = instanceSpaceMock
        /\ \/ acceptExecTimeChan' = acceptExecTimeChan
           \/ r = 0 /\ \E dsts, ms : acceptExecTimeChan' =
                                        Sent(acceptExecTimeChan, r, dsts, ms)
        /\ UNCHANGED <<acceptReplyChan, commitChan, globalMaxCommittedGhost>>
    BY <1>0, <2>1, <2>2 DEF HandleProposeBatch
  <2>4. \A x \in Replica : acceptExecTimeChan'[x][1] = acceptExecTimeChan[x][1]
    BY <2>3, OtherLines
  <2>5. MockRowStays /\ \A x \in Replica : MockHasGrows(x)
    <3>1. CASE doMock
      <4>1. i \in Inst /\ r # 1 /\ e.status # "NIL"
        BY <1>0, <1>2, <2>1, <2>3, <3>1, NextNilType, MaxInstAssumption
           DEF Inst, NewInstance
      <4> DEFINE new == [instanceSpaceMock[r] EXCEPT ![i] = e]
      <4> HIDE DEF e
      <4>2. \A j \in Inst : new[j] = IF j = i THEN e ELSE instanceSpaceMock[r][j]
        BY <2>1 DEF Logs
      <4>3. instanceSpaceMock' = [instanceSpaceMock EXCEPT ![r] = new]
        BY <2>3, <3>1
      <4> HIDE DEF new
      <4>4. MockWrites(r, i, e)
        BY <4>1, <4>2, <4>3, MockWritesOne
      <4> QED
        BY <4>1, <4>4, OtherMockWrite
    <3>2. CASE ~doMock
      BY <2>3, <3>2, UnchangedMockLog
    <3> QED
      BY <3>1, <3>2
  <2> QED
    BY <2>3, <2>4, <2>5, GhostAside
<1> QED
  BY <1>1, <1>2


\* r answers the mock coordinator's Accept
LEMMA AnswerLines ==
    ASSUME TypeOK, NEW r \in Replica, NEW m \in ReplyMsgs,
           acceptReplyChan' = Sent(acceptReplyChan, r, {1}, <<m>>)
    PROVE  /\ Adds(MockReplying(r), MockReplying(r)', m.inst)
           /\ \A x \in Replica : x # r => MockReplying(x)' = MockReplying(x)
<1>1. 1 \in Replica
  BY MockTypes
<1>2. \A x \in Replica : acceptReplyChan'[1][x] =
            IF x = r THEN acceptReplyChan[1][x] \o <<m>>
                     ELSE acceptReplyChan[1][x]
  BY <1>1, ChannelTypes, SentAt
<1>3. PICK q, t : q = acceptReplyChan[1][r] /\ t = q \o <<m>>
  OBVIOUS
<1>4. q \in Seq(ReplyMsgs) /\ acceptReplyChan'[1][r] = t
  BY <1>2, <1>3, MockTypes
<1>5. Adds(q, t, m)
  BY <1>3, <1>4, MessageAdds
<1>6. Adds(InstsOf(q), InstsOf(t), m.inst)
  BY <1>5, LinesMove
<1>7. MockReplying(r)' = InstsOf(t) /\ MockReplying(r) = InstsOf(q)
  BY <1>3, <1>4 DEF MockReplying
<1>8. \A x \in Replica : x # r => MockReplying(x)' = MockReplying(x)
  BY <1>2 DEF MockReplying
<1> QED
  BY <1>6, <1>7, <1>8

LEMMA MockAcceptKeepsGhost ==
    ASSUME TypeOK, FirstPhase, MockInv, GhostInv, NEW r \in Replica, r # 1,
           MockAcceptExecTime(r, 1)
    PROVE  GhostInv'
<1>0. PICK m, i : /\ m = Next1(acceptExecTimeChan, r, 1)
                  /\ i = CHOOSE j \in DOMAIN m.accept : TRUE
  OBVIOUS
<1>1. /\ acceptExecTimeChan[r][1] # <<>>
      /\ acceptExecTimeChan' = Received(acceptExecTimeChan, r, 1)
      /\ UNCHANGED <<commitChan, globalMaxCommittedGhost>>
      /\ 1 \in Replica /\ instanceSpaceMock[r] \in [Inst -> Entry]
  BY FirstRoles, LocalTypes DEF MockAcceptExecTime, Logs
<1>2. m \in MockProposals
  BY <1>0, <1>1, TakenProposal
<1>3. /\ i \in DOMAIN m.accept /\ i \in Inst /\ m.phase \in Phase
      /\ r \in MockFollowers
  <2>1. DOMAIN m.accept # {} /\ DOMAIN m.accept \subseteq Inst
    BY <1>2, AcceptType DEF MockProposals, AcceptMsgs
  <2>2. i \in DOMAIN m.accept
    BY <1>0, <2>1
  <2>3. r \notin Standbys(0)
    BY FirstPhaseRoles DEF MockAcceptExecTime
  <2> QED
    BY <1>2, <2>1, <2>2, <2>3
       DEF MockProposals, AcceptMsgs, MockFollowers, Others
<1> DEFINE log   == instanceSpaceMock[r]
           voted == Votes(log, {i}, "MOCKCOMMITTED")
           new   == Accepted(log, voted, m.accept, "MOCKACCEPTED")
           ms    == Replies(m.phase, voted, TRUE)
<1>4. /\ instanceSpaceMock' = [instanceSpaceMock EXCEPT ![r] = new]
      /\ acceptReplyChan' = Sent(acceptReplyChan, r, {1}, ms)
  BY <1>0 DEF MockAcceptExecTime
<1>5. /\ Drops(MockWaiting(r), MockWaiting(r)') /\ MockWaiting(r)[1] = i
      /\ \A x \in Replica : x # r => MockWaiting(x)' = MockWaiting(x)
  <2>1. About(m) = i
    BY <1>0 DEF About
  <2> QED
    BY <1>0, <1>1, <2>1, TakenLines
<1>6. \A k \in DOMAIN MockWaiting(r) : MockWaiting(r)[k] \in Int
  BY PendingIsKnown DEF Inst
<1>7. \A x : MockCommitsTo(x)' = MockCommitsTo(x)
  BY <1>1 DEF MockCommitsTo
<1>8. CASE HasMockCommitted(r, i)
  <2>1. voted = {}
    BY <1>8 DEF Votes, HasMockCommitted
  <2>2. ms = <<>>
    BY <2>1, NoReply
  <2>3. \A j \in Inst : new[j] = log[j]
    BY <2>1 DEF Accepted
  <2> HIDE DEF new, ms
  <2>4. \A x \in Replica, j \in Inst :
              instanceSpaceMock'[x][j] = instanceSpaceMock[x][j]
    BY <1>4, <2>3 DEF TypeOK, LogTypeOK
  <2>5. MockRowStays /\ \A x \in Others(1) : MockHasGrows(x)
    BY <1>1, <2>4 DEF MockRowStays, MockHasGrows, MockHas, IsNil, Others
  <2>6. \A x \in Replica : MockReplying(x)' = MockReplying(x)
    <3>1. \A x \in Replica : acceptReplyChan[1][x] \in Seq(ReplyMsgs)
      BY MockTypes
    <3>2. \A x \in Replica : acceptReplyChan'[1][x] =
              IF x = r THEN acceptReplyChan[1][x] \o <<>>
                       ELSE acceptReplyChan[1][x]
      <4>1. PICK none : none = <<>>
        OBVIOUS
      <4>2. acceptReplyChan' = Sent(acceptReplyChan, r, {1}, none)
        BY <1>4, <2>2, <4>1
      <4>3. \A x \in Replica : acceptReplyChan'[1][x] =
                IF x = r THEN acceptReplyChan[1][x] \o none
                         ELSE acceptReplyChan[1][x]
        BY <1>1, <4>2, ChannelTypes, SentAt
      <4> QED
        BY <4>1, <4>3
    <3>3. \A x \in Replica : acceptReplyChan'[1][x] = acceptReplyChan[1][x]
      BY <3>1, <3>2, AppendProperties, EmptySeq
    <3> QED
      BY <3>3 DEF MockReplying
  <2>7. HasMockCommitted(1, i)
    BY <1>3, <1>8 DEF MockInv, MockFollows, MockCommittedAsDecided
  <2>8. /\ InTurn(r)'
        /\ \A j : MockPending(r, j)' => MockPending(r, j)
        /\ \A j : MockPending(r, j) => MockPending(r, j)' \/ j = i
    BY <1>5, <1>6, <2>6, TurnSkips DEF GhostInv, CountingInv
  <2>9. \A x \in Replica : x # r =>
          InTurn(x)' /\ \A j : MockPending(x, j)' <=> MockPending(x, j)
    BY <1>5, <2>6, TurnStays DEF GhostInv, CountingInv, LinesStay
  <2>10. CountingInv'
    BY <2>5, <2>7, <2>8, <2>9, MockTypes, CountsStay DEF GhostInv
  <2>11. ToldInv'
    BY <1>1, <1>7, <2>5, ToldAside DEF GhostInv
  <2> QED
    BY <2>10, <2>11 DEF GhostInv
<1>9. CASE ~HasMockCommitted(r, i)
  <2> DEFINE e == [log[i] EXCEPT !.status = "MOCKACCEPTED",
                                 !.cmds = m.accept[i]]
  <2>1. voted = {i}
    BY <1>9 DEF Votes, HasMockCommitted
  <2>2. ms = <<Reply(m.phase, i, TRUE)>>
    BY <1>3, <2>1, OneReply
  <2>3. \A j \in Inst : new[j] = IF j = i THEN e ELSE log[j]
    BY <2>1 DEF Accepted
  <2>4. e.status # "NIL"
    BY <1>1, <1>3 DEF Entry
  <2> HIDE DEF new, e, ms
  <2>5. MockWrites(r, i, e)
    BY <1>3, <1>4, <2>3, MockWritesOne
  <2>6. MockRowStays /\ \A x \in Others(1) : MockHasGrows(x)
    BY <1>3, <2>4, <2>5, OtherMockWrite DEF Others
  <2>7. /\ Adds(MockReplying(r), MockReplying(r)', i)
        /\ \A x \in Replica : x # r => MockReplying(x)' = MockReplying(x)
    <3>1. PICK a : a = Reply(m.phase, i, TRUE)
      OBVIOUS
    <3>2. a \in ReplyMsgs /\ a.inst = i
      BY <1>3, <3>1 DEF Reply, ReplyMsgs
    <3> QED
      BY <1>4, <2>2, <3>1, <3>2, AnswerLines
  <2>8. InTurn(r)' /\ \A j : MockPending(r, j)' <=> MockPending(r, j)
    BY <1>3, <1>5, <1>6, <2>7, TurnVotes DEF GhostInv, CountingInv
  <2>9. \A x \in Replica : x # r =>
          InTurn(x)' /\ \A j : MockPending(x, j)' <=> MockPending(x, j)
    BY <1>5, <2>7, TurnStays DEF GhostInv, CountingInv, LinesStay
  <2>10. CountingInv'
    BY <2>6, <2>8, <2>9, MockTypes, CountsStay DEF GhostInv
  <2>11. ToldInv'
    BY <1>1, <1>7, <2>6, ToldAside DEF GhostInv
  <2> QED
    BY <2>10, <2>11 DEF GhostInv
<1> QED
  BY <1>8, <1>9

\* the run that globalMaxCommittedGhost jumps over was accepted by enough
LEMMA GlobalMaxFromRun ==
  ASSUME NEW log \in Logs, NEW i \in Inst
  PROVE  \A j \in Inst : (i < j /\ j < GlobalMaxFrom(log, i))
                            => log[j].accepts = (N \div 2) + 1
<1> DEFINE full == (N \div 2) + 1
           S == {n \in i .. MaxInst - 1 :
                    n + 1 < MaxInst => log[n + 1].accepts # full}
           Run(k) == /\ \A j \in i + 1 .. k : log[j].accepts = full
                     /\ k + 1 < MaxInst => log[k + 1].accepts # full
<1> HIDE DEF full
<1>1. MaxInst - 1 \in S /\ (\A n \in S : n \in Int /\ i <= n) /\ i \in Int
  BY MaxInstAssumption DEF Inst
<1>2. PICK n \in S : \A m \in S : n <= m
  <2> HIDE DEF S
  <2> QED
    BY <1>1, LeastInteger
<1>3. ASSUME NEW j \in i + 1 .. n
      PROVE  log[j].accepts = full
  <2>1. j - 1 \in i .. MaxInst - 1 /\ ~ (n <= j - 1) /\ (j - 1) + 1 = j
    BY <1>2, MaxInstAssumption DEF Inst
  <2> QED
    BY <1>2, <2>1
<1>4. \E k \in i .. MaxInst - 1 : Run(k)
  BY <1>2, <1>3
<1>5. GlobalMaxFrom(log, i) = CHOOSE k \in i .. MaxInst - 1 : Run(k)
  BY DEF GlobalMaxFrom, full
<1> HIDE DEF Run
<1>6. PICK k \in i .. MaxInst - 1 : k = GlobalMaxFrom(log, i) /\ Run(k)
  BY <1>4, <1>5
<1> QED
  BY <1>1, <1>6 DEF Run, full, Inst

\* the mock coordinator takes a reply
LEMMA ReplyLines ==
    ASSUME TypeOK, NEW s \in Replica, acceptReplyChan[1][s] # <<>>,
           acceptReplyChan' = Received(acceptReplyChan, 1, s)
    PROVE  /\ Drops(MockReplying(s), MockReplying(s)')
           /\ MockReplying(s)[1] = Next1(acceptReplyChan, 1, s).inst
           /\ \A x \in Replica : x # s => MockReplying(x)' = MockReplying(x)
<1>1. 1 \in Replica /\ acceptReplyChan[1][s] \in Seq(ReplyMsgs)
  BY MockTypes
<1>2. \A x \in Replica : acceptReplyChan'[1][x] =
            IF x = s THEN Tail(acceptReplyChan[1][x]) ELSE acceptReplyChan[1][x]
  BY <1>1, ChannelTypes, ReceivedAt
<1>3. PICK q, t : q = acceptReplyChan[1][s] /\ t = Tail(q)
  OBVIOUS
<1>4. Drops(q, t)
  BY <1>1, <1>3, TailDrops
<1>5. Drops(InstsOf(q), InstsOf(t))
  BY <1>4, LinesMove
<1>6. acceptReplyChan'[1][s] = t
  BY <1>2, <1>3
<1>7. MockReplying(s)' = InstsOf(t) /\ MockReplying(s) = InstsOf(q)
  BY <1>3, <1>6 DEF MockReplying
<1>8. 1 \in DOMAIN q /\ q[1] = Next1(acceptReplyChan, 1, s)
  <2>1. Len(q) \in Nat /\ Len(q) >= 1 /\ Head(q) = q[1] /\ DOMAIN q = 1 .. Len(q)
    BY <1>1, <1>3, OneLess, LenProperties
  <2> QED
    BY <1>3, <2>1 DEF Next1
<1>9. MockReplying(s)[1] = Next1(acceptReplyChan, 1, s).inst
  BY <1>7, <1>8 DEF InstsOf
<1>10. \A x \in Replica : x # s => MockReplying(x)' = MockReplying(x)
  BY <1>2 DEF MockReplying
<1> QED
  BY <1>5, <1>7, <1>9, <1>10

\* a commit is sent to all others
LEMMA CommitLines ==
    ASSUME TypeOK, NEW c \in CommitMsgs,
           commitChan' = Sent(commitChan, 1, Others(1), <<c>>)
    PROVE  \A x \in Others(1) : Adds(MockCommitsTo(x), MockCommitsTo(x)', c)
<1> TAKE x \in Others(1)
<1>1. 1 \in Replica /\ x \in Replica
  BY MockTypes DEF Others
<1>2. commitChan'[x][1] = commitChan[x][1] \o <<c>>
  <2>1. \A y \in Replica : commitChan'[y][1] =
            IF y \in Others(1) THEN commitChan[y][1] \o <<c>> ELSE commitChan[y][1]
    BY <1>1, ChannelTypes, SentAt
  <2> QED
    BY <1>1, <2>1
<1>3. PICK q, t : q = commitChan[x][1] /\ t = q \o <<c>>
  OBVIOUS
<1>4. q \in Seq(CommitMsgs) /\ commitChan'[x][1] = t
  BY <1>1, <1>2, <1>3, MockTypes
<1>5. Adds(q, t, c)
  BY <1>3, <1>4, MessageAdds
<1> QED
  BY <1>3, <1>4, <1>5 DEF MockCommitsTo

\* a replica takes the mock coordinator's next commit
LEMMA LearnLines ==
    ASSUME TypeOK, NEW r \in Replica, commitChan[r][1] # <<>>,
           commitChan' = Received(commitChan, r, 1)
    PROVE  /\ Drops(MockCommitsTo(r), MockCommitsTo(r)')
           /\ MockCommitsTo(r)[1] = Next1(commitChan, r, 1)
           /\ \A x \in Replica : x # r => MockCommitsTo(x)' = MockCommitsTo(x)
<1>1. 1 \in Replica /\ commitChan[r][1] \in Seq(CommitMsgs)
  BY MockTypes
<1>2. \A x \in Replica : commitChan'[x][1] =
            IF x = r THEN Tail(commitChan[x][1]) ELSE commitChan[x][1]
  BY <1>1, ChannelTypes, ReceivedAt
<1>3. PICK q, t : q = commitChan[r][1] /\ t = Tail(q)
  OBVIOUS
<1>4. Drops(q, t) /\ commitChan'[r][1] = t
  BY <1>1, <1>2, <1>3, TailDrops
<1>5. Head(q) = q[1]
  BY <1>1, <1>3, OneLess
<1>6. \A x \in Replica : x # r => MockCommitsTo(x)' = MockCommitsTo(x)
  BY <1>2 DEF MockCommitsTo
<1> QED
  BY <1>3, <1>4, <1>5, <1>6 DEF MockCommitsTo, Next1

LEMMA MockReplyKeepsGhost ==
    ASSUME TypeOK, MockInv, GhostInv, NEW s \in Replica, MockAcceptReply(1, s)
    PROVE  GhostInv'
<1>0. PICK i : i = Next1(acceptReplyChan, 1, s).inst
  OBVIOUS
<1> DEFINE old     == instanceSpaceMock[1]
           log     == [old EXCEPT ![i] = Counted(@)]
           commits == /\ log[i].status # "MOCKCOMMITTED"
                      /\ EnoughAccepts(log[i].accepts)
           cmds    == log[i].cmds
           new     == IF commits THEN Committed(log, i, cmds, "MOCKCOMMITTED")
                                 ELSE log
           max     == globalMaxCommittedGhost[1]
           e       == IF commits THEN [log[i] EXCEPT !.status = "MOCKCOMMITTED",
                                                     !.cmds = cmds]
                                 ELSE log[i]
<1>1. /\ acceptReplyChan[1][s] # <<>>
      /\ acceptReplyChan' = Received(acceptReplyChan, 1, s)
      /\ UNCHANGED acceptExecTimeChan
      /\ 1 \in Replica /\ old \in [Inst -> Entry] /\ max \in 0 .. MaxInst
  BY FirstRoles, LocalTypes DEF MockAcceptReply, Logs
<1>2. i \in Inst /\ MockKnown(i)
  <2>1. Next1(acceptReplyChan, 1, s) \in MockReplies
    BY <1>1, TakenMockReply
  <2> QED
    BY <1>0, <2>1 DEF MockReplies, ReplyMsgs
<1>3. /\ instanceSpaceMock' = [instanceSpaceMock EXCEPT ![1] = new]
      /\ commitChan' = IF commits
                       THEN Sent(commitChan, 1, Others(1),
                                 <<CommitMsg(i, cmds, TRUE, max)>>)
                       ELSE commitChan
      /\ globalMaxCommittedGhost' = [globalMaxCommittedGhost EXCEPT ![1] =
                    IF /\ log[i].status = "MOCKCOMMITTED"
                       /\ log[i].accepts = (N \div 2) + 1
                       /\ max = i - 1
                    THEN GlobalMaxFrom(log, i) ELSE @]
  BY <1>0, <1>2 DEF MockAcceptReply, MockKnown
<1>4. /\ \A j \in Inst : log[j] = IF j = i THEN Counted(old[i]) ELSE old[j]
      /\ log[i] \in Entry /\ log[i].status = old[i].status
      /\ log[i].cmds = old[i].cmds /\ log[i].cmds \in SUBSET Cmds
      /\ log[i].accepts = IF MockCount(i) < MaxAccepts THEN MockCount(i) + 1
                                                       ELSE MockCount(i)
      /\ log \in [Inst -> Entry]
  <2>1. Counted(old[i]) \in Entry /\ old[i] \in Entry
    BY <1>1, <1>2, CountedType
  <2>2. /\ Counted(old[i]).status = old[i].status
        /\ Counted(old[i]).cmds = old[i].cmds /\ old[i].cmds \in SUBSET Cmds
        /\ Counted(old[i]).accepts =
                IF MockCount(i) < MaxAccepts THEN MockCount(i) + 1
                                             ELSE MockCount(i)
    BY <2>1 DEF Counted, Entry, MockCount
  <2>3. \A j \in Inst : log[j] = IF j = i THEN Counted(old[i]) ELSE old[j]
    BY <1>1, <1>2
  <2>4. log \in [Inst -> Entry]
    BY <1>1, <1>2, <2>1
  <2> QED
    BY <1>2, <2>1, <2>2, <2>3, <2>4
<1>5. /\ \A j \in Inst : new[j] = IF j = i THEN e ELSE old[j]
      /\ e.status = IF commits THEN "MOCKCOMMITTED" ELSE old[i].status
      /\ e.accepts = log[i].accepts
  <2> HIDE DEF log, old
  <2>1. CASE commits
    <3>1. new = [log EXCEPT ![i] = e]
      BY <2>1 DEF Committed
    <3>2. \A j \in Inst : new[j] = IF j = i THEN e ELSE log[j]
      BY <1>2, <1>4, <3>1
    <3>3. e.status = "MOCKCOMMITTED" /\ e.accepts = log[i].accepts
      BY <1>4, <2>1 DEF Entry
    <3> QED
      BY <1>4, <2>1, <3>2, <3>3
  <2>2. CASE ~commits
    <3>1. new = log /\ e = log[i]
      BY <2>2
    <3> QED
      BY <1>4, <2>2, <3>1
  <2> QED
    BY <2>1, <2>2
<1>6. MockWrites(1, i, e)
  <2> HIDE DEF new, e
  <2> QED
    BY <1>1, <1>2, <1>3, <1>5, MockWritesOne
<1>7. /\ e.status # "NIL"
      /\ e.status = "MOCKCOMMITTED" <=> \/ HasMockCommitted(1, i)
                                        \/ EnoughAccepts(e.accepts)
  <2> HIDE DEF e, new, log
  <2> QED
    BY <1>2, <1>4, <1>5 DEF MockKnown, IsNil, HasMockCommitted
<1>8. CountingInv'
  <2>1. /\ Drops(MockReplying(s), MockReplying(s)') /\ MockReplying(s)[1] = i
        /\ \A x \in Replica : x # s => MockReplying(x)' = MockReplying(x)
    BY <1>0, <1>1, ReplyLines
  <2>2. \A x : MockWaiting(x)' = MockWaiting(x)
    BY <1>1 DEF MockWaiting
  <2> HIDE DEF e, log
  <2>3. e.accepts = IF MockCount(i) < MaxAccepts THEN MockCount(i) + 1
                                                 ELSE MockCount(i)
    BY <1>4, <1>5
  <2>4. \A x \in Replica : x # s => LinesStay(x)
    BY <2>1, <2>2 DEF LinesStay
  <2> QED
    BY <1>6, <1>7, <2>1, <2>2, <2>3, <2>4, CountsReply DEF GhostInv
<1>9. /\ \A x \in Others(1) : MockHasGrows(x)
      /\ \A j \in Inst : HasMockCommitted(1, j)' <=>
            HasMockCommitted(1, j) \/ (commits /\ j = i)
  <2>1. /\ \A x \in Others(1) : MockHasGrows(x)
        /\ \A j \in Inst : instanceSpaceMock'[1][j] = IF j = i THEN e ELSE old[j]
    <3> HIDE DEF e
    <3> QED
      BY <1>1, <1>6 DEF MockWrites, MockHasGrows, MockHas, IsNil, Others
  <2> HIDE DEF e, new, log
  <2> QED
    BY <1>2, <1>5, <2>1 DEF HasMockCommitted
<1>10. /\ \A x \in Others(1) : globalMaxCommittedGhost'[x] = globalMaxCommittedGhost[x]
       /\ \/ globalMaxCommittedGhost'[1] = max
          \/ /\ globalMaxCommittedGhost'[1] = GlobalMaxFrom(log, i)
             /\ log[i].status = "MOCKCOMMITTED"
  <2> HIDE DEF log
  <2>1. globalMaxCommittedGhost \in [Replica -> 0 .. MaxInst]
    BY DEF TypeOK, LogTypeOK
  <2> QED
    BY <1>1, <1>3, <2>1 DEF Others
<1>11. GlobalMaxCommitted'
  <2>1. ASSUME NEW j \in Inst, j < globalMaxCommittedGhost'[1]
        PROVE  HasMockCommitted(1, j)
    <3>1. CASE globalMaxCommittedGhost'[1] = max
      BY <2>1, <3>1 DEF GhostInv, ToldInv, GlobalMaxCommitted
    <3>2. CASE /\ globalMaxCommittedGhost'[1] = GlobalMaxFrom(log, i)
               /\ log[i].status = "MOCKCOMMITTED"
      <4>1. HasMockCommitted(1, i)
        BY <1>4, <3>2 DEF HasMockCommitted
      <4>2. CASE j < i
        BY <1>2, <4>1, <4>2, CommitsInTurn DEF GhostInv
      <4>3. CASE j = i
        BY <4>1, <4>3
      <4>4. CASE i < j
        <5>1. log[j].accepts = (N \div 2) + 1
          <6> HIDE DEF log
          <6>1. log \in Logs
            BY <1>4 DEF Logs
          <6> QED
            BY <1>2, <2>1, <3>2, <4>4, <6>1, GlobalMaxFromRun
        <5>2. log[j] = old[j] /\ j # i
          BY <1>2, <1>4, <4>4 DEF Inst
        <5>3. EnoughAccepts(MockCount(j))
          BY <5>1, <5>2, NAssumption DEF MockCount, EnoughAccepts
        <5> QED
          BY <5>3 DEF GhostInv, CountingInv, CountIsRight
      <4> QED
        BY <1>2, <4>2, <4>3, <4>4 DEF Inst
    <3> QED
      BY <1>10, <3>1, <3>2
  <2> QED
    BY <1>9, <2>1 DEF GlobalMaxCommitted
<1>12. ASSUME NEW x \in Others(1)
       PROVE  Told(x)'
  <2>1. CASE commits
    <3>1. PICK c : c = CommitMsg(i, cmds, TRUE, max)
      OBVIOUS
    <3>2. c \in CommitMsgs /\ c.inst = i /\ c.globalMax = max
      <4>1. c \in CommitMsgs
        <5> HIDE DEF log, max
        <5> QED
          BY <1>1, <1>2, <1>4, <3>1, CommitMsgType
      <4> QED
        BY <3>1, <4>1 DEF CommitMsg
    <3>3. commitChan' = Sent(commitChan, 1, Others(1), <<c>>)
      BY <1>3, <2>1, <3>1
    <3>4. Adds(MockCommitsTo(x), MockCommitsTo(x)', c)
      BY <3>2, <3>3, CommitLines
    <3>5. \A j \in Inst : j < c.globalMax => HasMockCommitted(1, j)
      BY <3>2 DEF GhostInv, ToldInv, GlobalMaxCommitted
    <3> HIDE DEF max, commits
    <3> QED
      BY <1>9, <1>10, <3>2, <3>4, <3>5, ToldMore DEF GhostInv, ToldInv
  <2>2. CASE ~commits
    <3>1. MockCommitsTo(x)' = MockCommitsTo(x)
      BY <1>3, <2>2 DEF MockCommitsTo
    <3>2. NoMockCommit
      BY <1>9, <2>2 DEF NoMockCommit
    <3> HIDE DEF max, commits
    <3> QED
      BY <1>9, <1>10, <3>1, <3>2, ToldStays DEF GhostInv, ToldInv
  <2> QED
    BY <2>1, <2>2
<1> QED
  BY <1>8, <1>11, <1>12 DEF GhostInv, ToldInv, Others

LEMMA MockCommitKeepsGhost ==
    ASSUME TypeOK, MockInv, GhostInv, NEW r \in Replica, r # 1,
           ~IsMockCoordinator(r), MockCommit(r, 1)
    PROVE  GhostInv'
<1>0. PICK m, i : m = Next1(commitChan, r, 1) /\ i = m.inst
  OBVIOUS
<1> DEFINE log == instanceSpaceMock[r]
           new == Committed(log, i, m.cmds, "MOCKCOMMITTED")
           e   == [log[i] EXCEPT !.status = "MOCKCOMMITTED", !.cmds = m.cmds]
<1>1. /\ commitChan[r][1] # <<>>
      /\ commitChan' = Received(commitChan, r, 1)
      /\ globalMaxCommittedGhost' = [globalMaxCommittedGhost EXCEPT ![r] =
                                            m.globalMax]
      /\ UNCHANGED <<acceptExecTimeChan, acceptReplyChan>>
      /\ 1 \in Replica /\ log \in [Inst -> Entry]
  BY <1>0, FirstRoles, LocalTypes DEF MockCommit, Logs
<1>2. /\ i \in Inst /\ HasMockCommitted(1, i) /\ m.cmds = MockCmds(i)
  <2>1. m \in MockCommits
    BY <1>0, <1>1, TakenMockCommit
  <2> QED
    BY <1>0, <2>1 DEF MockCommits, CommitMsgs
<1>3. MockRowStays /\ MockHas(r, i)' /\ \A x \in Replica : MockHasGrows(x)
  <2>1. CASE HasMockCommitted(r, i)
    <3>1. UNCHANGED instanceSpaceMock
      BY <1>0, <2>1 DEF MockCommit, HasMockCommitted
    <3> QED
      BY <2>1, <3>1, UnchangedMockLog DEF MockHas, IsNil, HasMockCommitted
  <2>2. CASE ~HasMockCommitted(r, i)
    <3>1. instanceSpaceMock' = [instanceSpaceMock EXCEPT ![r] = new]
      BY <1>0, <2>2 DEF MockCommit, HasMockCommitted
    <3>2. \A j \in Inst : new[j] = IF j = i THEN e ELSE log[j]
      BY <1>1, <1>2 DEF Committed
    <3>3. e.status = "MOCKCOMMITTED"
      BY <1>1, <1>2 DEF Entry
    <3> HIDE DEF new, e
    <3>4. MockWrites(r, i, e)
      BY <1>2, <3>1, <3>2, MockWritesOne
    <3> QED
      BY <1>2, <3>3, <3>4, OtherMockWrite
  <2> QED
    BY <2>1, <2>2
<1>4. CountingInv'
  <2>1. \A s \in Replica : LinesStay(s)
    BY <1>1 DEF LinesStay, MockWaiting, MockReplying
  <2> QED
    BY <1>3, <2>1, CountsAside DEF GhostInv
<1>5. /\ globalMaxCommittedGhost'[r] = m.globalMax
      /\ \A x \in Replica : x # r =>
            globalMaxCommittedGhost'[x] = globalMaxCommittedGhost[x]
  <2>1. globalMaxCommittedGhost \in [Replica -> 0 .. MaxInst]
    BY DEF TypeOK, LogTypeOK
  <2> QED
    BY <1>1, <2>1
<1>6. NoMockCommit /\ GlobalMaxCommitted'
  BY <1>1, <1>3, <1>5
     DEF MockRowStays, NoMockCommit, HasMockCommitted, GlobalMaxCommitted,
         GhostInv, ToldInv
<1>7. /\ Drops(MockCommitsTo(r), MockCommitsTo(r)')
      /\ MockCommitsTo(r)[1] = m
      /\ \A x \in Replica : x # r => MockCommitsTo(x)' = MockCommitsTo(x)
  BY <1>0, <1>1, LearnLines
<1>8. Told(r)'
  <2>1. Told(r) /\ MockHasGrows(r)
    BY <1>3 DEF GhostInv, ToldInv, Others
  <2>2. i = MockCommitsTo(r)[1].inst
    BY <1>0, <1>7
  <2>3. globalMaxCommittedGhost'[r] = MockCommitsTo(r)[1].globalMax
    BY <1>5, <1>7
  <2> QED
    BY <1>3, <1>6, <1>7, <2>1, <2>2, <2>3, ToldLess
<1>9. ASSUME NEW x \in Others(1), x # r
      PROVE  Told(x)'
  <2>1. Told(x) /\ MockHasGrows(x)
    BY <1>3 DEF GhostInv, ToldInv, Others
  <2>2. /\ MockCommitsTo(x)' = MockCommitsTo(x)
        /\ globalMaxCommittedGhost'[x] = globalMaxCommittedGhost[x]
    BY <1>5, <1>7, <1>9 DEF Others
  <2> QED
    BY <1>6, <2>1, <2>2, ToldStays
<1> QED
  BY <1>4, <1>6, <1>8, <1>9 DEF GhostInv, ToldInv, Others

LEMMA GhostHandlerStep ==
    ASSUME TypeOK, FirstPhase, Traffic, RealInv, MockInv, GhostInv,
           NEW r \in Replica, Handles(r)
    PROVE  GhostInv'
<1>1. CASE HandleProposeBatch(r)
  BY <1>1, BatchKeepsGhost
<1>2. ASSUME NEW s \in Replica, TakeAcceptExecTime(r, s)
      PROVE  GhostInv'
  <2>1. ~AcceptExecTimeAhead(r, s) /\ acceptExecTimeChan[r][s] # <<>>
    BY <1>2, TakeAcceptExecTimeTraffic
       DEF TakeAcceptExecTime, AcceptExecTimeIgnored, AcceptExecTimeAhead,
           RealAcceptExecTime, MockAcceptExecTime
  <2>2. s \in {0, 1} /\ r # s /\ Next1(acceptExecTimeChan, r, s).phase = 0
    BY <2>1, TakenAccept
  <2>3. CASE AcceptExecTimeIgnored(r, s)
    BY <2>3, IgnoredKeepsGhost
  <2>4. CASE RealAcceptExecTime(r, s)
    <3>1. s = 0
      BY <2>2, <2>4, FirstRoles DEF RealAcceptExecTime
    <3> QED
      BY <2>4, <3>1, RealAcceptKeepsGhost
  <2>5. CASE MockAcceptExecTime(r, s)
    <3>1. s = 1
      BY <2>2, <2>5, FirstRoles DEF MockAcceptExecTime
    <3> QED
      BY <2>2, <2>5, <3>1, MockAcceptKeepsGhost
  <2> QED
    BY <1>2, <2>1, <2>3, <2>4, <2>5 DEF TakeAcceptExecTime
<1>3. ASSUME NEW s \in Replica, TakeAcceptReply(r, s)
      PROVE  GhostInv'
  <2>1. \/ r = 0 /\ RealAcceptReply(r, s)
        \/ r = 1 /\ MockAcceptReply(r, s)
    BY <1>3, TakeAcceptReplyTraffic
  <2> QED
    BY <2>1, RealReplyKeepsGhost, MockReplyKeepsGhost
<1>4. ASSUME NEW s \in Replica, TakeCommit(r, s)
      PROVE  GhostInv'
  <2>1. \/ s = 0 /\ RealCommit(r, s)
        \/ s = 1 /\ ~IsMockCoordinator(r) /\ MockCommit(r, s)
    BY <1>4, TakeCommitTraffic
  <2>2. CASE s = 0 /\ RealCommit(r, s)
    BY <2>2, RealCommitKeepsGhost
  <2>3. CASE s = 1 /\ ~IsMockCoordinator(r) /\ MockCommit(r, s)
    <3>1. r # 1
      BY <2>3, FirstPhaseRoles
    <3> QED
      BY <2>3, <3>1, MockCommitKeepsGhost
  <2> QED
    BY <2>1, <2>2, <2>3
<1>5. \A s \in Replica : ~TakeAcceptMsg(r, s)
  BY NoAcceptMsg
<1> QED
  BY <1>1, <1>2, <1>3, <1>4, <1>5 DEF Handles

LEMMA GhostQuiet ==
    ASSUME TypeOK, GhostInv, LogsRest
    PROVE  GhostInv'
<1>1. UNCHANGED <<instanceSpaceMock, globalMaxCommittedGhost,
                  acceptExecTimeChan, acceptReplyChan, commitChan>>
  BY DEF LogsRest, mockVars, channels
<1>2. MockRowStays /\ \A x : MockHasGrows(x)
  BY <1>1, UnchangedMockLog
<1> QED
  BY <1>1, <1>2, GhostAside

\* no replica's globalMaxCommittedGhost is beyond the instances it has
LEMMA GhostBound ==
    ASSUME TypeOK, GhostInv, NEW r \in Replica
    PROVE  globalMaxCommittedGhost[r] <= NextNil(instanceSpaceMock[r])
<1>1. PICK n, log : n = NextNil(log) /\ log = instanceSpaceMock[r]
  OBVIOUS
<1>2. /\ n \in 0 .. MaxInst
      /\ n < MaxInst => IsNil(log, n)
  BY <1>1, NextNilProperties, LocalTypes
<1>3. globalMaxCommittedGhost[r] \in 0 .. MaxInst
  BY MockTypes
<1>4. \A j \in Inst : j < globalMaxCommittedGhost[r] => MockHas(r, j)
  <2>1. CASE r = 1
    BY <2>1, CommittedIsKnown
       DEF GhostInv, ToldInv, GlobalMaxCommitted, MockHas, MockKnown
  <2>2. CASE r # 1
    BY <2>2 DEF GhostInv, ToldInv, Told, Others
  <2> QED
    BY <2>1, <2>2
<1>5. ASSUME n < globalMaxCommittedGhost[r]
      PROVE  FALSE
  <2>1. n \in Inst /\ n < MaxInst
    BY <1>2, <1>3, <1>5, MaxInstAssumption DEF Inst
  <2> QED
    BY <1>1, <1>2, <1>4, <1>5, <2>1 DEF MockHas
<1> QED
  BY <1>1, <1>2, <1>3, <1>5, MaxInstAssumption
=============================================================================
