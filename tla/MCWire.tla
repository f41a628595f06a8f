-------------------------------- MODULE MCWire --------------------------------
(* The connections of Wire with every message of the protocols on them. *)
EXTENDS Wire

\* the messages with a code of their own
Layouts == <<
    SmrReadReply, SmrProposeAndRead, SmrPropose, SmrProposeReplyTS,
    SmrProposeReplyTSMock, SmrRealCommitted, SmrRegisterClientIdArgs,
    SmrGetViewReply, SmrMockCommitted, SmrBeacon, SmrBeTheLeaderReply,
    SmrCommittedFromClient, SmrCommitLatencyFeedback, SmrRead,
    SmrBeaconReply, SmrPingReply, SmrBeTheLeaderArgs,
    SmrProposeWithExecTime, SmrProposeReply, SmrRealCommitAtLeast,
    SmrRegisterClientIdReply, SmrGetView, SmrClientRttTable,
    SmrProposeAndReadReply, SmrPingArgs, AvicennaClientLatency,
    AvicennaPingReply, AvicennaRttTable, AvicennaAcceptReply,
    AvicennaCommit, AvicennaClientRttTable, AvicennaInstanceCommandIdsOld,
    AvicennaAccept, AvicennaAcceptExecTime, AvicennaPing, AvicennaRotate,
    AvicennaCommitShort, CopilotCommit, CopilotCommitShort, CopilotPrepare,
    CopilotPreAccept, CopilotPreAcceptReply, CopilotAcceptReply,
    CopilotTryPreAcceptReply, CopilotPrepareReply, CopilotPreAcceptOK,
    CopilotAccept, CopilotTryPreAccept, LatentPreAccept, LatentPreAcceptOK,
    LatentAccept, LatentAcceptReply, LatentTryPreAccept,
    LatentTryPreAcceptReply, LatentPrepareReply, LatentPreAcceptReply,
    LatentCommit, LatentCommitShort, LatentPrepare, EPaxosPrepareReply,
    EPaxosPreAccept, EPaxosAccept, EPaxosAcceptReply, EPaxosCommitShort,
    EPaxosTryPreAccept, EPaxosPrepare, EPaxosPreAcceptReply,
    EPaxosPreAcceptOK, EPaxosCommit, EPaxosTryPreAcceptReply, GPaxos1a,
    GPaxos1b, GPaxosPrepare, GPaxos2a, GPaxos2b, GPaxosCommit,
    GPaxosPrepareReply, MenciusSkip, MenciusPrepare, MenciusPrepareReply,
    MenciusAccept, MenciusAcceptReply, MenciusCommit, PaxosPrepare,
    PaxosPrepareReply, PaxosAccept, PaxosAcceptReply, PaxosCommit,
    PaxosCommitShort, ViewAcceptViewReply, ViewView, ViewViewChangeReply,
    ViewInitView, ViewViewChange, ViewViewChangeOK, ViewViewChangeReject,
    ViewAcceptView>>

CodeOf(layout) == CHOOSE k \in DOMAIN Layouts : Layouts[k] = layout

\* A value of the scalar type: another one for every number s.
Pick(type, s) ==
    IF type = Bool THEN s % 2 ELSE Least(type) + ((29 * s) % Count(type))

\* a message of the layout with n elements in its arrays, from the number s
RECURSIVE PickItem(_, _, _)
Sample(layout, s, n) ==
    [k \in DOMAIN layout |-> PickItem(layout[k], s + 5 * k, n)]
PickItem(x, s, n) ==
    CASE x.item = "put" -> [k \in DOMAIN x.types |-> Pick(x.types[k], s + k)]
      [] x.item = "one" -> Sample(x.of, s, n)
      [] x.item = "many" ->
            [k \in 1 .. (IF n < x.least THEN x.least ELSE n) |->
                PickItem(x.of, s + 3 * k, n)]

Send(how, k, s, n) ==
    [how |-> how, code |-> k, msg |-> Sample(Layouts[k], s, n)]
Flush == [how |-> "Flush"]

Beacon == CodeOf(SmrBeacon)

\* one goroutine, which sends a message of each type, and a beacon
Peers ==
    {<<<<Send("SendMsg", k, s, n), Send("SendMsg", Beacon, s, n)>>>> :
        k \in DOMAIN Layouts, s \in {1}, n \in {0, 2}}

\* Mencius: a skip without a flush, then what sends it along
Delayed ==
    {<<<<Send("SendMsgNoFlush", CodeOf(MenciusSkip), 1, 0), next>>>> :
        next \in {Flush, Send("SendMsg", CodeOf(MenciusAccept), 2, 0)}}

\* the goroutines that answer one client
Clients ==
    {<<<<Send("Reply", CodeOf(SmrProposeReplyTSMock), 1, 0)>>,
       <<Send("Reply", CodeOf(SmrRealCommitted), 2, 1)>>,
       <<Send("Reply", CodeOf(SmrMockCommitted), 3, 0)>>>>,
     <<<<Send("Reply", CodeOf(SmrProposeReplyTS), 1, 0),
         Send("Reply", CodeOf(SmrProposeReplyTS), 2, 0)>>,
       <<Send("Reply", CodeOf(SmrProposeReplyTS), 3, 0)>>>>}

Connections == Peers \union Delayed \union Clients
=============================================================================
