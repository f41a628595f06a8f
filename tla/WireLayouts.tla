---------------------------- MODULE WireLayouts ----------------------------
(***************************************************************************)
(* The form of every message on the wire: the *marsh.go files, which       *)
(* Marshal a message into a sequence of writes and Unmarshal it by reads.  *)
(*                                                                         *)
(* A layout is a sequence of items in the order in which both functions go *)
(* through the fields: some scalars put into one buffer, another message   *)
(* with a Marshal of its own, or an array after its length.  A message is  *)
(* the sequence of the values of its items.                                *)
(*                                                                         *)
(* Bound: a byte has Base values, not 256; negative numbers stay in two's  *)
(* complement, and a byte of a varint has one digit of Base \div 2.        *)
(***************************************************************************)
EXTENDS Integers, Sequences, SequencesExt

CONSTANT Base    \* bound: the values of a byte

ASSUME BaseAssumption == Base \in Nat /\ Base >= 4 /\ Base % 2 = 0

I32 == [width |-> 4, signed |-> TRUE]
U32 == [width |-> 4, signed |-> FALSE]
I64 == [width |-> 8, signed |-> TRUE]
U64 == [width |-> 8, signed |-> FALSE]
I8 == [width |-> 1, signed |-> TRUE]
U8 == [width |-> 1, signed |-> FALSE]
Bool == [width |-> 1, signed |-> FALSE, truth |-> TRUE]    \* 1 is true

\* the scalars put into one buffer, one Write
Put(types) == [item |-> "put", types |-> types]

\* a field that marshals itself
One(layout) == [item |-> "one", of |-> layout]

\* an array, after its length; least: the fewest elements callers send
Array(length, item, least) ==
    [item |-> "many", length |-> length, of |-> item, least |-> least]
Varint == [enc |-> "varint"]
Fixed(type) == [enc |-> "int", type |-> type, lost |-> 0]
\* an integer whose byte number lost the reader drops
Losing(type, lost) == [enc |-> "int", type |-> type, lost |-> lost]
Many(length, item) == Array(length, item, 0)
\* the buffer of the next field has another length when the array is empty
Some(item) == Array(Varint, item, 1)

Count(type) == Base ^ type.width
Least(type) == IF type.signed THEN -(Count(type) \div 2) ELSE 0

ByteAt(v, k) == (v \div Base ^ (k - 1)) % Base

\* the bytes of a scalar, little-endian
ScalarBytes(type, v) == [k \in 1 .. type.width |-> ByteAt(v, k)]

\* the scalar that the bytes bs are read as
ScalarOf(type, bs) ==
    LET u == FoldRight(LAMBDA b, acc : b + Base * acc, bs, 0)
    IN  IF type.signed /\ u >= Count(type) \div 2 THEN u - Count(type) ELSE u

\* binary.PutVarint of a length: zig-zag, all bytes but the last marked
RECURSIVE UvarintBytes(_)
UvarintBytes(u) ==
    LET digits == Base \div 2
    IN  IF u < digits THEN <<u>>
        ELSE <<digits + (u % digits)>> \o UvarintBytes(u \div digits)
LengthBytes(enc, n) ==
    IF enc.enc = "varint" THEN UvarintBytes(2 * n) ELSE ScalarBytes(enc.type, n)

\* mutant: an Unmarshal does not return the errors of its reads
ResultAnyway(val, rest, ok, short) ==
    [val |-> val, rest |-> rest, ok |-> TRUE, short |-> short]

\* Read results: the value, what is left of the bytes, whether the read
\* reports no error, and whether some read met the end of the bytes.
Result(val, rest, ok, short) ==
    [val |-> val, rest |-> rest, ok |-> ok, short |-> short]

RECURSIVE ReadUvarint(_)
ReadUvarint(bytes) ==
    IF bytes = <<>> THEN Result(0, <<>>, FALSE, TRUE)
    ELSE IF Head(bytes) < Base \div 2
         THEN Result(Head(bytes), Tail(bytes), TRUE, FALSE)
         ELSE LET more == ReadUvarint(Tail(bytes))
                  digits == Base \div 2
              IN  [more EXCEPT !.val = Head(bytes) - digits + digits * @]

Drop(bytes, n) == SubSeq(bytes, n + 1, Len(bytes))

ReadLength(enc, bytes) ==
    IF enc.enc = "varint"
    THEN LET r == ReadUvarint(bytes) IN [r EXCEPT !.val = @ \div 2]
    ELSE LET w == enc.type.width
             bs == [k \in 1 .. w |-> IF k = enc.lost THEN 0 ELSE bytes[k]]
         IN  IF Len(bytes) < w THEN Result(0, <<>>, FALSE, TRUE)
             ELSE Result(ScalarOf(enc.type, bs), Drop(bytes, w), TRUE, FALSE)

\* the writes that put one item, and those of a message
RECURSIVE Writes(_, _)
Marshal(layout, msg) ==
    FlattenSeq([k \in DOMAIN layout |-> Writes(layout[k], msg[k])])
Writes(x, v) ==
    CASE x.item = "put" ->
            <<FlattenSeq([k \in DOMAIN x.types |->
                             ScalarBytes(x.types[k], v[k])])>>
      [] x.item = "one" -> Marshal(x.of, v)
      [] x.item = "many" ->
            <<LengthBytes(x.length, Len(v))>>
               \o FlattenSeq([k \in DOMAIN v |-> Writes(x.of, v[k])])

\* what a field holds before it is read
RECURSIVE ZeroItem(_)
Zero(layout) == [k \in DOMAIN layout |-> ZeroItem(layout[k])]
ZeroItem(x) ==
    CASE x.item = "put" -> [k \in DOMAIN x.types |-> 0]
      [] x.item = "one" -> Zero(x.of)
      [] x.item = "many" -> <<>>

Width(types) == FoldSeq(LAMBDA t, acc : t.width + acc, 0, types)

ReadPut(types, bytes) ==
    IF Len(bytes) < Width(types)
    THEN Result([k \in DOMAIN types |-> 0], <<>>, FALSE, TRUE)
    ELSE LET at(k) == Width(SubSeq(types, 1, k - 1))
         IN  Result([k \in DOMAIN types |->
                       ScalarOf(types[k],
                          SubSeq(bytes, at(k) + 1, at(k) + types[k].width))],
                    Drop(bytes, Width(types)), TRUE, FALSE)

\* Read the items of a list in turn into the values init, until an error.
RECURSIVE ReadItem(_, _), ReadFrom(_, _, _)
ReadFrom(items, k, r) ==
    IF k > Len(items) \/ ~r.ok THEN r
    ELSE LET got == ReadItem(items[k], r.rest)
         IN  ReadFrom(items, k + 1,
                 Result([r.val EXCEPT ![k] = got.val], got.rest, got.ok,
                        r.short \/ got.short))
Unmarshal(layout, bytes) ==
    ReadFrom(layout, 1, Result(Zero(layout), bytes, TRUE, FALSE))
\* A field's own Unmarshal may fail: its caller does not look at the error.
ReadItem(x, bytes) ==
    CASE x.item = "put" -> ReadPut(x.types, bytes)
      [] x.item = "one" -> [Unmarshal(x.of, bytes) EXCEPT !.ok = TRUE]
      [] x.item = "many" ->
            LET len == ReadLength(x.length, bytes)
                items == [k \in 1 .. len.val |-> x.of]
                zeros == [k \in 1 .. len.val |-> ZeroItem(x.of)]
            IN  IF ~len.ok THEN [len EXCEPT !.val = <<>>]
                ELSE ReadFrom(items, 1, Result(zeros, len.rest, TRUE, FALSE))

-----------------------------------------------------------------------------
(* src/src/state/statemarsh.go *)

StateCommand ==
    <<Put(<<U32>>), Put(<<I32>>), Put(<<U8>>), Put(<<I64>>), Put(<<I64>>)>>
StateCommandAvi == <<One(StateCommand), Put(<<Bool>>)>>
StateKey == <<Put(<<I64>>)>>
StateValue == <<Put(<<I64>>)>>
StateCommandId == <<Put(<<U32, I32>>)>>

-----------------------------------------------------------------------------
(* src/src/genericsmrproto/genericsmrprotomarsh.go *)

SmrMockExecTime == <<Put(<<I64>>), Put(<<Bool>>), One(StateCommandId)>>
SmrReadReply == <<Put(<<I32>>), One(StateValue)>>
SmrProposeAndRead == <<Put(<<I32>>), One(StateCommand), One(StateKey)>>
SmrPropose == <<Put(<<I32>>), One(StateCommand), Put(<<I64>>)>>
SmrProposeReplyTS == <<Put(<<U8, I32>>), One(StateValue), Put(<<I64>>)>>
SmrProposeReplyTSMock ==
    <<Put(<<U8>>), Put(<<I32>>), One(StateValue), Put(<<I64>>),
      Put(<<Bool>>)>>
SmrRealCommitted == <<Put(<<I32, I32>>), Many(Varint, One(StateCommandAvi))>>
SmrRegisterClientIdArgs == <<Put(<<U32>>)>>
SmrGetViewReply == <<Put(<<U8, I32, I32, I32>>)>>
SmrMockCommitted == <<Put(<<I32, I32>>), Many(Varint, One(StateCommandAvi))>>
SmrBeacon == <<Put(<<U64>>)>>
SmrBeTheLeaderReply == <<>>
SmrCommittedFromClient ==
    <<Put(<<I32, U32, I32, I64>>), Many(Varint, One(StateCommand))>>
SmrCommitLatencyFeedback ==
    <<One(StateCommandId), Put(<<I32>>), Put(<<I32>>), Put(<<I64>>),
      Put(<<I64>>), Many(Fixed(I64), One(StateCommandAvi)),
      Many(Losing(I64, 3), One(StateCommandAvi))>>
SmrRead == <<Put(<<I32>>), One(StateKey)>>
SmrBeaconReply == <<Put(<<U64>>)>>
SmrPingReply == <<>>
SmrBeTheLeaderArgs == <<>>
SmrProposeWithExecTime ==
    <<Put(<<I32>>), One(StateCommand), Put(<<I64>>), Put(<<I32>>)>>
SmrProposeReply == <<Put(<<U8, I32>>)>>
SmrRealCommitAtLeast == <<Put(<<U32, I32, I64>>)>>
SmrRegisterClientIdReply == <<Put(<<U8>>)>>
SmrGetView == <<Put(<<I32>>)>>
SmrClientRttTable == <<Put(<<U32>>), Many(Varint, Put(<<I64>>))>>
SmrProposeAndReadReply == <<Put(<<U8, I32>>), One(StateValue)>>
SmrPingArgs == <<Put(<<U8>>)>>

-----------------------------------------------------------------------------
(* src/src/avicennaproto/avicennaprotomarsh.go *)

AvicennaInstanceCommands ==
    <<Put(<<I32, U8>>), Many(Varint, One(StateCommandAvi)), Put(<<I32>>),
      Put(<<U8>>)>>
AvicennaClientLatency == <<One(StateCommandId), Put(<<I64>>)>>
AvicennaPingReply == <<Put(<<I32>>)>>
AvicennaRttTable == <<Many(Varint, Put(<<I64>>))>>
AvicennaAcceptReply == <<Put(<<I32, I32, U8>>)>>
AvicennaCommit ==
    <<Put(<<I32, I32, U8>>), Many(Varint, One(AvicennaInstanceCommands)),
      Put(<<I32>>)>>
AvicennaClientRttTable == <<Put(<<I32>>), Many(Varint, Put(<<I64>>))>>
AvicennaInstanceCommandIdsOld ==
    <<Put(<<I32, U8>>), Many(Varint, One(StateCommandId)), Put(<<U8>>)>>
AvicennaAccept ==
    <<Put(<<I32, I32>>), Many(Varint, One(AvicennaInstanceCommands))>>
AvicennaAcceptExecTime ==
    <<Put(<<I32, I32>>), Many(Varint, One(AvicennaInstanceCommands)),
      Many(Fixed(I32), One(SmrMockExecTime))>>
AvicennaPing == <<Put(<<I32>>)>>
AvicennaRotate ==
    <<Put(<<I32, I32>>), Many(Varint, One(AvicennaInstanceCommands)),
      Many(Varint, One(AvicennaInstanceCommands))>>
AvicennaCommitShort == <<Put(<<I32, I32, I32>>)>>

-----------------------------------------------------------------------------
(* src/src/copilotproto/copilotprotomarsh.go *)

CopilotCommit ==
    <<Put(<<I32, I32, I32>>), Many(Varint, One(StateCommand)),
      Many(Varint, Put(<<I32>>)), Put(<<U8, I32>>)>>
CopilotCommitShort ==
    <<Put(<<I32, I32, I32, I32>>), Many(Varint, Put(<<I32>>)),
      Put(<<U8, I32>>)>>
CopilotPrepare == <<Put(<<I32, I32, I32, I32, I32>>)>>
CopilotPreAccept ==
    <<Put(<<I32, I32, I32, I32, I32>>), Many(Varint, One(StateCommand)),
      Some(Put(<<I32>>)), Put(<<I32>>)>>
CopilotPreAcceptReply ==
    <<Put(<<I32, I32, U8, I32, I32>>), Some(Put(<<I32>>)), Some(Put(<<I32>>)),
      Put(<<U8>>)>>
CopilotAcceptReply == <<Put(<<I32, I32, U8, I32, I32, U8>>)>>
CopilotTryPreAcceptReply == <<Put(<<I32, I32, I32, U8, I32, I32, I32, I8>>)>>
CopilotPrepareReply ==
    <<Put(<<I32, I32, I32, U8, I32, I32, I8>>),
      Many(Varint, One(StateCommand)), Many(Varint, Put(<<I32>>)),
      Put(<<U8, I32>>)>>
CopilotPreAcceptOK == <<Put(<<I32>>)>>
CopilotAccept ==
    <<Put(<<I32, I32, I32, I32, I32>>), Many(Varint, One(StateCommand)),
      Some(Put(<<I32>>)), Put(<<I32>>)>>
CopilotTryPreAccept ==
    <<Put(<<I32, I32, I32, I32>>), Many(Varint, One(StateCommand)),
      Many(Varint, Put(<<I32>>))>>

-----------------------------------------------------------------------------
(* src/src/latentcopilotproto/latentcopilotprotomarsh.go *)

LatentPreAccept ==
    <<Put(<<I32, I32, I32, I32, I32>>), Many(Varint, One(StateCommand)),
      Some(Put(<<I32>>)), Put(<<I32>>)>>
LatentPreAcceptOK == <<Put(<<I32>>)>>
LatentAccept ==
    <<Put(<<I32, I32, I32, I32, I32>>), Many(Varint, One(StateCommand)),
      Some(Put(<<I32>>)), Put(<<I32>>)>>
LatentAcceptReply == <<Put(<<I32, I32, U8, I32, I32, U8>>)>>
LatentTryPreAccept ==
    <<Put(<<I32, I32, I32, I32>>), Many(Varint, One(StateCommand)),
      Many(Varint, Put(<<I32>>))>>
LatentTryPreAcceptReply == <<Put(<<I32, I32, I32, U8, I32, I32, I32, I8>>)>>
LatentPrepareReply ==
    <<Put(<<I32, I32, I32, U8, I32, I32, I8>>),
      Many(Varint, One(StateCommand)), Many(Varint, Put(<<I32>>)),
      Put(<<U8, I32>>)>>
LatentPreAcceptReply ==
    <<Put(<<I32, I32, U8, I32, I32>>), Some(Put(<<I32>>)), Some(Put(<<I32>>)),
      Put(<<U8, U8>>)>>
LatentCommit ==
    <<Put(<<I32, I32, I32>>), Many(Varint, One(StateCommand)),
      Many(Varint, Put(<<I32>>)), Put(<<U8, I32>>)>>
LatentCommitShort ==
    <<Put(<<I32, I32, I32, I32>>), Many(Varint, Put(<<I32>>)),
      Put(<<U8, I32>>)>>
LatentPrepare == <<Put(<<I32, I32, I32, I32, I32>>)>>

-----------------------------------------------------------------------------
(* src/src/epaxosproto/epaxosprotomarsh.go *)

EPaxosPrepareReply ==
    <<Put(<<I32, I32, I32, U8, I32, I8>>), Many(Varint, One(StateCommand)),
      Put(<<I32>>), Many(Varint, Put(<<I32>>))>>
EPaxosPreAccept ==
    <<Put(<<I32, I32, I32, I32>>), Many(Varint, One(StateCommand)),
      Put(<<I32>>), Many(Varint, Put(<<I32>>))>>
EPaxosAccept ==
    <<Put(<<I32, I32, I32, I32, I32, I32>>), Many(Varint, Put(<<I32>>))>>
EPaxosAcceptReply == <<Put(<<I32, I32, U8, I32>>)>>
EPaxosCommitShort ==
    <<Put(<<I32, I32, I32, I32, I32>>), Many(Varint, Put(<<I32>>))>>
EPaxosTryPreAccept ==
    <<Put(<<I32, I32, I32, I32>>), Many(Varint, One(StateCommand)),
      Put(<<I32>>), Many(Varint, Put(<<I32>>))>>
EPaxosPrepare == <<Put(<<I32, I32, I32, I32>>)>>
EPaxosPreAcceptReply ==
    <<Put(<<I32, I32, U8, I32, I32>>), Many(Varint, Put(<<I32>>)),
      Many(Varint, Put(<<I32>>))>>
EPaxosPreAcceptOK == <<Put(<<I32>>)>>
EPaxosCommit ==
    <<Put(<<I32, I32, I32>>), Many(Varint, One(StateCommand)), Put(<<I32>>),
      Many(Varint, Put(<<I32>>))>>
EPaxosTryPreAcceptReply == <<Put(<<I32, I32, I32, U8, I32, I32, I32, I8>>)>>

-----------------------------------------------------------------------------
(* src/src/gpaxosproto/gpaxosprotomarsh.go *)

GPaxos1a == <<Put(<<I32, I32, U8>>)>>
GPaxos1b == <<Put(<<I32, I32>>), Many(Varint, Put(<<I32>>))>>
GPaxosPrepare == <<Put(<<I32, I32, I32>>)>>
GPaxos2a == <<Put(<<I32, I32>>), Many(Varint, Put(<<I32>>))>>
GPaxos2b == <<Put(<<I32, I32>>), Some(Put(<<I32>>)), Some(Put(<<I32>>))>>
GPaxosCommit == <<Many(Varint, Put(<<I32>>))>>
GPaxosPrepareReply == <<Put(<<I32, U8, I32>>), Many(Varint, Put(<<I32>>))>>

-----------------------------------------------------------------------------
(* src/src/menciusproto/menciusprotomarsh.go *)

MenciusSkip == <<Put(<<I32, I32, I32>>)>>
MenciusPrepare == <<Put(<<I32, I32, I32>>)>>
MenciusPrepareReply == <<Put(<<I32, U8, I32, U8, I32>>), One(StateCommand)>>
MenciusAccept == <<Put(<<I32, I32, I32, U8, I32>>), One(StateCommand)>>
MenciusAcceptReply == <<Put(<<I32, U8, I32, I32, I32>>)>>
MenciusCommit == <<Put(<<I32, I32, U8, I32>>)>>

-----------------------------------------------------------------------------
(* src/src/paxosproto/paxosprotomarsh.go *)

PaxosPrepare == <<Put(<<I32, I32, I32, U8>>)>>
PaxosPrepareReply ==
    <<Put(<<I32, U8, I32>>), Many(Varint, One(StateCommand))>>
PaxosAccept == <<Put(<<I32, I32, I32>>), Many(Varint, One(StateCommand))>>
PaxosAcceptReply == <<Put(<<I32, U8, I32>>)>>
PaxosCommit == <<Put(<<I32, I32, I32>>), Many(Varint, One(StateCommand))>>
PaxosCommitShort == <<Put(<<I32, I32, I32, I32>>)>>

-----------------------------------------------------------------------------
(* src/src/viewchangeproto/viewchangeprotomarsh.go *)

ViewAcceptViewReply == <<Put(<<I32, I32, U8>>)>>
ViewView == <<Put(<<I32, I32, I32>>)>>
ViewViewChangeReply ==
    <<Put(<<I32, I32, I32, U8, I32, I32, I32, I32, I32, I32, I32, I32>>)>>
ViewInitView == <<Put(<<I32, I32, I32, I32, I32>>)>>
ViewViewChange == <<Put(<<I32, I32, I32, I32, I32, I32>>)>>
ViewViewChangeOK == <<Put(<<I32, I32, I32, I32, I32, I32, I32>>)>>
ViewViewChangeReject == <<Put(<<I32, I32, I32, I32, I32, I32>>)>>
ViewAcceptView == <<Put(<<I32, I32, I32, I32, I32, I32, I32>>)>>
=============================================================================
