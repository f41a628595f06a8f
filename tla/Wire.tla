-------------------------------- MODULE Wire --------------------------------
(***************************************************************************)
(* One direction of a connection (src/src/genericsmr/genericsmr.go): the   *)
(* goroutines that write messages into its bufio.Writer, the bytes on      *)
(* their way, and the listener at the other end that reads them back.      *)
(*                                                                         *)
(* Nothing but a lock keeps two writers' bytes apart: a message goes out   *)
(* in several writes, and what the listener takes for the start of the     *)
(* next message is whatever follows the last byte it read.                 *)
(***************************************************************************)
EXTENDS WireLayouts, FiniteSets, TLC

CONSTANTS
    Table,      \* Table[k]: the layout of the messages with code k
    Scenarios,  \* bound: what is sent: scripts of the goroutines
    BufSize,    \* bound: the bytes of a bufio.Writer
    Nobody

VARIABLES
    scripts,    \* scripts[p]: what goroutine p has left to send: messages, by
                \* SendMsg, by SendMsgNoFlush or as a "Reply" to a client, which
                \* takes a lock; "Flush" only flushes the writer
    writing,    \* writing[p]: the writes that p has left of its message
    busy,       \* the goroutines in the middle of a send
    lock,       \* the goroutine that holds the lock of the connection
    buf,        \* the bytes in the bufio.Writer
    stream,     \* the bytes on their way, or waiting for the listener
    closed,     \* the connection broke
    listening,  \* the listener has not ended
    received,   \* the messages it handed on
    sent        \* history: the messages in the order their senders began

vars == <<scripts, writing, busy, lock, buf, stream, closed, listening,
          received, sent>>

Init == \E s \in Scenarios :
    /\ scripts = s
    /\ writing = [p \in DOMAIN s |-> <<>>]
    /\ busy = {}
    /\ lock = Nobody
    /\ buf = <<>> /\ stream = <<>>
    /\ closed = FALSE /\ listening = TRUE
    /\ received = <<>> /\ sent = <<>>

FirstCode == 1000    \* bound: a code is told from the bytes of a message
CodeByte(k) == FirstCode + k

\* a write into the buffer, which passes on what it has no room for
Write(bytes) ==
    LET all == buf \o bytes
        full == IF Len(all) > BufSize THEN BufSize * (Len(all) \div BufSize)
                ELSE 0
    IN  /\ buf' = Drop(all, full)
        /\ stream' = stream \o SubSeq(all, 1, full)

\* mutant: the replies to a client forget the lock
LocksNothing(how) == FALSE
\* the sends that hold the connection's lock
Locks(how) == how = "Reply"

\* mutant: nobody flushes after another's send without a flush
FlushesReplies(how) == how = "Reply"
\* the sends that flush the writer
Flushes(how) == how # "SendMsgNoFlush"

\* Goroutine p starts to send: it writes the code byte.
Begin(p) ==
    /\ ~closed
    /\ p \notin busy /\ scripts[p] # <<>> /\ Head(scripts[p]).how # "Flush"
    /\ LET send == Head(scripts[p])
       IN  /\ Locks(send.how) => lock = Nobody
           /\ lock' = IF Locks(send.how) THEN p ELSE lock
           /\ writing' = [writing EXCEPT ![p] =
                              Marshal(Table[send.code], send.msg)]
           /\ sent' = Append(sent, [code |-> send.code, msg |-> send.msg])
           /\ Write(<<CodeByte(send.code)>>)
    /\ busy' = busy \union {p}
    /\ UNCHANGED <<scripts, closed, listening, received>>

\* the next write of p's Marshal
MarshalStep(p) ==
    /\ ~closed
    /\ writing[p] # <<>>
    /\ Write(Head(writing[p]))
    /\ writing' = [writing EXCEPT ![p] = Tail(@)]
    /\ UNCHANGED <<scripts, busy, lock, closed, listening, received, sent>>

\* Flush, unless p leaves it to a later send, and unlock.
Finish(p) ==
    /\ ~closed
    /\ p \in busy /\ writing[p] = <<>>
    /\ IF Flushes(Head(scripts[p]).how) THEN stream' = stream \o buf /\ buf' = <<>>
       ELSE UNCHANGED <<buf, stream>>
    /\ lock' = IF lock = p THEN Nobody ELSE lock
    /\ scripts' = [scripts EXCEPT ![p] = Tail(@)]
    /\ busy' = busy \ {p}
    /\ UNCHANGED <<writing, closed, listening, received, sent>>

\* p flushes what SendMsgNoFlush left
FlushOnly(p) ==
    /\ ~closed
    /\ p \notin busy /\ scripts[p] # <<>> /\ Head(scripts[p]).how = "Flush"
    /\ stream' = stream \o buf /\ buf' = <<>>
    /\ scripts' = [scripts EXCEPT ![p] = Tail(@)]
    /\ UNCHANGED <<writing, busy, lock, closed, listening, received, sent>>

\* what the listener reads of the bytes: one message
NextRead(bytes) == Unmarshal(Table[Head(bytes) - FirstCode], Tail(bytes))
Known(bytes) == Head(bytes) - FirstCode \in DOMAIN Table

\* The listener reads one message, or a code that it does not know, which it
\* logs.  It waits for bytes that have not come; an error ends it.
Listen ==
    /\ listening
    /\ stream # <<>>
    /\ IF Known(stream)
       THEN \E got \in {NextRead(stream)} :
              /\ got.short => closed
              /\ stream' = got.rest
              /\ listening' = got.ok
              /\ received' =
                     IF got.ok
                     THEN Append(received, [code |-> Head(stream) - FirstCode,
                                            msg |-> got.val])
                     ELSE received
       ELSE stream' = Tail(stream) /\ UNCHANGED <<listening, received>>
    /\ UNCHANGED <<scripts, writing, busy, lock, buf, closed, sent>>

\* The connection breaks with k of its bytes on this end.  The writers do
\* not look at the errors of what they write from now on: it is gone.
Cut ==
    /\ ~closed /\ sent # <<>>
    /\ closed' = TRUE
    /\ \E k \in 0 .. Len(stream) : stream' = SubSeq(stream, 1, k)
    /\ UNCHANGED <<scripts, writing, busy, lock, buf, listening, received,
                   sent>>

Next ==
    \/ \E p \in DOMAIN scripts :
           Begin(p) \/ MarshalStep(p) \/ Finish(p) \/ FlushOnly(p)
    \/ Listen
    \/ Cut

Spec == Init /\ [][Next]_vars

-----------------------------------------------------------------------------

\* The listener hands on the messages that were sent, whole, in the order in
\* which they were sent.
Intact == ~closed => IsPrefix(received, sent)

\* When the senders are through and the listener waits, nothing is missing:
\* no message stays behind in a buffer.
Complete ==
    (/\ ~closed /\ busy = {}
     /\ \A p \in DOMAIN scripts : scripts[p] = <<>>
     /\ stream = <<>> \/ (Known(stream) /\ NextRead(stream).short)) => received = sent

\* what a message that was cut short keeps: scalars, and how many elements
Shape(layout, msg) ==
    [k \in DOMAIN layout |->
        CASE layout[k].item = "put" -> msg[k]
          [] layout[k].item = "one" -> <<>>
          [] layout[k].item = "many" -> <<Len(msg[k])>>]

\* When the connection breaks, at most the last message handed on differs
\* from what was sent, and only inside fields that unmarshal themselves.
CutShort ==
    closed =>
        /\ Len(received) <= Len(sent)
        /\ \A k \in DOMAIN received :
              IF k < Len(received) THEN received[k] = sent[k]
              ELSE /\ received[k].code = sent[k].code
                   /\ LET form == Table[sent[k].code]
                      IN  Shape(form, received[k].msg) = Shape(form, sent[k].msg)
=============================================================================
