------------------------------ MODULE Session ------------------------------
(***************************************************************************)
(* One direction of an RPC connection: the fibers that call sendResponse   *)
(* on an RPCSession, the byte stream, and the fiber that calls recvRequest *)
(* at the other end (rpc_session.cc, protocol.h, stream.cc,                *)
(* socket_stream.cc).                                                      *)
(*                                                                         *)
(* The socket takes and gives any part of what it is asked for, so both    *)
(* ends work in a loop, and it is the lock of the session that keeps the   *)
(* frames of two senders apart.  The ByteArrays of both ends are the       *)
(* strings of bytes that module Serializer shows them to be.               *)
(*                                                                         *)
(* readFixSize and writeFixSize keep the result of read() and write() in a *)
(* size_t: 0, the end of the stream, ends them, but -1 does not.  The -1 of *)
(* a closed or broken connection comes back on every call, which they      *)
(* repeat for ever: "spin".  The -1 of a receive time-out (RPCServer sets  *)
(* one on its connection to the registry, rpc_server.cc:34) comes once:    *)
(* left -= -1, so the loop goes on for one byte more than the frame has.   *)
(***************************************************************************)
EXTENDS Codec, SequencesExt

CONSTANTS
    Senders,    \* fibers that send
    Outbox,     \* the messages each of them sends, [type, id, content]
    Room,       \* bytes the connection holds (bound)
    MaxTimeouts,  \* reads that time out (bound); 0: no SO_RCVTIMEO on the socket
    None

VARIABLES
    pc,         \* of the senders and of "reader"
    todo,       \* messages each sender has still to send
    mutex,      \* the owner of the session's mutex_
    left,       \* the bytes each sender has still to write of its message
    wire,       \* bytes on their way
    outUp, inUp,  \* whether the socket of each end is open
    buffer,     \* the bytes recvRequest has of the header, then of the content
    request,    \* the header it decoded, or None
    surplus,    \* bytes readFixSize takes beyond the length it was given
    timeouts,   \* reads that timed out so far
    sent,       \* messages in the order their senders took the lock
    received

sendVars == <<todo, mutex, left, sent>>
recvVars == <<buffer, request, surplus, timeouts, received>>
vars == <<pc, sendVars, recvVars, wire, outUp, inUp>>

-----------------------------------------------------------------------------
\* Protocol: |magic|version|type|sequence id|content length|, the last two of
\* four bytes, here of two.
MAGIC == 5
VERSION == 1
FieldBytes == 2
BASE_LENGTH == 3 + 2 * FieldBytes

encode(m) ==
    <<MAGIC, VERSION, m.type>> \o fixed(FieldBytes, m.id) \o fixed(FieldBytes, Len(m.content))
        \o m.content

\* What fits into a frame: the fields of the header are unsigned and of fixed size.
FieldValues == 0 .. 2 ^ (FieldBytes * ByteBits) - 1
Messages == [type : Byte, id : FieldValues, content : {c \in Seq(Byte) : Len(c) \in FieldValues}]

ASSUME SessionAssumption ==
    /\ Room \in Nat \ {0} /\ MaxTimeouts \in Nat /\ None \notin Senders /\ "reader" \notin Senders
    /\ Outbox \in [Senders -> Seq(Messages)]

decodeMeta(s) ==
    LET field(i) == lowestFirst(SubSeq(s, i, i + FieldBytes - 1), 2 ^ ByteBits) IN
    [magic |-> s[1], type |-> s[3], id |-> field(4), length |-> field(4 + FieldBytes)]

Init ==
    /\ pc = [f \in Senders \cup {"reader"} |-> IF f = "reader" THEN "header" ELSE "idle"]
    /\ todo = Outbox /\ mutex = None /\ left = [f \in Senders |-> <<>>] /\ sent = <<>>
    /\ wire = <<>> /\ outUp = TRUE /\ inUp = TRUE
    /\ buffer = <<>> /\ request = None /\ surplus = 0 /\ timeouts = 0 /\ received = <<>>

goto(f, l) == pc' = [pc EXCEPT ![f] = l]

-----------------------------------------------------------------------------
\* Mutant: without the lock.
SendUnlocked(f) ==
    /\ pc[f] = "idle" /\ todo[f] # <<>>
    /\ mutex' = f /\ left' = [left EXCEPT ![f] = encode(Head(todo[f]))]
    /\ todo' = [todo EXCEPT ![f] = Tail(@)] /\ sent' = Append(sent, Head(todo[f]))
    /\ goto(f, "write")
    /\ UNCHANGED <<recvVars, wire, outUp, inUp>>

\* sendResponse: encode(), and the lock.
SendResponse(f) ==
    /\ pc[f] = "idle" /\ todo[f] # <<>> /\ mutex = None
    /\ mutex' = f /\ left' = [left EXCEPT ![f] = encode(Head(todo[f]))]
    /\ todo' = [todo EXCEPT ![f] = Tail(@)] /\ sent' = Append(sent, Head(todo[f]))
    /\ goto(f, "write")
    /\ UNCHANGED <<recvVars, wire, outUp, inUp>>

\* writeFixSize: one write of some of the bytes; the last one ends sendResponse.
\* What is written after the other end was closed is lost.
WritePart(f) ==
    /\ pc[f] = "write" /\ outUp
    /\ \E n \in 1 .. Len(left[f]) :
         /\ Len(wire) + n <= Room
         /\ wire' = IF inUp THEN wire \o SubSeq(left[f], 1, n) ELSE wire
         /\ left' = [left EXCEPT ![f] = SubSeq(@, n + 1, Len(@))]
         /\ IF n = Len(left[f]) THEN mutex' = None /\ goto(f, "idle") ELSE UNCHANGED <<mutex, pc>>
    /\ UNCHANGED <<todo, sent, recvVars, outUp, inUp>>

\* The write fails: it is repeated for ever, with the lock.
WriteFails(f) ==
    /\ pc[f] = "write" /\ ~(outUp /\ inUp)
    /\ goto(f, "spin")
    /\ UNCHANGED <<sendVars, recvVars, wire, outUp, inUp>>

-----------------------------------------------------------------------------
\* Mutant: a message without content goes on to read its content, of which
\* readFixSize returns 0 bytes.
HeaderDoneNoTest(h) ==
    /\ buffer' = <<>> /\ surplus' = 0
    /\ IF h.magic # MAGIC \/ h.length = 0
         THEN goto("reader", "stopped") /\ UNCHANGED <<request, received>>
         ELSE goto("reader", "content") /\ request' = h /\ UNCHANGED received

\* The header is complete: a foreign one ends the session, one without content
\* is a message, else the content follows.
HeaderDone(h) ==
    /\ buffer' = <<>> /\ surplus' = 0
    /\ IF h.magic # MAGIC THEN goto("reader", "stopped") /\ UNCHANGED <<request, received>>
       ELSE IF h.length = 0
         THEN /\ received' = Append(received, [type |-> h.type, id |-> h.id, content |-> <<>>])
              /\ UNCHANGED <<pc, request>>
       ELSE goto("reader", "content") /\ request' = h /\ UNCHANGED received

\* What readFixSize(ba, BASE_LENGTH) takes off the stream.
headerBytes == BASE_LENGTH + surplus

\* One read of some of the missing bytes.  What was read beyond the header is
\* dropped with the ByteArray.
ReadHeader ==
    /\ pc["reader"] = "header" /\ inUp /\ wire # <<>>
    /\ \E n \in 1 .. headerBytes - Len(buffer) :
         /\ n <= Len(wire)
         /\ LET b == buffer \o SubSeq(wire, 1, n) IN
            IF Len(b) = headerBytes THEN HeaderDone(decodeMeta(b))
            ELSE buffer' = b /\ UNCHANGED <<pc, request, surplus, received>>
         /\ wire' = SubSeq(wire, n + 1, Len(wire))
    /\ UNCHANGED <<sendVars, outUp, inUp, timeouts>>

\* readFixSize(buff, length): the same for the content.
ReadContent ==
    /\ pc["reader"] = "content" /\ inUp /\ wire # <<>> /\ surplus = 0
    /\ \E n \in 1 .. request.length - Len(buffer) :
         /\ n <= Len(wire)
         /\ LET b == buffer \o SubSeq(wire, 1, n) IN
            IF Len(b) = request.length
              THEN /\ received' = Append(received, [type |-> request.type, id |-> request.id,
                                                    content |-> b])
                   /\ request' = None /\ buffer' = <<>> /\ goto("reader", "header")
              ELSE buffer' = b /\ UNCHANGED <<pc, request, received>>
         /\ wire' = SubSeq(wire, n + 1, Len(wire))
    /\ UNCHANGED <<sendVars, outUp, inUp, surplus, timeouts>>

\* The same while the offset is below 0: a byte goes into the memory before the
\* string, after which the program ends or goes on.
ReadBefore ==
    /\ pc["reader"] = "content" /\ inUp /\ wire # <<>> /\ surplus > 0
    /\ surplus' = surplus - 1 /\ wire' = Tail(wire)
    /\ goto("reader", "crashed") \/ UNCHANGED pc
    /\ UNCHANGED <<sendVars, outUp, inUp, buffer, request, timeouts, received>>

\* read() returns -1 after SO_RCVTIMEO, also when bytes have come meanwhile:
\* left is one more, and in the string the offset one less, so that the last
\* byte read is overwritten by the next one.
ReadTimesOut ==
    /\ pc["reader"] \in {"header", "content"} /\ inUp /\ timeouts < MaxTimeouts
    /\ timeouts' = timeouts + 1
    /\ IF pc["reader"] = "content" /\ buffer # <<>>
         THEN buffer' = Front(buffer) /\ UNCHANGED surplus
         ELSE surplus' = surplus + 1 /\ UNCHANGED buffer
    /\ UNCHANGED <<pc, sendVars, request, received, wire, outUp, inUp>>

\* Mutant: what there is of a frame is kept for a next turn.
ReadEofWaits ==
    /\ pc["reader"] \in {"header", "content"} /\ inUp /\ ~outUp /\ wire = <<>> /\ buffer = <<>>
    /\ goto("reader", "stopped")
    /\ UNCHANGED <<sendVars, recvVars, wire, outUp, inUp>>

\* The end of the stream, read() returns 0: nullptr, also within a frame.
ReadEof ==
    /\ pc["reader"] \in {"header", "content"} /\ inUp /\ ~outUp /\ wire = <<>>
    /\ goto("reader", "stopped")
    /\ UNCHANGED <<sendVars, recvVars, wire, outUp, inUp>>

\* The socket of the reader was closed under it, read() returns -1 from now on.
ReadFails ==
    /\ pc["reader"] \in {"header", "content"} /\ ~inUp
    /\ goto("reader", "spin")
    /\ UNCHANGED <<sendVars, recvVars, wire, outUp, inUp>>

\* close() of either end: by another fiber, by a timer, or by the destructor.
CloseOut ==
    /\ outUp /\ outUp' = FALSE
    /\ UNCHANGED <<pc, sendVars, recvVars, wire, inUp>>

CloseIn ==
    /\ inUp /\ inUp' = FALSE /\ wire' = <<>>
    /\ UNCHANGED <<pc, sendVars, recvVars, outUp>>

-----------------------------------------------------------------------------
SendStep(f) == SendResponse(f) \/ WritePart(f) \/ WriteFails(f)
RecvStep == ReadHeader \/ ReadContent \/ ReadBefore \/ ReadEof \/ ReadFails

Next == (\E f \in Senders : SendStep(f)) \/ RecvStep \/ ReadTimesOut \/ CloseOut \/ CloseIn

Spec == Init /\ [][Next]_vars

\* A fiber whose socket is ready is woken and runs; closing and time-outs
\* are left free.
FairSpec == Spec /\ WF_vars(RecvStep) /\ \A f \in Senders : WF_vars(SendStep(f))

-----------------------------------------------------------------------------
(* Until a read times out, and so for ever on a socket without SO_RCVTIMEO:
   whatever parts the socket cuts the stream into and however the senders take
   turns, what recvRequest returns are the messages as they were sent, whole
   and in the order in which their senders got the lock; a frame that was cut
   off by a close is never returned (rpc_session.cc:9-41, stream.cc:4-51).   *)
FramesIntact == timeouts = 0 => IsPrefix(received, sent)

(* A message whose sending began arrives, unless one end closes or a read times
   out: the two loops, given what the socket takes and gives, wait for no byte
   the other does not send, and a message without content does not end the
   session (rpc_session.cc:22-24, stream.cc:17-27).                          *)
AllArrive ==
    \A f \in Senders : \A m \in ToSet(Outbox[f]) :
        Contains(sent, m) ~> (Contains(received, m) \/ ~outUp \/ ~inUp \/ timeouts > 0)

(* When the other end has closed, recvRequest returns nullptr, in whatever part
   of a frame it is and whether or not reads have timed out, and its caller can
   end the connection.  Only its own end being closed under it leaves it in its
   loop, and a byte before the string may end the program (stream.cc:8-10,21-23). *)
EofEnds == ~outUp ~> (pc["reader"] \in {"stopped", "crashed"} \/ ~inUp)

=============================================================================
