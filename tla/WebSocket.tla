----------------------------- MODULE WebSocket -----------------------------
(***************************************************************************)
(* How include/robosub/ws brings the onboard server's messages to mission  *)
(* control: the server's queue, whose frames are written in two parts, and *)
(* the client's reader, which takes bytes from the socket into one buffer. *)
(* The bytes of the stream are counted: `taken` are in the buffer or have  *)
(* been, `consumed` have been read out of it.  The handshake reads up to   *)
(* its end and whatever else is there, so the reader begins with bytes of  *)
(* the first messages in its buffer.                                       *)
(***************************************************************************)
EXTENDS Integers, SequencesExt

CONSTANTS
    ShortLength,      \* longest length in one byte: 125
    StateLengths,     \* lengths of the states that the server sends
    MaxAdditional,    \* bytes that a read of the handshake can take after it
    MaxMessages       \* bound: messages sent

ASSUME WsAssumption ==
    /\ ShortLength \in Nat /\ MaxAdditional \in Nat /\ MaxMessages \in Nat
    /\ StateLengths \subseteq Nat \ {0, 1}

VARIABLES
    send_queue,     \* frames that are not completely written, by their length
    writing,        \* part of the first one that is being written, or none
    stream,         \* the frames whose header has been written: their length and where
                    \* in the stream they begin
    written,        \* bytes written
    reader,         \* the client's Connection
    delivered,      \* history: frames given to on_message, and whether they were whole
    sentFrames,     \* history: lengths of the frames given to send
    wsUp            \* the connection works
wsVars == <<send_queue, writing, stream, written, reader, delivered, sentFrames, wsUp>>

-----------------------------------------------------------------------------
(* Frames: two bytes, two more when the length needs them, the content.     *)
LengthBytes(length) == IF length > ShortLength THEN 2 ELSE 0
HeaderSize(length) == 2 + LengthBytes(length)
FrameSize(length) == HeaderSize(length) + length
Ends(frame) == frame.begins + FrameSize(frame.length)

-----------------------------------------------------------------------------
WsInit ==
    /\ send_queue = <<>> /\ writing = "none"
    /\ stream = <<>> /\ written = 0
    /\ reader = [pc |-> "handshake", taken |-> 0, consumed |-> 0, additional |-> 0, frame |-> 0,
                 extra |-> 0]
    /\ delivered = <<>> /\ sentFrames = <<>> /\ wsUp = TRUE

(* Connection::send from either thread, by way of the strand.  The server   *)
(* sends a state as soon as the connection is open, and acknowledgements of *)
(* one byte once the client has sent something.                             *)
wsSend(length) ==
    /\ wsUp /\ Len(sentFrames) < MaxMessages
    /\ \/ length \in StateLengths
       \/ length = 1 /\ reader.pc # "handshake"
    /\ sentFrames' = Append(sentFrames, length)
    /\ send_queue' = Append(send_queue, length)
    /\ writing' = IF send_queue = <<>> THEN "header" ELSE writing
    /\ UNCHANGED <<stream, written, reader, delivered, wsUp>>

(* send_from_queue: two writes, then the next frame. *)
WriteHeader ==
    /\ wsUp /\ writing = "header"
    /\ stream' = Append(stream, [begins |-> written, length |-> Head(send_queue)])
    /\ written' = written + HeaderSize(Head(send_queue))
    /\ writing' = "message"
    /\ UNCHANGED <<send_queue, reader, delivered, sentFrames, wsUp>>
WriteMessage ==
    /\ wsUp /\ writing = "message"
    /\ written' = written + Head(send_queue)
    /\ send_queue' = Tail(send_queue)
    /\ writing' = IF Len(send_queue) > 1 THEN "header" ELSE "none"
    /\ UNCHANGED <<stream, reader, delivered, sentFrames, wsUp>>

-----------------------------------------------------------------------------
(* The client.                                                              *)

(* Mutant of Transfer: a read takes all it wants, whatever is there.        *)
TransferAll(wanted) == wanted

(* transfer_exactly(n > wanted ? 0 : wanted - n): what a read still takes   *)
(* from the socket.                                                         *)
Transfer(wanted) == IF reader.additional > wanted THEN 0 ELSE wanted - reader.additional

(* Mutant of Additional: counts what the read has just transferred.         *)
AdditionalAll(size, transferred) == size
Additional(size, transferred) == size - transferred

(* The reader has lost its place: it takes a header from the middle of a    *)
(* frame, or it reads bytes that the buffer does not hold, which leaves its *)
(* variables uninitialised.  What it does from there on is left open.       *)
Astray(r) == [r EXCEPT !.pc = "astray"]
InPlace(r) == r.frame \in DOMAIN stream /\ r.consumed = stream[r.frame].begins

(* async_read_until the end of the handshake. *)
Handshake ==
    /\ wsUp /\ reader.pc = "handshake"
    /\ \E extra \in 0 .. written :
           /\ extra <= MaxAdditional
           /\ reader' = [reader EXCEPT !.pc = "header", !.taken = extra, !.extra = extra,
                                       !.additional = Additional(extra, 0), !.frame = 1]
    /\ UNCHANGED <<send_queue, writing, stream, written, delivered, sentFrames, wsUp>>

(* What every read begins with: it completes when its bytes are there.      *)
Completes(pc, wanted) ==
    /\ wsUp /\ reader.pc = pc
    /\ reader.taken + Transfer(wanted) <= written
    /\ UNCHANGED <<send_queue, writing, stream, written, sentFrames, wsUp>>
Size(wanted) == reader.taken + Transfer(wanted) - reader.consumed

(* read_message: the first two bytes. *)
ReadHeader ==
    /\ Completes("header", 2)
    /\ UNCHANGED delivered
    /\ LET size == Size(2)
           r == [reader EXCEPT !.taken = @ + Transfer(2),
                               !.additional = Additional(size, Transfer(2))]
       IN reader' = IF size = 0 THEN [reader EXCEPT !.additional = 0]
                    ELSE IF size < 2 \/ ~InPlace(r) THEN Astray(r)
                    ELSE [r EXCEPT !.consumed = @ + 2,
                                   !.pc = IF LengthBytes(stream[r.frame].length) = 0
                                          THEN "content" ELSE "length"]

(* The two bytes of a longer length. *)
ReadLength ==
    /\ Completes("length", 2)
    /\ UNCHANGED delivered
    /\ LET size == Size(2)
           r == [reader EXCEPT !.taken = @ + Transfer(2),
                               !.additional = Additional(size, Transfer(2))]
       IN reader' = IF size < 2 THEN Astray(r) ELSE [r EXCEPT !.consumed = @ + 2, !.pc = "content"]

(* read_message_content.  With bytes left over the content is copied out of *)
(* the buffer, as many as there are; else the buffer is the message.        *)
ReadContent ==
    LET length == stream[reader.frame].length
        size == Size(length)
        additional == Additional(size, Transfer(length))
        content == IF additional > 0 /\ size > length THEN length ELSE size
    IN
    /\ reader.pc = "content" /\ Completes("content", length)
    /\ delivered' = Append(delivered, [frame |-> reader.frame, whole |-> content = length])
    /\ LET r == [reader EXCEPT !.taken = @ + Transfer(length), !.consumed = @ + content,
                               !.additional = additional, !.frame = @ + 1, !.pc = "header"]
       IN reader' = IF additional > 0 /\ size < length THEN Astray(r) ELSE r

(* The connection breaks: the queue is cleared at the next write, the       *)
(* reads end in on_error.                                                   *)
WsBreak ==
    /\ wsUp
    /\ wsUp' = FALSE
    /\ send_queue' = <<>> /\ writing' = "none"
    /\ reader' = [reader EXCEPT !.pc = "closed"]
    /\ UNCHANGED <<stream, written, delivered, sentFrames>>

WsReader == Handshake \/ ReadHeader \/ ReadLength \/ ReadContent
WsWriter == WriteHeader \/ WriteMessage
WsNext == (\E length \in StateLengths \cup {1} : wsSend(length)) \/ WsWriter \/ WsReader \/ WsBreak
WsFairness == WF_wsVars(WsWriter) /\ WF_wsVars(WsReader)
WsSpec == WsInit /\ [][WsNext]_wsVars

-----------------------------------------------------------------------------
(* Properties. *)

(* The handshake's read ended where a frame ends, and not after an          *)
(* acknowledgement, which is shorter than the two bytes of a header.        *)
CleanHandshake ==
    \/ reader.extra = 0
    \/ \E k \in 1 .. Len(stream) :
           reader.extra = Ends(stream[k]) /\ stream[k].length >= 2

(* client_ws.hpp:428-431: whatever the handshake's read has taken of the    *)
(* messages is completed by the next read, so on_message gets what was      *)
(* sent, whole and in order.  It does not: the bytes of a frame that were   *)
(* there are counted again after they have been read.                       *)
WholeMessages ==
    /\ IsPrefix([k \in DOMAIN stream |-> stream[k].length], sentFrames)
    /\ \A i \in DOMAIN delivered : delivered[i] = [frame |-> i, whole |-> TRUE]
    /\ reader.pc # "astray"

(* Messages are whole and in order on a connection whose handshake ended at *)
(* the end of a frame, whatever the lengths and the segments of the stream. *)
WholeAfterCleanHandshake == CleanHandshake => WholeMessages

(* Every message sent arrives, unless the connection breaks or its          *)
(* handshake ended within a frame.                                          *)
AllArrive ==
    \A k \in 1 .. MaxMessages :
        Len(sentFrames) >= k ~> Len(delivered) >= k \/ ~wsUp \/ ~CleanHandshake

=============================================================================
