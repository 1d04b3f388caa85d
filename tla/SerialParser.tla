---------------------------- MODULE SerialParser ----------------------------
(***************************************************************************)
(* The bytes of the universal serial protocol, src/src/robosub-serial.h:   *)
(* how a frame is escaped and buffered by the sender, and the state        *)
(* machine that finds frames in what arrives.  Between frames the line     *)
(* carries any noise; in a frame one byte may be damaged or lost.          *)
(***************************************************************************)
EXTENDS Integers, Sequences, SequencesExt

CONSTANTS
    CRC8(_, _),        \* one step of the checksum
    MaxMessageLength,  \* Serial_MaxMessageLength: 256 in the code
    SendFrames,        \* the frames the sender may send: [flags, sn, data]
    NoiseBytes         \* the bytes noise and damage are made of

Byte == 0 .. 255

ASSUME ParserAssumption ==
    /\ \A crc, b \in Byte : CRC8(crc, b) \in Byte
    /\ MaxMessageLength \in Nat
    /\ SendFrames \subseteq [flags : Byte, sn : Byte, data : Seq(Byte)]
    /\ NoiseBytes \subseteq Byte

(* A step of the checksum tells any two bytes apart, and any two checksums: *)
(* Serial_CRC8Table is a permutation.                                       *)
ASSUME CRCAssumption ==
    \A x \in Byte : /\ Cardinality({CRC8(x, b) : b \in Byte}) = 256
                    /\ Cardinality({CRC8(crc, x) : crc \in Byte}) = 256

(* The bytes that mean something to the protocol. *)
Open == 91                          \* '['
Close == 93                         \* ']'
Backslash == 92
Structural == {Open, Close, Backslash}
EscapedAs ==                        \* ( ) /
    [b \in Structural |-> CASE b = Open -> 40 [] b = Close -> 41 [] b = Backslash -> 47]

(* Bits of the flags byte. *)
HasFlag(flags, bit) == (flags \div bit) % 2 = 1
NoCRCCheck == 4

-----------------------------------------------------------------------------
(* The sender.                                                             *)

(* Serial_SendCharEscaped *)
Escaped(b) ==
    IF b \in Structural THEN <<Backslash, EscapedAs[b]>> ELSE <<b>>

(* The checksum after each byte, and after all. *)
Checksums(bytes) ==
    LET crc[i \in 0 .. Len(bytes)] == IF i = 0 THEN 0 ELSE CRC8(crc[i - 1], bytes[i])
    IN  crc
Checksum(bytes) == Checksums(bytes)[Len(bytes)]

Content(f) == <<f.flags, f.sn>> \o f.data

(* Mutant of LastByte: the checksum is not escaped. *)
LastByteUnescaped(f) == <<Checksum(Content(f))>>
LastByte(f) == Escaped(Checksum(Content(f)))

(* What Serial_SendMessageComplex hands to sendChar, from the i-th byte of  *)
(* the content on, and for the whole frame.                                 *)
SentFrom(f) ==
    LET rest[i \in 1 .. Len(Content(f)) + 1] ==
            IF i > Len(Content(f)) THEN <<Close>> \o LastByte(f)
            ELSE Escaped(Content(f)[i]) \o rest[i + 1]
    IN  rest
Encode(f) == <<Open>> \o SentFrom(f)[1]

(* Serial::appendChar and transmitBuffer: the buffer of 2 * Max + 4 bytes   *)
(* is never filled; the byte that would fill it, and all after it, are cut. *)
SendBufferSize == 2 * MaxMessageLength + 4
Buffered(bytes) ==
    SubSeq(bytes, 1, IF Len(bytes) < SendBufferSize THEN Len(bytes)
                     ELSE SendBufferSize - 1)

-----------------------------------------------------------------------------
(* The receiver: the parser's part of Serial_State.  A parser also holds    *)
(* the callbacks its last byte made, none or one.                           *)
NewParser ==
    [state |-> "Outside", inCharacterEscape |-> FALSE, flags |-> 0, sn |-> 0,
     computedCRC |-> 0, data |-> << >>, calls |-> << >>]

Unescaped(p, raw) ==
    IF p.inCharacterEscape /\ \E b \in Structural : EscapedAs[b] = raw
    THEN CHOOSE b \in Structural : EscapedAs[b] = raw
    ELSE raw

(* One operator per branch of Serial_ReceiveCharProtocol. *)
StartFrameKeepingData(p) ==
    [p EXCEPT !.state = "InMessageFlags", !.flags = 0, !.sn = 0, !.computedCRC = 0]

StartFrame(p) ==
    [p EXCEPT !.state = "InMessageFlags", !.flags = 0, !.sn = 0,
              !.computedCRC = 0, !.data = << >>]

TakeFlags(p, c) ==
    [p EXCEPT !.flags = c, !.computedCRC = CRC8(@, c), !.state = "InMessageSN"]

TakeSN(p, c) ==
    [p EXCEPT !.sn = c, !.computedCRC = CRC8(@, c), !.state = "InMessageData"]

TakeDataUnbounded(p, c) ==
    [p EXCEPT !.data = Append(@, c), !.computedCRC = CRC8(@, c)]

TakeData(p, c) ==
    IF Len(p.data) < MaxMessageLength
    THEN [p EXCEPT !.data = Append(@, c), !.computedCRC = CRC8(@, c)]
    ELSE [p EXCEPT !.state = "Outside"]

TakeCRCUnchecked(p, c) ==
    [p EXCEPT !.state = "Outside",
              !.calls = <<[flags |-> p.flags, sn |-> p.sn, data |-> p.data]>>]

TakeCRC(p, c) ==
    [p EXCEPT !.state = "Outside",
              !.calls = IF c = p.computedCRC \/ HasFlag(p.flags, NoCRCCheck)
                        THEN <<[flags |-> p.flags, sn |-> p.sn, data |-> p.data]>>
                        ELSE << >>]

(* Serial_ReceiveCharProtocol.  An opening bracket leaves a pending escape  *)
(* pending: it applies to the flags byte that follows.                      *)
ReceiveChar(p0, raw) ==
    LET p == [p0 EXCEPT !.calls = << >>]
        c == Unescaped(p, raw)
        q == [p EXCEPT !.inCharacterEscape = FALSE]
    IN  CASE raw = Backslash -> [p EXCEPT !.inCharacterEscape = TRUE]
          [] raw = Open -> StartFrame(p)
          [] raw \notin {Backslash, Open} /\ p.state = "InMessageFlags" -> TakeFlags(q, c)
          [] raw \notin {Backslash, Open} /\ p.state = "InMessageSN" -> TakeSN(q, c)
          [] raw = Close /\ p.state = "InMessageData" ->
                [q EXCEPT !.state = "InMessageCRC"]
          [] raw \notin {Backslash, Open, Close} /\ p.state = "InMessageData" -> TakeData(q, c)
          [] raw \notin {Backslash, Open} /\ p.state = "InMessageCRC" -> TakeCRC(q, c)
          [] raw \notin {Backslash, Open} /\ p.state = "Outside" -> q

-----------------------------------------------------------------------------
VARIABLES
    parser,    \* the receiver
    line,      \* bytes of the current frame that have not arrived
    frame,     \* the frame sent last
    pending,   \* whether an escape was pending when it was sent
    fault,     \* "none", or what happened to one of its bytes
    got        \* callbacks since it was sent

vars == <<parser, line, frame, pending, fault, got>>

NoFrame == [flags |-> 0, sn |-> 0, data |-> << >>]

Init ==
    /\ parser = NewParser
    /\ line = << >>
    /\ frame = NoFrame
    /\ pending = FALSE
    /\ fault = "none"
    /\ got = << >>

(* A byte that no one sent, between two frames. *)
Noise(b) ==
    /\ line = << >>
    /\ parser' = ReceiveChar(parser, b)
    /\ frame' = NoFrame
    /\ pending' = FALSE
    /\ fault' = "none"
    /\ got' = << >>
    /\ UNCHANGED line

Send(f) ==
    /\ line = << >>
    /\ line' = Buffered(Encode(f))
    /\ frame' = f
    /\ pending' = parser.inCharacterEscape
    /\ fault' = "none"
    /\ got' = << >>
    /\ UNCHANGED parser

(* The next byte arrives as b. *)
ArriveAs(b) ==
    /\ parser' = ReceiveChar(parser, b)
    /\ got' = got \o parser'.calls
    /\ line' = Tail(line)
    /\ UNCHANGED <<frame, pending>>

Arrive == line # << >> /\ ArriveAs(Head(line)) /\ UNCHANGED fault

(* At most one byte of a frame is damaged or lost. *)
Damage(b) ==
    /\ line # << >> /\ fault = "none"
    /\ b # Head(line)
    /\ ArriveAs(b)
    /\ fault' = IF b \in Structural \/ Head(line) \in Structural \/ parser.inCharacterEscape
                THEN "structure damaged" ELSE "content damaged"

LoseByte ==
    /\ line # << >> /\ fault = "none"
    /\ line' = Tail(line)
    /\ fault' = "byte lost"
    /\ UNCHANGED <<parser, frame, pending, got>>

Next ==
    \/ \E b \in NoiseBytes : Noise(b) \/ Damage(b)
    \/ \E f \in SendFrames : Send(f)
    \/ Arrive
    \/ LoseByte

Spec == Init /\ [][Next]_vars

-----------------------------------------------------------------------------
(* Every field of the parser keeps its type; the data never outgrows        *)
(* currentMessageData.                                                      *)
TypeOK ==
    /\ parser.state \in {"Outside", "InMessageFlags", "InMessageSN",
                         "InMessageData", "InMessageCRC"}
    /\ parser.inCharacterEscape \in BOOLEAN
    /\ {parser.flags, parser.sn, parser.computedCRC} \subseteq Byte
    /\ parser.data \in Seq(Byte) /\ Len(parser.data) <= MaxMessageLength
    /\ line \in Seq(Byte)
    /\ frame \in SendFrames \cup {NoFrame}
    /\ fault \in {"none", "structure damaged", "content damaged", "byte lost"}

Arrived == frame # NoFrame /\ line = << >>

(* The flags byte of a request for a response is an opening parenthesis:    *)
(* after a pending escape the parser takes it for a bracket.                *)
MisreadFlags == pending /\ frame.flags \in {EscapedAs[b] : b \in Structural}

(* Whatever noise came before, an undamaged frame that fits the buffers     *)
(* runs the callback once, with its flags, number and data.                 *)
CleanFrameArrives ==
    Arrived /\ fault = "none" /\ ~MisreadFlags
        /\ Len(frame.data) <= MaxMessageLength
        /\ Len(Encode(frame)) < SendBufferSize
        => got = <<frame>>

(* A frame cut by the send buffer, too long for the receiver, misread, or   *)
(* with one damaged content byte, never runs the callback with anything but *)
(* what was sent, unless the flags that were read turn the CRC off.  A      *)
(* misread frame that is damaged too has two wrong bytes, which the         *)
(* checksum may not tell from none.                                         *)
NothingForged ==
    fault = "none" \/ (fault = "content damaged" /\ ~MisreadFlags) =>
        \A i \in DOMAIN got : got[i] = frame \/ HasFlag(got[i].flags, NoCRCCheck)

=============================================================================
