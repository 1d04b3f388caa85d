-------------------------- MODULE WebSocketProofs ---------------------------
(***************************************************************************)
(* Theorems about the websocket library and about what the pilot sends     *)
(* over it.                                                                *)
(*                                                                         *)
(* WebSocket, for frames of every length and every number of messages.     *)
(* Its invariant says what the bytes that are counted stand for: where     *)
(* every frame of the stream begins, how the queue continues the stream,   *)
(* and, for a handshake whose read ended where a frame ends, that the      *)
(* reader stands at the part of the frame that its state names.  Its       *)
(* buffer is then empty, or holds the rest of what the handshake's read    *)
(* took, and then `additional` counts more bytes than there are, as it     *)
(* counts those that the last read has just taken out.  No read goes wrong *)
(* by it, as whole frames are left.                                        *)
(*                                                                         *)
(* PilotCommands, for any two pads of either kind, any positions of their  *)
(* sticks and any number of faults.                                        *)
(***************************************************************************)
EXTENDS WebSocket, PilotCommands, SequenceTheorems, FiniteSetTheorems, TLAPS

-----------------------------------------------------------------------------
(* WebSocket.                                                               *)

Lengths == Nat \ {0}
Frames == [begins : Nat, length : Lengths]
Places == {"handshake", "header", "length", "content", "astray", "closed"}
Readers == [pc : Places, taken : Int, consumed : Int, additional : Int, frame : Nat, extra : Nat]

WsTypes ==
    /\ send_queue \in Seq(Lengths) /\ sentFrames \in Seq(Lengths)
    /\ stream \in Seq(Frames) /\ written \in Nat
    /\ delivered \in Seq([frame : Nat, whole : BOOLEAN])
    /\ writing \in {"none", "header", "message"} /\ wsUp \in BOOLEAN
    /\ reader \in Readers
    /\ reader.pc \in {"length", "content"} => reader.frame \in DOMAIN stream

(* The queue holds what was sent and has no header in the stream yet, and   *)
(* at its head the frame that is being written.                             *)
Begun == IF writing = "message" THEN Len(stream) - 1 ELSE Len(stream)
SentInv ==
    /\ Len(stream) <= Len(sentFrames)
    /\ \A k \in 1 .. Len(stream) : stream[k].length = sentFrames[k]
    /\ wsUp => /\ Len(sentFrames) = Begun + Len(send_queue)
               /\ \A k \in 1 .. Len(send_queue) : send_queue[k] = sentFrames[Begun + k]
               /\ writing = "none" <=> send_queue = <<>>
               /\ writing = "message" => stream # <<>>

(* Frames stand one behind the other, and the last one may be incomplete.   *)
EndOf(k) == IF k = 0 THEN 0 ELSE Ends(stream[k])
PlacesInv ==
    /\ \A k \in 1 .. Len(stream) : stream[k].begins = EndOf(k - 1)
    /\ \A j, k \in 1 .. Len(stream) : j < k => Ends(stream[j]) <= stream[k].begins
    /\ wsUp => written = IF writing = "message"
                         THEN stream[Len(stream)].begins + HeaderSize(stream[Len(stream)].length)
                         ELSE EndOf(Len(stream))

(* Where the reader is after a clean handshake.  The bytes in its buffer    *)
(* are none, or those that are left of the handshake's read.                *)
Rest == reader.taken - reader.consumed
AtHeader ==
    /\ reader.frame \in 1 .. Len(stream) + 1
    /\ reader.consumed = EndOf(reader.frame - 1)
    /\ \/ Rest = 0 /\ (reader.additional = 0 \/ reader.additional >= 2)
       \/ Rest > 0 /\ reader.taken = reader.extra /\ reader.additional >= Rest
Within(part) ==
    LET frame == stream[reader.frame] IN
    /\ reader.consumed = frame.begins + part
    /\ \/ Rest = 0 /\ reader.additional = 0
       \/ /\ reader.taken = reader.extra /\ reader.additional = Rest + 2
          /\ Rest >= FrameSize(frame.length) - part
ReaderInv ==
    /\ reader.pc \notin {"astray", "closed"} => wsUp
    /\ reader.pc = "handshake" => reader.taken = 0 /\ reader.consumed = 0 /\ delivered = <<>>
    /\ reader.pc = "handshake" => reader.extra = 0
    /\ wsUp => reader.extra <= written
    /\ CleanHandshake =>
           /\ reader.pc # "astray"
           /\ \A i \in 1 .. Len(delivered) : delivered[i] = [frame |-> i, whole |-> TRUE]
           /\ reader.pc \in {"header", "length", "content"} => Len(delivered) = reader.frame - 1
           /\ reader.pc = "header" => AtHeader
           /\ reader.pc = "length" => Within(2) /\ LengthBytes(stream[reader.frame].length) = 2
           /\ reader.pc = "content" => Within(HeaderSize(stream[reader.frame].length))
WsInv == WsTypes /\ SentInv /\ PlacesInv /\ ReaderInv

-----------------------------------------------------------------------------
(* Lemmas about frames.                                                     *)

LEMMA Sizes ==
    \A n \in Nat : /\ LengthBytes(n) \in {0, 2} /\ HeaderSize(n) = 2 + LengthBytes(n)
                   /\ HeaderSize(n) \in Nat /\ FrameSize(n) \in Nat
                   /\ FrameSize(n) = HeaderSize(n) + n
  BY WsAssumption DEF LengthBytes, HeaderSize, FrameSize

LEMMA FrameType ==
    ASSUME WsTypes, NEW k \in 1 .. Len(stream)
    PROVE  /\ stream[k] \in Frames
           /\ stream[k].begins \in Nat /\ stream[k].length \in Nat /\ stream[k].length >= 1
           /\ Ends(stream[k]) \in Nat
           /\ Ends(stream[k]) = stream[k].begins + HeaderSize(stream[k].length) + stream[k].length
           /\ HeaderSize(stream[k].length) \in {2, 4}
  <1>1. stream[k] \in Frames
    BY DEF WsTypes
  <1>2. stream[k].begins \in Nat /\ stream[k].length \in Nat /\ stream[k].length >= 1
    BY <1>1 DEF Frames, Lengths
  <1>3. /\ HeaderSize(stream[k].length) \in {2, 4}
        /\ FrameSize(stream[k].length) = HeaderSize(stream[k].length) + stream[k].length
    <2> DEFINE n == stream[k].length
    <2>1. n \in Nat
      BY <1>2
    <2> HIDE DEF n
    <2>2. /\ LengthBytes(n) \in {0, 2} /\ HeaderSize(n) = 2 + LengthBytes(n)
          /\ FrameSize(n) = HeaderSize(n) + n
      BY <2>1, Sizes
    <2>3. HeaderSize(n) \in {2, 4} /\ FrameSize(n) = HeaderSize(n) + n
      BY <2>2
    <2> QED
      BY <2>3 DEF n
  <1>4. Ends(stream[k]) = stream[k].begins + (HeaderSize(stream[k].length) + stream[k].length)
    BY <1>3 DEF Ends
  <1> QED
    BY <1>1, <1>2, <1>3, <1>4

LEMMA Behind ==
    ASSUME WsInv, NEW k \in 1 .. Len(stream)
    PROVE  /\ stream[k].begins < Ends(stream[k])
           /\ stream[k].begins \in Nat /\ Ends(stream[k]) \in Nat
  <1> DEFINE b == stream[k].begins
             h == HeaderSize(stream[k].length)
             n == stream[k].length
  <1>1. b \in Nat /\ n \in Nat /\ n >= 1 /\ h \in {2, 4} /\ Ends(stream[k]) = b + h + n
        /\ Ends(stream[k]) \in Nat
    BY FrameType DEF WsInv
  <1> HIDE DEF b, h, n
  <1>2. b < b + h + n
    BY <1>1
  <1> QED
    BY <1>1, <1>2 DEF b

LEMMA ReaderFields ==
    \A r \in Readers :
        /\ \A pc \in Places : [r EXCEPT !.pc = pc] \in Readers
        /\ \A i \in Int : /\ [r EXCEPT !.taken = i] \in Readers
                          /\ [r EXCEPT !.consumed = i] \in Readers
                          /\ [r EXCEPT !.additional = i] \in Readers
        /\ \A n \in Nat : [r EXCEPT !.frame = n] \in Readers /\ [r EXCEPT !.extra = n] \in Readers
  BY DEF Readers

LEMMA ReaderTypes ==
    \A r \in Readers :
        /\ r.pc \in Places /\ r.frame \in Nat /\ r.extra \in Nat
        /\ r.taken \in Int /\ r.consumed \in Int /\ r.additional \in Int
  BY DEF Readers

-----------------------------------------------------------------------------
(* The invariant.                                                           *)

LEMMA WsInitially == WsInit => WsInv
  <1> SUFFICES ASSUME WsInit PROVE WsInv
    OBVIOUS
  <1>1. /\ <<>> \in Seq(Lengths) /\ <<>> \in Seq(Frames)
        /\ <<>> \in Seq([frame : Nat, whole : BOOLEAN])
    OBVIOUS
  <1>2. WsTypes
    BY <1>1 DEF WsInit, WsTypes, Readers, Places
  <1>3. SentInv /\ PlacesInv /\ ReaderInv
    BY DEF WsInit, SentInv, PlacesInv, ReaderInv, EndOf, Begun, CleanHandshake
  <1> QED
    BY <1>2, <1>3 DEF WsInv

(* What the steps of the reader leave alone. *)
LEMMA ReaderOnly ==
    ASSUME WsReader
    PROVE  UNCHANGED <<send_queue, writing, stream, written, sentFrames, wsUp>> /\ wsUp
  BY DEF WsReader, Handshake, ReadHeader, ReadLength, ReadContent, Completes

(* How many bytes a read takes, and how many it then counts as additional.  *)
LEMMA Reads ==
    ASSUME WsTypes, NEW wanted \in Nat
    PROVE  /\ Transfer(wanted) \in Nat
           /\ Size(wanted) \in Int
           /\ Additional(Size(wanted), Transfer(wanted)) \in Int
           /\ Size(wanted) = Rest + Transfer(wanted)
           /\ Additional(Size(wanted), Transfer(wanted)) = Rest
           /\ reader.additional >= wanted => Transfer(wanted) = 0
           /\ reader.additional = 0 => Transfer(wanted) = wanted
  <1>1. reader.taken \in Int /\ reader.consumed \in Int /\ reader.additional \in Int
    BY ReaderTypes DEF WsTypes
  <1>2. /\ Transfer(wanted) \in Nat
        /\ reader.additional >= wanted => Transfer(wanted) = 0
        /\ reader.additional = 0 => Transfer(wanted) = wanted
    BY <1>1 DEF Transfer
  <1> QED
    BY <1>1, <1>2 DEF Size, Additional, Rest

LEMMA WsTypesStep ==
    ASSUME WsInv, WsNext
    PROVE  WsTypes'
  <1> USE DEF WsInv
  <1>1. ASSUME NEW length \in StateLengths \cup {1}, wsSend(length) PROVE WsTypes'
    <2>1. length \in Lengths
      BY WsAssumption DEF Lengths
    <2>2. Append(sentFrames, length) \in Seq(Lengths) /\ Append(send_queue, length) \in Seq(Lengths)
      BY <2>1, AppendProperties DEF WsTypes
    <2> QED
      BY <1>1, <2>2 DEF wsSend, WsTypes
  <1>2. CASE WriteHeader
    <2>1. send_queue # <<>>
      BY <1>2 DEF WriteHeader, SentInv
    <2>2. Head(send_queue) \in Lengths
      BY <2>1, HeadTailProperties DEF WsTypes
    <2>3. [begins |-> written, length |-> Head(send_queue)] \in Frames
      BY <2>2 DEF WsTypes, Frames
    <2>4. stream' \in Seq(Frames) /\ Len(stream') = Len(stream) + 1
      BY <1>2, <2>3, AppendProperties DEF WriteHeader, WsTypes
    <2>5. HeaderSize(Head(send_queue)) \in Nat
      BY <2>2, Sizes DEF Lengths
    <2>7. written' \in Nat
      BY <1>2, <2>5 DEF WriteHeader, WsTypes
    <2>6. DOMAIN stream \subseteq DOMAIN stream'
      BY <2>4 DEF WsTypes
    <2> QED
      BY <1>2, <2>4, <2>7, <2>6 DEF WriteHeader, WsTypes
  <1>3. CASE WriteMessage
    <2>1. send_queue # <<>>
      BY <1>3 DEF WriteMessage, SentInv
    <2>2. Head(send_queue) \in Lengths /\ Tail(send_queue) \in Seq(Lengths)
      BY <2>1, HeadTailProperties DEF WsTypes
    <2>3. written' \in Nat
      BY <1>3, <2>2 DEF WriteMessage, WsTypes, Lengths
    <2> QED
      BY <1>3, <2>2, <2>3 DEF WriteMessage, WsTypes
  <1>4. CASE Handshake
    <2>1. PICK extra \in 0 .. written : reader' = [reader EXCEPT
              !.pc = "header", !.taken = extra, !.extra = extra,
              !.additional = Additional(extra, 0), !.frame = 1]
      BY <1>4 DEF Handshake
    <2>2. extra \in Nat /\ Additional(extra, 0) \in Int
      BY DEF Additional, WsTypes
    <2>3. extra \in Int /\ 1 \in Nat /\ "header" \in Places /\ reader \in Readers
      BY <2>2 DEF Places, WsTypes
    <2>4. reader' \in Readers
      BY <2>1, <2>2, <2>3, ReaderFields, Zenon
    <2>5. reader'.pc = "header"
      BY <2>1, <2>3 DEF Readers
    <2> QED
      BY <1>4, <2>4, <2>5 DEF Handshake, WsTypes
  <1>5. CASE ReadHeader
    <2>1. Transfer(2) \in Nat /\ Additional(Size(2), Transfer(2)) \in Int
      BY Reads
    <2> DEFINE r == [reader EXCEPT !.taken = @ + Transfer(2),
                                   !.additional = Additional(Size(2), Transfer(2))]
    <2> HIDE DEF r
    <2>7. reader \in Readers /\ reader.taken + Transfer(2) \in Int
      BY <2>1, ReaderTypes DEF WsTypes
    <2>8. r \in Readers
      BY <2>1, <2>7, ReaderFields, Zenon DEF r
    <2>2. r \in Readers /\ r.frame = reader.frame
      BY <2>7, <2>8 DEF r, Readers
    <2>3. \/ reader' = [reader EXCEPT !.additional = 0]
          \/ reader' = Astray(r)
          \/ /\ r.frame \in DOMAIN stream
             /\ reader' = [r EXCEPT !.consumed = @ + 2,
                                    !.pc = IF LengthBytes(stream[r.frame].length) = 0
                                           THEN "content" ELSE "length"]
      BY <1>5 DEF ReadHeader, InPlace, r
    <2>4. UNCHANGED <<send_queue, writing, stream, written, sentFrames, wsUp, delivered>>
      BY <1>5 DEF ReadHeader, Completes
    <2>5. reader.pc = "header"
      BY <1>5 DEF ReadHeader, Completes
    <2>9. /\ r.consumed + 2 \in Int /\ 0 \in Int /\ "astray" \in Places
          /\ \A c \in BOOLEAN : (IF c THEN "content" ELSE "length") \in Places
          /\ (LengthBytes(stream[r.frame].length) = 0) \in BOOLEAN
      BY <2>8, ReaderTypes DEF Places
    <2>10. reader' \in Readers
      <3>1. Astray(r) \in Readers
        BY <2>8, <2>9, ReaderFields, Zenon DEF Astray
      <3>2. [reader EXCEPT !.additional = 0] \in Readers
        BY <2>7, <2>9, ReaderFields, Zenon
      <3>3. [r EXCEPT !.consumed = @ + 2] \in Readers
        BY <2>8, <2>9, ReaderFields, Zenon
      <3>4. [r EXCEPT !.consumed = @ + 2, !.pc = IF LengthBytes(stream[r.frame].length) = 0
                                                 THEN "content" ELSE "length"] \in Readers
        BY <3>3, <2>9, ReaderFields, Zenon
      <3> QED
        BY <2>3, <3>1, <3>2, <3>4, Zenon
    <2>6. /\ reader' \in Readers
          /\ reader'.pc \in {"length", "content"} => reader'.frame \in DOMAIN stream
      BY <2>2, <2>3, <2>5, <2>7, <2>10 DEF Astray, Readers
    <2> QED
      BY <2>4, <2>6 DEF WsTypes
  <1>6. CASE ReadLength
    <2>1. Transfer(2) \in Nat /\ Additional(Size(2), Transfer(2)) \in Int
      BY Reads
    <2>2. UNCHANGED <<send_queue, writing, stream, written, sentFrames, wsUp, delivered>>
      BY <1>6 DEF ReadLength, Completes
    <2>3. reader.pc = "length"
      BY <1>6 DEF ReadLength, Completes
    <2> DEFINE r == [reader EXCEPT !.taken = @ + Transfer(2),
                                   !.additional = Additional(Size(2), Transfer(2))]
    <2>4. \/ reader' = Astray(r)
          \/ reader' = [r EXCEPT !.consumed = @ + 2, !.pc = "content"]
      BY <1>6 DEF ReadLength
    <2> HIDE DEF r
    <2>5. reader \in Readers /\ reader.taken + Transfer(2) \in Int
      BY <2>1, ReaderTypes DEF WsTypes
    <2>6. r \in Readers
      BY <2>1, <2>5, ReaderFields, Zenon DEF r
    <2>7. r.frame = reader.frame
      BY <2>5 DEF r, Readers
    <2>8. r.consumed + 2 \in Int /\ "astray" \in Places /\ "content" \in Places
      BY <2>6, ReaderTypes DEF Places
    <2>9. reader' \in Readers
      <3>1. Astray(r) \in Readers
        BY <2>6, <2>8, ReaderFields, Zenon DEF Astray
      <3>2. [r EXCEPT !.consumed = @ + 2, !.pc = "content"] \in Readers
        BY <2>6, <2>8, ReaderFields, Zenon
      <3> QED
        BY <2>4, <3>1, <3>2, Zenon
    <2>10. reader'.frame = reader.frame
      BY <2>4, <2>6, <2>7 DEF Astray, Readers
    <2> QED
      BY <2>2, <2>3, <2>9, <2>10 DEF WsTypes
  <1>7. CASE ReadContent
    <2> DEFINE length == stream[reader.frame].length
               additional == Additional(Size(length), Transfer(length))
               content == IF additional > 0 /\ Size(length) > length THEN length ELSE Size(length)
    <2>0. reader.pc = "content"
      BY <1>7 DEF ReadContent, Completes
    <2>1. length \in Nat
      <3>1. WsTypes /\ reader.frame \in 1 .. Len(stream)
        BY <2>0 DEF WsTypes
      <3> QED
        BY <3>1, FrameType
    <2>2. Transfer(length) \in Nat /\ additional \in Int /\ Size(length) \in Int
      BY <2>1, Reads
    <2>3. UNCHANGED <<send_queue, writing, stream, written, sentFrames, wsUp>>
      BY <1>7 DEF ReadContent, Completes
    <2>4. /\ delivered' = Append(delivered, [frame |-> reader.frame, whole |-> content = length])
          /\ \/ reader' = Astray([reader EXCEPT !.taken = @ + Transfer(length),
                         !.consumed = @ + content, !.additional = additional, !.frame = @ + 1,
                         !.pc = "header"])
             \/ reader' = [reader EXCEPT !.taken = @ + Transfer(length),
                         !.consumed = @ + content, !.additional = additional, !.frame = @ + 1,
                         !.pc = "header"]
      BY <1>7 DEF ReadContent
    <2>5. content \in Int
      BY <2>1, <2>2
    <2>6. (content = length) \in BOOLEAN /\ reader.frame \in Nat
      BY ReaderTypes DEF WsTypes
    <2> HIDE DEF length, additional, content
    <2>7. [frame |-> reader.frame, whole |-> content = length] \in [frame : Nat, whole : BOOLEAN]
      BY <2>6
    <2>8. delivered' \in Seq([frame : Nat, whole : BOOLEAN])
      BY <2>4, <2>7, AppendProperties DEF WsTypes
    <2>10. /\ reader \in Readers /\ reader.frame + 1 \in Nat
           /\ reader.taken + Transfer(length) \in Int /\ reader.consumed + content \in Int
           /\ "header" \in Places /\ "astray" \in Places
      BY <2>2, <2>5, ReaderTypes DEF WsTypes, Places
    <2>11. reader' \in Readers
      <3> DEFINE r == [reader EXCEPT !.taken = @ + Transfer(length), !.consumed = @ + content,
                           !.additional = additional, !.frame = @ + 1, !.pc = "header"]
      <3>1. r \in Readers
        BY <2>2, <2>10, ReaderFields, Zenon
      <3>2. reader' = r \/ reader' = Astray(r)
        BY <2>4
      <3> HIDE DEF r
      <3>3. Astray(r) \in Readers
        BY <2>10, <3>1, ReaderFields, Zenon DEF Astray
      <3> QED
        BY <3>1, <3>2, <3>3, Zenon
    <2>9. reader' \in Readers /\ reader'.pc \notin {"length", "content"}
      BY <2>4, <2>10, <2>11 DEF Readers, Astray
    <2> QED
      BY <2>3, <2>8, <2>9 DEF WsTypes
  <1>8. CASE WsBreak
    <2>1. <<>> \in Seq(Lengths)
      OBVIOUS
    <2>2. reader' \in Readers /\ reader'.pc = "closed"
      BY <1>8 DEF WsBreak, WsTypes, Readers, Places
    <2> QED
      BY <1>8, <2>1, <2>2 DEF WsBreak, WsTypes
  <1> QED
    BY <1>1, <1>2, <1>3, <1>4, <1>5, <1>6, <1>7, <1>8 DEF WsNext, WsWriter, WsReader

(* The frames of the stream stay, and one is added at most. *)
LEMMA Extended ==
    ASSUME WsInv, WsNext
    PROVE  /\ Len(stream') \in Nat /\ Len(stream) \in Nat
           /\ Len(stream') >= Len(stream)
           /\ \A k \in 1 .. Len(stream) : stream'[k] = stream[k]
           /\ \A k \in 0 .. Len(stream) : EndOf(k)' = EndOf(k)
           /\ \/ stream' = stream
              \/ WriteHeader /\ Len(stream') = Len(stream) + 1
  <1>1. Len(stream) \in Nat /\ Len(stream') \in Nat
    BY WsTypesStep DEF WsInv, WsTypes
  <1>2. CASE WriteHeader
    <2>1. send_queue # <<>>
      BY <1>2 DEF WriteHeader, WsInv, SentInv
    <2>2. Head(send_queue) \in Lengths
      BY <2>1, HeadTailProperties DEF WsInv, WsTypes
    <2>3. [begins |-> written, length |-> Head(send_queue)] \in Frames
      BY <2>2 DEF WsInv, WsTypes, Frames
    <2>4. /\ Len(stream') = Len(stream) + 1
          /\ \A k \in 1 .. Len(stream) : stream'[k] = stream[k]
      BY <1>2, <2>3, AppendProperties DEF WriteHeader, WsInv, WsTypes
    <2> QED
      BY <1>1, <1>2, <2>4 DEF EndOf
  <1>3. CASE ~WriteHeader
    <2>1. stream' = stream
      BY <1>3 DEF WsNext, WsWriter, WsReader, wsSend, WriteMessage, Handshake, ReadHeader,
                  ReadLength, ReadContent, Completes, WsBreak
    <2> QED
      BY <1>1, <2>1 DEF EndOf
  <1> QED
    BY <1>2, <1>3

LEMMA SentStep ==
    ASSUME WsInv, WsNext
    PROVE  SentInv'
  <1> USE DEF WsInv
  <1>0. /\ send_queue \in Seq(Lengths) /\ sentFrames \in Seq(Lengths) /\ stream \in Seq(Frames)
        /\ Len(stream) \in Nat /\ Len(send_queue) \in Nat /\ Len(sentFrames) \in Nat
    BY DEF WsTypes
  <1>1. ASSUME NEW length \in StateLengths \cup {1}, wsSend(length) PROVE SentInv'
    <2>1. length \in Lengths
      BY WsAssumption DEF Lengths
    <2>2. /\ Len(sentFrames') = Len(sentFrames) + 1
          /\ \A k \in 1 .. Len(sentFrames) : sentFrames'[k] = sentFrames[k]
          /\ sentFrames'[Len(sentFrames) + 1] = length
          /\ Len(send_queue') = Len(send_queue) + 1
          /\ \A k \in 1 .. Len(send_queue) : send_queue'[k] = send_queue[k]
          /\ send_queue'[Len(send_queue) + 1] = length
      BY <1>0, <1>1, <2>1, AppendProperties DEF wsSend
    <2>3. Begun' = Begun /\ Begun \in Int
      BY <1>0, <1>1 DEF wsSend, SentInv, Begun
    <2>4. stream' = stream /\ wsUp /\ wsUp'
      BY <1>1 DEF wsSend
    <2>5. \A k \in 1 .. Len(stream') : stream'[k].length = sentFrames'[k]
      BY <1>0, <2>2, <2>4 DEF SentInv
    <2>6. Len(stream') <= Len(sentFrames')
      BY <1>0, <2>2, <2>4 DEF SentInv
    <2>11. Len(sentFrames) = Begun + Len(send_queue)
      BY <2>4 DEF SentInv
    <2>7. Len(sentFrames') = Begun' + Len(send_queue')
      BY <1>0, <2>2, <2>3, <2>11
    <2>8. \A k \in 1 .. Len(send_queue') : send_queue'[k] = sentFrames'[Begun' + k]
      <3> TAKE k \in 1 .. Len(send_queue')
      <3>1. CASE k = Len(send_queue) + 1
        <4>1. Begun' + k = Len(sentFrames) + 1
          BY <1>0, <2>3, <2>11, <3>1
        <4> QED
          BY <2>2, <3>1, <4>1
      <3>2. CASE k \in 1 .. Len(send_queue)
        <4>1. Begun + k \in 1 .. Len(sentFrames)
          BY <1>0, <2>3, <2>4, <3>2 DEF SentInv, Begun
        <4> QED
          BY <1>0, <2>2, <2>3, <2>4, <3>2, <4>1 DEF SentInv
      <3> QED
        BY <1>0, <2>2, <3>1, <3>2
    <2>9. writing' # "none" /\ send_queue' # <<>>
      BY <1>0, <1>1, <2>2, <2>4 DEF wsSend, SentInv
    <2>10. writing' = "message" => stream' # <<>>
      BY <1>1, <2>4 DEF wsSend, SentInv
    <2> QED
      BY <2>5, <2>6, <2>7, <2>8, <2>9, <2>10 DEF SentInv
  <1>2. CASE WriteHeader
    <2>1. send_queue # <<>>
      BY <1>2 DEF WriteHeader, SentInv
    <2>2. Head(send_queue) = send_queue[1] /\ Head(send_queue) \in Lengths /\ Len(send_queue) >= 1
      BY <1>0, <2>1, HeadTailProperties
    <2>3. [begins |-> written, length |-> Head(send_queue)] \in Frames
      BY <2>2 DEF WsTypes, Frames
    <2>4. /\ Len(stream') = Len(stream) + 1
          /\ \A k \in 1 .. Len(stream) : stream'[k] = stream[k]
          /\ stream'[Len(stream) + 1].length = send_queue[1]
      BY <1>0, <1>2, <2>2, <2>3, AppendProperties DEF WriteHeader
    <2>5. Begun = Len(stream) /\ Begun' = Len(stream)
      BY <1>0, <1>2, <2>4 DEF WriteHeader, Begun
    <2>6. /\ wsUp /\ wsUp' /\ sentFrames' = sentFrames /\ send_queue' = send_queue
          /\ writing' = "message"
      BY <1>2 DEF WriteHeader
    <2>7. /\ Len(sentFrames) = Len(stream) + Len(send_queue)
          /\ \A k \in 1 .. Len(send_queue) : send_queue[k] = sentFrames[Len(stream) + k]
      BY <2>5, <2>6 DEF SentInv
    <2>8. Len(stream') <= Len(sentFrames')
      BY <1>0, <2>2, <2>4, <2>6, <2>7
    <2>9. \A k \in 1 .. Len(stream') : stream'[k].length = sentFrames'[k]
      <3> TAKE k \in 1 .. Len(stream')
      <3>1. CASE k = Len(stream) + 1
        BY <1>0, <2>2, <2>4, <2>6, <2>7, <3>1
      <3>2. CASE k \in 1 .. Len(stream)
        BY <2>4, <2>6, <3>2 DEF SentInv
      <3> QED
        BY <1>0, <2>4, <3>1, <3>2
    <2>10. stream' # <<>>
      BY <1>0, <2>4
    <2> QED
      BY <2>1, <2>5, <2>6, <2>7, <2>8, <2>9, <2>10 DEF SentInv
  <1>3. CASE WriteMessage
    <2>1. send_queue # <<>> /\ stream # <<>> /\ writing = "message" /\ wsUp /\ wsUp'
      BY <1>3 DEF WriteMessage, SentInv
    <2>2. /\ Len(send_queue') = Len(send_queue) - 1 /\ Len(send_queue) >= 1
          /\ \A k \in 1 .. Len(send_queue) - 1 : send_queue'[k] = send_queue[k + 1]
          /\ send_queue' \in Seq(Lengths)
      BY <1>0, <1>3, <2>1, HeadTailProperties DEF WriteMessage
    <2>3. /\ stream' = stream /\ sentFrames' = sentFrames
          /\ writing' = IF Len(send_queue) > 1 THEN "header" ELSE "none"
      BY <1>3 DEF WriteMessage
    <2>4. Begun = Len(stream) - 1 /\ Begun' = Len(stream)
      BY <2>1, <2>3 DEF Begun
    <2>5. /\ Len(sentFrames) = Len(stream) - 1 + Len(send_queue)
          /\ \A k \in 1 .. Len(send_queue) : send_queue[k] = sentFrames[Len(stream) - 1 + k]
      BY <2>1, <2>4 DEF SentInv
    <2>6. \A k \in 1 .. Len(send_queue') : send_queue'[k] = sentFrames'[Begun' + k]
      <3> TAKE k \in 1 .. Len(send_queue')
      <3>1. k + 1 \in 1 .. Len(send_queue) /\ Len(stream) - 1 + (k + 1) = Len(stream) + k
        BY <1>0, <2>2
      <3> QED
        BY <1>0, <2>2, <2>3, <2>4, <2>5, <3>1
    <2>7. writing' = "none" <=> send_queue' = <<>>
      BY <1>0, <2>2, <2>3
    <2>8. writing' # "message"
      BY <2>3
    <2>9. /\ Len(stream') <= Len(sentFrames')
          /\ \A k \in 1 .. Len(stream') : stream'[k].length = sentFrames'[k]
      BY <2>3 DEF SentInv
    <2>10. Len(sentFrames') = Begun' + Len(send_queue')
      BY <1>0, <2>2, <2>3, <2>4, <2>5
    <2> QED
      BY <2>6, <2>7, <2>8, <2>9, <2>10 DEF SentInv
  <1>4. CASE WsReader
    BY <1>4, ReaderOnly DEF SentInv, Begun
  <1>5. CASE WsBreak
    BY <1>5 DEF WsBreak, SentInv
  <1> QED
    BY <1>1, <1>2, <1>3, <1>4, <1>5 DEF WsNext, WsWriter

LEMMA PlacesStep ==
    ASSUME WsInv, WsNext
    PROVE  PlacesInv'
  <1> USE DEF WsInv
  <1>0. /\ send_queue \in Seq(Lengths) /\ stream \in Seq(Frames) /\ written \in Nat
        /\ Len(stream) \in Nat
    BY DEF WsTypes
  <1>1. CASE WriteHeader
    <2>1. send_queue # <<>> /\ writing = "header" /\ wsUp
      BY <1>1 DEF WriteHeader, SentInv
    <2>2. Head(send_queue) \in Lengths
      BY <1>0, <2>1, HeadTailProperties
    <2>3. [begins |-> written, length |-> Head(send_queue)] \in Frames
      BY <1>0, <2>2 DEF Frames
    <2>4. /\ Len(stream') = Len(stream) + 1
          /\ \A k \in 1 .. Len(stream) : stream'[k] = stream[k]
          /\ stream'[Len(stream) + 1] = [begins |-> written, length |-> Head(send_queue)]
      BY <1>0, <1>1, <2>3, AppendProperties DEF WriteHeader
    <2>5. written = EndOf(Len(stream))
      BY <2>1 DEF PlacesInv
    <2>6. stream'[Len(stream) + 1].begins = written
      BY <2>4
    <2>7. \A k \in 0 .. Len(stream) : EndOf(k)' = EndOf(k)
      BY <2>4 DEF EndOf
    <2>8. \A k \in 1 .. Len(stream') : stream'[k].begins = EndOf(k - 1)'
      <3> TAKE k \in 1 .. Len(stream')
      <3>1. CASE k = Len(stream) + 1
        <4>1. k - 1 = Len(stream) /\ k - 1 \in 0 .. Len(stream)
          BY <1>0, <3>1
        <4>2. EndOf(k - 1)' = EndOf(k - 1)
          BY <2>7, <4>1
        <4> QED
          BY <2>5, <2>6, <3>1, <4>1, <4>2
      <3>2. CASE k \in 1 .. Len(stream)
        <4>1. k - 1 \in 0 .. Len(stream)
          BY <1>0, <3>2
        <4>2. EndOf(k - 1)' = EndOf(k - 1)
          BY <2>7, <4>1
        <4> QED
          BY <2>4, <3>2, <4>2 DEF PlacesInv
      <3> QED
        BY <1>0, <2>4, <3>1, <3>2
    <2>9. \A j \in 1 .. Len(stream) : Ends(stream[j]) <= written
      <3> TAKE j \in 1 .. Len(stream)
      <3>1. Len(stream) # 0 /\ Len(stream) \in 1 .. Len(stream)
        BY <1>0
      <3>2. written = Ends(stream[Len(stream)])
        BY <2>5, <3>1 DEF EndOf
      <3>3. CASE j = Len(stream)
        BY <1>0, <3>2, <3>3
      <3>4. CASE j < Len(stream)
        <4>1. Ends(stream[j]) <= stream[Len(stream)].begins
          BY <3>1, <3>4 DEF PlacesInv
        <4>2. /\ stream[Len(stream)].begins < Ends(stream[Len(stream)])
              /\ stream[Len(stream)].begins \in Nat
              /\ Ends(stream[Len(stream)]) \in Nat /\ Ends(stream[j]) \in Nat
          BY <3>1, Behind
        <4> QED
          BY <3>2, <4>1, <4>2
      <3> QED
        BY <1>0, <3>3, <3>4
    <2>10. \A j, k \in 1 .. Len(stream') : j < k => Ends(stream'[j]) <= stream'[k].begins
      <3> TAKE j, k \in 1 .. Len(stream')
      <3> HAVE j < k
      <3>1. j \in 1 .. Len(stream)
        BY <1>0, <2>4
      <3>2. CASE k = Len(stream) + 1
        BY <2>4, <2>6, <2>9, <3>1, <3>2
      <3>3. CASE k \in 1 .. Len(stream)
        BY <2>4, <3>1, <3>3 DEF PlacesInv
      <3> QED
        BY <1>0, <2>4, <3>2, <3>3
    <2>11. /\ writing' = "message"
           /\ written' = written + HeaderSize(Head(send_queue))
      BY <1>1 DEF WriteHeader
    <2>12. written' = stream'[Len(stream')].begins + HeaderSize(stream'[Len(stream')].length)
      BY <2>4, <2>11
    <2> QED
      BY <2>8, <2>10, <2>11, <2>12 DEF PlacesInv
  <1>2. CASE WriteMessage
    <2>1. send_queue # <<>> /\ stream # <<>> /\ writing = "message" /\ wsUp
      BY <1>2 DEF WriteMessage, SentInv
    <2>2. Head(send_queue) = send_queue[1] /\ Len(send_queue) >= 1 /\ Len(send_queue) \in Nat
      BY <1>0, <2>1, HeadTailProperties
    <2>3. Len(stream) \in 1 .. Len(stream) /\ Len(stream) # 0
      BY <1>0, <2>1
    <2>4. stream[Len(stream)].length = Head(send_queue)
      <3>1. stream[Len(stream)].length = sentFrames[Len(stream)]
        BY <2>3 DEF SentInv
      <3>2. 1 \in 1 .. Len(send_queue) /\ Begun + 1 = Len(stream)
        BY <1>0, <2>1, <2>2 DEF Begun
      <3>3. send_queue[1] = sentFrames[Begun + 1]
        BY <2>1, <3>2 DEF SentInv
      <3> QED
        BY <2>2, <3>1, <3>2, <3>3
    <2>5. written = stream[Len(stream)].begins + HeaderSize(stream[Len(stream)].length)
      BY <2>1 DEF PlacesInv
    <2>6. /\ written' = written + Head(send_queue) /\ stream' = stream /\ writing' # "message"
      BY <1>2 DEF WriteMessage
    <2>7. written' = Ends(stream[Len(stream)])
      BY <2>3, <2>4, <2>5, <2>6, FrameType
    <2>11. \A k : EndOf(k)' = EndOf(k)
      BY <2>6 DEF EndOf
    <2>8. written' = EndOf(Len(stream))' /\ Len(stream') = Len(stream)
      BY <2>3, <2>6, <2>7, <2>11 DEF EndOf
    <2>9. \A k \in 1 .. Len(stream') : stream'[k].begins = EndOf(k - 1)'
      BY <2>6 DEF PlacesInv, EndOf
    <2>10. \A j, k \in 1 .. Len(stream') : j < k => Ends(stream'[j]) <= stream'[k].begins
      BY <2>6 DEF PlacesInv
    <2> QED
      BY <2>6, <2>7, <2>3, <2>8, <2>9, <2>10 DEF PlacesInv, EndOf
  <1>3. ASSUME NEW length \in StateLengths \cup {1}, wsSend(length) PROVE PlacesInv'
    <2>1. UNCHANGED <<stream, written, wsUp>> /\ (writing' = "message" <=> writing = "message")
      BY <1>3 DEF wsSend, SentInv
    <2>2. \A k : EndOf(k)' = EndOf(k)
      BY <2>1 DEF EndOf
    <2> QED
      BY <2>1, <2>2 DEF PlacesInv
  <1>4. CASE WsReader
    BY <1>4, ReaderOnly DEF PlacesInv, EndOf
  <1>5. CASE WsBreak
    BY <1>5 DEF WsBreak, PlacesInv, EndOf
  <1> QED
    BY <1>1, <1>2, <1>3, <1>4, <1>5 DEF WsNext, WsWriter

(* No more is written than the frames of the stream. *)
LEMMA WrittenFrames ==
    ASSUME WsInv, wsUp
    PROVE  written <= EndOf(Len(stream))
  <1>1. Len(stream) \in Nat /\ written \in Nat
    BY DEF WsInv, WsTypes
  <1>2. CASE writing = "message"
    <2>1. stream # <<>>
      BY <1>2 DEF WsInv, SentInv
    <2>2. Len(stream) \in 1 .. Len(stream) /\ Len(stream) # 0
      BY <1>1, <2>1 DEF WsInv, WsTypes
    <2>3. written = stream[Len(stream)].begins + HeaderSize(stream[Len(stream)].length)
      BY <1>2 DEF WsInv, PlacesInv
    <2>4. written <= Ends(stream[Len(stream)])
      BY <2>2, <2>3, FrameType DEF WsInv
    <2> QED
      BY <2>2, <2>4 DEF EndOf
  <1>3. CASE writing # "message"
    BY <1>1, <1>3 DEF WsInv, PlacesInv
  <1> QED
    BY <1>2, <1>3

(* A frame whose header is written after the handshake does not end where   *)
(* the handshake's read ended.                                              *)
LEMMA CleanBefore ==
    ASSUME WsInv, WsNext, CleanHandshake', reader'.extra = reader.extra
    PROVE  CleanHandshake
  <1>1. CASE reader.extra = 0
    BY <1>1 DEF CleanHandshake
  <1>2. CASE reader.extra # 0
    <2>1. PICK k \in 1 .. Len(stream') :
              reader.extra = Ends(stream'[k]) /\ stream'[k].length >= 2
      BY <1>2 DEF CleanHandshake
    <2>2. CASE k \in 1 .. Len(stream)
      BY <2>1, <2>2, Extended DEF CleanHandshake
    <2>3. CASE k \notin 1 .. Len(stream)
      <3>1. WriteHeader /\ k = Len(stream) + 1 /\ Len(stream) \in Nat
        BY <2>3, Extended
      <3>2. send_queue # <<>> /\ send_queue \in Seq(Lengths) /\ stream \in Seq(Frames)
            /\ written \in Nat
        BY <3>1 DEF WriteHeader, WsInv, SentInv, WsTypes
      <3>3. Head(send_queue) \in Lengths
        BY <3>2, HeadTailProperties
      <3>4. [begins |-> written, length |-> Head(send_queue)] \in Frames
        BY <3>2, <3>3 DEF Frames
      <3>5. stream'[k] = [begins |-> written, length |-> Head(send_queue)]
        BY <3>1, <3>2, <3>4, AppendProperties DEF WriteHeader
      <3>6. FrameSize(Head(send_queue)) \in Nat /\ FrameSize(Head(send_queue)) > 0
        <4>1. Head(send_queue) \in Nat /\ Head(send_queue) >= 1
          BY <3>3 DEF Lengths
        <4>2. /\ HeaderSize(Head(send_queue)) \in Nat
              /\ FrameSize(Head(send_queue)) = HeaderSize(Head(send_queue)) + Head(send_queue)
          BY <4>1, Sizes
        <4> QED
          BY <4>1, <4>2
      <3>7. Ends(stream'[k]) > written
        BY <3>2, <3>5, <3>6 DEF Ends
      <3>8. reader.extra <= written /\ reader.extra \in Nat
        BY <3>1, ReaderTypes DEF WriteHeader, WsInv, ReaderInv, WsTypes
      <3>9. Ends(stream'[k]) \in Nat
        BY <3>2, <3>5, <3>6 DEF Ends
      <3> QED
        BY <2>1, <3>2, <3>7, <3>8, <3>9
    <2> QED
      BY <2>2, <2>3
  <1> QED
    BY <1>1, <1>2

LEMMA FrameRoom ==
    ASSUME WsInv, NEW k \in 1 .. Len(stream)
    PROVE  FrameSize(stream[k].length) >= 3 /\ FrameSize(stream[k].length) \in Nat
  <1> DEFINE n == stream[k].length
  <1>1. n \in Nat /\ n >= 1
    BY FrameType DEF WsInv
  <1> HIDE DEF n
  <1>2. LengthBytes(n) \in {0, 2} /\ FrameSize(n) = 2 + LengthBytes(n) + n
    BY <1>1, Sizes
  <1>3. FrameSize(n) >= 3 /\ FrameSize(n) \in Nat
    BY <1>1, <1>2
  <1> QED
    BY <1>3 DEF n

(* Bytes that are left of the handshake's read hold the whole next frame.   *)
LEMMA WholeFrame ==
    ASSUME WsInv, CleanHandshake, reader.pc = "header", Rest > 0
    PROVE  /\ reader.frame \in 1 .. Len(stream)
           /\ Rest >= FrameSize(stream[reader.frame].length)
  <1> DEFINE f == reader.frame
  <1>1. /\ f \in 1 .. Len(stream) + 1 /\ reader.consumed = EndOf(f - 1)
        /\ reader.taken = reader.extra /\ Rest = reader.extra - reader.consumed
        /\ reader.extra \in Nat /\ Len(stream) \in Nat /\ reader.consumed \in Int
    BY ReaderTypes DEF WsInv, ReaderInv, AtHeader, Rest, WsTypes
  <1>2. EndOf(f - 1) \in Nat
    <2>1. CASE f = 1
      BY <2>1 DEF EndOf
    <2>2. CASE f # 1
      <3>1. f - 1 \in 1 .. Len(stream) /\ f - 1 # 0
        BY <1>1, <2>2
      <3> QED
        BY <3>1, FrameType DEF EndOf, WsInv
    <2> QED
      BY <2>1, <2>2
  <1>3. reader.extra > 0
    BY <1>1, <1>2
  <1>4. PICK k \in 1 .. Len(stream) : reader.extra = Ends(stream[k])
    BY <1>3 DEF CleanHandshake
  <1>5. f <= k
    <2> SUFFICES ASSUME k < f PROVE FALSE
      BY <1>1
    <2>1. f - 1 \in 1 .. Len(stream) /\ f - 1 # 0 /\ k <= f - 1
      BY <1>1, <1>4
    <2>2. EndOf(f - 1) = Ends(stream[f - 1])
      BY <2>1 DEF EndOf
    <2>3. CASE k = f - 1
      BY <1>1, <1>2, <1>4, <2>2, <2>3
    <2>4. CASE k < f - 1
      <3>1. Ends(stream[k]) <= stream[f - 1].begins
        BY <2>1, <2>4 DEF WsInv, PlacesInv
      <3>2. stream[f - 1].begins < Ends(stream[f - 1]) /\ stream[f - 1].begins \in Nat
        BY <2>1, Behind
      <3> QED
        BY <1>1, <1>2, <1>4, <2>2, <3>1, <3>2
    <2> QED
      BY <1>1, <2>1, <2>3, <2>4
  <1>6. f \in 1 .. Len(stream)
    BY <1>1, <1>5
  <1>7. stream[f].begins = reader.consumed
    BY <1>1, <1>6 DEF WsInv, PlacesInv
  <1>8. Ends(stream[f]) <= Ends(stream[k])
    <2>1. CASE f = k
      BY <1>6, <2>1, FrameType DEF WsInv
    <2>2. CASE f < k
      <3>1. Ends(stream[f]) <= stream[k].begins
        BY <1>6, <2>2 DEF WsInv, PlacesInv
      <3>2. stream[k].begins < Ends(stream[k]) /\ Ends(stream[f]) \in Nat /\ Ends(stream[k]) \in Nat
            /\ stream[k].begins \in Nat
        BY <1>6, Behind
      <3> QED
        BY <3>1, <3>2
    <2> QED
      BY <1>1, <1>5, <2>1, <2>2
  <1>9. /\ Ends(stream[f]) = stream[f].begins + FrameSize(stream[f].length)
        /\ FrameSize(stream[f].length) \in Nat
    BY <1>6, FrameType, Sizes DEF Ends, WsInv
  <1> QED
    BY <1>1, <1>4, <1>6, <1>7, <1>8, <1>9

LEMMA OthersReader ==
    ASSUME WsInv, WsNext, UNCHANGED <<reader, delivered, wsUp>>, written' >= written
    PROVE  ReaderInv'
  <1> USE DEF WsInv
  <1>1. /\ reader.frame \in Nat /\ Len(stream) \in Nat /\ written \in Nat /\ written' \in Nat
        /\ reader.extra \in Nat
    BY ReaderTypes, WsTypesStep DEF WsTypes
  <1>2. AtHeader => AtHeader'
    <2> SUFFICES ASSUME AtHeader PROVE AtHeader'
      OBVIOUS
    <2>1. reader.frame - 1 \in 0 .. Len(stream) /\ reader.frame \in 1 .. Len(stream') + 1
      BY <1>1, Extended DEF AtHeader
    <2>2. EndOf(reader.frame - 1)' = EndOf(reader.frame - 1)
      BY <2>1, Extended
    <2>3. Rest' = Rest
      BY DEF Rest
    <2> QED
      BY <2>1, <2>2, <2>3 DEF AtHeader
  <1>3. ASSUME reader.pc \in {"length", "content"}
        PROVE  /\ stream'[reader.frame] = stream[reader.frame]
               /\ \A part : Within(part) => Within(part)'
    <2>1. reader.frame \in 1 .. Len(stream)
      BY <1>3 DEF WsTypes
    <2>2. stream'[reader.frame] = stream[reader.frame]
      BY <2>1, Extended
    <2> QED
      BY <2>2 DEF Within, Rest
  <1>4. CleanHandshake' => CleanHandshake
    BY CleanBefore
  <1>5. reader.pc = "length" => stream'[reader.frame] = stream[reader.frame]
                                /\ (Within(2) => Within(2)')
    BY <1>3
  <1>6. reader.pc = "content" =>
            /\ stream'[reader.frame] = stream[reader.frame]
            /\ Within(HeaderSize(stream[reader.frame].length))
                   => Within(HeaderSize(stream[reader.frame].length))'
    BY <1>3
  <1>7. wsUp => reader.extra <= written'
    BY <1>1 DEF ReaderInv
  <1> QED
    BY <1>2, <1>4, <1>5, <1>6, <1>7 DEF ReaderInv

LEMMA HandshakeReader ==
    ASSUME WsInv, WsNext, Handshake
    PROVE  ReaderInv'
  <1> USE DEF WsInv
  <1>1. PICK extra \in 0 .. written : reader' = [reader EXCEPT
            !.pc = "header", !.taken = extra, !.extra = extra,
            !.additional = Additional(extra, 0), !.frame = 1]
    BY DEF Handshake
  <1>2. extra \in Nat /\ extra <= written /\ Additional(extra, 0) = extra /\ written \in Nat
    BY DEF Additional, WsTypes
  <1>3. reader \in Readers /\ reader.pc = "handshake" /\ wsUp /\ delivered = <<>>
        /\ reader.consumed = 0
    BY DEF Handshake, WsTypes, ReaderInv
  <1>4. /\ reader'.pc = "header" /\ reader'.taken = extra /\ reader'.extra = extra
        /\ reader'.additional = extra /\ reader'.frame = 1 /\ reader'.consumed = 0
    BY <1>1, <1>2, <1>3 DEF Readers
  <1>5. UNCHANGED <<stream, written, wsUp, delivered>>
    BY DEF Handshake
  <1>6. Len(stream) \in Nat
    BY DEF WsTypes
  <1>7. Rest' = extra
    BY <1>2, <1>4 DEF Rest
  <1>8. EndOf(reader.frame - 1)' = 0
    BY <1>4 DEF EndOf
  <1>9. AtHeader'
    BY <1>2, <1>4, <1>5, <1>6, <1>7, <1>8 DEF AtHeader
  <1>10. /\ \A i \in 1 .. Len(delivered') : delivered'[i] = [frame |-> i, whole |-> TRUE]
         /\ Len(delivered') = reader'.frame - 1
    BY <1>3, <1>4, <1>5
  <1> QED
    BY <1>2, <1>3, <1>4, <1>5, <1>9, <1>10 DEF ReaderInv

(* What a read of the header or of the length leaves in the reader. *)
LEMMA Taken ==
    ASSUME WsInv, NEW r, r = [reader EXCEPT !.taken = @ + Transfer(2),
                                            !.additional = Additional(Size(2), Transfer(2))]
    PROVE  /\ r.pc = reader.pc /\ r.taken = reader.taken + Transfer(2)
           /\ r.consumed = reader.consumed /\ r.additional = Rest
           /\ r.frame = reader.frame /\ r.extra = reader.extra /\ r \in Readers
  <1>0. Transfer(2) \in Nat /\ Additional(Size(2), Transfer(2)) \in Int
    BY Reads DEF WsInv
  <1>1. reader \in Readers /\ reader.taken + Transfer(2) \in Int
        /\ Additional(Size(2), Transfer(2)) \in Int
    BY <1>0, ReaderTypes DEF WsInv, WsTypes
  <1>2. r \in Readers
    BY <1>1, ReaderFields, Zenon
  <1>3. Additional(Size(2), Transfer(2)) = Rest
    BY Reads DEF WsInv
  <1> QED
    BY <1>1, <1>2, <1>3 DEF Readers

LEMMA HeaderReader ==
    ASSUME WsInv, WsNext, ReadHeader
    PROVE  ReaderInv'
  <1> USE DEF WsInv
  <1> DEFINE r == [reader EXCEPT !.taken = @ + Transfer(2),
                                 !.additional = Additional(Size(2), Transfer(2))]
             f == reader.frame
             length == stream[f].length
  <1>1. /\ reader.pc = "header" /\ wsUp /\ reader.taken + Transfer(2) <= written
        /\ UNCHANGED <<stream, written, wsUp, delivered>>
    BY DEF ReadHeader, Completes
  <1>2. reader' = IF Size(2) = 0 THEN [reader EXCEPT !.additional = 0]
                  ELSE IF Size(2) < 2 \/ ~InPlace(r) THEN Astray(r)
                  ELSE [r EXCEPT !.consumed = @ + 2,
                                 !.pc = IF LengthBytes(stream[r.frame].length) = 0
                                        THEN "content" ELSE "length"]
    BY DEF ReadHeader
  <1>3. /\ r.pc = reader.pc /\ r.taken = reader.taken + Transfer(2)
        /\ r.consumed = reader.consumed /\ r.additional = Rest
        /\ r.frame = reader.frame /\ r.extra = reader.extra /\ r \in Readers
    BY Taken
  <1> HIDE DEF r
  <1>4. /\ reader \in Readers /\ reader.taken \in Int /\ reader.consumed \in Int
        /\ reader.additional \in Int /\ f \in Nat /\ reader.extra \in Nat
        /\ Len(stream) \in Nat /\ written \in Nat
    BY ReaderTypes DEF WsTypes
  <1>5. Transfer(2) \in Nat /\ Size(2) = Rest + Transfer(2) /\ Rest \in Int
        /\ (reader.additional >= 2 => Transfer(2) = 0) /\ (reader.additional = 0 => Transfer(2) = 2)
    BY <1>4, Reads DEF Rest
  <1>6. reader'.extra = reader.extra /\ reader'.pc # "handshake" /\ reader'.pc # "closed"
    BY <1>1, <1>2, <1>3, <1>4 DEF Astray, Readers
  <1>7. (reader.extra <= written) /\ (CleanHandshake' => CleanHandshake)
    BY <1>1, <1>6, CleanBefore DEF ReaderInv
  <1>8. ASSUME CleanHandshake
        PROVE  /\ reader'.pc # "astray" /\ reader'.frame = f
               /\ reader'.pc = "header" => AtHeader'
               /\ reader'.pc = "length" => Within(2)' /\ LengthBytes(stream[f].length) = 2
               /\ reader'.pc = "content" => Within(HeaderSize(stream[f].length))'
    <2>1. AtHeader /\ f \in 1 .. Len(stream) + 1 /\ reader.consumed = EndOf(f - 1)
      BY <1>1, <1>8 DEF ReaderInv, AtHeader
    <2>2. CASE Rest = 0 /\ reader.additional >= 2
      <3>1. Size(2) = 0
        BY <1>5, <2>2
      <3>2. reader' = [reader EXCEPT !.additional = 0]
        BY <1>2, <3>1
      <3>3. /\ reader'.pc = "header" /\ reader'.frame = f /\ reader'.taken = reader.taken
            /\ reader'.consumed = reader.consumed /\ reader'.additional = 0
        BY <1>1, <1>4, <3>2 DEF Readers
      <3>4. Rest' = 0
        BY <2>2, <3>3 DEF Rest
      <3>5. EndOf(reader.frame - 1)' = EndOf(f - 1)
        BY <1>1, <3>3 DEF EndOf
      <3>6. AtHeader'
        BY <1>1, <2>1, <3>3, <3>4, <3>5 DEF AtHeader
      <3> QED
        BY <3>3, <3>6
    <2>3. ASSUME f \in 1 .. Len(stream), Size(2) >= 2, Size(2) \in Int,
                 \/ Rest = 0 /\ Transfer(2) = 2
                 \/ /\ reader.taken = reader.extra /\ Transfer(2) = 0
                    /\ Rest >= FrameSize(stream[f].length)
          PROVE  /\ reader'.pc \in {"length", "content"} /\ reader'.frame = f
                 /\ reader'.pc = "length" => Within(2)' /\ LengthBytes(stream[f].length) = 2
                 /\ reader'.pc = "content" => Within(HeaderSize(stream[f].length))'
      <3>1. stream[f].begins = reader.consumed
        BY <2>1, <2>3 DEF PlacesInv
      <3>2. InPlace(r)
        BY <1>3, <2>3, <3>1, <1>4 DEF InPlace
      <3>3. reader' = [r EXCEPT !.consumed = @ + 2,
                                !.pc = IF LengthBytes(stream[r.frame].length) = 0
                                       THEN "content" ELSE "length"]
        BY <1>2, <2>3, <3>2
      <3>4. /\ reader'.pc = IF LengthBytes(stream[f].length) = 0 THEN "content" ELSE "length"
            /\ reader'.frame = f /\ reader'.taken = reader.taken + Transfer(2)
            /\ reader'.consumed = reader.consumed + 2 /\ reader'.additional = Rest
        BY <1>3, <3>3 DEF Readers
      <3>5. stream[f].length \in Nat /\ stream[f].begins \in Nat
        BY <2>3, FrameType
      <3>6. /\ LengthBytes(stream[f].length) \in {0, 2}
            /\ HeaderSize(stream[f].length) = 2 + LengthBytes(stream[f].length)
            /\ FrameSize(stream[f].length) \in Nat
        BY <3>5, Sizes
      <3>7. Rest' = Rest + Transfer(2) - 2
        <4>1. Transfer(2) \in Nat
          BY <1>5
        <4>2. Rest' = reader'.taken - reader'.consumed
          BY DEF Rest
        <4>4. reader'.taken = reader.taken + Transfer(2) /\ reader'.consumed = reader.consumed + 2
          BY <3>4
        <4>3. Rest = reader.taken - reader.consumed
          BY DEF Rest
        <4> QED
          <5>1. Rest' = (reader.taken + Transfer(2)) - (reader.consumed + 2)
            BY <4>2, <4>4, Zenon
          <5>2. reader.taken \in Int /\ reader.consumed \in Int
            BY <1>4
          <5>3. (reader.taken + Transfer(2)) - (reader.consumed + 2)
                    = (reader.taken - reader.consumed) + Transfer(2) - 2
            BY <4>1, <5>2
          <5> QED
            BY <4>3, <5>1, <5>3, Zenon
      <3>8. stream'[reader'.frame] = stream[f]
        BY <1>1, <3>4
      <3>9. Within(2)'
        <4>1. reader'.consumed = stream'[reader'.frame].begins + 2
          BY <3>1, <3>4, <3>8
        <4>2. \/ Rest' = 0 /\ reader'.additional = 0
              \/ /\ reader'.taken = reader'.extra /\ reader'.additional = Rest' + 2
                 /\ Rest' >= FrameSize(stream'[reader'.frame].length) - 2
          <5>1. CASE Rest = 0 /\ Transfer(2) = 2
            BY <3>4, <3>7, <5>1
          <5>2. CASE reader.taken = reader.extra /\ Transfer(2) = 0
                     /\ Rest >= FrameSize(stream[f].length)
            BY <1>4, <1>5, <1>6, <3>4, <3>6, <3>7, <3>8, <5>2
          <5> QED
            BY <2>3, <5>1, <5>2
        <4> QED
          BY <4>1, <4>2 DEF Within
      <3>10. reader'.pc = "content" => HeaderSize(stream[f].length) = 2
        BY <3>4, <3>6
      <3>11. Within(2)' = Within(2)'
        OBVIOUS
      <3>12. reader'.pc = "content" => Within(HeaderSize(stream[f].length))'
        BY <1>1, <3>9, <3>10, <3>8 DEF Within
      <3> QED
        BY <3>4, <3>6, <3>9, <3>12
    <2>4. CASE Rest = 0 /\ reader.additional = 0
      <3>1. Transfer(2) = 2 /\ Size(2) = 2
        BY <1>5, <2>4
      <3>2. f # Len(stream) + 1
        <4> SUFFICES ASSUME f = Len(stream) + 1 PROVE FALSE
          OBVIOUS
        <4>1. reader.consumed = EndOf(Len(stream)) /\ reader.taken = reader.consumed
          BY <1>4, <2>1, <2>4 DEF Rest
        <4>2. written <= EndOf(Len(stream))
          BY <1>1, WrittenFrames
        <4> QED
          BY <1>1, <1>4, <3>1, <4>1, <4>2
      <3> QED
        BY <1>4, <2>1, <2>3, <2>4, <3>1, <3>2
    <2>5. CASE Rest > 0 /\ reader.taken = reader.extra /\ reader.additional >= Rest
      <3>1. f \in 1 .. Len(stream) /\ Rest >= FrameSize(stream[f].length)
        BY <1>1, <1>8, <2>5, WholeFrame
      <3>2. FrameSize(stream[f].length) >= 3 /\ FrameSize(stream[f].length) \in Nat
        BY <3>1, FrameRoom
      <3>3. Transfer(2) = 0 /\ Size(2) = Rest /\ Size(2) >= 2
        BY <1>4, <1>5, <2>5, <3>1, <3>2
      <3> QED
        BY <1>5, <2>3, <2>5, <3>1, <3>3
    <2> QED
      BY <2>1, <2>2, <2>4, <2>5 DEF AtHeader
  <1>9. CleanHandshake =>
            /\ \A i \in 1 .. Len(delivered) : delivered[i] = [frame |-> i, whole |-> TRUE]
            /\ Len(delivered) = reader.frame - 1
    BY <1>1 DEF ReaderInv
  <1> QED
    BY <1>1, <1>6, <1>7, <1>8, <1>9 DEF ReaderInv

LEMMA LengthReader ==
    ASSUME WsInv, WsNext, ReadLength
    PROVE  ReaderInv'
  <1> USE DEF WsInv
  <1> DEFINE r == [reader EXCEPT !.taken = @ + Transfer(2),
                                 !.additional = Additional(Size(2), Transfer(2))]
             f == reader.frame
  <1>1. /\ reader.pc = "length" /\ wsUp /\ UNCHANGED <<stream, written, wsUp, delivered>>
    BY DEF ReadLength, Completes
  <1>2. reader' = IF Size(2) < 2 THEN Astray(r)
                  ELSE [r EXCEPT !.consumed = @ + 2, !.pc = "content"]
    BY DEF ReadLength
  <1>3. /\ r.pc = reader.pc /\ r.taken = reader.taken + Transfer(2)
        /\ r.consumed = reader.consumed /\ r.additional = Rest
        /\ r.frame = reader.frame /\ r.extra = reader.extra /\ r \in Readers
    BY Taken
  <1> HIDE DEF r
  <1>4. /\ reader \in Readers /\ reader.taken \in Int /\ reader.consumed \in Int
        /\ reader.additional \in Int /\ reader.extra \in Nat /\ written \in Nat
        /\ f \in 1 .. Len(stream)
    BY <1>1, ReaderTypes DEF WsTypes
  <1>5. Transfer(2) \in Nat /\ Size(2) = Rest + Transfer(2) /\ Rest \in Int
        /\ (reader.additional >= 2 => Transfer(2) = 0) /\ (reader.additional = 0 => Transfer(2) = 2)
    BY <1>4, Reads DEF Rest
  <1>6. reader'.extra = reader.extra /\ reader'.pc \in {"content", "astray"} /\ reader'.frame = f
    BY <1>2, <1>3 DEF Astray, Readers
  <1>7. (reader.extra <= written) /\ (CleanHandshake' => CleanHandshake)
    BY <1>1, <1>6, CleanBefore DEF ReaderInv
  <1>8. ASSUME CleanHandshake
        PROVE  reader'.pc = "content" /\ Within(HeaderSize(stream[f].length))'
    <2> DEFINE size == FrameSize(stream[f].length)
    <2>1. /\ reader.consumed = stream[f].begins + 2 /\ LengthBytes(stream[f].length) = 2
          /\ \/ Rest = 0 /\ reader.additional = 0
             \/ /\ reader.taken = reader.extra /\ reader.additional = Rest + 2
                /\ Rest >= size - 2
      BY <1>1, <1>8 DEF ReaderInv, Within
    <2>2. stream[f].begins \in Nat /\ stream[f].length \in Nat /\ stream[f].length >= 1
      BY <1>4, FrameType
    <2>3. HeaderSize(stream[f].length) = 4 /\ size = 4 + stream[f].length
      <3>1. /\ HeaderSize(stream[f].length) = 2 + LengthBytes(stream[f].length)
            /\ FrameSize(stream[f].length) = HeaderSize(stream[f].length) + stream[f].length
        BY <2>2, Sizes
      <3> QED
        BY <2>1, <3>1
    <2>4. size \in Nat /\ size >= 5
      BY <2>2, <2>3
    <2> HIDE DEF size
    <2>5. /\ Size(2) >= 2 /\ Size(2) \in Int
          /\ \/ Rest = 0 /\ Transfer(2) = 2
             \/ reader.taken = reader.extra /\ Transfer(2) = 0 /\ Rest >= size - 2
      BY <1>4, <1>5, <2>1, <2>4
    <2>6. reader' = [r EXCEPT !.consumed = @ + 2, !.pc = "content"]
      BY <1>2, <2>5
    <2>7. /\ reader'.pc = "content" /\ reader'.taken = reader.taken + Transfer(2)
          /\ reader'.consumed = reader.consumed + 2 /\ reader'.additional = Rest
      BY <1>3, <2>6 DEF Readers
    <2>8. Rest' = Rest + Transfer(2) - 2
      <3>1. Rest' = reader'.taken - reader'.consumed
        BY DEF Rest
      <3>2. Rest = reader.taken - reader.consumed
        BY DEF Rest
      <3>3. Rest' = (reader.taken + Transfer(2)) - (reader.consumed + 2)
        BY <2>7, <3>1, Zenon
      <3>4. (reader.taken + Transfer(2)) - (reader.consumed + 2)
                = (reader.taken - reader.consumed) + Transfer(2) - 2
        <4>1. reader.taken \in Int /\ reader.consumed \in Int
          BY <1>4
        <4>2. Transfer(2) \in Nat
          BY <1>5
        <4> QED
          BY <4>1, <4>2
      <3> QED
        BY <3>2, <3>3, <3>4, Zenon
    <2>9. stream'[reader'.frame] = stream[f]
      BY <1>1, <1>6
    <2>10. reader'.consumed = stream[f].begins + HeaderSize(stream[f].length)
      BY <2>1, <2>2, <2>3, <2>7
    <2>11. \/ Rest' = 0 /\ reader'.additional = 0
           \/ /\ reader'.taken = reader'.extra /\ reader'.additional = Rest' + 2
              /\ Rest' >= size - HeaderSize(stream[f].length)
      <3>1. CASE Rest = 0 /\ Transfer(2) = 2
        BY <2>7, <2>8, <3>1
      <3>2. CASE reader.taken = reader.extra /\ Transfer(2) = 0 /\ Rest >= size - 2
        <4>1. Rest' = Rest - 2
          BY <1>5, <2>8, <3>2
        <4>2. reader'.additional = Rest' + 2
          BY <1>5, <2>7, <4>1
        <4>3. Rest' >= size - HeaderSize(stream[f].length)
          BY <1>5, <2>3, <2>4, <3>2, <4>1
        <4>4. reader'.taken = reader'.extra
          BY <1>4, <1>6, <2>7, <3>2
        <4> QED
          BY <4>2, <4>3, <4>4
      <3> QED
        BY <2>5, <3>1, <3>2
    <2> QED
      BY <1>1, <2>7, <2>9, <2>10, <2>11 DEF Within, size
  <1>9. CleanHandshake =>
            /\ \A i \in 1 .. Len(delivered) : delivered[i] = [frame |-> i, whole |-> TRUE]
            /\ Len(delivered) = reader.frame - 1
    BY <1>1 DEF ReaderInv
  <1>10. stream'[reader'.frame] = stream[f]
    BY <1>1, <1>6
  <1> QED
    BY <1>1, <1>6, <1>7, <1>8, <1>9, <1>10 DEF ReaderInv

LEMMA ContentReader ==
    ASSUME WsInv, WsNext, ReadContent
    PROVE  ReaderInv'
  <1> USE DEF WsInv
  <1> DEFINE f == reader.frame
             length == stream[f].length
             additional == Additional(Size(length), Transfer(length))
             content == IF additional > 0 /\ Size(length) > length THEN length ELSE Size(length)
             r == [reader EXCEPT !.taken = @ + Transfer(length), !.consumed = @ + content,
                                 !.additional = additional, !.frame = @ + 1, !.pc = "header"]
  <1>1. /\ reader.pc = "content" /\ wsUp /\ UNCHANGED <<stream, written, wsUp>>
    BY DEF ReadContent, Completes
  <1>2. /\ reader' = IF additional > 0 /\ Size(length) < length THEN Astray(r) ELSE r
        /\ delivered' = Append(delivered, [frame |-> f, whole |-> content = length])
    BY DEF ReadContent
  <1>3. /\ reader \in Readers /\ reader.taken \in Int /\ reader.consumed \in Int
        /\ reader.additional \in Int /\ reader.extra \in Nat /\ written \in Nat
        /\ f \in 1 .. Len(stream) /\ Len(stream) \in Nat
    BY <1>1, ReaderTypes DEF WsTypes
  <1>4. /\ stream[f].begins \in Nat /\ length \in Nat /\ length >= 1
        /\ HeaderSize(length) \in {2, 4}
        /\ Ends(stream[f]) = stream[f].begins + HeaderSize(length) + length
    BY <1>3, FrameType
  <1>5. /\ Transfer(length) \in Nat /\ Size(length) = Rest + Transfer(length) /\ additional = Rest
        /\ (reader.additional >= length => Transfer(length) = 0)
        /\ (reader.additional = 0 => Transfer(length) = length)
    BY <1>4, Reads
  <1>6. Rest \in Int /\ Rest = reader.taken - reader.consumed
    BY <1>3 DEF Rest
  <1>7. content \in Int
    BY <1>4, <1>5, <1>6
  <1>8. /\ r.pc = "header" /\ r.taken = reader.taken + Transfer(length)
        /\ r.consumed = reader.consumed + content /\ r.additional = Rest
        /\ r.frame = f + 1 /\ r.extra = reader.extra /\ r \in Readers
    <2> HIDE DEF content, additional, length
    <2>1. "header" \in Places /\ f + 1 \in Nat /\ reader.taken + Transfer(length) \in Int
          /\ reader.consumed + content \in Int /\ additional \in Int
      <3>1. "header" \in Places
        BY DEF Places
      <3>2. f + 1 \in Nat
        BY <1>3
      <3>3. reader.taken + Transfer(length) \in Int
        BY <1>3, <1>5
      <3>4. reader.consumed + content \in Int
        BY <1>3, <1>7
      <3>5. additional \in Int
        BY <1>5, <1>6
      <3> QED
        BY <3>1, <3>2, <3>3, <3>4, <3>5
    <2>2. r \in Readers
      BY <1>3, <2>1, ReaderFields, Zenon
    <2> QED
      BY <1>3, <1>5, <2>2 DEF Readers
  <1> HIDE DEF r, content, additional
  <1>9. reader'.extra = reader.extra /\ reader'.pc \in {"header", "astray"}
    BY <1>2, <1>8 DEF Astray, Readers
  <1>10. (reader.extra <= written) /\ (CleanHandshake' => CleanHandshake)
    BY <1>1, <1>9, CleanBefore DEF ReaderInv
  <1>11. ASSUME CleanHandshake
         PROVE  /\ reader'.pc = "header" /\ AtHeader'
                /\ \A i \in 1 .. Len(delivered') : delivered'[i] = [frame |-> i, whole |-> TRUE]
                /\ Len(delivered') = reader'.frame - 1
    <2>1. /\ reader.consumed = stream[f].begins + HeaderSize(length)
          /\ \/ Rest = 0 /\ reader.additional = 0
             \/ /\ reader.taken = reader.extra /\ reader.additional = Rest + 2
                /\ Rest >= FrameSize(length) - HeaderSize(length)
      BY <1>1, <1>11 DEF ReaderInv, Within
    <2>2. FrameSize(length) - HeaderSize(length) = length
      <3>1. FrameSize(length) = HeaderSize(length) + length /\ HeaderSize(length) \in Nat
        BY <1>4, Sizes
      <3> QED
        BY <1>4, <3>1
    <2>3. \/ Rest = 0 /\ Transfer(length) = length
          \/ reader.taken = reader.extra /\ Transfer(length) = 0 /\ Rest >= length
      <3>1. CASE Rest = 0 /\ reader.additional = 0
        BY <1>5, <3>1
      <3>2. CASE /\ reader.taken = reader.extra /\ reader.additional = Rest + 2
                 /\ Rest >= FrameSize(length) - HeaderSize(length)
        <4>1. Rest >= length
          BY <2>2, <3>2
        <4>2. reader.additional >= length
          BY <1>4, <1>6, <3>2, <4>1
        <4> QED
          BY <1>5, <3>2, <4>1, <4>2
      <3> QED
        BY <2>1, <3>1, <3>2
    <2>4. content = length /\ ~(additional > 0 /\ Size(length) < length)
      <3>1. CASE Rest = 0 /\ Transfer(length) = length
        BY <1>4, <1>5, <3>1 DEF content
      <3>2. CASE Transfer(length) = 0 /\ Rest >= length
        BY <1>4, <1>5, <1>6, <3>2 DEF content
      <3> QED
        BY <2>3, <3>1, <3>2
    <2>5. reader' = r
      BY <1>2, <2>4
    <2>6. /\ reader'.pc = "header" /\ reader'.frame = f + 1 /\ reader'.additional = Rest
          /\ reader'.taken = reader.taken + Transfer(length)
          /\ reader'.consumed = reader.consumed + length
      BY <1>8, <2>4, <2>5
    <2>7. Rest' = Rest + Transfer(length) - length
      <3>1. Rest' = reader'.taken - reader'.consumed
        BY DEF Rest
      <3> HIDE DEF length
      <3> QED
        BY <1>3, <1>4, <1>5, <1>6, <2>6, <3>1
    <2>8. reader'.consumed = Ends(stream[f])
      <3> HIDE DEF length
      <3> QED
        BY <1>3, <1>4, <2>1, <2>6
    <2>9. EndOf(reader.frame - 1)' = Ends(stream[f])
      <3>1. reader'.frame - 1 = f /\ f # 0 /\ stream' = stream
        BY <1>1, <1>3, <2>6
      <3> QED
        BY <3>1 DEF EndOf
    <2>10. \/ Rest' = 0 /\ (reader'.additional = 0 \/ reader'.additional >= 2)
           \/ Rest' > 0 /\ reader'.taken = reader'.extra /\ reader'.additional >= Rest'
      <3>1. CASE Rest = 0 /\ Transfer(length) = length
        BY <1>4, <2>6, <2>7, <3>1
      <3>2. CASE reader.taken = reader.extra /\ Transfer(length) = 0 /\ Rest >= length
        <4>1. Rest' = Rest - length /\ Rest' >= 0 /\ Rest' \in Int /\ reader'.additional >= Rest'
          BY <1>4, <1>6, <2>6, <2>7, <3>2
        <4>2. reader'.taken = reader'.extra
          BY <1>3, <1>9, <2>6, <3>2
        <4>3. CASE Rest' = 0
          <5>1. reader.extra = Ends(stream[f]) /\ Rest = length
            <6>1. Rest' = reader'.taken - reader'.consumed
              BY DEF Rest
            <6>2. reader'.taken \in Int /\ reader'.consumed \in Int
              BY <1>3, <1>4, <2>6, <3>2
            <6>3. reader'.taken = reader'.consumed
              BY <4>3, <6>1, <6>2
            <6> QED
              BY <1>4, <1>6, <1>9, <2>8, <4>1, <4>2, <4>3, <6>3
          <5>2. reader.extra # 0
            BY <1>3, <5>1, Behind
          <5>3. PICK k \in 1 .. Len(stream) :
                    reader.extra = Ends(stream[k]) /\ stream[k].length >= 2
            BY <1>11, <5>2 DEF CleanHandshake
          <5>4. k = f
            <6>1. CASE k < f
              <7>1. Ends(stream[k]) <= stream[f].begins
                BY <1>3, <6>1 DEF PlacesInv
              <7> QED
                <8>1. /\ stream[f].begins < Ends(stream[f]) /\ stream[f].begins \in Nat
                      /\ Ends(stream[f]) \in Nat /\ Ends(stream[k]) \in Nat
                  BY <1>3, Behind
                <8> QED
                  BY <5>1, <5>3, <7>1, <8>1
            <6>2. CASE f < k
              <7>1. Ends(stream[f]) <= stream[k].begins
                BY <1>3, <6>2 DEF PlacesInv
              <7>2. stream[k].begins < Ends(stream[k]) /\ stream[k].begins \in Nat
                BY Behind
              <7> QED
                BY <1>3, <5>1, <5>3, <7>1, <7>2
            <6> QED
              BY <1>3, <6>1, <6>2
          <5> QED
            BY <2>6, <4>3, <5>1, <5>3, <5>4
        <4> QED
          BY <4>1, <4>2, <4>3
      <3> QED
        BY <2>3, <3>1, <3>2
    <2>11. AtHeader'
      <3>1. reader'.frame \in 1 .. Len(stream') + 1
        BY <1>1, <1>3, <2>6
      <3> QED
        BY <2>8, <2>9, <2>10, <3>1 DEF AtHeader
    <2>12. /\ \A i \in 1 .. Len(delivered) : delivered[i] = [frame |-> i, whole |-> TRUE]
           /\ Len(delivered) = f - 1
      BY <1>1, <1>11 DEF ReaderInv
    <2>13. delivered' = Append(delivered, [frame |-> f, whole |-> TRUE])
      BY <1>2, <2>4
    <2>14. delivered \in Seq([frame : Nat, whole : BOOLEAN]) /\ [frame |-> f, whole |-> TRUE]
               \in [frame : Nat, whole : BOOLEAN]
      BY <1>3 DEF WsTypes
    <2>15. /\ Len(delivered') = Len(delivered) + 1
           /\ \A i \in 1 .. Len(delivered) : delivered'[i] = delivered[i]
           /\ delivered'[Len(delivered) + 1] = [frame |-> f, whole |-> TRUE]
      BY <2>13, <2>14, AppendProperties
    <2>16. Len(delivered') = f
      BY <1>3, <2>12, <2>15
    <2>17. \A i \in 1 .. Len(delivered') : delivered'[i] = [frame |-> i, whole |-> TRUE]
      <3> TAKE i \in 1 .. Len(delivered')
      <3>1. CASE i = f
        BY <1>3, <2>12, <2>15, <3>1
      <3>2. CASE i # f
        <4>1. i \in 1 .. Len(delivered)
          BY <1>3, <2>12, <2>16, <3>2
        <4> QED
          BY <2>12, <2>15, <4>1
      <3> QED
        BY <3>1, <3>2
    <2> QED
      BY <1>3, <2>6, <2>11, <2>16, <2>17
  <1> QED
    BY <1>1, <1>9, <1>10, <1>11 DEF ReaderInv

LEMMA ReaderStep ==
    ASSUME WsInv, WsNext
    PROVE  ReaderInv'
  <1>1. ASSUME NEW length \in StateLengths \cup {1}, wsSend(length) PROVE ReaderInv'
    <2>1. UNCHANGED <<reader, delivered, wsUp>> /\ written' >= written
      BY <1>1 DEF wsSend, WsInv, WsTypes
    <2> QED
      BY <2>1, OthersReader
  <1>2. CASE WriteHeader
    <2>1. send_queue # <<>>
      BY <1>2 DEF WriteHeader, WsInv, SentInv
    <2>2. Head(send_queue) \in Nat
      BY <2>1, HeadTailProperties DEF WsInv, WsTypes, Lengths
    <2>3. HeaderSize(Head(send_queue)) \in Nat
      BY <2>2, Sizes
    <2>4. UNCHANGED <<reader, delivered, wsUp>> /\ written' >= written
      BY <1>2, <2>3 DEF WriteHeader, WsInv, WsTypes
    <2> QED
      BY <2>4, OthersReader
  <1>3. CASE WriteMessage
    <2>1. send_queue # <<>>
      BY <1>3 DEF WriteMessage, WsInv, SentInv
    <2>2. Head(send_queue) \in Nat
      BY <2>1, HeadTailProperties DEF WsInv, WsTypes, Lengths
    <2>3. UNCHANGED <<reader, delivered, wsUp>> /\ written' >= written
      BY <1>3, <2>2 DEF WriteMessage, WsInv, WsTypes
    <2> QED
      BY <2>3, OthersReader
  <1>4. CASE WsReader
    BY <1>4, HandshakeReader, HeaderReader, LengthReader, ContentReader DEF WsReader
  <1>5. CASE WsBreak
    <2>1. /\ reader' = [reader EXCEPT !.pc = "closed"] /\ UNCHANGED <<stream, delivered>>
          /\ ~wsUp' /\ reader \in Readers
      BY <1>5 DEF WsBreak, WsInv, WsTypes
    <2>2. reader'.pc = "closed" /\ reader'.extra = reader.extra
      BY <2>1 DEF Readers
    <2>3. CleanHandshake' => CleanHandshake
      BY <2>2, CleanBefore
    <2>4. CleanHandshake =>
              \A i \in 1 .. Len(delivered) : delivered[i] = [frame |-> i, whole |-> TRUE]
      BY DEF WsInv, ReaderInv
    <2> QED
      BY <2>1, <2>2, <2>3, <2>4 DEF ReaderInv
  <1> QED
    BY <1>1, <1>2, <1>3, <1>4, <1>5 DEF WsNext, WsWriter

(* The invariant holds in every state of the connection.                    *)
THEOREM FramesStand == WsSpec => []WsInv
  <1>1. WsInit => WsInv
    BY WsInitially
  <1>2. WsInv /\ [WsNext]_wsVars => WsInv'
    <2> SUFFICES ASSUME WsInv, [WsNext]_wsVars PROVE WsInv'
      OBVIOUS
    <2>1. CASE WsNext
      BY <2>1, WsTypesStep, SentStep, PlacesStep, ReaderStep DEF WsInv
    <2>2. CASE UNCHANGED wsVars
      BY <2>2 DEF wsVars, WsInv, WsTypes, SentInv, Begun, PlacesInv, EndOf, ReaderInv,
                  CleanHandshake, AtHeader, Within, Rest
    <2> QED
      BY <2>1, <2>2
  <1> QED
    BY <1>1, <1>2, PTL DEF WsSpec

(* client_ws.hpp:428-431, for lengths of every size and every bound: after  *)
(* a handshake whose read ended where a frame ends, on_message gets what    *)
(* was sent, whole and in order, and the reader never loses its place.      *)
THEOREM WholeAfterClean == WsSpec => []WholeAfterCleanHandshake
  <1>1. WsInv => WholeAfterCleanHandshake
    <2> SUFFICES ASSUME WsInv, CleanHandshake PROVE WholeMessages
      BY DEF WholeAfterCleanHandshake
    <2> DEFINE begun == [k \in DOMAIN stream |-> stream[k].length]
    <2>1. /\ Len(stream) \in Nat /\ Len(sentFrames) \in Nat /\ DOMAIN stream = 1 .. Len(stream)
          /\ sentFrames \in Seq(Lengths) /\ DOMAIN delivered = 1 .. Len(delivered)
      BY DEF WsInv, WsTypes
    <2>2. \A k \in 1 .. Len(stream) : k \in 1 .. Len(sentFrames) /\ begun[k] = sentFrames[k]
      BY <2>1 DEF WsInv, SentInv
    <2>3. \A k \in 1 .. Len(stream) : sentFrames[k] \in Lengths
      BY <2>1, <2>2
    <2>4. begun \in Seq(Lengths) /\ Len(begun) = Len(stream)
      BY <2>1, <2>2, <2>3
    <2>5. IsPrefix(begun, sentFrames)
      <3> HIDE DEF begun
      <3>1. Len(begun) <= Len(sentFrames)
        BY <2>4 DEF WsInv, SentInv
      <3> QED
        BY <2>1, <2>2, <2>4, <3>1 DEF IsPrefix
    <2>6. /\ \A i \in DOMAIN delivered : delivered[i] = [frame |-> i, whole |-> TRUE]
          /\ reader.pc # "astray"
      BY <2>1 DEF WsInv, ReaderInv
    <2> QED
      BY <2>5, <2>6 DEF WholeMessages
  <1> QED
    BY <1>1, FramesStand, PTL

-----------------------------------------------------------------------------
(* PilotCommands. *)

(* What the two controllers have open is what SDL had numbered, the second  *)
(* one a step later; and no pad is open twice.                              *)
OpenInv ==
    /\ joystick[1] = devices[1]
    /\ joystick[2] = IF opening THEN NoPad ELSE devices[2]
    /\ devices[1] = devices[2] => devices[1] = NoPad
    /\ devices[1] = NoPad => devices[2] = NoPad

(* A reading, or a motor value made of one, is of the pad open now.         *)
From(r, i) == r # Disconnected => r.pad = joystick[i] /\ r.pad # NoPad
ReadInv ==
    /\ first # Unread => From(first, 1)
    /\ From(motors["drive"], 1) /\ From(motors["arm"], 2) /\ From(motors["claw"], 2)
    /\ motors["claw"] # Disconnected => motors["claw"].pad \in OfKind("X")
    /\ motors["arm"] # Disconnected => motors["drive"] # Disconnected

(* A command that the robot does not throw away is of two pads.             *)
OfTwoPads(c) ==
    /\ c["drive"].pad # c["arm"].pad
    /\ c["claw"].pad = c["arm"].pad
    /\ c["arm"].pad \in OfKind("X")
CommandInv ==
    /\ \A c \in {motors, lastSent} : Complete(c) => OfTwoPads(c)
    /\ inFlight # Nothing /\ Complete(inFlight) => OfTwoPads(inFlight)
    /\ wire # Nothing => OfTwoPads(wire)
    /\ motorvals # NoValues => OfTwoPads(motorvals)

PilotInv == TypeOK /\ OpenInv /\ ReadInv /\ CommandInv

-----------------------------------------------------------------------------
LEMMA Distinct ==
    /\ Disconnected # Unread /\ NoValues # Nothing
    /\ NoValues \in Command /\ ~Complete(NoValues)
    /\ \A r \in Reading : r # Disconnected /\ r # Unread /\ r.pad # NoPad
  <1> USE PilotAssumption
  <1>1. Disconnected # Unread /\ Disconnected.pos = 0 /\ Unread.pos = -1
    BY DEF Disconnected, Unread
  <1>2. NoValues["drive"] = Disconnected /\ Nothing["drive"] = Unread
    BY DEF NoValues, Nothing, Fields
  <1>3. NoValues \in Command
    BY DEF NoValues, Command
  <1>4. ~Complete(NoValues)
    BY <1>2 DEF Complete, Fields
  <1>5. \A r \in Reading : r # Disconnected /\ r # Unread /\ r.pad # NoPad
    BY DEF Reading, Disconnected, Unread
  <1> QED
    BY <1>1, <1>2, <1>3, <1>4, <1>5

(* What a controller gives is of the pad it has open.                       *)
LEMMA PadRead ==
    ASSUME TypeOK, NEW i \in 1 .. 2
    PROVE  ReadPad(i) \in Reading \cup {Disconnected} /\ From(ReadPad(i), i)
  BY PilotAssumption DEF TypeOK, ReadPad, From, Reading, Disconnected

LEMMA VerticalRead ==
    ASSUME NEW r \in Reading PROVE Vertical(r) \in Reading
  BY PilotAssumption DEF Vertical, Reading

LEMMA PilotInitial == Init => PilotInv
  <1> SUFFICES ASSUME Init PROVE PilotInv
    OBVIOUS
  <1>1. TypeOK
    BY PilotAssumption, Distinct DEF Init, TypeOK
  <1>2. OpenInv
    BY DEF Init, OpenInv
  <1>3. ReadInv
    BY Distinct DEF Init, ReadInv, From, NoValues, Fields
  <1>4. CommandInv
    BY Distinct DEF Init, CommandInv
  <1> QED
    BY <1>1, <1>2, <1>3, <1>4 DEF PilotInv

-----------------------------------------------------------------------------
(* Nothing of the console changes but where the sticks are.                 *)
LEMMA PilotKeeps == PilotInv /\ Pilot => PilotInv'
  <1> SUFFICES ASSUME PilotInv, Pilot PROVE PilotInv'
    OBVIOUS
  <1>1. UNCHANGED <<console, up, inFlight, robot, missed>>
    BY DEF Pilot, Plug, Unplug, Move, Fault
  <1>2. plugged' \subseteq Pads /\ position' \in [Pads -> Positions]
    BY PilotAssumption DEF Pilot, Plug, Unplug, Move, PilotInv, TypeOK
  <1>3. TypeOK'
    BY <1>1, <1>2 DEF PilotInv, TypeOK, console, robot
  <1>4. OpenInv' /\ ReadInv' /\ CommandInv'
    BY <1>1 DEF PilotInv, OpenInv, ReadInv, CommandInv, From, console, robot, OfTwoPads, Complete
  <1> QED
    BY <1>3, <1>4 DEF PilotInv

(* A controller is opened only when there is no reading of another pad.     *)
LEMMA OpeningKeeps == PilotInv /\ ControlThread => PilotInv'
  <1> SUFFICES ASSUME PilotInv, ControlThread PROVE PilotInv'
    OBVIOUS
  <1> USE DEF PilotInv
  <1>1. UNCHANGED <<pads, first, motors, lastSent, up, inFlight, robot, missed>>
    BY DEF ControlThread, Reopen, ReopenSecond
  <1>2. CommandInv'
    BY <1>1 DEF CommandInv, robot, OfTwoPads, Complete
  <1>3. CASE Reopen
    <2>1. /\ devices' \in [1 .. 2 -> Pads \cup {NoPad}] /\ Numbered(devices')
          /\ joystick' = [joystick EXCEPT ![1] = devices'[1]] /\ opening' = TRUE
          /\ joystick[1] = NoPad /\ joystick[2] = NoPad
      BY <1>3 DEF Reopen, MayReopen
    <2>2. TypeOK'
      BY <1>1, <2>1 DEF TypeOK, pads, robot
    <2>3. joystick'[1] = devices'[1] /\ joystick'[2] = NoPad
      BY <2>1 DEF TypeOK
    <2>4. devices'[1] = devices'[2] => devices'[1] = NoPad
      BY <2>1 DEF Numbered
    <2>5. devices'[1] = NoPad => devices'[2] = NoPad
      BY <2>1 DEF Numbered
    <2>6. OpenInv'
      BY <2>1, <2>3, <2>4, <2>5 DEF OpenInv
    <2>7. ReadInv'
      BY <1>1, <2>1 DEF ReadInv, From, TypeOK
    <2> QED
      BY <1>2, <2>2, <2>6, <2>7
  <1>4. CASE ReopenSecond
    <2>1. /\ joystick' = [joystick EXCEPT ![2] = devices[2]] /\ opening' = FALSE
          /\ opening /\ devices' = devices
      BY <1>4 DEF ReopenSecond
    <2>0. joystick \in [1 .. 2 -> Pads \cup {NoPad}] /\ devices \in [1 .. 2 -> Pads \cup {NoPad}]
      BY DEF TypeOK
    <2>2. joystick' \in [1 .. 2 -> Pads \cup {NoPad}]
      BY <2>0, <2>1
    <2>6. TypeOK'
      BY <1>1, <2>1, <2>2 DEF TypeOK, pads, robot
    <2>3. OpenInv'
      BY <2>1 DEF OpenInv, TypeOK
    <2>4. joystick[2] = NoPad
      BY <2>1 DEF OpenInv
    <2>5. ReadInv'
      BY <1>1, <2>1, <2>4 DEF ReadInv, From, TypeOK
    <2> QED
      BY <1>2, <2>3, <2>5, <2>6
  <1> QED
    BY <1>3, <1>4 DEF ControlThread

(* The conversion, which stops at the first reading it cannot use.          *)
LEMMA ConversionKeeps ==
    ASSUME PilotInv, first # Unread
    PROVE  LET c == Converted(first, ReadPad(2)) IN
           /\ c \in Command
           /\ From(c["drive"], 1) /\ From(c["arm"], 2) /\ From(c["claw"], 2)
           /\ c["claw"] # Disconnected => c["claw"].pad \in OfKind("X")
           /\ c["arm"] # Disconnected => c["drive"] # Disconnected
           /\ Complete(c) => OfTwoPads(c)
  <1> USE DEF PilotInv
  <1> DEFINE r1 == first
             r2 == ReadPad(2)
             c == Converted(r1, r2)
  <1>1. r1 \in Reading \cup {Disconnected} /\ From(r1, 1)
    BY DEF TypeOK, ReadInv
  <1>2. r2 \in Reading \cup {Disconnected} /\ From(r2, 2)
    BY PadRead
  <1>3. motors \in [Fields -> Reading \cup {Disconnected}]
    BY DEF TypeOK, Command
  <1> HIDE DEF r2
  <1>4. r1 # Disconnected => Vertical(r1) \in Reading
    BY <1>1, VerticalRead
  <1>5. /\ c \in Command
        /\ c["drive"] \in {motors["drive"], r1} /\ c["arm"] \in {motors["arm"], r2}
        /\ c["claw"] = motors["claw"] \/ (c["claw"] = r2 /\ (r2.pad \in OfKind("X") \/ r2 = Disconnected))
        /\ c["arm"] # Disconnected => c["drive"] # Disconnected
    <2>1. \A r \in Reading : r.pad \in OfKind("X") \/ r.pad \in OfKind("D")
      BY PilotAssumption DEF Reading, OfKind
    <2> QED
      BY <1>1, <1>2, <1>3, <1>4, <2>1 DEF Converted, Command, Fields, ReadInv
  <1>6. From(c["drive"], 1) /\ From(c["arm"], 2) /\ From(c["claw"], 2)
    BY <1>1, <1>2, <1>5 DEF ReadInv
  <1>7. c["claw"] # Disconnected => c["claw"].pad \in OfKind("X")
    BY <1>5 DEF ReadInv
  <1>8. ASSUME Complete(c) PROVE OfTwoPads(c)
    <2>1. c["drive"] # Disconnected /\ c["arm"] # Disconnected /\ c["claw"] # Disconnected
      BY <1>8 DEF Complete, Fields
    <2>2. /\ c["drive"].pad = joystick[1] /\ joystick[1] # NoPad
          /\ c["arm"].pad = joystick[2] /\ c["claw"].pad = joystick[2] /\ joystick[2] # NoPad
      BY <1>6, <2>1 DEF From
    <2>3. joystick[1] # joystick[2]
      BY <2>2 DEF OpenInv
    <2> QED
      BY <1>7, <2>1, <2>2, <2>3 DEF OfTwoPads
  <1> QED
    BY <1>5, <1>6, <1>7, <1>8 DEF r2

LEMMA NetworkKeeps == PilotInv /\ NetworkThread => PilotInv'
  <1> SUFFICES ASSUME PilotInv, NetworkThread PROVE PilotInv'
    OBVIOUS
  <1> USE DEF PilotInv
  <1>1. CASE ReadFirst
    <2>1. first' = ReadPad(1) /\ UNCHANGED <<pads, devices, joystick, opening, motors, lastSent, up, inFlight, robot, missed>>
      BY <1>1 DEF ReadFirst
    <2>2. first' \in Reading \cup {Disconnected} /\ From(first', 1)
      BY <2>1, PadRead
    <2>3. TypeOK'
      BY <2>1, <2>2 DEF TypeOK, pads, robot
    <2>4. OpenInv' /\ ReadInv' /\ CommandInv'
      BY <2>1, <2>2 DEF OpenInv, ReadInv, CommandInv, From, robot, OfTwoPads, Complete
    <2> QED
      BY <2>3, <2>4
  <1>2. CASE Iterate
    <2> DEFINE c == Converted(first, ReadPad(2))
    <2>1. /\ first # Unread /\ motors' = c /\ first' = Unread
          /\ UNCHANGED <<pads, devices, joystick, opening, up, robot, missed>>
      BY <1>2 DEF Iterate
    <2>2. \/ lastSent' = c /\ inFlight' = c
          \/ UNCHANGED <<lastSent, inFlight>>
      BY <1>2 DEF Iterate
    <2>3. /\ c \in Command
          /\ From(c["drive"], 1) /\ From(c["arm"], 2) /\ From(c["claw"], 2)
          /\ c["claw"] # Disconnected => c["claw"].pad \in OfKind("X")
          /\ c["arm"] # Disconnected => c["drive"] # Disconnected
          /\ Complete(c) => OfTwoPads(c)
      BY <2>1, ConversionKeeps
    <2> HIDE DEF c
    <2>4. TypeOK'
      BY <2>1, <2>2, <2>3 DEF TypeOK, pads, robot
    <2>5. OpenInv'
      BY <2>1 DEF OpenInv
    <2>6. ReadInv'
      BY <2>1, <2>3 DEF ReadInv, From
    <2>7. CommandInv'
      BY <2>1, <2>2, <2>3 DEF CommandInv, robot, OfTwoPads, Complete
    <2> QED
      BY <2>4, <2>5, <2>6, <2>7
  <1> QED
    BY <1>1, <1>2 DEF NetworkThread

(* The connection, the robot and the Arduino hand commands on unchanged.    *)
LEMMA RobotKeeps ==
    PilotInv /\ (Connect \/ Identify \/ Handle \/ Deliver \/ Break \/ Lose \/ RobotRestarts \/ ArduinoRestarts)
        => PilotInv'
  <1> SUFFICES ASSUME PilotInv, Connect \/ Identify \/ Handle \/ Deliver \/ Break \/ Lose \/ RobotRestarts \/ ArduinoRestarts
               PROVE  PilotInv'
    OBVIOUS
  <1> USE DEF PilotInv
  <1>1. UNCHANGED <<pads, devices, joystick, opening, first, motors>>
    BY DEF Connect, Identify, Handle, Deliver, Break, Lose, RobotRestarts, ArduinoRestarts, console
  <1>2. OpenInv' /\ ReadInv'
    BY <1>1 DEF OpenInv, ReadInv, From
  <1>3. /\ lastSent' \in {lastSent, motors}
        /\ inFlight' \in {inFlight, motors, Nothing}
        /\ wire' \in {wire, Nothing} \/ (wire' = inFlight /\ inFlight # Nothing /\ Complete(inFlight))
        /\ motorvals' \in {motorvals, NoValues} \/ (motorvals' = wire /\ wire # Nothing)
        /\ {up', identified', missed'} \subseteq BOOLEAN
    BY DEF Connect, Identify, Handle, Accepts, Deliver, Break, Lose, RobotRestarts, ArduinoRestarts,
           console, robot, TypeOK
  <1>4. TypeOK'
    BY <1>1, <1>3, Distinct DEF TypeOK, pads
  <1>5. CommandInv'
    BY <1>1, <1>3 DEF CommandInv, OfTwoPads, Complete
  <1> QED
    BY <1>2, <1>4, <1>5

LEMMA ConsoleRestartKeeps == PilotInv /\ ConsoleRestarts => PilotInv'
  <1> SUFFICES ASSUME PilotInv, ConsoleRestarts PROVE PilotInv'
    OBVIOUS
  <1> USE DEF PilotInv
  <1>1. /\ devices' = [i \in 1 .. 2 |-> NoPad] /\ joystick' = devices' /\ opening' = FALSE
        /\ first' = Unread /\ motors' = NoValues /\ lastSent' = NoValues
        /\ up' = FALSE /\ inFlight' = Nothing /\ UNCHANGED <<pads, robot, missed>>
    BY DEF ConsoleRestarts
  <1>2. TypeOK'
    BY <1>1, Distinct DEF TypeOK, pads, robot
  <1>3. OpenInv'
    BY <1>1 DEF OpenInv
  <1>4. ReadInv'
    BY <1>1 DEF ReadInv, From, NoValues, Fields
  <1>5. CommandInv'
    BY <1>1, Distinct DEF CommandInv, robot, OfTwoPads, Complete
  <1> QED
    BY <1>2, <1>3, <1>4, <1>5

(* The inductive invariant: which pad each value, on its way or in force,   *)
(* comes from.                                                              *)
THEOREM PilotInvariance == Spec => []PilotInv
  <1>1. PilotInv /\ UNCHANGED vars => PilotInv'
    BY DEF PilotInv, TypeOK, OpenInv, ReadInv, CommandInv, From, vars, pads, console, robot, OfTwoPads, Complete
  <1>2. PilotInv /\ [Next]_vars => PilotInv'
    BY <1>1, PilotKeeps, OpeningKeeps, NetworkKeeps, RobotKeeps, ConsoleRestartKeeps DEF Next, Faults
  <1> QED
    BY PilotInitial, <1>2, PTL DEF Spec

(* The motors are never run by one pad alone, or by a second pad without    *)
(* triggers, whatever is plugged in, opened, restarted or lost when.        *)
THEOREM TwoPads == Spec => []TwoPadsObeyed
  <1>1. PilotInv => TwoPadsObeyed
    BY DEF PilotInv, CommandInv, OfTwoPads, TwoPadsObeyed
  <1> QED
    BY PilotInvariance, <1>1, PTL

-----------------------------------------------------------------------------
(* What is on its way, or in force, is what was sent last.                  *)
AgreeInv ==
    /\ inFlight # Nothing => up /\ inFlight = lastSent
    /\ up /\ inFlight = Nothing /\ ~missed /\ Complete(lastSent) =>
           IF wire = Nothing THEN motorvals = lastSent ELSE wire = lastSent

LEMMA NoCommand == Nothing \notin Command
  <1>1. Nothing["drive"] = Unread /\ "drive" \in Fields
    BY DEF Nothing, Fields
  <1>2. Unread \notin Reading \cup {Disconnected}
    BY Distinct
  <1> QED
    BY <1>1, <1>2 DEF Command

LEMMA AgreeStep == PilotInv /\ AgreeInv /\ [Next]_vars => AgreeInv'
  <1> SUFFICES ASSUME PilotInv, AgreeInv, [Next]_vars PROVE AgreeInv'
    OBVIOUS
  <1> USE DEF AgreeInv, Complete
  <1>1. CASE Pilot \/ ControlThread \/ ReadFirst \/ Identify \/ UNCHANGED vars
    <2>1. UNCHANGED <<inFlight, up, lastSent, missed, wire, motorvals>>
      BY <1>1 DEF Pilot, Plug, Unplug, Move, Fault, ControlThread, Reopen, ReopenSecond, ReadFirst,
                  Identify, vars, console, robot
    <2> QED
      BY <2>1
  <1>2. CASE Iterate \/ Connect
    <2>1. UNCHANGED <<wire, motorvals, missed>>
      BY <1>2 DEF Iterate, Connect, robot
    <2>2. \/ UNCHANGED <<inFlight, up, lastSent>>
          \/ up' /\ inFlight' = lastSent' /\ lastSent' \in Command
      <3>1. CASE Connect
        BY <3>1 DEF Connect, PilotInv, TypeOK
      <3>2. CASE Iterate
        BY <3>2, ConversionKeeps DEF Iterate, MaySend
      <3> QED
        BY <1>2, <3>1, <3>2
    <2> QED
      BY <2>1, <2>2, NoCommand
  <1>3. CASE Break \/ ConsoleRestarts \/ RobotRestarts
    BY <1>3 DEF Break, ConsoleRestarts, RobotRestarts
  <1>4. CASE Handle
    BY <1>4 DEF Handle, Accepts, console
  <1>5. CASE Deliver \/ Lose \/ ArduinoRestarts
    BY <1>5 DEF Deliver, Lose, ArduinoRestarts, console, PilotInv, TypeOK
  <1> QED
    BY <1>1, <1>2, <1>3, <1>4, <1>5 DEF Next, NetworkThread, Faults

(* With nothing on its way, the Arduino holds what the client sent last,    *)
(* unless that was missed: over any restarts, breaks and losses.            *)
THEOREM Agreed == Spec => []Agreement
  <1>1. Init => AgreeInv
    BY DEF Init, AgreeInv
  <1>2. AgreeInv => Agreement
    BY DEF AgreeInv, Agreement
  <1> QED
    BY <1>1, <1>2, AgreeStep, PilotInvariance, PTL DEF Spec

=============================================================================
