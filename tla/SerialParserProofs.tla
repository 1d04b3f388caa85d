------------------------- MODULE SerialParserProofs -------------------------
(***************************************************************************)
(* Theorems about the bytes of the serial protocol, for every checksum     *)
(* whose steps are one-to-one, every message length, set of frames and     *)
(* noise: the parser's types, that an undamaged frame arrives after any    *)
(* noise, and that one damaged byte is never taken for another message.    *)
(*                                                                         *)
(* The checksums of a frame and what is sent of it are recursive functions *)
(* over the places of its content; set induction, from the least element   *)
(* of a set of numbers, shows that they exist and obey their equations.    *)
(* FrameInv says where the receiver is in the frame (the bytes that are    *)
(* left begin with those the sender has for that place) and what it has of *)
(* it: the sender's flags, number, data and checksum up to there, or a     *)
(* checksum that is not the sender's, which no right byte can mend because *)
(* a step of the checksum is one-to-one.                                   *)
(***************************************************************************)
EXTENDS SerialParser, SequenceTheorems, FiniteSetTheorems, NaturalsInduction,
        WellFoundedInduction, TLAPS

Frame == [flags : Byte, sn : Byte, data : Seq(Byte)]
States == {"Outside", "InMessageFlags", "InMessageSN", "InMessageData", "InMessageCRC"}
Parsers == [state : States, inCharacterEscape : BOOLEAN, flags : Byte, sn : Byte,
            computedCRC : Byte, data : Seq(Byte), calls : Seq(Frame)]

ParserTypes ==
    /\ parser \in Parsers /\ Len(parser.data) <= MaxMessageLength
    /\ line \in Seq(Byte)
    /\ frame \in SendFrames \cup {NoFrame}
    /\ pending \in BOOLEAN
    /\ fault \in {"none", "structure damaged", "content damaged", "byte lost"}
    /\ got \in Seq(Frame)

(* A frame, as the sender checks and sends it. *)
Size(f) == Len(Content(f))
CRCs(f) == Checksums(Content(f))
Fits(f) == Len(Encode(f)) < SendBufferSize

(* The line l holds the first of the bytes that are left of f, and all of   *)
(* them when the frame fits the send buffer.                                *)
Holds(l, bytes, f) ==
    /\ Len(l) <= Len(bytes)
    /\ \A k \in 1 .. Len(l) : l[k] = bytes[k]
    /\ Fits(f) => Len(l) = Len(bytes)

(* What a parser has of f before its i-th byte: that of the sender, or      *)
(* another checksum than the sender's, and then not all is clean.           *)
Same(p, f, i) ==
    /\ i > 1 => p.flags = f.flags
    /\ i > 2 => p.sn = f.sn
    /\ p.data = IF i > 3 THEN SubSeq(f.data, 1, i - 3) ELSE <<>>
    /\ p.computedCRC = CRCs(f)[i - 1]
Wrong(p, f, i, clean) == i > 1 /\ p.computedCRC # CRCs(f)[i - 1] /\ ~clean
Tracks(p, f, i, clean) == Same(p, f, i) \/ Wrong(p, f, i, clean)

(* Or it gave the frame up, whose data are too long.                        *)
GivenUp(p, f, clean) ==
    p.state = "Outside" /\ (clean => Len(f.data) > MaxMessageLength)

(* The parser is about to read the i-th byte, or the checksum.              *)
Stage(i) ==
    IF i = 1 THEN "InMessageFlags" ELSE IF i = 2 THEN "InMessageSN" ELSE "InMessageData"
Reads(p, f, i, clean) ==
    (i > 3 /\ GivenUp(p, f, clean)) \/ (p.state = Stage(i) /\ Tracks(p, f, i, clean))
ReadsCRC(p, f, clean) ==
    GivenUp(p, f, clean) \/ (p.state = "InMessageCRC" /\ Tracks(p, f, Size(f) + 1, clean))

(* What may have been handed over when the last byte was read.              *)
Heard(calls, f, clean) ==
    /\ \A i \in 1 .. Len(calls) : calls[i] = f \/ HasFlag(calls[i].flags, NoCRCCheck)
    /\ clean /\ Len(f.data) <= MaxMessageLength => calls = <<f>>

(* Nothing is wrong; or no more than one byte that a checksum covers.       *)
Clean == fault = "none" /\ ~MisreadFlags
Checked == fault = "none" \/ (fault = "content damaged" /\ ~MisreadFlags)

(* Where the receiver is in the frame.                                      *)
Start == Holds(line, Encode(frame), frame) /\ pending = parser.inCharacterEscape
AtByte(i, escaped) ==
    /\ Holds(line, IF escaped THEN Tail(SentFrom(frame)[i]) ELSE SentFrom(frame)[i], frame)
    /\ parser.inCharacterEscape = (escaped \/ (i = 1 /\ pending))
    /\ escaped => i <= Size(frame) /\ Content(frame)[i] \in Structural
    /\ Reads(parser, frame, i, Clean)
AtCRC(escaped) ==
    /\ Holds(line, IF escaped THEN Tail(LastByte(frame)) ELSE LastByte(frame), frame)
    /\ parser.inCharacterEscape = escaped
    /\ escaped => CRCs(frame)[Size(frame)] \in Structural
    /\ ReadsCRC(parser, frame, Clean)
Underway ==
    \/ Start
    \/ \E i \in 1 .. Size(frame) + 1, escaped \in BOOLEAN : AtByte(i, escaped)
    \/ \E escaped \in BOOLEAN : AtCRC(escaped)
Finished == line = <<>> /\ Heard(got, frame, Clean /\ Fits(frame))
Idle == line = <<>> /\ frame = NoFrame /\ got = <<>>

FrameInv == Checked => Idle \/ Finished \/ (got = <<>> /\ Underway)

-----------------------------------------------------------------------------
(* Induction, in a form that the provers can use: a set of numbers has a    *)
(* least one.                                                               *)

LEMMA LeastElement ==
    ASSUME NEW T \in SUBSET Nat, T # {}
    PROVE  \E x \in T : \A y \in T : ~(y < x)
  <1> DEFINE R == OpToRel(<, Nat)
  <1>1. R = {ss \in Nat \X Nat : ss[1] < ss[2]}
    BY DEF OpToRel
  <1>2. IsWellFoundedOn(R, Nat)
    BY NatLessThanWellFounded
  <1>3. \E x \in T : \A y \in T : ~(<<y, x>> \in R)
    <2> HIDE DEF R
    <2> QED
      BY <1>2, WFMin
  <1> QED
    BY <1>1, <1>3

LEMMA SetInduction ==
    ASSUME NEW n \in Nat, NEW S \in SUBSET Nat, 0 \in S,
           \A k \in 0 .. n - 1 : k \in S => k + 1 \in S
    PROVE  0 .. n \subseteq S
  <1> SUFFICES ASSUME NEW m \in 0 .. n, m \notin S PROVE FALSE
    OBVIOUS
  <1> DEFINE T == {k \in 0 .. n : k \notin S}
  <1>1. T \in SUBSET Nat /\ T # {}
    OBVIOUS
  <1>2. PICK x \in T : \A y \in T : ~(y < x)
    BY <1>1, LeastElement
  <1>3. x # 0 /\ x \in 0 .. n
    OBVIOUS
  <1>4. x - 1 \in 0 .. n - 1 /\ x - 1 < x
    BY <1>3
  <1>5. x - 1 \in S
    BY <1>2, <1>4
  <1> QED
    BY <1>4, <1>5

-----------------------------------------------------------------------------
(* The sender's bytes.                                                      *)

LEMMA Escapes ==
    /\ \A b \in Byte : IF b \in Structural THEN Escaped(b) = <<Backslash, EscapedAs[b]>>
                        ELSE Escaped(b) = <<b>>
    /\ \A b \in Structural : /\ EscapedAs[b] \in Byte \ Structural
                             /\ b \in Byte
                             /\ \A d \in Structural : EscapedAs[d] = EscapedAs[b] => d = b
    /\ Open \in Structural /\ Close \in Structural /\ Backslash \in Structural
    /\ Open \in Byte /\ Close \in Byte /\ Backslash \in Byte
  BY DEF Escaped, EscapedAs, Structural, Open, Close, Backslash, Byte

LEMMA EscapedType ==
    ASSUME NEW b \in Byte
    PROVE  Escaped(b) \in Seq(Byte)
  <1>1. CASE b \in Structural
    <2>1. EscapedAs[b] \in Byte /\ Backslash \in Byte /\ Escaped(b) = <<Backslash, EscapedAs[b]>>
      BY <1>1, Escapes
    <2> QED
      BY <2>1
  <1>2. CASE b \notin Structural
    <2>1. Escaped(b) = <<b>>
      BY <1>2, Escapes
    <2> QED
      BY <2>1
  <1> QED
    BY <1>1, <1>2

LEMMA ChecksumsDef ==
    ASSUME NEW bytes \in Seq(Byte)
    PROVE  /\ Checksums(bytes)[0] = 0
           /\ \A i \in 1 .. Len(bytes) :
                  Checksums(bytes)[i] = CRC8(Checksums(bytes)[i - 1], bytes[i])
           /\ \A i \in 0 .. Len(bytes) : Checksums(bytes)[i] \in Byte
  <1> DEFINE n == Len(bytes)
             Def(m, g) == g = [i \in 0 .. m |-> IF i = 0 THEN 0 ELSE CRC8(g[i - 1], bytes[i])]
             S == {m \in Nat : \E g : Def(m, g)}
  <1>1. n \in Nat
    OBVIOUS
  <1>2. 0 \in S
    <2>1. Def(0, [i \in 0 .. 0 |-> 0])
      OBVIOUS
    <2> QED
      BY <2>1
  <1>3. ASSUME NEW m \in 0 .. n - 1, m \in S PROVE m + 1 \in S
    <2>1. PICK g : Def(m, g)
      BY <1>3
    <2> DEFINE h == [i \in 0 .. m + 1 |-> IF i = m + 1 THEN CRC8(g[m], bytes[i]) ELSE g[i]]
    <2>2. \A i \in 0 .. m + 1 : h[i] = IF i = 0 THEN 0 ELSE CRC8(h[i - 1], bytes[i])
      BY <1>1, <2>1
    <2>3. Def(m + 1, h)
      BY <2>2
    <2> HIDE DEF Def, h
    <2>4. m + 1 \in Nat /\ \E k : Def(m + 1, k)
      BY <1>1, <2>3
    <2> QED
      BY <2>4
  <1>4. n \in S
    <2>1. S \in SUBSET Nat
      OBVIOUS
    <2>2. \A k \in 0 .. n - 1 : k \in S => k + 1 \in S
      BY <1>3
    <2> HIDE DEF S
    <2>3. 0 .. n \subseteq S
      BY <1>1, <1>2, <2>1, <2>2, SetInduction
    <2> QED
      BY <1>1, <2>3
  <1>5. Checksums(bytes) = CHOOSE g : Def(n, g)
    BY DEF Checksums
  <1>6. Def(n, Checksums(bytes))
    BY <1>4, <1>5
  <1> DEFINE T == {i \in Nat : i <= n => Checksums(bytes)[i] \in Byte}
  <1>7. Checksums(bytes)[0] = 0 /\ \A i \in 1 .. n :
            Checksums(bytes)[i] = CRC8(Checksums(bytes)[i - 1], bytes[i])
    BY <1>1, <1>6
  <1>8. 0 .. n \subseteq T
    <2>1. 0 \in T
      BY <1>7 DEF Byte
    <2>2. ASSUME NEW k \in 0 .. n - 1, k \in T PROVE k + 1 \in T
      <3>1. k \in Nat /\ k <= n /\ k + 1 \in 1 .. n /\ (k + 1) - 1 = k
        BY <1>1
      <3>2. Checksums(bytes)[k + 1] = CRC8(Checksums(bytes)[k], bytes[k + 1])
        BY <1>7, <3>1
      <3>3. Checksums(bytes)[k] \in Byte /\ bytes[k + 1] \in Byte
        BY <2>2, <3>1
      <3> QED
        BY <3>1, <3>2, <3>3, ParserAssumption
    <2>3. T \in SUBSET Nat
      OBVIOUS
    <2> HIDE DEF T
    <2> QED
      BY <1>1, <2>1, <2>2, <2>3, SetInduction
  <1> QED
    BY <1>1, <1>7, <1>8

LEMMA ContentDef ==
    ASSUME NEW f \in Frame
    PROVE  /\ Content(f) \in Seq(Byte) /\ Len(Content(f)) = Len(f.data) + 2
           /\ Len(f.data) \in Nat /\ f.data \in Seq(Byte) /\ f.flags \in Byte /\ f.sn \in Byte
           /\ Content(f)[1] = f.flags /\ Content(f)[2] = f.sn
           /\ \A i \in 3 .. Len(Content(f)) : Content(f)[i] = f.data[i - 2]
  <1>1. f.flags \in Byte /\ f.sn \in Byte /\ f.data \in Seq(Byte) /\ Len(f.data) \in Nat
    BY DEF Frame
  <1>2. /\ <<f.flags, f.sn>> \in Seq(Byte) /\ Len(<<f.flags, f.sn>>) = 2
        /\ <<f.flags, f.sn>>[1] = f.flags /\ <<f.flags, f.sn>>[2] = f.sn
    BY <1>1
  <1> QED
    BY <1>1, <1>2, ConcatProperties DEF Content

LEMMA LastByteDef ==
    ASSUME NEW f \in Frame
    PROVE  /\ Checksums(Content(f))[Len(Content(f))] \in Byte
           /\ LastByte(f) = Escaped(Checksums(Content(f))[Len(Content(f))])
           /\ LastByte(f) \in Seq(Byte)
  <1> DEFINE c == Checksums(Content(f))[Len(Content(f))]
  <1>1. c \in Byte
    BY ContentDef, ChecksumsDef
  <1>2. LastByte(f) = Escaped(c)
    BY DEF LastByte, Checksum
  <1> HIDE DEF c
  <1>3. Escaped(c) \in Seq(Byte)
    BY <1>1, EscapedType
  <1> QED
    BY <1>1, <1>2, <1>3 DEF c

LEMMA SentFromDef ==
    ASSUME NEW f \in Frame
    PROVE  /\ SentFrom(f)[Len(Content(f)) + 1] = <<Close>> \o LastByte(f)
           /\ \A i \in 1 .. Len(Content(f)) :
                  SentFrom(f)[i] = Escaped(Content(f)[i]) \o SentFrom(f)[i + 1]
           /\ \A i \in 1 .. Len(Content(f)) + 1 : SentFrom(f)[i] \in Seq(Byte)
  <1> DEFINE n == Len(Content(f))
             last == <<Close>> \o LastByte(f)
             Def(m, g) == g = [i \in n + 1 - m .. n + 1 |->
                                   IF i > n THEN last ELSE Escaped(Content(f)[i]) \o g[i + 1]]
             S == {m \in Nat : \E g : Def(m, g)}
  <1>1. n \in Nat /\ Content(f) \in Seq(Byte)
    BY ContentDef
  <1>2. 0 \in S
    <2>1. Def(0, [i \in n + 1 - 0 .. n + 1 |-> last])
      <3> HIDE DEF last, n
      <3>1. \A i \in n + 1 - 0 .. n + 1 : i > n
        BY <1>1
      <3> QED
        BY <3>1
    <2> QED
      BY <2>1
  <1>3. ASSUME NEW m \in 0 .. n - 1, m \in S PROVE m + 1 \in S
    <2>1. PICK g : Def(m, g)
      BY <1>3
    <2> DEFINE h == [i \in n + 1 - (m + 1) .. n + 1 |->
                         IF i = n - m THEN Escaped(Content(f)[i]) \o g[i + 1] ELSE g[i]]
    <2> HIDE DEF last
    <2>2. \A i \in n + 1 - (m + 1) .. n + 1 :
              h[i] = IF i > n THEN last ELSE Escaped(Content(f)[i]) \o h[i + 1]
      <3> HIDE DEF n
      <3>1. \A i \in n + 1 - m .. n + 1 : g[i] = IF i > n THEN last
                                                 ELSE Escaped(Content(f)[i]) \o g[i + 1]
        BY <2>1
      <3>2. m \in Nat /\ m <= n - 1 /\ n + 1 - (m + 1) = n - m
        BY <1>1
      <3> TAKE i \in n + 1 - (m + 1) .. n + 1
      <3>3. CASE i = n - m
        <4>1. i + 1 \in n + 1 - m .. n + 1 /\ i + 1 # n - m /\ ~(i > n)
              /\ i \in n + 1 - (m + 1) .. n + 1 /\ i + 1 \in n + 1 - (m + 1) .. n + 1
          BY <1>1, <3>2, <3>3
        <4>2. h[i] = Escaped(Content(f)[i]) \o g[i + 1] /\ h[i + 1] = g[i + 1]
          BY <3>3, <4>1
        <4> QED
          BY <4>1, <4>2
      <3>4. CASE i # n - m
        <4>1. i \in n + 1 - m .. n + 1 /\ h[i] = g[i]
          BY <1>1, <3>2, <3>4
        <4>2. CASE i > n
          BY <3>1, <4>1, <4>2
        <4>3. CASE ~(i > n)
          <5>1. i + 1 \in n + 1 - (m + 1) .. n + 1 /\ i + 1 # n - m
            BY <1>1, <3>2, <4>1, <4>3
          <5>2. h[i + 1] = g[i + 1]
            BY <5>1
          <5> QED
            BY <3>1, <4>1, <4>3, <5>2
        <4> QED
          BY <4>2, <4>3
      <3> QED
        BY <3>3, <3>4
    <2>3. Def(m + 1, h)
      <3> HIDE DEF n
      <3> QED
        BY <2>2
    <2> HIDE DEF Def, h
    <2>4. m + 1 \in Nat /\ \E k : Def(m + 1, k)
      BY <1>1, <2>3
    <2> QED
      BY <2>4
  <1>4. n \in S
    <2>1. S \in SUBSET Nat
      OBVIOUS
    <2>2. \A k \in 0 .. n - 1 : k \in S => k + 1 \in S
      BY <1>3
    <2> HIDE DEF S
    <2>3. 0 .. n \subseteq S
      BY <1>1, <1>2, <2>1, <2>2, SetInduction
    <2> QED
      BY <1>1, <2>3
  <1>5. n + 1 - n = 1
    BY <1>1
  <1>6. SentFrom(f) = CHOOSE g : Def(n, g)
    BY <1>5 DEF SentFrom
  <1>7. Def(n, SentFrom(f))
    BY <1>4, <1>6
  <1> HIDE DEF last
  <1>8. /\ SentFrom(f)[n + 1] = last
        /\ \A i \in 1 .. n : SentFrom(f)[i] = Escaped(Content(f)[i]) \o SentFrom(f)[i + 1]
    <2> HIDE DEF n
    <2>1. SentFrom(f) = [i \in n + 1 - n .. n + 1 |->
              IF i > n THEN last ELSE Escaped(Content(f)[i]) \o SentFrom(f)[i + 1]]
      BY <1>7
    <2>2. \A i \in 1 .. n + 1 : SentFrom(f)[i] =
              IF i > n THEN last ELSE Escaped(Content(f)[i]) \o SentFrom(f)[i + 1]
      BY <1>5, <2>1
    <2>3. n + 1 \in 1 .. n + 1 /\ n + 1 > n /\ \A i \in 1 .. n : i \in 1 .. n + 1 /\ ~(i > n)
      BY <1>1
    <2> QED
      BY <2>2, <2>3
  <1> DEFINE T == {m \in Nat : m <= n => SentFrom(f)[n + 1 - m] \in Seq(Byte)}
  <1>9. 0 .. n \subseteq T
    <2>1. 0 \in T
      <3>1. last \in Seq(Byte)
        BY LastByteDef, Escapes, ConcatProperties DEF last
      <3>2. n + 1 - 0 = n + 1
        BY <1>1
      <3> QED
        BY <1>1, <1>8, <3>1, <3>2
    <2>2. \A m \in 0 .. n - 1 : m \in T => m + 1 \in T
      <3> SUFFICES ASSUME NEW m \in 0 .. n - 1, m \in T PROVE m + 1 \in T
        OBVIOUS
      <3> HIDE DEF n
      <3>1. /\ m \in Nat /\ m <= n /\ n + 1 - (m + 1) \in 1 .. n
            /\ (n + 1 - (m + 1)) + 1 = n + 1 - m
        BY <1>1
      <3>2. SentFrom(f)[n + 1 - (m + 1)]
                = Escaped(Content(f)[n + 1 - (m + 1)]) \o SentFrom(f)[n + 1 - m]
        BY <1>8, <3>1
      <3>3. SentFrom(f)[n + 1 - m] \in Seq(Byte)
        BY <3>1
      <3>4. Content(f)[n + 1 - (m + 1)] \in Byte
        BY <1>1, <3>1 DEF n
      <3>5. Escaped(Content(f)[n + 1 - (m + 1)]) \in Seq(Byte)
        BY <3>4, EscapedType
      <3>6. SentFrom(f)[n + 1 - (m + 1)] \in Seq(Byte)
        BY <3>2, <3>3, <3>5, ConcatProperties
      <3> QED
        BY <3>1, <3>6
    <2>3. T \in SUBSET Nat
      OBVIOUS
    <2> HIDE DEF T, n
    <2> QED
      BY <1>1, <2>1, <2>2, <2>3, SetInduction
  <1>10. \A i \in 1 .. n + 1 : SentFrom(f)[i] \in Seq(Byte)
    <2> HIDE DEF n
    <2> TAKE i \in 1 .. n + 1
    <2>1. n + 1 - i \in 0 .. n /\ n + 1 - (n + 1 - i) = i
      BY <1>1
    <2>2. n + 1 - i \in T
      BY <1>9, <2>1
    <2>3. n + 1 - i <= n
      BY <1>1, <2>1
    <2> QED
      BY <2>1, <2>2, <2>3
  <1> QED
    BY <1>8, <1>10 DEF last

-----------------------------------------------------------------------------
(* What the checksum tells apart.                                           *)

LEMMA CRCInjective ==
    \A x, b, d \in Byte : /\ CRC8(x, b) = CRC8(x, d) => b = d
                          /\ CRC8(b, x) = CRC8(d, x) => b = d
  <1> SUFFICES ASSUME NEW x \in Byte
               PROVE  \A b, d \in Byte : /\ CRC8(x, b) = CRC8(x, d) => b = d
                                         /\ CRC8(b, x) = CRC8(d, x) => b = d
    OBVIOUS
  <1> DEFINE after == [b \in Byte |-> CRC8(x, b)]
             before == [b \in Byte |-> CRC8(b, x)]
             A == {CRC8(x, b) : b \in Byte}
             B == {CRC8(b, x) : b \in Byte}
  <1>1. IsFiniteSet(Byte) /\ Cardinality(Byte) = 256
    <2>1. IsFiniteSet(0 .. 255) /\ Cardinality(0 .. 255) = IF 0 > 255 THEN 0 ELSE 255 - 0 + 1
      <3>1. 0 \in Int /\ 255 \in Int
        OBVIOUS
      <3> QED
        BY <3>1, FS_Interval, Zenon
    <2>2. 255 - 0 + 1 = 256 /\ ~(0 > 255)
      OBVIOUS
    <2> QED
      BY <2>1, <2>2 DEF Byte
  <1>2. Cardinality(A) = 256 /\ Cardinality(B) = 256
    BY CRCAssumption
  <1>3. after \in Surjection(Byte, A) /\ before \in Surjection(Byte, B)
    BY DEF Surjection
  <1>4. after \in Injection(Byte, A)
    <2> HIDE DEF after, A
    <2> QED
      BY <1>1, <1>2, <1>3, FS_Surjection
  <1>5. before \in Injection(Byte, B)
    <2> HIDE DEF before, B
    <2> QED
      BY <1>1, <1>2, <1>3, FS_Surjection
  <1>6. /\ \A b, d \in Byte : after[b] = after[d] => b = d
        /\ \A b, d \in Byte : before[b] = before[d] => b = d
    <2> HIDE DEF after, before, A, B
    <2>1. DOMAIN after = Byte /\ DOMAIN before = Byte
      BY DEF after, before
    <2> QED
      BY <1>4, <1>5, <2>1, Zenon DEF Injection, IsInjective
  <1> QED
    BY <1>6

-----------------------------------------------------------------------------
(* What one byte does to a parser.                                          *)

LEMMA ParserFields ==
    \A p \in Parsers :
        /\ \A state \in States : [p EXCEPT !.state = state] \in Parsers
        /\ \A e \in BOOLEAN : [p EXCEPT !.inCharacterEscape = e] \in Parsers
        /\ \A b \in Byte : /\ [p EXCEPT !.flags = b] \in Parsers
                           /\ [p EXCEPT !.sn = b] \in Parsers
                           /\ [p EXCEPT !.computedCRC = b] \in Parsers
        /\ \A s \in Seq(Byte) : [p EXCEPT !.data = s] \in Parsers
        /\ \A s \in Seq(Frame) : [p EXCEPT !.calls = s] \in Parsers
  BY DEF Parsers

LEMMA ParserTyped ==
    \A p \in Parsers :
        /\ p.state \in States /\ p.inCharacterEscape \in BOOLEAN /\ p.data \in Seq(Byte)
        /\ p.flags \in Byte /\ p.sn \in Byte /\ p.computedCRC \in Byte /\ p.calls \in Seq(Frame)
  BY DEF Parsers

LEMMA BranchTypes ==
    ASSUME NEW p \in Parsers, NEW c \in Byte
    PROVE  /\ [p EXCEPT !.inCharacterEscape = TRUE] \in Parsers
           /\ StartFrame(p) \in Parsers /\ TakeFlags(p, c) \in Parsers /\ TakeSN(p, c) \in Parsers
           /\ [p EXCEPT !.state = "InMessageCRC"] \in Parsers
           /\ TakeData(p, c) \in Parsers /\ TakeCRC(p, c) \in Parsers
  <1>1. /\ "InMessageFlags" \in States /\ "InMessageSN" \in States /\ "InMessageData" \in States
        /\ "InMessageCRC" \in States /\ "Outside" \in States
    BY DEF States
  <1>2. <<>> \in Seq(Byte) /\ <<>> \in Seq(Frame) /\ 0 \in Byte /\ TRUE \in BOOLEAN
    BY DEF Byte
  <1>3. /\ p.flags \in Byte /\ p.sn \in Byte /\ p.data \in Seq(Byte)
        /\ CRC8(p.computedCRC, c) \in Byte
    BY ParserTyped, ParserAssumption
  <1>4. Append(p.data, c) \in Seq(Byte)
    BY <1>3
  <1>5. <<[flags |-> p.flags, sn |-> p.sn, data |-> p.data]>> \in Seq(Frame)
    <2>1. [flags |-> p.flags, sn |-> p.sn, data |-> p.data] \in Frame
      BY <1>3 DEF Frame
    <2> QED
      BY <2>1
  <1>6. [p EXCEPT !.inCharacterEscape = TRUE] \in Parsers
    BY <1>2, ParserFields, Zenon
  <1>7. StartFrame(p) \in Parsers
    BY <1>1, <1>2, ParserFields, Zenon DEF StartFrame
  <1>8. TakeFlags(p, c) \in Parsers
    BY <1>1, <1>3, ParserFields, Zenon DEF TakeFlags
  <1>9. TakeSN(p, c) \in Parsers
    BY <1>1, <1>3, ParserFields, Zenon DEF TakeSN
  <1>10. [p EXCEPT !.state = "InMessageCRC"] \in Parsers
    BY <1>1, ParserFields, Zenon
  <1>11. TakeData(p, c) \in Parsers
    <2>1. [p EXCEPT !.data = Append(@, c), !.computedCRC = CRC8(@, c)] \in Parsers
      BY <1>3, <1>4, ParserFields, Zenon
    <2>2. [p EXCEPT !.state = "Outside"] \in Parsers
      BY <1>1, ParserFields, Zenon
    <2> QED
      BY <2>1, <2>2 DEF TakeData
  <1>12. TakeCRC(p, c) \in Parsers
    <2> DEFINE calls == IF c = p.computedCRC \/ HasFlag(p.flags, NoCRCCheck)
                        THEN <<[flags |-> p.flags, sn |-> p.sn, data |-> p.data]>> ELSE <<>>
    <2>1. calls \in Seq(Frame)
      BY <1>2, <1>5
    <2>2. TakeCRC(p, c) = [p EXCEPT !.state = "Outside", !.calls = calls]
      BY DEF TakeCRC
    <2> HIDE DEF calls
    <2>3. [p EXCEPT !.state = "Outside", !.calls = calls] \in Parsers
      BY <1>1, <2>1, ParserFields, Zenon
    <2> QED
      BY <2>2, <2>3
  <1> QED
    BY <1>6, <1>7, <1>8, <1>9, <1>10, <1>11, <1>12

Is(p, state, escape, flags, sn, crc, data, calls) ==
    /\ p.state = state /\ p.inCharacterEscape = escape /\ p.flags = flags /\ p.sn = sn
    /\ p.computedCRC = crc /\ p.data = data /\ p.calls = calls

LEMMA UnescapedDef ==
    ASSUME NEW p \in Parsers, NEW raw \in Byte
    PROVE  /\ Unescaped(p, raw) \in Byte
           /\ ~p.inCharacterEscape => Unescaped(p, raw) = raw
           /\ \A b \in Structural : p.inCharacterEscape /\ raw = EscapedAs[b] =>
                  Unescaped(p, raw) = b
           /\ (\A b \in Structural : raw # EscapedAs[b]) => Unescaped(p, raw) = raw
  <1>1. CASE p.inCharacterEscape /\ \E b \in Structural : EscapedAs[b] = raw
    <2>1. Unescaped(p, raw) = CHOOSE b \in Structural : EscapedAs[b] = raw
      BY <1>1 DEF Unescaped
    <2>2. Unescaped(p, raw) \in Structural /\ EscapedAs[Unescaped(p, raw)] = raw
      BY <1>1, <2>1
    <2> QED
      BY <1>1, <2>2, Escapes
  <1>2. CASE ~(p.inCharacterEscape /\ \E b \in Structural : EscapedAs[b] = raw)
    <2>1. Unescaped(p, raw) = raw
      BY <1>2 DEF Unescaped
    <2> QED
      BY <1>2, <2>1
  <1> QED
    BY <1>1, <1>2

(* What a byte makes of a parser, c being what it stands for. *)
Becomes(q, p, raw, c) ==
    /\ raw = Backslash =>
           Is(q, p.state, TRUE, p.flags, p.sn, p.computedCRC, p.data, <<>>)
    /\ raw = Open =>
           Is(q, "InMessageFlags", p.inCharacterEscape, 0, 0, 0, <<>>, <<>>)
    /\ raw \notin {Backslash, Open} =>
           /\ p.state = "InMessageFlags" =>
                  Is(q, "InMessageSN", FALSE, c, p.sn, CRC8(p.computedCRC, c), p.data, <<>>)
           /\ p.state = "InMessageSN" =>
                  Is(q, "InMessageData", FALSE, p.flags, c, CRC8(p.computedCRC, c), p.data,
                     <<>>)
           /\ p.state = "InMessageData" /\ raw = Close =>
                  Is(q, "InMessageCRC", FALSE, p.flags, p.sn, p.computedCRC, p.data, <<>>)
           /\ p.state = "InMessageData" /\ raw # Close /\ Len(p.data) < MaxMessageLength =>
                  Is(q, "InMessageData", FALSE, p.flags, p.sn, CRC8(p.computedCRC, c),
                     Append(p.data, c), <<>>)
           /\ p.state = "InMessageData" /\ raw # Close /\ ~(Len(p.data) < MaxMessageLength) =>
                  Is(q, "Outside", FALSE, p.flags, p.sn, p.computedCRC, p.data, <<>>)
           /\ p.state = "InMessageCRC" =>
                  Is(q, "Outside", FALSE, p.flags, p.sn, p.computedCRC, p.data,
                     IF c = p.computedCRC \/ HasFlag(p.flags, NoCRCCheck)
                     THEN <<[flags |-> p.flags, sn |-> p.sn, data |-> p.data]>> ELSE <<>>)
           /\ p.state = "Outside" =>
                  Is(q, "Outside", FALSE, p.flags, p.sn, p.computedCRC, p.data, <<>>)

LEMMA Received ==
    ASSUME NEW p \in Parsers, NEW raw \in Byte, NEW q, q = ReceiveChar(p, raw),
           NEW c, c = Unescaped(p, raw)
    PROVE  q \in Parsers /\ Becomes(q, p, raw, c)
  <1> USE DEF Becomes
  <1> DEFINE p1 == [p EXCEPT !.calls = <<>>]
             q1 == [p1 EXCEPT !.inCharacterEscape = FALSE]
  <1>0. <<>> \in Seq(Frame) /\ <<>> \in Seq(Byte) /\ FALSE \in BOOLEAN /\ TRUE \in BOOLEAN
        /\ 0 \in Byte
    BY DEF Byte
  <1>1. p1 \in Parsers /\ q1 \in Parsers
    BY <1>0, ParserFields, Zenon
  <1>2. /\ Is(p1, p.state, p.inCharacterEscape, p.flags, p.sn, p.computedCRC, p.data, <<>>)
        /\ Is(q1, p.state, FALSE, p.flags, p.sn, p.computedCRC, p.data, <<>>)
    BY DEF Parsers, Is
  <1>3. c = Unescaped(p1, raw) /\ c \in Byte
    BY <1>2, UnescapedDef DEF Unescaped, Is
  <1>4. q = CASE raw = Backslash -> [p1 EXCEPT !.inCharacterEscape = TRUE]
              [] raw = Open -> StartFrame(p1)
              [] raw \notin {Backslash, Open} /\ p1.state = "InMessageFlags" -> TakeFlags(q1, c)
              [] raw \notin {Backslash, Open} /\ p1.state = "InMessageSN" -> TakeSN(q1, c)
              [] raw = Close /\ p1.state = "InMessageData" -> [q1 EXCEPT !.state = "InMessageCRC"]
              [] raw \notin {Backslash, Open, Close} /\ p1.state = "InMessageData" ->
                     TakeData(q1, c)
              [] raw \notin {Backslash, Open} /\ p1.state = "InMessageCRC" -> TakeCRC(q1, c)
              [] raw \notin {Backslash, Open} /\ p1.state = "Outside" -> q1
    BY <1>3 DEF ReceiveChar
  <1> HIDE DEF p1, q1
  <1>5. p1.state = p.state /\ p.state \in States /\ Backslash # Open /\ Close # Open /\ Close # Backslash
    BY <1>2, ParserTyped DEF Is, Open, Close, Backslash
  <1>6. /\ q1.flags \in Byte /\ q1.sn \in Byte /\ q1.computedCRC \in Byte /\ q1.data \in Seq(Byte)
        /\ CRC8(q1.computedCRC, c) \in Byte
    BY <1>1, <1>3, ParserTyped, ParserAssumption
  <1>7. "InMessageFlags" \in States /\ "InMessageSN" \in States /\ "InMessageData" \in States
        /\ "InMessageCRC" \in States /\ "Outside" \in States
    BY DEF States
  <1>8. CASE raw = Backslash
    <2>1. q = [p1 EXCEPT !.inCharacterEscape = TRUE]
      BY <1>4, <1>5, <1>8
    <2>2. q \in Parsers
      BY <1>1, <1>3, <2>1, BranchTypes
    <2>3. Is(q, p.state, TRUE, p.flags, p.sn, p.computedCRC, p.data, <<>>)
      BY <1>1, <1>2, <2>1 DEF Is, Parsers
    <2> QED
      BY <1>5, <1>8, <2>2, <2>3
  <1>9. CASE raw = Open
    <2>1. q = StartFrame(p1)
      BY <1>4, <1>5, <1>9
    <2>2. q \in Parsers
      BY <1>1, <1>3, <2>1, BranchTypes
    <2>3. Is(q, "InMessageFlags", p.inCharacterEscape, 0, 0, 0, <<>>, <<>>)
      BY <1>1, <1>2, <2>1 DEF Is, Parsers, StartFrame
    <2> QED
      BY <1>5, <1>9, <2>2, <2>3
  <1>10. CASE raw \notin {Backslash, Open} /\ p.state = "InMessageFlags"
    <2>1. q = TakeFlags(q1, c)
      BY <1>4, <1>5, <1>10
    <2>2. q \in Parsers
      BY <1>1, <1>3, <2>1, BranchTypes
    <2>3. Is(q, "InMessageSN", FALSE, c, p.sn, CRC8(p.computedCRC, c), p.data, <<>>)
      BY <1>1, <1>2, <2>1 DEF Is, Parsers, TakeFlags
    <2> QED
      BY <1>10, <2>2, <2>3
  <1>11. CASE raw \notin {Backslash, Open} /\ p.state = "InMessageSN"
    <2>1. q = TakeSN(q1, c)
      BY <1>4, <1>5, <1>11
    <2>2. q \in Parsers
      BY <1>1, <1>3, <2>1, BranchTypes
    <2>3. Is(q, "InMessageData", FALSE, p.flags, c, CRC8(p.computedCRC, c), p.data, <<>>)
      BY <1>1, <1>2, <2>1 DEF Is, Parsers, TakeSN
    <2> QED
      BY <1>11, <2>2, <2>3
  <1>12. CASE raw = Close /\ p.state = "InMessageData"
    <2>1. q = [q1 EXCEPT !.state = "InMessageCRC"]
      BY <1>4, <1>5, <1>12
    <2>2. q \in Parsers
      BY <1>1, <1>3, <2>1, BranchTypes
    <2>3. Is(q, "InMessageCRC", FALSE, p.flags, p.sn, p.computedCRC, p.data, <<>>)
      BY <1>1, <1>2, <2>1 DEF Is, Parsers
    <2> QED
      BY <1>5, <1>12, <2>2, <2>3
  <1>13. CASE raw \notin {Backslash, Open, Close} /\ p.state = "InMessageData"
    <2>1. q = TakeData(q1, c) /\ q1.data = p.data
      BY <1>2, <1>4, <1>5, <1>13 DEF Is
    <2>2. CASE Len(p.data) < MaxMessageLength
      <3>1. q = [q1 EXCEPT !.data = Append(@, c), !.computedCRC = CRC8(@, c)]
        BY <2>1, <2>2 DEF TakeData
      <3>3. q \in Parsers
        BY <1>1, <1>3, <2>1, BranchTypes
      <3>4. Is(q, "InMessageData", FALSE, p.flags, p.sn, CRC8(p.computedCRC, c),
               Append(p.data, c), <<>>)
        BY <1>1, <1>2, <1>13, <3>1 DEF Is, Parsers
      <3> QED
        BY <1>13, <2>2, <3>3, <3>4
    <2>3. CASE ~(Len(p.data) < MaxMessageLength)
      <3>1. q = [q1 EXCEPT !.state = "Outside"]
        BY <2>1, <2>3 DEF TakeData
      <3>2. q \in Parsers
        BY <1>1, <1>3, <2>1, BranchTypes
      <3>3. Is(q, "Outside", FALSE, p.flags, p.sn, p.computedCRC, p.data, <<>>)
        BY <1>1, <1>2, <3>1 DEF Is, Parsers
      <3> QED
        BY <1>13, <2>3, <3>2, <3>3
    <2> QED
      BY <2>2, <2>3
  <1>14. CASE raw \notin {Backslash, Open} /\ p.state = "InMessageCRC"
    <2> DEFINE calls == IF c = p.computedCRC \/ HasFlag(p.flags, NoCRCCheck)
                        THEN <<[flags |-> p.flags, sn |-> p.sn, data |-> p.data]>> ELSE <<>>
    <2>1. q = TakeCRC(q1, c)
      BY <1>4, <1>5, <1>14
    <2>2. q = [q1 EXCEPT !.state = "Outside", !.calls = calls]
      BY <1>2, <2>1 DEF TakeCRC, Is
    <2> HIDE DEF calls
    <2>4. q \in Parsers
      BY <1>1, <1>3, <2>1, BranchTypes
    <2>5. Is(q, "Outside", FALSE, p.flags, p.sn, p.computedCRC, p.data, calls)
      BY <1>1, <1>2, <2>2 DEF Is, Parsers
    <2> QED
      BY <1>14, <2>4, <2>5 DEF calls
  <1>15. CASE raw \notin {Backslash, Open} /\ p.state = "Outside"
    <2>1. q = q1
      BY <1>4, <1>5, <1>15
    <2> QED
      BY <1>1, <1>2, <1>15, <2>1
  <1> QED
    BY <1>5, <1>8, <1>9, <1>10, <1>11, <1>12, <1>13, <1>14, <1>15 DEF States

-----------------------------------------------------------------------------
(* Types.                                                                   *)

LEMMA FrameTypes ==
    /\ SendFrames \subseteq Frame /\ NoFrame \in Frame
    /\ \A f \in Frame : f = [flags |-> f.flags, sn |-> f.sn, data |-> f.data]
  <1>1. SendFrames \subseteq Frame
    BY ParserAssumption DEF Frame
  <1>2. <<>> \in Seq(Byte) /\ 0 \in Byte
    BY DEF Byte
  <1>3. NoFrame \in Frame
    BY <1>2 DEF NoFrame, Frame
  <1>4. \A f \in Frame : f = [flags |-> f.flags, sn |-> f.sn, data |-> f.data]
    BY DEF Frame
  <1> QED
    BY <1>1, <1>3, <1>4

LEMMA EncodeDef ==
    ASSUME NEW f \in Frame
    PROVE  /\ SentFrom(f)[1] \in Seq(Byte) /\ Encode(f) = <<Open>> \o SentFrom(f)[1]
           /\ Encode(f) \in Seq(Byte) /\ Len(Encode(f)) >= 1
  <1>1. SentFrom(f)[1] \in Seq(Byte)
    <2>1. 1 \in 1 .. Len(Content(f)) + 1
      BY ContentDef
    <2> QED
      BY <2>1, SentFromDef
  <1>2. <<Open>> \in Seq(Byte) /\ Len(<<Open>>) = 1
    BY Escapes
  <1>3. Encode(f) = <<Open>> \o SentFrom(f)[1]
    BY DEF Encode
  <1>4. Encode(f) \in Seq(Byte) /\ Len(Encode(f)) = 1 + Len(SentFrom(f)[1])
    BY <1>1, <1>2, <1>3, ConcatProperties
  <1> QED
    BY <1>1, <1>3, <1>4

LEMMA BufferedDef ==
    ASSUME NEW s \in Seq(Byte)
    PROVE  /\ Buffered(s) \in Seq(Byte) /\ Len(Buffered(s)) <= Len(s)
           /\ \A k \in 1 .. Len(Buffered(s)) : Buffered(s)[k] = s[k]
           /\ Len(s) < SendBufferSize => Len(Buffered(s)) = Len(s)
  <1> DEFINE n == IF Len(s) < SendBufferSize THEN Len(s) ELSE SendBufferSize - 1
  <1>1. SendBufferSize \in Nat /\ SendBufferSize >= 4 /\ Len(s) \in Nat
    BY ParserAssumption DEF SendBufferSize
  <1>2. n \in 0 .. Len(s)
    BY <1>1
  <1>3. Buffered(s) = SubSeq(s, 1, n)
    BY DEF Buffered
  <1>4. Len(s) < SendBufferSize => n = Len(s)
    OBVIOUS
  <1> HIDE DEF n
  <1>5. \A k \in 1 .. n : s[k] \in Byte
    BY <1>1, <1>2
  <1>6. SubSeq(s, 1, n) \in Seq(Byte) /\ Len(SubSeq(s, 1, n)) = n
        /\ \A k \in 1 .. n : SubSeq(s, 1, n)[k] = s[k]
    BY <1>1, <1>2, <1>5, SubSeqProperties
  <1> QED
    BY <1>2, <1>3, <1>4, <1>6

LEMMA Bounded ==
    ASSUME NEW p \in Parsers, NEW raw \in Byte, Len(p.data) <= MaxMessageLength
    PROVE  /\ ReceiveChar(p, raw) \in Parsers
           /\ Len(ReceiveChar(p, raw).data) <= MaxMessageLength
           /\ ReceiveChar(p, raw).calls \in Seq(Frame)
  <1> DEFINE q == ReceiveChar(p, raw)
             c == Unescaped(p, raw)
  <1>1. q \in Parsers /\ c \in Byte
    BY Received, UnescapedDef
  <1>5. Becomes(q, p, raw, c)
    BY Received, Zenon
  <1>2. \/ q.data = p.data
        \/ q.data = <<>>
        \/ q.data = Append(p.data, c) /\ Len(p.data) < MaxMessageLength
    <2> HIDE DEF q, c
    <2>1. CASE raw \in {Backslash, Open}
      BY <1>5, <2>1 DEF Becomes, Is
    <2>2. CASE raw \notin {Backslash, Open}
      <3>1. p.state \in States
        BY ParserTyped
      <3>2. CASE p.state = "InMessageData"
        BY <1>5, <2>2, <3>2 DEF Becomes, Is
      <3>3. CASE p.state # "InMessageData"
        BY <1>5, <2>2, <3>1, <3>3 DEF Becomes, Is, States
      <3> QED
        BY <3>2, <3>3
    <2> QED
      BY <2>1, <2>2
  <1> HIDE DEF q, c
  <1>3. p.data \in Seq(Byte) /\ MaxMessageLength \in Nat /\ Len(p.data) \in Nat
    BY ParserTyped, ParserAssumption
  <1>4. Len(q.data) <= MaxMessageLength
    BY <1>1, <1>2, <1>3
  <1> QED
    BY <1>1, <1>4, ParserTyped DEF q

LEMMA TypesInit == Init => ParserTypes
  <1> SUFFICES ASSUME Init PROVE ParserTypes
    OBVIOUS
  <1>1. <<>> \in Seq(Byte) /\ <<>> \in Seq(Frame) /\ Len(<<>>) = 0 /\ 0 \in Byte
    BY DEF Byte
  <1>2. NewParser \in Parsers /\ NewParser.data = <<>>
    BY <1>1 DEF NewParser, Parsers, States
  <1>3. Len(NewParser.data) <= MaxMessageLength
    <2>1. 0 <= MaxMessageLength
      BY ParserAssumption
    <2> QED
      BY <1>1, <1>2, <2>1
  <1>4. parser \in Parsers /\ Len(parser.data) <= MaxMessageLength
    BY <1>2, <1>3 DEF Init
  <1>5. line \in Seq(Byte) /\ got \in Seq(Frame)
    BY <1>1 DEF Init
  <1>6. frame \in SendFrames \cup {NoFrame} /\ pending \in BOOLEAN
        /\ fault \in {"none", "structure damaged", "content damaged", "byte lost"}
    BY DEF Init
  <1> QED
    BY <1>4, <1>5, <1>6 DEF ParserTypes

LEMMA TypesStep ==
    ASSUME ParserTypes, [Next]_vars
    PROVE  ParserTypes'
  <1>1. ASSUME NEW b \in NoiseBytes, Noise(b) PROVE ParserTypes'
    <2>1. b \in Byte
      BY ParserAssumption
    <2>2. parser' \in Parsers /\ Len(parser'.data) <= MaxMessageLength
      BY <1>1, <2>1, Bounded DEF Noise, ParserTypes
    <2>3. <<>> \in Seq(Frame)
      OBVIOUS
    <2> QED
      BY <1>1, <2>2, <2>3 DEF Noise, ParserTypes
  <1>2. ASSUME NEW f \in SendFrames, Send(f) PROVE ParserTypes'
    <2>1. f \in Frame
      BY FrameTypes
    <2>2. line' \in Seq(Byte)
      BY <1>2, <2>1, EncodeDef, BufferedDef DEF Send
    <2>3. <<>> \in Seq(Frame) /\ pending' \in BOOLEAN
      <3>1. parser \in Parsers /\ pending' = parser.inCharacterEscape
        BY <1>2 DEF Send, ParserTypes
      <3>2. parser.inCharacterEscape \in BOOLEAN
        BY <3>1, ParserTyped
      <3> QED
        BY <3>1, <3>2
    <2> QED
      BY <1>2, <2>2, <2>3 DEF Send, ParserTypes
  <1>3. ASSUME NEW b \in Byte, ArriveAs(b), line # <<>>
        PROVE  /\ parser' \in Parsers /\ Len(parser'.data) <= MaxMessageLength
               /\ line' \in Seq(Byte) /\ frame' = frame /\ pending' = pending
               /\ got' \in Seq(Frame)
    <2>1. /\ parser' \in Parsers /\ Len(parser'.data) <= MaxMessageLength
          /\ parser'.calls \in Seq(Frame)
      BY <1>3, Bounded DEF ArriveAs, ParserTypes
    <2>2. got' \in Seq(Frame)
      BY <1>3, <2>1, ConcatProperties DEF ArriveAs, ParserTypes
    <2>3. line' \in Seq(Byte)
      BY <1>3, HeadTailProperties DEF ArriveAs, ParserTypes
    <2> QED
      BY <1>3, <2>1, <2>2, <2>3 DEF ArriveAs
  <1>4. CASE Arrive
    <2>1. line # <<>> /\ ArriveAs(Head(line)) /\ fault' = fault
      BY <1>4 DEF Arrive
    <2>2. Head(line) \in Byte
      BY <2>1, HeadTailProperties DEF ParserTypes
    <2> QED
      BY <1>3, <2>1, <2>2 DEF ParserTypes
  <1>5. ASSUME NEW b \in NoiseBytes, Damage(b) PROVE ParserTypes'
    <2>1. b \in Byte /\ line # <<>> /\ ArriveAs(b)
      BY <1>5, ParserAssumption DEF Damage
    <2>2. fault' \in {"structure damaged", "content damaged"}
      BY <1>5 DEF Damage
    <2> QED
      BY <1>3, <2>1, <2>2 DEF ParserTypes
  <1>6. CASE LoseByte
    <2>1. line' \in Seq(Byte)
      BY <1>6, HeadTailProperties DEF LoseByte, ParserTypes
    <2> QED
      BY <1>6, <2>1 DEF LoseByte, ParserTypes
  <1>7. CASE UNCHANGED vars
    BY <1>7 DEF vars, ParserTypes
  <1> QED
    BY <1>1, <1>2, <1>4, <1>5, <1>6, <1>7 DEF Next

(* Every field of the parser keeps its type and the data never outgrow      *)
(* currentMessageData, for every message length, noise and damage.          *)
THEOREM TypeCorrect == Spec => []TypeOK
  <1>1. ParserTypes => TypeOK
    BY ParserTyped DEF ParserTypes, TypeOK, States
  <1>2. Init => ParserTypes
    BY TypesInit
  <1>3. ParserTypes /\ [Next]_vars => ParserTypes'
    BY TypesStep
  <1> QED
    BY <1>1, <1>2, <1>3, PTL DEF Spec

-----------------------------------------------------------------------------
(* The line, one byte at a time.                                            *)

LEMMA Advance ==
    ASSUME NEW l \in Seq(Byte), NEW f, NEW b \in Byte, NEW r \in Seq(Byte),
           Holds(l, <<b>> \o r, f), l # <<>>
    PROVE  Head(l) = b /\ Holds(Tail(l), r, f)
  <1> DEFINE s == <<b>> \o r
  <1>1. <<b>> \in Seq(Byte) /\ Len(<<b>>) = 1 /\ <<b>>[1] = b
    OBVIOUS
  <1>2. /\ s \in Seq(Byte) /\ Len(s) = 1 + Len(r) /\ Len(r) \in Nat
        /\ s[1] = b /\ \A k \in 1 .. Len(r) : s[k + 1] = r[k]
    <2>1. /\ s \in Seq(Byte) /\ Len(s) = 1 + Len(r) /\ Len(r) \in Nat
          /\ \A i \in 1 .. 1 + Len(r) : s[i] = IF i <= 1 THEN <<b>>[i] ELSE r[i - 1]
      BY <1>1, ConcatProperties
    <2>2. 1 \in 1 .. 1 + Len(r)
      BY <2>1
    <2>3. s[1] = b
      BY <1>1, <2>1, <2>2
    <2>4. ASSUME NEW k \in 1 .. Len(r) PROVE s[k + 1] = r[k]
      <3>1. k + 1 \in 1 .. 1 + Len(r) /\ ~(k + 1 <= 1) /\ (k + 1) - 1 = k
        BY <2>1
      <3> HIDE DEF s
      <3> QED
        BY <2>1, <3>1
    <2> QED
      BY <2>1, <2>3, <2>4
  <1> HIDE DEF s
  <1>3. /\ Len(l) \in Nat /\ Len(l) >= 1 /\ Head(l) = l[1] /\ Tail(l) \in Seq(Byte)
        /\ Len(Tail(l)) = Len(l) - 1 /\ \A k \in 1 .. Len(Tail(l)) : Tail(l)[k] = l[k + 1]
    BY HeadTailProperties, EmptySeq
  <1>4. /\ Len(l) <= Len(s) /\ \A k \in 1 .. Len(l) : l[k] = s[k]
        /\ Fits(f) => Len(l) = Len(s)
    BY DEF Holds, s
  <1>5. Head(l) = b
    <2>1. 1 \in 1 .. Len(l)
      BY <1>3
    <2>2. l[1] = s[1]
      BY <1>4, <2>1, Zenon
    <2> QED
      BY <1>2, <1>3, <2>2, Zenon
  <1>6. Len(Tail(l)) <= Len(r) /\ (Fits(f) => Len(Tail(l)) = Len(r))
    <2> DEFINE m == Len(l)
               n == Len(r)
    <2>1. m \in Nat /\ n \in Nat /\ m <= 1 + n /\ (Fits(f) => m = 1 + n)
      BY <1>2, <1>3, <1>4, Zenon
    <2>2. Len(Tail(l)) = m - 1
      BY <1>3, Zenon
    <2> HIDE DEF m, n
    <2>3. m - 1 <= n /\ (Fits(f) => m - 1 = n)
      BY <2>1
    <2> QED
      BY <2>2, <2>3, Zenon DEF n
  <1>7. ASSUME NEW k \in 1 .. Len(Tail(l)) PROVE Tail(l)[k] = r[k]
    <2>1. k \in 1 .. Len(r) /\ k + 1 \in 1 .. Len(l)
      BY <1>2, <1>3, <1>6
    <2> QED
      BY <1>2, <1>3, <1>4, <2>1
  <1> QED
    BY <1>5, <1>6, <1>7 DEF Holds

LEMMA More ==
    ASSUME NEW l \in Seq(Byte), NEW f, NEW b \in Byte, NEW r \in Seq(Byte),
           Holds(l, <<b>> \o r, f), Fits(f)
    PROVE  l # <<>>
  <1>1. <<b>> \in Seq(Byte) /\ Len(<<b>>) = 1
    OBVIOUS
  <1>2. Len(<<b>> \o r) = 1 + Len(r) /\ Len(r) \in Nat
    BY <1>1, ConcatProperties
  <1>3. Len(l) = Len(<<b>> \o r)
    BY DEF Holds
  <1> QED
    BY <1>2, <1>3

(* The bytes s are b, escaped if it has to be, and then r. *)
Spells(s, b, r) ==
    /\ b \in Structural => /\ EscapedAs[b] \in Byte \ Structural
                           /\ <<EscapedAs[b]>> \o r \in Seq(Byte)
                           /\ s = <<Backslash>> \o (<<EscapedAs[b]>> \o r)
                           /\ Tail(s) = <<EscapedAs[b]>> \o r
    /\ b \notin Structural => s = <<b>> \o r

LEMMA EscapedFrom ==
    ASSUME NEW b \in Byte, NEW r \in Seq(Byte)
    PROVE  Spells(Escaped(b) \o r, b, r)
  <1> USE DEF Spells
  <1>1. CASE b \in Structural
    <2> DEFINE e == EscapedAs[b]
    <2>1. e \in Byte /\ e \notin Structural /\ Backslash \in Byte /\ Escaped(b) = <<Backslash, e>>
      BY <1>1, Escapes
    <2> HIDE DEF e
    <2>2. <<e>> \o r \in Seq(Byte)
      BY <2>1, ConcatProperties
    <2>3. <<Backslash, e>> \o r = <<Backslash>> \o (<<e>> \o r)
      BY <2>1, <2>2
    <2>4. Tail(<<Backslash>> \o (<<e>> \o r)) = <<e>> \o r
      BY <2>1, <2>2
    <2> QED
      BY <1>1, <2>1, <2>2, <2>3, <2>4 DEF e
  <1>2. CASE b \notin Structural
    <2>1. Escaped(b) = <<b>>
      BY <1>2, Escapes
    <2> QED
      BY <1>2, <2>1
  <1> QED
    BY <1>1, <1>2

LEMMA FromByte ==
    ASSUME NEW f \in Frame, NEW i \in 1 .. Size(f), NEW b, b = Content(f)[i],
           NEW r, r = SentFrom(f)[i + 1]
    PROVE  b \in Byte /\ r \in Seq(Byte) /\ Spells(SentFrom(f)[i], b, r)
  <1>1. Size(f) \in Nat /\ Content(f) \in Seq(Byte) /\ i \in 1 .. Len(Content(f))
    BY ContentDef DEF Size
  <1>2. b \in Byte
    BY <1>1
  <1>3. i + 1 \in 1 .. Len(Content(f)) + 1
    BY <1>1 DEF Size
  <1>4. r \in Seq(Byte) /\ SentFrom(f)[i] = Escaped(b) \o r
    BY <1>1, <1>3, SentFromDef
  <1> QED
    BY <1>2, <1>4, EscapedFrom, Zenon

LEMMA FromCRC ==
    ASSUME NEW f \in Frame, NEW c, c = CRCs(f)[Size(f)]
    PROVE  c \in Byte /\ <<>> \in Seq(Byte) /\ Spells(LastByte(f), c, <<>>)
  <1>1. c \in Byte /\ LastByte(f) = Escaped(c)
    BY LastByteDef DEF CRCs, Size
  <1>2. <<>> \in Seq(Byte)
    OBVIOUS
  <1>3. Escaped(c) \o <<>> = Escaped(c)
    BY <1>1, EscapedType
  <1> QED
    BY <1>1, <1>2, <1>3, EscapedFrom, Zenon

LEMMA FromClose ==
    ASSUME NEW f \in Frame
    PROVE  /\ LastByte(f) \in Seq(Byte) /\ Close \in Byte
           /\ SentFrom(f)[Size(f) + 1] = <<Close>> \o LastByte(f)
  BY LastByteDef, SentFromDef, Escapes DEF Size

-----------------------------------------------------------------------------
(* What the parser knows, one byte at a time.                               *)

LEMMA FrameFacts ==
    ASSUME NEW f \in Frame
    PROVE  /\ Size(f) \in Nat /\ Size(f) = Len(f.data) + 2 /\ Len(f.data) \in Nat
           /\ f.data \in Seq(Byte) /\ CRCs(f)[0] = 0
           /\ Content(f)[1] = f.flags /\ Content(f)[2] = f.sn
           /\ \A i \in 3 .. Size(f) : Content(f)[i] = f.data[i - 2]
           /\ \A i \in 1 .. Size(f) : /\ CRCs(f)[i] = CRC8(CRCs(f)[i - 1], Content(f)[i])
                                      /\ Content(f)[i] \in Byte
           /\ \A i \in 0 .. Size(f) : CRCs(f)[i] \in Byte
  <1>1. /\ Content(f) \in Seq(Byte) /\ Len(Content(f)) = Len(f.data) + 2
        /\ Len(f.data) \in Nat /\ f.data \in Seq(Byte)
        /\ Content(f)[1] = f.flags /\ Content(f)[2] = f.sn
        /\ \A i \in 3 .. Len(Content(f)) : Content(f)[i] = f.data[i - 2]
    BY ContentDef, Zenon
  <1>2. /\ Checksums(Content(f))[0] = 0
        /\ \A i \in 1 .. Len(Content(f)) :
               Checksums(Content(f))[i] = CRC8(Checksums(Content(f))[i - 1], Content(f)[i])
        /\ \A i \in 0 .. Len(Content(f)) : Checksums(Content(f))[i] \in Byte
    BY <1>1, ChecksumsDef, Zenon
  <1>3. \A i \in 1 .. Len(Content(f)) : Content(f)[i] \in Byte
    BY <1>1
  <1>4. Len(Content(f)) \in Nat
    BY <1>1
  <1> QED
    BY <1>1, <1>2, <1>3, <1>4, Zenon DEF Size, CRCs

(* The checksum stays right only with the right byte on the right one.      *)
LEMMA CRCStep ==
    ASSUME NEW f \in Frame, NEW i \in 1 .. Size(f), NEW p \in Parsers, NEW c \in Byte,
           NEW q, q.computedCRC = CRC8(p.computedCRC, c)
    PROVE  LET d == Content(f)[i]
               right == p.computedCRC = CRCs(f)[i - 1]
               still == q.computedCRC = CRCs(f)[i]
           IN  /\ right /\ c = d => still
               /\ right /\ c # d => ~still
               /\ ~right /\ c = d => ~still
  <1>0. ASSUME NEW x \in Byte, NEW y \in Byte, NEW d \in Byte
        PROVE  /\ CRC8(x, c) = CRC8(x, d) => c = d
               /\ CRC8(y, d) = CRC8(x, d) => y = x
    BY CRCInjective
  <1> DEFINE x == CRCs(f)[i - 1]
             d == Content(f)[i]
  <1>1. i - 1 \in 0 .. Size(f)
    BY FrameFacts
  <1>2. x \in Byte /\ d \in Byte /\ CRCs(f)[i] = CRC8(x, d)
    BY <1>1, FrameFacts
  <1>3. p.computedCRC \in Byte
    BY ParserTyped
  <1> HIDE DEF x, d
  <1>4. /\ CRC8(x, c) = CRC8(x, d) => c = d
        /\ CRC8(p.computedCRC, d) = CRC8(x, d) => p.computedCRC = x
    BY <1>0, <1>2, <1>3
  <1> QED
    BY <1>2, <1>4 DEF x, d

LEMMA DataStep ==
    ASSUME NEW f \in Frame, NEW i \in 3 .. Size(f)
    PROVE  Append(IF i > 3 THEN SubSeq(f.data, 1, i - 3) ELSE <<>>, Content(f)[i])
               = SubSeq(f.data, 1, (i + 1) - 3)
  <1> DEFINE s == f.data
             n == i - 2
             before == IF i > 3 THEN SubSeq(s, 1, i - 3) ELSE <<>>
  <1>1. s \in Seq(Byte) /\ Len(s) \in Nat /\ Content(f)[i] = s[n] /\ Size(f) = Len(s) + 2
    BY FrameFacts
  <1>2. n \in 1 .. Len(s) /\ (i + 1) - 3 = n /\ i - 3 = n - 1
    BY <1>1
  <1>3. before = SubSeq(s, 1, n - 1)
    <2>1. CASE i > 3
      BY <1>2, <2>1
    <2>2. CASE ~(i > 3)
      <3>1. n = 1
        BY <1>1, <2>2
      <3> QED
        BY <1>1, <2>2, <3>1
    <2> QED
      BY <2>1, <2>2
  <1> HIDE DEF s, n, before
  <1>4. Append(SubSeq(s, 1, n - 1), s[n]) = SubSeq(s, 1, n)
    BY <1>1, <1>2
  <1> QED
    BY <1>1, <1>2, <1>3, <1>4 DEF s, n, before

(* A byte of the content is read, the right one or not; a wrong one is the  *)
(* first, and then not all is clean any more.                               *)
ReadsByte(f, i, p, raw, w, still, q) ==
    /\ f \in Frame /\ i \in 1 .. Size(f) /\ p \in Parsers
    /\ raw \in Byte /\ raw \notin Structural
    /\ w \in BOOLEAN /\ still \in BOOLEAN /\ (still => w)
    /\ Reads(p, f, i, w)
    /\ Unescaped(p, raw) # Content(f)[i] => ~Wrong(p, f, i, w) /\ ~still
    /\ q = ReceiveChar(p, raw)

LEMMA TakesByte ==
    ASSUME NEW f, NEW i, NEW p, NEW raw, NEW w, NEW still, NEW q,
           ReadsByte(f, i, p, raw, w, still, q)
    PROVE  Reads(q, f, i + 1, still) /\ q.calls = <<>> /\ q.inCharacterEscape = FALSE
  <1>0. /\ f \in Frame /\ i \in 1 .. Size(f) /\ p \in Parsers
        /\ raw \in Byte /\ raw \notin Structural
        /\ w \in BOOLEAN /\ still \in BOOLEAN /\ (still => w)
        /\ Reads(p, f, i, w)
        /\ Unescaped(p, raw) # Content(f)[i] => ~Wrong(p, f, i, w) /\ ~still
        /\ q = ReceiveChar(p, raw)
    BY DEF ReadsByte
  <1> USE <1>0
  <1> DEFINE c == Unescaped(p, raw)
             d == Content(f)[i]
  <1>1. /\ Size(f) \in Nat /\ Size(f) = Len(f.data) + 2 /\ Len(f.data) \in Nat
        /\ f.data \in Seq(Byte)
    BY FrameFacts, Zenon
  <1>2. i \in Nat /\ i >= 1 /\ i <= Size(f) /\ (i + 1) - 1 = i /\ i + 1 > 1 /\ i + 1 > 0
    BY <1>1
  <1>3. c \in Byte
    BY UnescapedDef
  <1>4. Becomes(q, p, raw, c)
    BY Received
  <1>5. raw \notin {Backslash, Open} /\ raw # Close
    BY DEF Structural
  <1>6. c # d => ~Wrong(p, f, i, w) /\ ~still
    OBVIOUS
  <1>7. ASSUME q.computedCRC = CRC8(p.computedCRC, c), Tracks(p, f, i, w),
               Same(p, f, i) /\ c = d =>
                   /\ q.flags = f.flags
                   /\ i + 1 > 2 => q.sn = f.sn
                   /\ q.data = IF i + 1 > 3 THEN SubSeq(f.data, 1, (i + 1) - 3) ELSE <<>>
        PROVE  Tracks(q, f, i + 1, still)
    <2>1. LET right == p.computedCRC = CRCs(f)[i - 1]
              next == q.computedCRC = CRCs(f)[i]
          IN  /\ right /\ c = d => next
              /\ right /\ c # d => ~next
              /\ ~right /\ c = d => ~next
      BY <1>3, <1>7, CRCStep
    <2> HIDE DEF c, d
    <2>2. CASE Same(p, f, i) /\ c = d
      <3>1. q.computedCRC = CRCs(f)[i]
        BY <2>1, <2>2 DEF Same
      <3> QED
        BY <1>2, <1>7, <2>2, <3>1 DEF Tracks, Same
    <2>3. CASE Same(p, f, i) /\ c # d
      <3>1. q.computedCRC # CRCs(f)[i] /\ ~still
        BY <1>6, <2>1, <2>3 DEF Same
      <3> QED
        BY <1>2, <3>1 DEF Tracks, Wrong
    <2>4. CASE ~Same(p, f, i)
      <3>1. c = d /\ Wrong(p, f, i, w)
        BY <1>6, <1>7, <2>4 DEF Tracks
      <3>2. q.computedCRC # CRCs(f)[i] /\ ~still
        BY <2>1, <3>1 DEF Wrong
      <3> QED
        BY <1>2, <3>2 DEF Tracks, Wrong
    <2> QED
      BY <2>2, <2>3, <2>4
  <1> HIDE DEF c
  <1>8. CASE i > 3 /\ GivenUp(p, f, w)
    <2>1. Is(q, "Outside", FALSE, p.flags, p.sn, p.computedCRC, p.data, <<>>)
      BY <1>4, <1>5, <1>8 DEF Becomes, GivenUp
    <2>2. GivenUp(q, f, still)
      BY <1>8, <2>1 DEF GivenUp, Is
    <2>3. i + 1 > 3
      BY <1>2, <1>8
    <2> QED
      BY <2>1, <2>2, <2>3 DEF Reads, Is
  <1>9. CASE i = 1 /\ p.state = Stage(i) /\ Tracks(p, f, i, w)
    <2>1. Is(q, "InMessageSN", FALSE, c, p.sn, CRC8(p.computedCRC, c), p.data, <<>>)
      BY <1>4, <1>5, <1>9 DEF Becomes, Stage
    <2>2. d = f.flags
      BY <1>9, FrameFacts
    <2>3. ~(i + 1 > 2) /\ ~(i + 1 > 3) /\ ~(i > 3) /\ i + 1 = 2
      BY <1>9
    <2>4. Tracks(q, f, i + 1, still)
      <3>1. q.computedCRC = CRC8(p.computedCRC, c)
        BY <2>1 DEF Is
      <3>2. Same(p, f, i) => q.data = <<>>
        BY <2>1, <2>3 DEF Is, Same
      <3>3. c = d => q.flags = f.flags
        BY <2>1, <2>2 DEF Is
      <3> QED
        BY <1>7, <1>9, <2>3, <3>1, <3>2, <3>3
    <2>5. q.state = Stage(i + 1)
      BY <2>1, <2>3 DEF Is, Stage
    <2> QED
      BY <2>1, <2>4, <2>5 DEF Reads, Is
  <1>10. CASE i = 2 /\ p.state = Stage(i) /\ Tracks(p, f, i, w)
    <2>1. Is(q, "InMessageData", FALSE, p.flags, c, CRC8(p.computedCRC, c), p.data, <<>>)
      <3>1. p.state = "InMessageSN"
        BY <1>10 DEF Stage
      <3> QED
        BY <1>4, <1>5, <3>1 DEF Becomes
    <2>2. d = f.sn
      BY <1>10, FrameFacts
    <2>3. i > 1 /\ i + 1 > 2 /\ ~(i + 1 > 3) /\ ~(i > 3) /\ i + 1 = 3
      BY <1>10
    <2>4. Tracks(q, f, i + 1, still)
      <3>1. q.computedCRC = CRC8(p.computedCRC, c)
        BY <2>1 DEF Is
      <3>2. Same(p, f, i) => q.data = <<>> /\ q.flags = f.flags
        BY <2>1, <2>3 DEF Is, Same
      <3>3. c = d => q.sn = f.sn
        BY <2>1, <2>2 DEF Is
      <3> QED
        BY <1>7, <1>10, <2>3, <3>1, <3>2, <3>3
    <2>5. q.state = Stage(i + 1)
      BY <2>1, <2>3 DEF Is, Stage
    <2> QED
      BY <2>1, <2>4, <2>5 DEF Reads, Is
  <1>11. CASE i > 2 /\ p.state = Stage(i) /\ Tracks(p, f, i, w)
    <2>1. /\ i > 1 /\ i + 1 > 2 /\ i + 1 > 3 /\ i # 1 /\ i # 2 /\ i + 1 # 1 /\ i + 1 # 2
          /\ i \in 3 .. Size(f)
      BY <1>1, <1>2, <1>11
    <2>2. p.state = "InMessageData"
      BY <1>11, <2>1 DEF Stage
    <2>3. CASE Len(p.data) < MaxMessageLength
      <3>1. Is(q, "InMessageData", FALSE, p.flags, p.sn, CRC8(p.computedCRC, c),
               Append(p.data, c), <<>>)
        BY <1>4, <1>5, <2>2, <2>3 DEF Becomes
      <3>2. q.computedCRC = CRC8(p.computedCRC, c)
        BY <3>1 DEF Is
      <3>3. Same(p, f, i) => q.flags = f.flags /\ q.sn = f.sn
        BY <1>11, <2>1, <3>1 DEF Is, Same
      <3>4. Same(p, f, i) /\ c = d => q.data = SubSeq(f.data, 1, (i + 1) - 3)
        <4>1. Append(IF i > 3 THEN SubSeq(f.data, 1, i - 3) ELSE <<>>, d)
                  = SubSeq(f.data, 1, (i + 1) - 3)
          BY <2>1, DataStep
        <4>2. q.data = Append(p.data, c)
          BY <3>1 DEF Is
        <4>3. Same(p, f, i) => p.data = IF i > 3 THEN SubSeq(f.data, 1, i - 3) ELSE <<>>
          BY DEF Same
        <4> HIDE DEF d
        <4> QED
          BY <4>1, <4>2, <4>3, Zenon
      <3>5. Tracks(q, f, i + 1, still)
        BY <1>7, <1>11, <2>1, <3>2, <3>3, <3>4
      <3>6. q.state = Stage(i + 1)
        BY <2>1, <3>1 DEF Is, Stage
      <3> QED
        BY <3>1, <3>5, <3>6 DEF Reads, Is
    <2>4. CASE ~(Len(p.data) < MaxMessageLength)
      <3>1. Is(q, "Outside", FALSE, p.flags, p.sn, p.computedCRC, p.data, <<>>)
        BY <1>4, <1>5, <2>2, <2>4 DEF Becomes
      <3>2. ASSUME still PROVE Len(f.data) > MaxMessageLength
        <4>1. p.data = IF i > 3 THEN SubSeq(f.data, 1, i - 3) ELSE <<>>
          BY <1>11, <3>2 DEF Tracks, Wrong, Same
        <4>2. Len(p.data) <= i - 3
          <5>1. CASE i > 3
            <6>1. Len(SubSeq(f.data, 1, i - 3)) = i - 3
              BY <1>1, <1>2, <5>1
            <6> QED
              BY <1>2, <4>1, <5>1, <6>1
          <5>2. CASE ~(i > 3)
            BY <1>2, <2>1, <4>1, <5>2
          <5> QED
            BY <5>1, <5>2
        <4>3. Len(p.data) \in Nat /\ MaxMessageLength \in Nat
          BY ParserTyped, ParserAssumption
        <4> QED
          BY <1>1, <1>2, <2>4, <4>2, <4>3
      <3>3. GivenUp(q, f, still)
        BY <3>1, <3>2 DEF GivenUp, Is
      <3> QED
        BY <2>1, <3>1, <3>3 DEF Reads, Is
    <2> QED
      BY <2>3, <2>4
  <1>12. i = 1 \/ i = 2 \/ i > 2
    BY <1>2
  <1> QED
    BY <1>8, <1>9, <1>10, <1>11, <1>12 DEF Reads

(* The bytes that only structure the frame.                                 *)
LEMMA TakesOpen ==
    ASSUME NEW f \in Frame, NEW p \in Parsers, NEW w \in BOOLEAN,
           NEW q, q = ReceiveChar(p, Open)
    PROVE  Reads(q, f, 1, w) /\ q.calls = <<>> /\ q.inCharacterEscape = p.inCharacterEscape
  <1>1. Becomes(q, p, Open, Unescaped(p, Open))
    BY Received, Escapes
  <1>2. Is(q, "InMessageFlags", p.inCharacterEscape, 0, 0, 0, <<>>, <<>>)
    BY <1>1 DEF Becomes
  <1>3. CRCs(f)[1 - 1] = 0
    BY FrameFacts
  <1>4. Same(q, f, 1)
    BY <1>2, <1>3 DEF Same, Is
  <1> QED
    BY <1>2, <1>4 DEF Reads, Tracks, Stage, Is

StillReads(f, p, q) ==
    \A w, still \in BOOLEAN : (still => w) =>
        /\ \A i \in 1 .. Size(f) : Reads(p, f, i, w) => Reads(q, f, i, still)
        /\ ReadsCRC(p, f, w) => ReadsCRC(q, f, still)

LEMMA TakesBackslash ==
    ASSUME NEW f \in Frame, NEW p \in Parsers, NEW q, q = ReceiveChar(p, Backslash)
    PROVE  StillReads(f, p, q) /\ q.calls = <<>> /\ q.inCharacterEscape = TRUE
  <1>1. Becomes(q, p, Backslash, Unescaped(p, Backslash))
    BY Received, Escapes
  <1>2. Is(q, p.state, TRUE, p.flags, p.sn, p.computedCRC, p.data, <<>>)
    BY <1>1 DEF Becomes
  <1>3. ASSUME NEW i, NEW w \in BOOLEAN, NEW still \in BOOLEAN, still => w
        PROVE  /\ Tracks(p, f, i, w) => Tracks(q, f, i, still)
               /\ GivenUp(p, f, w) => GivenUp(q, f, still)
    BY <1>2, <1>3 DEF Is, Tracks, Same, Wrong, GivenUp
  <1>4. p.state = q.state /\ q.calls = <<>> /\ q.inCharacterEscape = TRUE
    BY <1>2 DEF Is
  <1>5. ASSUME NEW i, NEW w \in BOOLEAN, NEW still \in BOOLEAN, still => w
        PROVE  Reads(p, f, i, w) => Reads(q, f, i, still)
    BY <1>3, <1>4, <1>5, Zenon DEF Reads
  <1>6. ASSUME NEW w \in BOOLEAN, NEW still \in BOOLEAN, still => w
        PROVE  ReadsCRC(p, f, w) => ReadsCRC(q, f, still)
    BY <1>3, <1>4, <1>6, Zenon DEF ReadsCRC
  <1> QED
    BY <1>4, <1>5, <1>6 DEF StillReads

LEMMA TakesClose ==
    ASSUME NEW f \in Frame, NEW p \in Parsers, NEW w \in BOOLEAN, NEW still \in BOOLEAN,
           still => w, Reads(p, f, Size(f) + 1, w), NEW q, q = ReceiveChar(p, Close)
    PROVE  ReadsCRC(q, f, still) /\ q.calls = <<>> /\ q.inCharacterEscape = FALSE
  <1>1. Becomes(q, p, Close, Unescaped(p, Close))
    BY Received, Escapes
  <1>2. Close \notin {Backslash, Open}
    BY DEF Close, Backslash, Open
  <1>3. Size(f) + 1 # 1 /\ Size(f) + 1 # 2
    BY FrameFacts
  <1>4. CASE GivenUp(p, f, w)
    <2>1. Is(q, "Outside", FALSE, p.flags, p.sn, p.computedCRC, p.data, <<>>)
      BY <1>1, <1>2, <1>4 DEF Becomes, GivenUp
    <2> QED
      BY <1>4, <2>1 DEF ReadsCRC, GivenUp, Is
  <1>5. CASE p.state = Stage(Size(f) + 1) /\ Tracks(p, f, Size(f) + 1, w)
    <2>1. p.state = "InMessageData"
      BY <1>3, <1>5 DEF Stage
    <2>2. Is(q, "InMessageCRC", FALSE, p.flags, p.sn, p.computedCRC, p.data, <<>>)
      BY <1>1, <1>2, <2>1 DEF Becomes
    <2>3. Tracks(q, f, Size(f) + 1, still)
      BY <1>5, <2>2 DEF Is, Tracks, Same, Wrong
    <2> QED
      BY <2>2, <2>3 DEF ReadsCRC, Is
  <1> QED
    BY <1>4, <1>5 DEF Reads

(* The checksum is read, the right one or not: only the frame that was sent *)
(* is handed over, or one whose flags turn the checksum off.                *)
LEMMA TakesCRC ==
    ASSUME NEW f \in Frame, NEW p \in Parsers, NEW raw \in Byte, raw \notin Structural,
           NEW w \in BOOLEAN, NEW still \in BOOLEAN, still => w, ReadsCRC(p, f, w),
           Unescaped(p, raw) # CRCs(f)[Size(f)] =>
               ~Wrong(p, f, Size(f) + 1, w) /\ ~still,
           NEW q, q = ReceiveChar(p, raw)
    PROVE  Heard(q.calls, f, still)
  <1> DEFINE c == Unescaped(p, raw)
             d == CRCs(f)[Size(f)]
  <1>1. /\ Size(f) \in Nat /\ Size(f) = Len(f.data) + 2 /\ Len(f.data) \in Nat
        /\ f.data \in Seq(Byte)
    BY FrameFacts, Zenon
  <1>2. /\ Size(f) + 1 > 1 /\ Size(f) + 1 > 2 /\ (Size(f) + 1) - 1 = Size(f)
        /\ (Size(f) + 1) - 3 = Len(f.data)
    BY <1>1
  <1>3. Becomes(q, p, raw, c) /\ raw \notin {Backslash, Open}
    BY Received DEF Structural
  <1>4. c # d => ~Wrong(p, f, Size(f) + 1, w) /\ ~still
    OBVIOUS
  <1> HIDE DEF c
  <1>5. CASE GivenUp(p, f, w)
    <2>1. q.calls = <<>>
      BY <1>3, <1>5 DEF Becomes, GivenUp, Is
    <2>2. still => ~(Len(f.data) <= MaxMessageLength)
      BY <1>1, <1>5, ParserAssumption DEF GivenUp
    <2> QED
      BY <2>1, <2>2 DEF Heard
  <1>6. CASE p.state = "InMessageCRC" /\ Tracks(p, f, Size(f) + 1, w)
    <2> DEFINE one == [flags |-> p.flags, sn |-> p.sn, data |-> p.data]
    <2>1. q.calls = IF c = p.computedCRC \/ HasFlag(p.flags, NoCRCCheck) THEN <<one>> ELSE <<>>
      BY <1>3, <1>6 DEF Becomes, Is
    <2>2. Same(p, f, Size(f) + 1) => one = f /\ p.computedCRC = d
      <3> SUFFICES ASSUME Same(p, f, Size(f) + 1) PROVE one = f /\ p.computedCRC = d
        OBVIOUS
      <3>1. p.flags = f.flags /\ p.sn = f.sn /\ p.computedCRC = d
        BY <1>2 DEF Same
      <3>2. p.data = IF Size(f) + 1 > 3 THEN SubSeq(f.data, 1, Len(f.data)) ELSE <<>>
        BY <1>2 DEF Same
      <3>3. p.data = f.data
        <4>1. CASE Size(f) + 1 > 3
          BY <1>1, <3>2, <4>1, SubSeqFull
        <4>2. CASE ~(Size(f) + 1 > 3)
          <5>1. Len(f.data) = 0
            BY <1>1, <4>2
          <5>2. f.data = <<>>
            BY <1>1, <5>1, EmptySeq
          <5> QED
            BY <3>2, <4>2, <5>2
        <4> QED
          BY <4>1, <4>2
      <3>4. f = [flags |-> f.flags, sn |-> f.sn, data |-> f.data]
        BY FrameTypes
      <3> HIDE DEF d
      <3> QED
        BY <3>1, <3>3, <3>4, Zenon
    <2> HIDE DEF d
    <2>3. HasFlag(one.flags, NoCRCCheck) <=> HasFlag(p.flags, NoCRCCheck)
      OBVIOUS
    <2>4. ~Same(p, f, Size(f) + 1) => c = d /\ p.computedCRC # d /\ ~still
      BY <1>2, <1>4, <1>6 DEF Tracks, Wrong, d
    <2> HIDE DEF one
    <2>5. q.calls = <<>> \/ (q.calls = <<one>> /\ (one = f \/ HasFlag(one.flags, NoCRCCheck)))
      <3>1. CASE Same(p, f, Size(f) + 1)
        BY <2>1, <2>2, <3>1
      <3>2. CASE ~Same(p, f, Size(f) + 1)
        BY <2>1, <2>3, <2>4, <3>2
      <3> QED
        BY <3>1, <3>2
    <2>6. still => q.calls = <<f>>
      BY <1>4, <2>1, <2>2, <2>4
    <2> QED
      BY <2>5, <2>6 DEF Heard
  <1> QED
    BY <1>5, <1>6 DEF ReadsCRC

-----------------------------------------------------------------------------
(* Where the receiver is in the frame.                                      *)

(* The next byte of a frame arrives as b: as it was sent, or as the first   *)
(* wrong byte, and then neither b nor what was sent structures the frame.   *)
Arrival(b) ==
    /\ ArriveAs(b) /\ b \in Byte /\ line # <<>>
    /\ frame \in Frame /\ parser \in Parsers /\ line \in Seq(Byte) /\ got = <<>>
    /\ Clean \in BOOLEAN /\ Clean' \in BOOLEAN /\ (Clean' => Clean)
    /\ \/ b = Head(line)
       \/ /\ b \notin Structural /\ Head(line) \notin Structural
          /\ ~parser.inCharacterEscape /\ Clean /\ ~Clean'

LEMMA ArrivalEffects ==
    ASSUME NEW b, Arrival(b)
    PROVE  /\ parser' = ReceiveChar(parser, b) /\ parser' \in Parsers
           /\ got' = parser'.calls /\ line' = Tail(line)
           /\ frame' = frame /\ pending' = pending
  <1>1. parser' = ReceiveChar(parser, b) /\ b \in Byte /\ parser \in Parsers
    BY DEF Arrival, ArriveAs
  <1>2. parser' \in Parsers
    BY <1>1, Received
  <1>3. parser'.calls \in Seq(Frame)
    BY <1>2, ParserTyped
  <1>4. got' = <<>> \o parser'.calls
    BY DEF Arrival, ArriveAs
  <1>5. got' = parser'.calls
    BY <1>3, <1>4, ConcatEmptySeq
  <1> QED
    BY <1>1, <1>2, <1>5 DEF Arrival, ArriveAs

LEMMA StartStep ==
    ASSUME NEW b, Arrival(b), Start
    PROVE  AtByte(1, FALSE)' /\ got' = <<>>
  <1> PICK f : f = frame
    OBVIOUS
  <1>1. /\ parser' = ReceiveChar(parser, b) /\ parser' \in Parsers
        /\ got' = parser'.calls /\ line' = Tail(line) /\ frame' = f /\ pending' = pending
    BY ArrivalEffects
  <1>2. /\ f \in Frame /\ parser \in Parsers /\ line \in Seq(Byte) /\ line # <<>>
        /\ Clean' \in BOOLEAN
    BY DEF Arrival
  <1>3. SentFrom(f)[1] \in Seq(Byte) /\ Encode(f) = <<Open>> \o SentFrom(f)[1] /\ Open \in Byte
    BY <1>2, EncodeDef, Escapes
  <1>4. Holds(line, <<Open>> \o SentFrom(f)[1], f)
    BY <1>3 DEF Start
  <1>5. Head(line) = Open /\ Holds(Tail(line), SentFrom(f)[1], f)
    BY <1>2, <1>3, <1>4, Advance
  <1>6. b = Open
    BY <1>5, Escapes DEF Arrival
  <1>7. /\ Reads(parser', f, 1, Clean') /\ parser'.calls = <<>>
        /\ parser'.inCharacterEscape = parser.inCharacterEscape
    BY <1>1, <1>2, <1>6, TakesOpen
  <1>8. pending \in BOOLEAN /\ pending = parser.inCharacterEscape
    BY <1>2, ParserTyped DEF Start
  <1> QED
    BY <1>1, <1>5, <1>7, <1>8 DEF AtByte

LEMMA ByteStep ==
    ASSUME NEW b, Arrival(b), NEW i \in 1 .. Size(frame), AtByte(i, FALSE)
    PROVE  (AtByte(i, TRUE)' \/ AtByte(i + 1, FALSE)') /\ got' = <<>>
  <1> PICK f : f = frame
    OBVIOUS
  <1>1. /\ parser' = ReceiveChar(parser, b) /\ parser' \in Parsers
        /\ got' = parser'.calls /\ line' = Tail(line) /\ frame' = f /\ pending' = pending
    BY ArrivalEffects
  <1>2. /\ f \in Frame /\ parser \in Parsers /\ line \in Seq(Byte) /\ line # <<>>
        /\ Clean \in BOOLEAN /\ Clean' \in BOOLEAN /\ (Clean' => Clean) /\ b \in Byte
    BY DEF Arrival
  <1>3. PICK d : d = Content(f)[i]
    OBVIOUS
  <1>4. PICK r : r = SentFrom(f)[i + 1]
    OBVIOUS
  <1>5. i \in 1 .. Size(f)
    OBVIOUS
  <1>6. d \in Byte /\ r \in Seq(Byte) /\ Spells(SentFrom(f)[i], d, r)
    BY <1>2, <1>3, <1>4, <1>5, FromByte
  <1>7. Holds(line, SentFrom(f)[i], f) /\ Reads(parser, f, i, Clean)
    BY DEF AtByte
  <1>8. parser.inCharacterEscape = (i = 1 /\ pending)
    BY DEF AtByte
  <1>9. CASE d \in Structural
    <2>1. PICK s : s = <<EscapedAs[d]>> \o r
      OBVIOUS
    <2>2. /\ s \in Seq(Byte) /\ SentFrom(f)[i] = <<Backslash>> \o s /\ Tail(SentFrom(f)[i]) = s
          /\ Backslash \in Byte
      BY <1>6, <1>9, <2>1, Escapes DEF Spells
    <2>3. Head(line) = Backslash /\ Holds(Tail(line), s, f)
      BY <1>2, <1>7, <2>2, Advance
    <2>4. b = Backslash
      BY <2>3, Escapes DEF Arrival
    <2>5. /\ Reads(parser', f, i, Clean') /\ parser'.calls = <<>>
          /\ parser'.inCharacterEscape = TRUE
      <3>1. /\ StillReads(f, parser, parser')
            /\ parser'.calls = <<>> /\ parser'.inCharacterEscape = TRUE
        BY <1>1, <1>2, <2>4, TakesBackslash
      <3> QED
        BY <1>2, <1>5, <1>7, <3>1, Zenon DEF StillReads
    <2>6. i <= Size(f)
      BY <1>2, <1>5, FrameFacts
    <2>7. AtByte(i, TRUE)'
      BY <1>1, <1>3, <1>9, <2>2, <2>3, <2>5, <2>6 DEF AtByte
    <2> QED
      BY <1>1, <2>5, <2>7
  <1>10. CASE d \notin Structural
    <2>1. SentFrom(f)[i] = <<d>> \o r
      BY <1>6, <1>10 DEF Spells
    <2>2. Head(line) = d /\ Holds(Tail(line), r, f)
      BY <1>2, <1>6, <1>7, <2>1, Advance
    <2>3. b \notin Structural
      BY <1>10, <2>2 DEF Arrival
    <2>4. Unescaped(parser, b) # d => ~Wrong(parser, f, i, Clean) /\ ~Clean'
      <3> SUFFICES ASSUME Unescaped(parser, b) # d PROVE ~Wrong(parser, f, i, Clean) /\ ~Clean'
        OBVIOUS
      <3>1. CASE b = d
        <4>1. parser.inCharacterEscape /\ \E e \in Structural : b = EscapedAs[e]
          BY <1>2, <3>1, UnescapedDef
        <4>2. i = 1 /\ pending
          BY <1>8, <4>1
        <4>3. d = f.flags
          BY <1>2, <1>3, <4>2, FrameFacts
        <4>4. MisreadFlags'
          BY <1>1, <3>1, <4>1, <4>2, <4>3 DEF MisreadFlags
        <4>5. ~Clean'
          BY <4>4 DEF Clean
        <4>6. ~(i > 1)
          BY <4>2
        <4> QED
          BY <4>5, <4>6 DEF Wrong
      <3>2. CASE b # d
        <4>1. Clean /\ ~Clean'
          BY <2>2, <3>2 DEF Arrival
        <4> QED
          BY <4>1 DEF Wrong
      <3> QED
        BY <3>1, <3>2
    <2>5. /\ Reads(parser', f, i + 1, Clean') /\ parser'.calls = <<>>
          /\ parser'.inCharacterEscape = FALSE
      <3>1. ReadsByte(f, i, parser, b, Clean, Clean', parser')
        BY <1>1, <1>2, <1>3, <1>5, <1>7, <2>3, <2>4 DEF ReadsByte
      <3> QED
        BY <3>1, TakesByte, Zenon
    <2>6. i + 1 # 1
      BY <1>2, <1>5, FrameFacts
    <2>7. AtByte(i + 1, FALSE)'
      BY <1>1, <1>4, <2>2, <2>5, <2>6 DEF AtByte
    <2> QED
      BY <1>1, <2>5, <2>7
  <1> QED
    BY <1>9, <1>10

LEMMA EscapedStep ==
    ASSUME NEW b, Arrival(b), NEW i \in 1 .. Size(frame) + 1, AtByte(i, TRUE)
    PROVE  i + 1 \in 1 .. Size(frame) + 1 /\ AtByte(i + 1, FALSE)' /\ got' = <<>>
  <1> PICK f : f = frame
    OBVIOUS
  <1>1. /\ parser' = ReceiveChar(parser, b) /\ parser' \in Parsers
        /\ got' = parser'.calls /\ line' = Tail(line) /\ frame' = f /\ pending' = pending
    BY ArrivalEffects
  <1>2. /\ f \in Frame /\ parser \in Parsers /\ line \in Seq(Byte) /\ line # <<>>
        /\ Clean \in BOOLEAN /\ Clean' \in BOOLEAN /\ (Clean' => Clean) /\ b \in Byte
    BY DEF Arrival
  <1>3. PICK d : d = Content(f)[i]
    OBVIOUS
  <1>4. PICK r : r = SentFrom(f)[i + 1]
    OBVIOUS
  <1>5. i \in 1 .. Size(f) /\ i + 1 \in 1 .. Size(f) + 1 /\ i + 1 # 1
    BY <1>2, FrameFacts DEF AtByte
  <1>6. d \in Byte /\ r \in Seq(Byte) /\ Spells(SentFrom(f)[i], d, r) /\ d \in Structural
    BY <1>2, <1>3, <1>4, <1>5, FromByte DEF AtByte
  <1>7. /\ Holds(line, Tail(SentFrom(f)[i]), f) /\ Reads(parser, f, i, Clean)
        /\ parser.inCharacterEscape
    BY DEF AtByte
  <1>8. /\ EscapedAs[d] \in Byte /\ EscapedAs[d] \notin Structural
        /\ Tail(SentFrom(f)[i]) = <<EscapedAs[d]>> \o r
    BY <1>6 DEF Spells
  <1>9. Head(line) = EscapedAs[d] /\ Holds(Tail(line), r, f)
    <2> PICK e : e = EscapedAs[d]
      OBVIOUS
    <2>1. e \in Byte /\ Holds(line, <<e>> \o r, f)
      BY <1>7, <1>8
    <2>2. Head(line) = e /\ Holds(Tail(line), r, f)
      BY <1>2, <1>6, <2>1, Advance
    <2> QED
      BY <2>2
  <1>10. b = EscapedAs[d]
    BY <1>7, <1>9 DEF Arrival
  <1>11. Unescaped(parser, b) = d
    BY <1>2, <1>6, <1>7, <1>10, UnescapedDef
  <1>12. /\ Reads(parser', f, i + 1, Clean') /\ parser'.calls = <<>>
         /\ parser'.inCharacterEscape = FALSE
    <2>1. ReadsByte(f, i, parser, b, Clean, Clean', parser')
      BY <1>1, <1>2, <1>3, <1>5, <1>7, <1>8, <1>10, <1>11 DEF ReadsByte
    <2> QED
      BY <2>1, TakesByte, Zenon
  <1>13. AtByte(i + 1, FALSE)'
    BY <1>1, <1>4, <1>5, <1>9, <1>12 DEF AtByte
  <1> QED
    BY <1>1, <1>5, <1>12, <1>13

LEMMA CloseStep ==
    ASSUME NEW b, Arrival(b), AtByte(Size(frame) + 1, FALSE)
    PROVE  AtCRC(FALSE)' /\ got' = <<>>
  <1> PICK f : f = frame
    OBVIOUS
  <1>1. /\ parser' = ReceiveChar(parser, b) /\ parser' \in Parsers
        /\ got' = parser'.calls /\ line' = Tail(line) /\ frame' = f
    BY ArrivalEffects
  <1>2. /\ f \in Frame /\ parser \in Parsers /\ line \in Seq(Byte) /\ line # <<>>
        /\ Clean \in BOOLEAN /\ Clean' \in BOOLEAN /\ (Clean' => Clean)
    BY DEF Arrival
  <1>3. /\ LastByte(f) \in Seq(Byte) /\ Close \in Byte
        /\ SentFrom(f)[Size(f) + 1] = <<Close>> \o LastByte(f)
    BY <1>2, FromClose
  <1>4. Holds(line, SentFrom(f)[Size(f) + 1], f) /\ Reads(parser, f, Size(f) + 1, Clean)
    BY DEF AtByte
  <1>5. Head(line) = Close /\ Holds(Tail(line), LastByte(f), f)
    BY <1>2, <1>3, <1>4, Advance
  <1>6. b = Close
    BY <1>5, Escapes DEF Arrival
  <1>7. ReadsCRC(parser', f, Clean') /\ parser'.calls = <<>> /\ parser'.inCharacterEscape = FALSE
    BY <1>1, <1>2, <1>4, <1>6, TakesClose
  <1> QED
    BY <1>1, <1>5, <1>7 DEF AtCRC

(* The last byte but the backslash before it.                               *)
LEMMA LastStep ==
    ASSUME NEW b, Arrival(b), NEW d \in Byte, d \notin Structural,
           Holds(line, <<d>> \o <<>>, frame), ReadsCRC(parser, frame, Clean),
           Unescaped(parser, d) = CRCs(frame)[Size(frame)],
           parser.inCharacterEscape => b = Head(line)
    PROVE  Finished'
  <1> PICK f : f = frame
    OBVIOUS
  <1>1. /\ parser' = ReceiveChar(parser, b) /\ parser' \in Parsers
        /\ got' = parser'.calls /\ line' = Tail(line) /\ frame' = f
    BY ArrivalEffects
  <1>2. /\ f \in Frame /\ parser \in Parsers /\ line \in Seq(Byte) /\ line # <<>>
        /\ Clean \in BOOLEAN /\ Clean' \in BOOLEAN /\ (Clean' => Clean) /\ b \in Byte
    BY DEF Arrival
  <1>3. <<>> \in Seq(Byte) /\ Len(<<>>) = 0
    OBVIOUS
  <1>4. Head(line) = d /\ Holds(Tail(line), <<>>, f)
    BY <1>2, <1>3, Advance
  <1>5. line' = <<>>
    <2>1. Tail(line) \in Seq(Byte)
      BY <1>2, HeadTailProperties
    <2>2. Len(Tail(line)) <= 0
      BY <1>3, <1>4 DEF Holds
    <2> QED
      BY <1>1, <2>1, <2>2, EmptySeq
  <1>6. b \notin Structural
    BY <1>4 DEF Arrival
  <1>7. Unescaped(parser, b) # CRCs(f)[Size(f)] => ~Wrong(parser, f, Size(f) + 1, Clean) /\ ~Clean'
    BY <1>4 DEF Arrival, Wrong
  <1>8. Heard(parser'.calls, f, Clean')
    BY <1>1, <1>2, <1>6, <1>7, TakesCRC
  <1>9. Heard(parser'.calls, f, Clean' /\ Fits(f))
    BY <1>8 DEF Heard
  <1> QED
    BY <1>1, <1>5, <1>9 DEF Finished

LEMMA LastByteStep ==
    ASSUME NEW b, Arrival(b), NEW escaped \in BOOLEAN, AtCRC(escaped)
    PROVE  (AtCRC(TRUE)' /\ got' = <<>>) \/ Finished'
  <1> PICK f : f = frame
    OBVIOUS
  <1>1. /\ parser' = ReceiveChar(parser, b) /\ parser' \in Parsers
        /\ got' = parser'.calls /\ line' = Tail(line) /\ frame' = f
    BY ArrivalEffects
  <1>2. /\ f \in Frame /\ parser \in Parsers /\ line \in Seq(Byte) /\ line # <<>>
        /\ Clean \in BOOLEAN /\ Clean' \in BOOLEAN /\ (Clean' => Clean) /\ b \in Byte
    BY DEF Arrival
  <1>3. PICK c : c = CRCs(f)[Size(f)]
    OBVIOUS
  <1>4. c \in Byte /\ <<>> \in Seq(Byte) /\ Spells(LastByte(f), c, <<>>)
    BY <1>2, <1>3, FromCRC
  <1>5. ReadsCRC(parser, f, Clean) /\ parser.inCharacterEscape = escaped
    BY DEF AtCRC
  <1>6. CASE escaped
    <2>1. c \in Structural /\ Holds(line, Tail(LastByte(f)), f)
      BY <1>3, <1>6 DEF AtCRC
    <2>2. PICK d : d = EscapedAs[c]
      OBVIOUS
    <2>3. d \in Byte /\ d \notin Structural /\ Tail(LastByte(f)) = <<d>> \o <<>>
      BY <1>4, <2>1, <2>2 DEF Spells
    <2>4. Unescaped(parser, d) = c
      BY <1>2, <1>5, <1>6, <2>1, <2>2, <2>3, UnescapedDef
    <2>5. b = Head(line)
      BY <1>5, <1>6 DEF Arrival
    <2> QED
      BY <1>3, <1>5, <2>1, <2>3, <2>4, <2>5, LastStep
  <1>7. CASE ~escaped /\ c \in Structural
    <2>1. PICK s : s = <<EscapedAs[c]>> \o <<>>
      OBVIOUS
    <2>2. s \in Seq(Byte) /\ LastByte(f) = <<Backslash>> \o s /\ Tail(LastByte(f)) = s
          /\ Backslash \in Byte
      BY <1>4, <1>7, <2>1, Escapes DEF Spells
    <2>3. Head(line) = Backslash /\ Holds(Tail(line), s, f)
      BY <1>2, <1>7, <2>2, Advance DEF AtCRC
    <2>4. b = Backslash
      BY <2>3, Escapes DEF Arrival
    <2>5. /\ StillReads(f, parser, parser')
          /\ parser'.calls = <<>> /\ parser'.inCharacterEscape = TRUE
      BY <1>1, <1>2, <2>4, TakesBackslash
    <2>6. ReadsCRC(parser', f, Clean')
      BY <1>2, <1>5, <2>5, Zenon DEF StillReads
    <2> QED
      BY <1>1, <1>3, <1>7, <2>2, <2>3, <2>5, <2>6 DEF AtCRC
  <1>8. CASE ~escaped /\ c \notin Structural
    <2>1. Holds(line, <<c>> \o <<>>, f)
      BY <1>4, <1>8 DEF Spells, AtCRC
    <2>2. Unescaped(parser, c) = c
      BY <1>2, <1>4, <1>5, <1>8, UnescapedDef
    <2> QED
      BY <1>3, <1>4, <1>5, <1>8, <2>1, <2>2, LastStep
  <1> QED
    BY <1>6, <1>7, <1>8

LEMMA UnderwayStep ==
    ASSUME NEW b, Arrival(b), Underway
    PROVE  (got' = <<>> /\ Underway') \/ Finished'
  <1>1. frame' = frame /\ frame \in Frame
    BY ArrivalEffects DEF Arrival
  <1>2. Size(frame) \in Nat /\ Size(frame') = Size(frame)
    BY <1>1, FrameFacts
  <1>3. 1 \in 1 .. Size(frame) + 1
    BY <1>2
  <1>4. CASE Start
    BY <1>2, <1>3, <1>4, StartStep DEF Underway
  <1>5. ASSUME NEW i \in 1 .. Size(frame) + 1, NEW escaped \in BOOLEAN, AtByte(i, escaped)
        PROVE  got' = <<>> /\ Underway'
    <2>1. CASE escaped
      <3>1. AtByte(i, TRUE)
        BY <1>5, <2>1
      <3> QED
        BY <1>2, <3>1, EscapedStep DEF Underway
    <2>2. CASE ~escaped /\ i \in 1 .. Size(frame)
      <3>1. AtByte(i, FALSE)
        BY <1>5, <2>2
      <3>2. (AtByte(i, TRUE)' \/ AtByte(i + 1, FALSE)') /\ got' = <<>>
        BY <2>2, <3>1, ByteStep
      <3>3. i + 1 \in 1 .. Size(frame) + 1
        BY <1>2, <2>2
      <3> QED
        BY <1>2, <3>2, <3>3 DEF Underway
    <2>3. CASE ~escaped /\ i = Size(frame) + 1
      <3>1. AtByte(Size(frame) + 1, FALSE)
        BY <1>5, <2>3
      <3> QED
        BY <3>1, CloseStep DEF Underway
    <2> QED
      BY <1>2, <2>1, <2>2, <2>3
  <1>6. ASSUME NEW escaped \in BOOLEAN, AtCRC(escaped)
        PROVE  (got' = <<>> /\ Underway') \/ Finished'
    BY <1>6, LastByteStep DEF Underway
  <1> QED
    BY <1>4, <1>5, <1>6 DEF Underway

LEMMA FrameInit == Init => FrameInv
  BY DEF Init, FrameInv, Idle

LEMMA FrameStep ==
    ASSUME ParserTypes, [Next]_vars, FrameInv
    PROVE  FrameInv'
  <1>1. ASSUME NEW b \in NoiseBytes, Noise(b) PROVE FrameInv'
    BY <1>1 DEF Noise, FrameInv, Idle
  <1>2. ASSUME NEW f \in SendFrames, Send(f) PROVE FrameInv'
    <2>1. f \in Frame
      BY FrameTypes
    <2>2. Encode(f) \in Seq(Byte) /\ line' = Buffered(Encode(f))
      BY <1>2, <2>1, EncodeDef DEF Send
    <2>3. Holds(line', Encode(f), f)
      BY <2>2, BufferedDef DEF Holds, Fits
    <2>4. Start'
      BY <1>2, <2>3 DEF Start, Send
    <2> QED
      BY <1>2, <2>4 DEF FrameInv, Underway, Send
  <1>3. frame \in Frame /\ parser \in Parsers /\ line \in Seq(Byte) /\ pending \in BOOLEAN
    BY FrameTypes DEF ParserTypes
  <1>4. Clean \in BOOLEAN /\ Clean' \in BOOLEAN
    BY DEF Clean
  <1>5. CASE Arrive
    <2> SUFFICES ASSUME Checked' PROVE FrameInv'
      BY DEF FrameInv
    <2>1. line # <<>> /\ ArriveAs(Head(line)) /\ fault' = fault /\ frame' = frame
          /\ pending' = pending
      BY <1>5 DEF Arrive, ArriveAs
    <2>2. Head(line) \in Byte
      BY <1>3, <2>1, HeadTailProperties
    <2>3. Checked /\ (Clean' => Clean)
      BY <2>1 DEF Checked, Clean, MisreadFlags
    <2>4. got = <<>> /\ Underway
      BY <2>1, <2>3 DEF FrameInv, Idle, Finished
    <2>5. Arrival(Head(line))
      BY <1>3, <1>4, <2>1, <2>2, <2>3, <2>4 DEF Arrival
    <2> QED
      BY <2>4, <2>5, UnderwayStep DEF FrameInv
  <1>6. ASSUME NEW b \in NoiseBytes, Damage(b) PROVE FrameInv'
    <2> SUFFICES ASSUME Checked' PROVE FrameInv'
      BY DEF FrameInv
    <2>1. line # <<>> /\ ArriveAs(b) /\ fault = "none" /\ frame' = frame /\ pending' = pending
      BY <1>6 DEF Damage, ArriveAs
    <2>2. b \in Byte
      BY ParserAssumption
    <2>3. /\ fault' = "content damaged" /\ ~MisreadFlags /\ b \notin Structural
          /\ Head(line) \notin Structural /\ ~parser.inCharacterEscape
      BY <1>6, <2>1 DEF Damage, Checked, MisreadFlags
    <2>4. Checked /\ Clean /\ ~Clean'
      BY <2>1, <2>3 DEF Checked, Clean
    <2>5. got = <<>> /\ Underway
      BY <2>1, <2>4 DEF FrameInv, Idle, Finished
    <2>6. Arrival(b)
      BY <1>3, <1>4, <2>1, <2>2, <2>3, <2>4, <2>5 DEF Arrival
    <2> QED
      BY <2>5, <2>6, UnderwayStep DEF FrameInv
  <1>7. CASE LoseByte
    BY <1>7 DEF LoseByte, FrameInv, Checked
  <1>8. CASE UNCHANGED vars
    <2>1. /\ line' = line /\ parser' = parser /\ frame' = frame /\ pending' = pending
          /\ fault' = fault /\ got' = got
      BY <1>8 DEF vars
    <2>2. (MisreadFlags <=> MisreadFlags') /\ (Clean <=> Clean') /\ (Checked <=> Checked')
      BY <2>1 DEF Checked, Clean, MisreadFlags
    <2>3. Clean' = Clean
      BY <1>4, <2>2
    <2>4. Underway => Underway'
      BY <2>1, <2>3 DEF Underway, Start, AtByte, AtCRC
    <2>5. (Idle => Idle') /\ (Finished => Finished')
      BY <2>1, <2>3 DEF Idle, Finished
    <2> QED
      BY <2>1, <2>2, <2>4, <2>5 DEF FrameInv
  <1> QED
    BY <1>1, <1>2, <1>5, <1>6, <1>7, <1>8 DEF Next

(* In the middle of a frame that fits the buffer, something is left.        *)
LEMMA SomethingLeft ==
    ASSUME ParserTypes, Underway, Fits(frame)
    PROVE  line # <<>>
  <1>1. frame \in Frame /\ line \in Seq(Byte)
    BY FrameTypes DEF ParserTypes
  <1>2. CASE Start
    BY <1>1, <1>2, EncodeDef, Escapes, More DEF Start
  <1>3. ASSUME NEW i \in 1 .. Size(frame) + 1, NEW escaped \in BOOLEAN, AtByte(i, escaped)
        PROVE  line # <<>>
    <2> PICK bytes : bytes = IF escaped THEN Tail(SentFrom(frame)[i]) ELSE SentFrom(frame)[i]
      OBVIOUS
    <2>1. Holds(line, bytes, frame)
      BY <1>3 DEF AtByte
    <2>2. \E b \in Byte, r \in Seq(Byte) : bytes = <<b>> \o r
      <3>1. CASE i \in 1 .. Size(frame)
        <4> PICK d : d = Content(frame)[i]
          OBVIOUS
        <4> PICK r : r = SentFrom(frame)[i + 1]
          OBVIOUS
        <4>1. d \in Byte /\ r \in Seq(Byte) /\ Spells(SentFrom(frame)[i], d, r)
          BY <1>1, <3>1, FromByte
        <4>2. CASE escaped
          BY <1>3, <4>1, <4>2 DEF Spells, AtByte
        <4>3. CASE ~escaped
          BY <4>1, <4>3, Escapes DEF Spells
        <4> QED
          BY <4>2, <4>3
      <3>2. CASE ~(i \in 1 .. Size(frame))
        <4>1. i = Size(frame) + 1 /\ ~(i <= Size(frame))
          BY <1>1, <3>2, FrameFacts
        <4>2. ~escaped
          BY <1>3, <4>1 DEF AtByte
        <4> QED
          BY <1>1, <4>1, <4>2, FromClose
      <3> QED
        BY <3>1, <3>2
    <2> QED
      BY <1>1, <2>1, <2>2, More
  <1>4. ASSUME NEW escaped \in BOOLEAN, AtCRC(escaped) PROVE line # <<>>
    <2> PICK bytes : bytes = IF escaped THEN Tail(LastByte(frame)) ELSE LastByte(frame)
      OBVIOUS
    <2> PICK c : c = CRCs(frame)[Size(frame)]
      OBVIOUS
    <2>1. Holds(line, bytes, frame)
      BY <1>4 DEF AtCRC
    <2>2. c \in Byte /\ <<>> \in Seq(Byte) /\ Spells(LastByte(frame), c, <<>>)
      BY <1>1, FromCRC
    <2>3. \E b \in Byte, r \in Seq(Byte) : bytes = <<b>> \o r
      <3>1. CASE escaped
        BY <1>4, <2>2, <3>1 DEF Spells, AtCRC
      <3>2. CASE ~escaped
        BY <2>2, <3>2, Escapes DEF Spells
      <3> QED
        BY <3>1, <3>2
    <2> QED
      BY <1>1, <2>1, <2>3, More
  <1> QED
    BY <1>2, <1>3, <1>4 DEF Underway

(* Where the receiver is in every frame of which at most one covered byte   *)
(* is wrong, and what it then has of it.                                    *)
THEOREM FrameInvariance == Spec => []FrameInv
  <1>1. Init => ParserTypes /\ FrameInv
    BY TypesInit, FrameInit
  <1>2. ParserTypes /\ FrameInv /\ [Next]_vars => ParserTypes' /\ FrameInv'
    BY TypesStep, FrameStep
  <1> QED
    BY <1>1, <1>2, PTL DEF Spec

(* After any noise, an undamaged frame that fits the buffers runs the       *)
(* callback once, with its flags, number and data.                          *)
THEOREM FramesArrive == Spec => []CleanFrameArrives
  <1>1. ParserTypes /\ FrameInv => CleanFrameArrives
    <2> SUFFICES ASSUME ParserTypes, FrameInv, Arrived, fault = "none", ~MisreadFlags,
                        Len(frame.data) <= MaxMessageLength,
                        Len(Encode(frame)) < SendBufferSize
                 PROVE  got = <<frame>>
      BY DEF CleanFrameArrives
    <2>1. Checked /\ Clean /\ Fits(frame) /\ line = <<>> /\ ~Idle
      BY DEF Checked, Clean, Fits, Arrived, Idle
    <2>2. Finished
      BY <2>1, SomethingLeft DEF FrameInv
    <2> QED
      BY <2>1, <2>2 DEF Finished, Heard
  <1>2. Spec => []ParserTypes
    BY TypesInit, TypesStep, PTL DEF Spec
  <1> QED
    BY <1>1, <1>2, FrameInvariance, PTL

(* One damaged byte, the send buffer's cut, data that are too long or a     *)
(* misread flags byte never make the parser hand over anything but what was *)
(* sent, unless the flags it read turn the checksum off.                    *)
THEOREM Unforged == Spec => []NothingForged
  <1>1. ParserTypes /\ FrameInv => NothingForged
    <2> SUFFICES ASSUME ParserTypes, FrameInv, Checked
                 PROVE  \A i \in DOMAIN got : got[i] = frame \/ HasFlag(got[i].flags, NoCRCCheck)
      BY DEF NothingForged, Checked
    <2>1. got \in Seq(Frame)
      BY DEF ParserTypes
    <2>2. DOMAIN got = 1 .. Len(got)
      BY <2>1
    <2> QED
      BY <2>2 DEF FrameInv, Idle, Finished, Heard
  <1>2. Spec => []ParserTypes
    BY TypesInit, TypesStep, PTL DEF Spec
  <1> QED
    BY <1>1, <1>2, FrameInvariance, PTL
=============================================================================
