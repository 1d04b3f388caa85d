--------------------------- MODULE VideoUdpProofs ---------------------------
(***************************************************************************)
(* Theorems about what goes over UDP.                                      *)
(*                                                                         *)
(* UdpTransport, for messages, datagrams and buffers of every length: what *)
(* was returned and what is buffered is what arrived.                      *)
(*                                                                         *)
(* VideoUdp, for every size of the frame and of the packets and every      *)
(* multiplier that reaches all pixels.  Whole holds whatever the network   *)
(* does.  OneFrame is about the packets on their way: OrderInv says that   *)
(* the packet drawn last, those in the socket, those in the network and    *)
(* the camera's next one follow each other in the order in which they were *)
(* sent, with gaps for what was lost.                                      *)
(***************************************************************************)
EXTENDS VideoUdp, UdpTransport, SequenceTheorems, FiniteSetTheorems, TLAPS

-----------------------------------------------------------------------------
(* UdpTransport.                                                            *)

Byte == Nat \X Nat
Datagrams == {Datagram(k, len) : k \in Nat, len \in Nat}
Filled(received) == Len(received.bytes) = received.mlen

UdpTypes ==
    /\ rsock \in Seq(Datagrams)
    /\ recvbuf \in Seq(Byte) /\ output \in Seq(Byte) /\ arrived \in Seq(Byte)
    /\ returned \in Seq([mlen : Nat, bytes : Seq(Byte)])
    /\ udpCount \in [messages : Nat, errors : Nat]
    /\ cut \in BOOLEAN
    /\ Len(recvbuf) <= maxrecvbuflen

(* A byte that is not its message's first stands behind the one before it.  *)
Contiguous(s) ==
    \A i \in 1 .. Len(s) : s[i][2] > 1 => i > 1 /\ s[i - 1] = <<s[i][1], s[i][2] - 1>>

(* Two messages meet in the bytes of a call only behind a call that was     *)
(* filled.                                                                  *)
Apart(calls) ==
    \A i \in 1 .. Len(calls) :
        \/ Cardinality(MessagesIn(calls[i].bytes)) <= 1
        \/ \E j \in 1 .. i - 1 : Filled(calls[j])

UdpInv ==
    /\ UdpTypes
    /\ output \o recvbuf = arrived
    /\ ~cut => Contiguous(arrived)
    /\ Apart(returned)
    /\ recvbuf # <<>> => returned # <<>> /\ Filled(returned[Len(returned)])

-----------------------------------------------------------------------------
(* Lemmas about datagrams and what recv takes from them.                    *)

LEMMA DatagramType ==
    ASSUME NEW d \in Datagrams
    PROVE  /\ d \in Seq(Byte)
           /\ \E k \in Nat : \A i \in 1 .. Len(d) : d[i] = <<k, i>>
  <1>1. PICK k \in Nat, len \in Nat : d = [i \in 1 .. len |-> <<k, i>>]
    BY DEF Datagrams, Datagram
  <1> QED
    BY <1>1 DEF Byte

LEMMA Associative ==
    \A s, t, u \in Seq(Byte) : (s \o t) \o u = s \o (t \o u)
  BY ConcatAssociative

LEMMA PrefixType ==
    ASSUME NEW s \in Seq(Byte), NEW n \in 0 .. Len(s)
    PROVE  /\ SubSeq(s, 1, n) \in Seq(Byte) /\ SubSeq(s, n + 1, Len(s)) \in Seq(Byte)
           /\ Len(SubSeq(s, 1, n)) = n /\ Len(SubSeq(s, n + 1, Len(s))) = Len(s) - n
           /\ \A i \in 1 .. n : SubSeq(s, 1, n)[i] = s[i]
           /\ SubSeq(s, 1, n) \o SubSeq(s, n + 1, Len(s)) = s
  <1>1. \A i \in 1 .. Len(s) : s[i] \in Byte
    BY ElementOfSeq
  <1>2. Len(s) \in Nat
    BY LenProperties
  <1>3. /\ SubSeq(s, 1, n) \in Seq(Byte) /\ Len(SubSeq(s, 1, n)) = n
        /\ \A i \in 1 .. n : SubSeq(s, 1, n)[i] = s[i]
    <2>1. \A i \in 1 .. n : s[i] \in Byte
      BY <1>1, <1>2
    <2>2. /\ SubSeq(s, 1, n) \in Seq(Byte)
          /\ Len(SubSeq(s, 1, n)) = IF 1 <= n THEN n - 1 + 1 ELSE 0
          /\ \A i \in 1 .. n - 1 + 1 : SubSeq(s, 1, n)[i] = s[1 + i - 1]
      BY <2>1, SubSeqProperties
    <2> QED
      BY <2>2, <1>2
  <1>4. SubSeq(s, n + 1, Len(s)) \in Seq(Byte) /\ Len(SubSeq(s, n + 1, Len(s))) = Len(s) - n
    <2>1. \A i \in n + 1 .. Len(s) : s[i] \in Byte
      BY <1>1, <1>2
    <2>2. /\ SubSeq(s, n + 1, Len(s)) \in Seq(Byte)
          /\ Len(SubSeq(s, n + 1, Len(s))) = IF n + 1 <= Len(s) THEN Len(s) - (n + 1) + 1 ELSE 0
      BY <2>1, <1>2, SubSeqProperties
    <2> QED
      BY <2>2, <1>2
  <1>5. SubSeq(s, 1, n) \o SubSeq(s, n + 1, Len(s)) = SubSeq(s, 1, Len(s))
    <2>1. 1 \in 1 .. Len(s) + 1 /\ n \in 1 - 1 .. Len(s) /\ Len(s) \in n .. Len(s)
      BY <1>2
    <2> QED
      BY <2>1, ConcatAdjacentSubSeq
  <1> QED
    BY <1>3, <1>4, <1>5, SubSeqFull

(* What recv reads fits the buffer, and is one datagram's beginning: all of *)
(* it when the buffer has room.                                             *)
LEMMA ReadType ==
    ASSUME UdpTypes
    PROVE  /\ Read \in Seq(Byte) /\ Len(recvbuf) + Len(Read) <= maxrecvbuflen
           /\ \E k \in Nat : \A i \in 1 .. Len(Read) : Read[i] = <<k, i>>
           /\ Contiguous(Read)
  <1>0. Len(recvbuf) \in Nat /\ Room \in Nat
    BY UdpAssumption DEF UdpTypes, Room
  <1>1. CASE rsock = <<>>
    <2>1. Read = <<>> /\ Len(Read) = 0
      BY <1>1 DEF Read
    <2> QED
      <3>1. Read \in Seq(Byte) /\ Len(recvbuf) + Len(Read) <= maxrecvbuflen
        BY <1>0, <2>1, EmptySeq DEF UdpTypes
      <3>2. Contiguous(Read)
        BY <2>1 DEF Contiguous
      <3>3. \A i \in 1 .. Len(Read) : Read[i] = <<0, i>>
        BY <2>1
      <3> QED
        BY <3>1, <3>2, <3>3
  <1>2. CASE rsock # <<>>
    <2> DEFINE d == Head(rsock)
               n == Least(Room, Len(d))
    <2>1. d \in Datagrams
      BY <1>2, HeadTailProperties DEF UdpTypes
    <2>2. d \in Seq(Byte) /\ \E k \in Nat : \A i \in 1 .. Len(d) : d[i] = <<k, i>>
      BY <2>1, DatagramType
    <2>3. n \in 0 .. Len(d) /\ n <= Room
      BY <1>0, <2>2 DEF Least
    <2>4. Read = SubSeq(d, 1, n)
      BY <1>2 DEF Read
    <2> HIDE DEF d, n
    <2>5. Read \in Seq(Byte) /\ Len(Read) = n /\ \A i \in 1 .. n : Read[i] = d[i]
      BY <2>2, <2>3, <2>4, PrefixType
    <2>6. Len(d) \in Nat
      BY <2>2, LenProperties
    <2>7. PICK k \in Nat : \A i \in 1 .. Len(Read) : Read[i] = <<k, i>>
      <3>1. PICK k \in Nat : \A i \in 1 .. Len(d) : d[i] = <<k, i>>
        BY <2>2
      <3>2. \A i \in 1 .. Len(Read) : Read[i] = <<k, i>>
        BY <2>3, <2>5, <2>6, <3>1
      <3> QED
        BY <3>2
    <2>8. Contiguous(Read)
      BY <2>3, <2>5, <2>6, <2>7 DEF Contiguous
    <2>9. Len(recvbuf) + Len(Read) <= maxrecvbuflen
      BY <1>0, <2>3, <2>5, <2>6, UdpAssumption DEF Room
    <2> QED
      BY <2>5, <2>7, <2>8, <2>9
  <1> QED
    BY <1>1, <1>2

(* Two contiguous sequences, joined.                                        *)
LEMMA ContiguousConcat ==
    ASSUME NEW s \in Seq(Byte), NEW t \in Seq(Byte), Contiguous(s), Contiguous(t)
    PROVE  Contiguous(s \o t)
  <1>1. /\ Len(s \o t) = Len(s) + Len(t) /\ Len(s) \in Nat /\ Len(t) \in Nat
        /\ \A i \in 1 .. Len(s) + Len(t) : (s \o t)[i] = IF i <= Len(s) THEN s[i] ELSE t[i - Len(s)]
    BY ConcatProperties, LenProperties
  <1> SUFFICES ASSUME NEW i \in 1 .. Len(s) + Len(t), (s \o t)[i][2] > 1
               PROVE  i > 1 /\ (s \o t)[i - 1] = <<(s \o t)[i][1], (s \o t)[i][2] - 1>>
    BY <1>1 DEF Contiguous
  <1>2. CASE i <= Len(s)
    <2>1. (s \o t)[i] = s[i] /\ i \in 1 .. Len(s)
      BY <1>1, <1>2
    <2>2. i > 1 /\ s[i - 1] = <<s[i][1], s[i][2] - 1>>
      BY <2>1 DEF Contiguous
    <2>3. (s \o t)[i - 1] = s[i - 1]
      BY <1>1, <1>2, <2>2
    <2> QED
      BY <2>1, <2>2, <2>3
  <1>3. CASE i > Len(s)
    <2> DEFINE j == i - Len(s)
    <2>1. (s \o t)[i] = t[j] /\ j \in 1 .. Len(t)
      BY <1>1, <1>3
    <2>2. j > 1 /\ t[j - 1] = <<t[j][1], t[j][2] - 1>>
      BY <2>1 DEF Contiguous
    <2>3. (s \o t)[i - 1] = t[j - 1]
      BY <1>1, <1>3, <2>2
    <2> QED
      BY <1>1, <1>3, <2>1, <2>2, <2>3
  <1> QED
    BY <1>1, <1>2, <1>3

(* Bytes of one message are of at most one message.                         *)
LEMMA OneMessage ==
    ASSUME NEW bytes \in Seq(Byte), NEW k \in Nat, \A i \in 1 .. Len(bytes) : bytes[i][1] = k
    PROVE  Cardinality(MessagesIn(bytes)) <= 1
  <1>1. MessagesIn(bytes) \in SUBSET {k}
    BY LenProperties DEF MessagesIn
  <1>2. IsFiniteSet({k}) /\ Cardinality({k}) = 1
    BY FS_Singleton
  <1> QED
    BY <1>1, <1>2, FS_Subset

-----------------------------------------------------------------------------
(* The invariant holds at first and after every step.                       *)

LEMMA UdpInitial == UdpInit => UdpInv
  <1> SUFFICES ASSUME UdpInit PROVE UdpInv
    OBVIOUS
  <1>1. UdpTypes
    <2>1. Len(<<>>) <= maxrecvbuflen
      BY UdpAssumption
    <2>2. /\ <<>> \in Seq(Datagrams) /\ <<>> \in Seq(Byte)
          /\ <<>> \in Seq([mlen : Nat, bytes : Seq(Byte)])
      BY EmptySeq
    <2> QED
      BY <2>1, <2>2 DEF UdpInit, UdpTypes
  <1>2. output \o recvbuf = arrived
    BY EmptySeq, ConcatEmptySeq DEF UdpInit
  <1>3. Contiguous(arrived) /\ Apart(returned) /\ recvbuf = <<>>
    BY DEF UdpInit, Contiguous, Apart
  <1> QED
    BY <1>1, <1>2, <1>3 DEF UdpInv

LEMMA SendStep ==
    ASSUME UdpInv, NEW len \in MessageLengths, UdpSend(len)
    PROVE  UdpInv'
  <1>1. udpCount' \in [messages : Nat, errors : Nat]
    <2>1. udpCount \in [messages : Nat, errors : Nat]
      BY DEF UdpInv, UdpTypes
    <2>2. udpCount' = [udpCount EXCEPT !.messages = udpCount.messages + 1]
      BY DEF UdpSend
    <2> QED
      BY <2>1, <2>2
  <1>2. Datagram(udpCount'.messages, len) \in Datagrams
    BY <1>1, UdpAssumption DEF Datagrams
  <1>3. rsock' \in Seq(Datagrams)
    <2>1. rsock \in Seq(Datagrams)
      BY DEF UdpInv, UdpTypes
    <2>2. rsock' \in {rsock, Append(rsock, Datagram(udpCount'.messages, len))}
      BY DEF UdpSend
    <2> QED
      BY <1>2, <2>1, <2>2
  <1>4. UNCHANGED <<recvbuf, returned, output, arrived, cut>>
    BY DEF UdpSend
  <1>5. UdpTypes'
    BY <1>1, <1>3, <1>4 DEF UdpInv, UdpTypes
  <1> QED
    BY <1>4, <1>5 DEF UdpInv, Contiguous, Apart, MessagesIn, Filled

LEMMA RecvStep ==
    ASSUME UdpInv, NEW mlen \in Wanted, recv(mlen)
    PROVE  UdpInv'
  <1> DEFINE buf == recvbuf \o Read
             n == Least(Len(buf), mlen)
             bytes == SubSeq(buf, 1, n)
             received == [mlen |-> mlen, bytes |-> bytes]
  <1>0. mlen \in Nat
    BY UdpAssumption
  <1>1. /\ Read \in Seq(Byte) /\ Len(recvbuf) + Len(Read) <= maxrecvbuflen
        /\ \E k \in Nat : \A i \in 1 .. Len(Read) : Read[i] = <<k, i>>
        /\ Contiguous(Read)
    BY ReadType DEF UdpInv
  <1>2. recvbuf \in Seq(Byte) /\ output \in Seq(Byte) /\ arrived \in Seq(Byte)
    BY DEF UdpInv, UdpTypes
  <1>3. buf \in Seq(Byte) /\ Len(buf) = Len(recvbuf) + Len(Read) /\ Len(buf) \in Nat
    BY <1>1, <1>2, ConcatProperties, LenProperties
  <1>4. n \in 0 .. Len(buf) /\ n <= mlen /\ (n = Len(buf) \/ n = mlen)
    BY <1>0, <1>3 DEF Least
  <1>5. /\ returned' = Append(returned, received)
        /\ output' = output \o bytes
        /\ recvbuf' = SubSeq(buf, n + 1, Len(buf))
        /\ arrived' = arrived \o Read
        /\ rsock' = IF rsock = <<>> THEN rsock ELSE Tail(rsock)
        /\ cut' = (cut \/ (rsock # <<>> /\ Room < Len(Head(rsock))))
        /\ udpCount' = udpCount
    BY DEF recv, Kept
  <1>emp. recvbuf = <<>> => buf = Read
    BY <1>1, ConcatEmptySeq
  <1> HIDE DEF buf, n
  <1>6. /\ bytes \in Seq(Byte) /\ Len(bytes) = n
        /\ recvbuf' \in Seq(Byte) /\ Len(recvbuf') = Len(buf) - n
        /\ bytes \o recvbuf' = buf
        /\ \A i \in 1 .. n : bytes[i] = buf[i]
    BY <1>3, <1>4, <1>5, PrefixType
  <1> HIDE DEF bytes
  <1>7. received \in [mlen : Nat, bytes : Seq(Byte)] /\ returned \in Seq([mlen : Nat, bytes : Seq(Byte)])
    BY <1>0, <1>6 DEF UdpInv, UdpTypes
  <1>8. /\ returned' \in Seq([mlen : Nat, bytes : Seq(Byte)])
        /\ Len(returned) \in Nat /\ Len(returned') = Len(returned) + 1
        /\ returned'[Len(returned) + 1] = received
        /\ \A i \in 1 .. Len(returned) : returned'[i] = returned[i]
    BY <1>5, <1>7
  <1>9. UdpTypes'
    <2>1. rsock' \in Seq(Datagrams)
      BY <1>5, HeadTailProperties DEF UdpInv, UdpTypes
    <2>2. output' \in Seq(Byte) /\ arrived' \in Seq(Byte)
      BY <1>1, <1>2, <1>5, <1>6, ConcatProperties
    <2>3. Len(recvbuf') <= maxrecvbuflen
      BY <1>1, <1>3, <1>4, <1>6, UdpAssumption
    <2>4. cut' \in BOOLEAN
      BY <1>5 DEF UdpInv, UdpTypes
    <2> QED
      BY <1>5, <1>6, <1>8, <2>1, <2>2, <2>3, <2>4 DEF UdpInv, UdpTypes
  <1>10. output' \o recvbuf' = arrived'
    <2>1. output' \o recvbuf' = output \o buf
      <3>1. (output \o bytes) \o recvbuf' = output \o (bytes \o recvbuf')
        BY <1>2, <1>6, Associative
      <3> QED
        BY <1>5, <1>6, <3>1, Zenon
    <2>2. output \o buf = (output \o recvbuf) \o Read
      BY <1>1, <1>2, Associative, Zenon DEF buf
    <2> QED
      BY <1>5, <2>1, <2>2 DEF UdpInv
  <1>11. ~cut' => Contiguous(arrived')
    BY <1>1, <1>2, <1>5, ContiguousConcat DEF UdpInv
  <1>12. Apart(returned')
    <2>1. CASE recvbuf = <<>>
      <3>1. PICK k \in Nat : \A i \in 1 .. Len(Read) : Read[i] = <<k, i>>
        BY <1>1
      <3>2. \A i \in 1 .. Len(bytes) : bytes[i][1] = k
        BY <1>3, <1>4, <1>6, <1>emp, <2>1, <3>1
      <3>3. Cardinality(MessagesIn(received.bytes)) <= 1
        BY <1>6, <3>2, OneMessage
      <3> QED
        <4> SUFFICES ASSUME NEW i \in 1 .. Len(returned'),
                            ~ Cardinality(MessagesIn(returned'[i].bytes)) <= 1
                     PROVE  \E j \in 1 .. i - 1 : Filled(returned'[j])
          BY DEF Apart
        <4>1. i \in 1 .. Len(returned) /\ returned'[i] = returned[i]
          BY <1>8, <3>3
        <4>2. PICK j \in 1 .. i - 1 : Filled(returned[j])
          BY <4>1 DEF UdpInv, Apart
        <4>3. returned'[j] = returned[j]
          BY <1>8, <4>1
        <4> QED
          BY <4>2, <4>3
    <2>2. CASE recvbuf # <<>>
      <3>1. returned # <<>> /\ Filled(returned[Len(returned)])
        BY <2>2 DEF UdpInv
      <3>2. Len(returned) \in 1 .. Len(returned)
        BY <1>7, <3>1, EmptySeq
      <3>3. Filled(returned'[Len(returned)])
        BY <1>8, <3>1, <3>2
      <3> QED
        <4> SUFFICES ASSUME NEW i \in 1 .. Len(returned'),
                            ~ Cardinality(MessagesIn(returned'[i].bytes)) <= 1
                     PROVE  \E j \in 1 .. i - 1 : Filled(returned'[j])
          BY DEF Apart
        <4>1. CASE i = Len(returned) + 1
          <5>1. Len(returned) \in 1 .. i - 1
            BY <1>8, <3>2, <4>1
          <5> QED
            BY <3>3, <5>1
        <4>2. CASE i # Len(returned) + 1
          <5>1. i \in 1 .. Len(returned) /\ returned'[i] = returned[i]
            BY <1>8, <4>2
          <5>2. PICK j \in 1 .. i - 1 : Filled(returned[j])
            BY <5>1 DEF UdpInv, Apart
          <5>3. returned'[j] = returned[j]
            BY <1>8, <5>1
          <5> QED
            BY <5>2, <5>3
        <4> QED
          BY <4>1, <4>2
    <2> QED
      BY <2>1, <2>2
  <1>13. recvbuf' # <<>> => returned' # <<>> /\ Filled(returned'[Len(returned')])
    <2> SUFFICES ASSUME recvbuf' # <<>> PROVE returned' # <<>> /\ Filled(returned'[Len(returned')])
      OBVIOUS
    <2>1. Len(recvbuf') > 0
      BY <1>6, EmptySeq
    <2>2. Len(received.bytes) = received.mlen
      BY <1>3, <1>4, <1>6, <2>1
    <2> QED
      BY <1>8, <2>2, EmptySeq DEF Filled
  <1> QED
    BY <1>9, <1>10, <1>11, <1>12, <1>13 DEF UdpInv

LEMMA UdpStep == UdpInv /\ [UdpNext]_udpVars => UdpInv'
  <1> SUFFICES ASSUME UdpInv, [UdpNext]_udpVars PROVE UdpInv'
    OBVIOUS
  <1>1. CASE \E len \in MessageLengths : UdpSend(len)
    BY <1>1, SendStep
  <1>2. CASE \E mlen \in Wanted : recv(mlen)
    BY <1>2, RecvStep
  <1>3. CASE RecvFails
    <2>1. UNCHANGED <<rsock, recvbuf, returned, output, arrived, cut>>
      BY <1>3 DEF RecvFails
    <2>2. udpCount' \in [messages : Nat, errors : Nat]
      <3>1. udpCount \in [messages : Nat, errors : Nat]
        BY DEF UdpInv, UdpTypes
      <3>2. udpCount' = [udpCount EXCEPT !.errors = udpCount.errors + 1]
        BY <1>3 DEF RecvFails
      <3> QED
        BY <3>1, <3>2
    <2> QED
      BY <2>1, <2>2 DEF UdpInv, UdpTypes, Contiguous, Apart, MessagesIn, Filled
  <1>4. CASE UNCHANGED udpVars
    BY <1>4 DEF udpVars, UdpInv, UdpTypes, Contiguous, Apart, MessagesIn, Filled
  <1> QED
    BY <1>1, <1>2, <1>3, <1>4 DEF UdpNext

(* The invariant of the receiver: what its callers have got and what it     *)
(* keeps is what it has read, and it keeps bytes only behind a full call.   *)
THEOREM UdpInvariance == UdpSpec => []UdpInv
  BY UdpInitial, UdpStep, PTL DEF UdpSpec

(* recv's callers get the bytes of the datagrams that were read, in order   *)
(* and without gaps while the buffer had room, and bytes stay in recvbuf or *)
(* mix with another message's only after a call was filled                  *)
(* (readEntireBuffer, recv), whatever the lengths are.                      *)
THEOREM Returned == UdpSpec => []UdpStream
  <1>1. UdpInv => UdpStream
    <2> SUFFICES ASSUME UdpInv PROVE UdpStream
      OBVIOUS
    <2>1. DOMAIN arrived = 1 .. Len(arrived) /\ DOMAIN returned = 1 .. Len(returned)
      BY LenProperties DEF UdpInv, UdpTypes
    <2>2. ~cut => \A i \in DOMAIN arrived :
              arrived[i][2] > 1 => i > 1 /\ arrived[i - 1] = <<arrived[i][1], arrived[i][2] - 1>>
      BY <2>1 DEF UdpInv, Contiguous
    <2>3. \A i \in DOMAIN returned :
              \/ Cardinality(MessagesIn(returned[i].bytes)) <= 1
              \/ \E j \in 1 .. i - 1 : Len(returned[j].bytes) = returned[j].mlen
      BY <2>1 DEF UdpInv, Apart, Filled
    <2>4. recvbuf # <<>> => Len(Last(returned).bytes) = Last(returned).mlen
      BY DEF UdpInv, Last, Filled
    <2> QED
      BY <2>2, <2>3, <2>4 DEF UdpInv, UdpStream
  <1> QED
    BY <1>1, UdpInvariance, PTL

-----------------------------------------------------------------------------
(* VideoUdp. *)

(* The packets of a frame cover it: every pixel is in one of them.          *)
LEMMA PacketsCover ==
    \A p \in 0 .. NumPixels - 1 : \E index \in 0 .. numpackets - 1 : p \in PixelsOf(index)
  <1> SUFFICES ASSUME NEW p \in 0 .. NumPixels - 1
               PROVE  \E index \in 0 .. numpackets - 1 : p \in PixelsOf(index)
    OBVIOUS
  <1> USE VideoUdpAssumption
  <1>1. PICK loc \in 0 .. NumPixels - 1 : pixellocToIndex(loc) = p
    BY ScatterAssumption
  <1> DEFINE index == loc \div PacketPixels
             j == loc % PacketPixels
  <1>2. loc = index * PacketPixels + j /\ j \in 0 .. PacketPixels - 1 /\ index \in Nat
    BY Z3
  <1>3. index \in 0 .. numpackets - 1
    BY Z3 DEF numpackets
  <1>4. p \in PixelsOf(index)
    BY <1>1, <1>2 DEF PixelsOf
  <1> QED
    BY <1>3, <1>4

(* What a call has drawn is in the image: every pixel of a packet drawn     *)
(* comes from a frame drawn.                                                *)
CoverInv ==
    /\ DOMAIN image = 0 .. NumPixels - 1
    /\ DOMAIN call = {"pc", "firstFrameReceived", "drawn"}
    /\ \A packet \in call.drawn : \A p \in DOMAIN image :
           p \in PixelsOf(packet.index) => image[p] \in FramesDrawn

LEMMA CoverInitial == Init => CoverInv
  BY DEF Init, CoverInv

LEMMA CoverStep == CoverInv /\ [Next]_vars => CoverInv'
  <1> SUFFICES ASSUME CoverInv, [Next]_vars PROVE CoverInv'
    OBVIOUS
  <1>1. CASE ReceivePacket
    <2> DEFINE packet == Head(sock)
    <2>0. DOMAIN call' = DOMAIN call
      BY <1>1 DEF ReceivePacket
    <2>1. CASE call'.drawn = call.drawn /\ UNCHANGED image
      BY <2>0, <2>1 DEF CoverInv, FramesDrawn
    <2>2. CASE /\ call'.drawn = call.drawn \cup {packet}
               /\ image' = [p \in DOMAIN image |->
                               IF p \in PixelsOf(packet.index) THEN packet.frame ELSE image[p]]
      <3>1. DOMAIN image' = DOMAIN image
        BY <2>2
      <3>2. packet.frame \in FramesDrawn' /\ FramesDrawn \subseteq FramesDrawn'
        BY <2>2 DEF FramesDrawn
      <3>3. ASSUME NEW q \in call'.drawn, NEW p \in DOMAIN image, p \in PixelsOf(q.index)
            PROVE  image'[p] \in FramesDrawn'
        BY <2>2, <3>2, <3>3 DEF CoverInv
      <3> QED
        BY <2>0, <3>1, <3>3 DEF CoverInv, PixelsOf, pixellocToIndex
    <2> QED
      BY <1>1, <2>1, <2>2 DEF ReceivePacket, CoverInv
  <1>2. CASE Call
    BY <1>2 DEF Call, CoverInv
  <1>3. CASE UNCHANGED image /\ DOMAIN call' = DOMAIN call /\ call'.drawn = call.drawn
    BY <1>3 DEF CoverInv, FramesDrawn
  <1>4. CASE ReceiveNothing \/ ReceiveFails
    BY <1>3, <1>4 DEF ReceiveNothing, ReceiveFails, CoverInv
  <1>5. CASE Sender \/ Network \/ UNCHANGED vars
    BY <1>3, <1>5 DEF Sender, SendPacket, Network, Arrive, LosePacket, vars
  <1> QED
    BY <1>1, <1>2, <1>4, <1>5 DEF Next, Receiver

(* A call that draws all the packets of one frame, and of no other, leaves  *)
(* an image of that frame, whatever was lost or late in between.            *)
THEOREM Whole == Spec => []WholeImage
  <1>1. CoverInv => WholeImage
    <2> SUFFICES ASSUME CoverInv, NEW f \in FramesDrawn, FramesDrawn = {f},
                        {packet.index : packet \in call.drawn} = 0 .. numpackets - 1,
                        NEW p \in DOMAIN image
                 PROVE  image[p] = f
      BY DEF WholeImage
    <2>1. PICK index \in 0 .. numpackets - 1 : p \in PixelsOf(index)
      BY PacketsCover DEF CoverInv
    <2>2. PICK packet \in call.drawn : packet.index = index
      OBVIOUS
    <2> QED
      BY <2>1, <2>2 DEF CoverInv
  <1> QED
    BY CoverInitial, CoverStep, <1>1, PTL DEF Spec

-----------------------------------------------------------------------------
(* The order of the packets.  A packet's place in two rounds of the ids.    *)
Round == 2 * (NumFrameIds * numpackets)
Place(packet) == packet.frame * numpackets + packet.index

(* The packets of s were sent in this order: e[i] were lost between the     *)
(* first of them and the i-th.                                              *)
Chained(s, lost) ==
    \E base \in Nat, e \in [1 .. Len(s) -> 0 .. lost] :
        /\ \A i, j \in 1 .. Len(s) : i <= j => e[i] <= e[j]
        /\ \A i \in 1 .. Len(s) : Place(s[i]) = (base + i + e[i]) % Round

Stream == sock \o net \o <<camera>>

(* The exceptions of OneFramePerCall.                                       *)
OneRound ==
    /\ \A f \in FramesDrawn : frameid(f) # 0
    /\ \A f, g \in FramesDrawn : f \div NumFrameIds = g \div NumFrameIds

OrderTypes ==
    /\ camera \in Packets /\ sock \in Seq(Packets) /\ net \in Seq(Packets)
    /\ env.late \in Nat /\ env.lost \in 0 .. MaxLost
    /\ call \in [pc : {"idle", "reading", "stopped"}, firstFrameReceived : Nat,
                 drawn : SUBSET Packets]

(* While the network keeps the order, what is on its way is what was sent,  *)
(* but for what was lost, and it comes behind what the call has drawn.      *)
OrderInv ==
    env.late = 0 =>
        /\ Chained(Stream, env.lost)
        /\ call.pc = "reading" /\ call.drawn = {} => call.firstFrameReceived = 0
        /\ OneRound /\ call.drawn # {} =>
               \E d \in call.drawn :
                   /\ FramesDrawn = {d.frame}
                   /\ call.pc = "reading" => /\ call.firstFrameReceived = frameid(d.frame)
                                             /\ Chained(<<d>> \o Stream, env.lost)

(* Counting modulo the round.                                               *)
LEMMA Rounds ==
    /\ numpackets \in Nat /\ numpackets >= 1
    /\ NumFrameIds * numpackets \in Nat /\ NumFrameIds * numpackets >= 1
    /\ Round \in Nat /\ Round >= 2 /\ Round = 2 * (NumFrameIds * numpackets)
  <1>1. numpackets \in Nat /\ numpackets >= 1
    <2>1. NumPixels + PacketPixels - 1 >= PacketPixels /\ NumPixels + PacketPixels - 1 \in Nat
          /\ PacketPixels \in Nat /\ PacketPixels > 0
      BY VideoUdpAssumption
    <2> QED
      BY <2>1, Z3 DEF numpackets
  <1>2. NumFrameIds \in Nat /\ NumFrameIds >= 1
    BY VideoUdpAssumption
  <1>3. NumFrameIds * numpackets \in Nat /\ NumFrameIds * numpackets >= 1
    <2> HIDE DEF numpackets
    <2> QED
      BY <1>1, <1>2, Z3
  <1> QED
    BY <1>1, <1>3 DEF Round

LEMMA Modulo ==
    ASSUME NEW R \in Nat, R >= 1, NEW x \in Nat
    PROVE  /\ x % R \in 0 .. R - 1
           /\ \E q \in Nat : x = R * q + (x % R)
  <1>1. x % R \in 0 .. R - 1 /\ x \div R \in Nat /\ x = R * (x \div R) + (x % R)
    BY Z3
  <1> QED
    BY <1>1

LEMMA Residue ==
    ASSUME NEW R \in Nat, R >= 1, NEW q \in Nat, NEW r \in 0 .. R - 1
    PROVE  (R * q + r) % R = r
  BY Z3

LEMMA AddsModulo ==
    ASSUME NEW R \in Nat, R >= 1, NEW x \in Nat, NEW n \in 0 .. R
    PROVE  (x + n) % R = IF (x % R) + n < R THEN (x % R) + n ELSE (x % R) + n - R
  <1>1. PICK q \in Nat : x = R * q + (x % R)
    BY Modulo
  <1> DEFINE r == x % R
  <1>2. r \in 0 .. R - 1
    BY Modulo
  <1>3. x = R * q + r
    BY <1>1
  <1> HIDE DEF r
  <1>4. CASE r + n < R
    <2>1. x + n = R * q + (r + n) /\ r + n \in 0 .. R - 1
      BY <1>2, <1>3, <1>4, Z3
    <2> QED
      BY <1>4, <2>1, Residue DEF r
  <1>5. CASE ~(r + n < R)
    <2>1. R * q + R = R * (q + 1)
      BY Z3
    <2>2. R * q \in Nat /\ R * (q + 1) \in Nat
      BY Z3
    <2>3. x + n = R * (q + 1) + (r + n - R) /\ r + n - R \in 0 .. R - 1 /\ q + 1 \in Nat
      BY <1>2, <1>3, <1>5, <2>1, <2>2, Z3
    <2> QED
      BY <1>5, <2>3, Residue DEF r
  <1> QED
    BY <1>4, <1>5 DEF r

LEMMA NextTwice ==
    ASSUME NEW x \in Nat
    PROVE  (x + 1) % Round = ((x % Round) + 1) % Round
  <1>1. Round \in Nat /\ Round >= 1 /\ 1 \in 0 .. Round
    BY Rounds
  <1> PICK R \in Nat : R = Round
    BY <1>1
  <1> PICK y \in 0 .. R - 1 : y = x % R
    BY <1>1, Modulo
  <1>2. y % R = y
    <2>1. R * 0 + y = y /\ 0 \in Nat /\ R >= 1
      BY <1>1
    <2>2. (R * 0 + y) % R = y
      BY <2>1, Residue
    <2> QED
      BY <2>1, <2>2
  <1>3. y \in Nat /\ R >= 1 /\ 1 \in 0 .. R
    BY <1>1
  <1>4. (x + 1) % R = IF (x % R) + 1 < R THEN (x % R) + 1 ELSE (x % R) + 1 - R
    BY <1>3, AddsModulo
  <1>5. (y + 1) % R = IF (y % R) + 1 < R THEN (y % R) + 1 ELSE (y % R) + 1 - R
    BY <1>3, AddsModulo
  <1> QED
    BY <1>2, <1>4, <1>5

LEMMA Between ==
    ASSUME NEW M \in Nat, NEW lost \in Nat, lost < M, NEW a \in 0 .. lost, NEW b \in 0 .. lost,
           a <= b, NEW base \in Nat
    PROVE  \E n \in 1 .. M : base + 2 + b = (base + 1 + a) + n
  <1>1. 1 + b - a \in 1 .. M /\ base + 2 + b = (base + 1 + a) + (1 + b - a)
    OBVIOUS
  <1> QED
    BY <1>1

LEMMA PlaceType ==
    ASSUME NEW p \in Packets
    PROVE  /\ p.frame \in Frames /\ p.index \in 0 .. numpackets - 1
           /\ p.frame * numpackets \in Nat /\ Place(p) = p.frame * numpackets + p.index
           /\ Place(p) \in 0 .. Round - 1
  <1>1. p.frame \in 0 .. 2 * NumFrameIds - 1 /\ p.index \in 0 .. numpackets - 1
    BY DEF Packets, Frames
  <1> DEFINE f == p.frame
             i == p.index
             n == numpackets
             N == NumFrameIds
  <1>2. n \in Nat /\ n >= 1 /\ N \in Nat /\ N >= 1 /\ f \in Nat /\ f <= 2 * N - 1
        /\ i \in Nat /\ i <= n - 1 /\ Round = 2 * (N * n)
    BY <1>1, Rounds, VideoUdpAssumption
  <1> HIDE DEF f, i, n, N
  <1>3. f * n \in Nat /\ f * n <= (2 * N - 1) * n
    BY <1>2, Z3
  <1>4. (2 * N - 1) * n = 2 * (N * n) - n /\ N * n \in Nat
    BY <1>2, Z3
  <1>5. f * n + i \in 0 .. 2 * (N * n) - 1
    BY <1>2, <1>3, <1>4
  <1> QED
    BY <1>1, <1>2, <1>3, <1>5 DEF Place, Frames, f, i, n, N

(* The camera sends one packet after the other.                             *)
LEMMA NextPlace ==
    ASSUME NEW c \in Packets, NEW d,
           d = IF c.index + 1 < numpackets THEN [c EXCEPT !.index = @ + 1]
               ELSE [frame |-> (c.frame + 1) % (2 * NumFrameIds), index |-> 0]
    PROVE  d \in Packets /\ Place(d) = (Place(c) + 1) % Round
  <1>1. /\ c.frame \in 0 .. 2 * NumFrameIds - 1 /\ c.index \in 0 .. numpackets - 1
        /\ c.frame * numpackets \in Nat /\ Place(c) = c.frame * numpackets + c.index
        /\ Place(c) \in 0 .. Round - 1
    BY PlaceType DEF Frames
  <1>2. numpackets \in Nat /\ numpackets >= 1 /\ Round \in Nat /\ Round >= 2
        /\ NumFrameIds \in Nat /\ NumFrameIds >= 1 /\ 2 * NumFrameIds \in Nat
        /\ Round = 2 * (NumFrameIds * numpackets)
    BY Rounds, VideoUdpAssumption
  <1>3. (Place(c) + 1) % Round = IF Place(c) + 1 < Round THEN Place(c) + 1 ELSE 0
    <2>1. 0 % Round = 0
      BY <1>2, Z3
    <2>2. Place(c) \in Nat /\ Place(c) + 1 <= Round
      BY <1>1, <1>2
    <2>3. Place(c) % Round = Place(c)
      <3>1. Round * 0 + Place(c) = Place(c)
        BY <1>2, <2>2
      <3>2. 0 \in Nat /\ Round >= 1
        BY <1>2
      <3>3. (Round * 0 + Place(c)) % Round = Place(c)
        BY <1>1, <1>2, <3>2, Residue
      <3> QED
        BY <3>1, <3>3
    <2>4. (Place(c) + 1) % Round
              = IF (Place(c) % Round) + 1 < Round THEN (Place(c) % Round) + 1
                ELSE (Place(c) % Round) + 1 - Round
      <3>1. Round >= 1 /\ 1 \in 0 .. Round
        BY <1>2
      <3> QED
        BY <1>2, <2>2, <3>1, AddsModulo
    <2> QED
      BY <1>2, <2>2, <2>3, <2>4
  <1>4. CASE c.index + 1 < numpackets
    <2>1. d = [c EXCEPT !.index = @ + 1] /\ c.index + 1 \in 0 .. numpackets - 1
      BY <1>1, <1>2, <1>4
    <2>2. d \in Packets
      BY <2>1 DEF Packets
    <2>3. d.frame = c.frame /\ d.index = c.index + 1
      BY <2>1 DEF Packets
    <2>4. Place(d) = Place(c) + 1 /\ Place(d) \in 0 .. Round - 1
      <3>1. Place(d) = c.frame * numpackets + (c.index + 1) /\ Place(d) \in 0 .. Round - 1
        BY <2>2, <2>3, PlaceType
      <3> HIDE DEF Place
      <3> QED
        BY <1>1, <3>1
    <2> QED
      BY <1>2, <1>3, <2>2, <2>4
  <1>5. CASE ~(c.index + 1 < numpackets)
    <2>1. d = [frame |-> (c.frame + 1) % (2 * NumFrameIds), index |-> 0]
          /\ c.index + 1 = numpackets
      BY <1>1, <1>2, <1>5
    <2>2. (c.frame + 1) % (2 * NumFrameIds)
              = IF c.frame + 1 < 2 * NumFrameIds THEN c.frame + 1 ELSE 0
      <3> DEFINE f == c.frame
                 R == 2 * NumFrameIds
      <3>1. R \in Nat /\ R >= 1 /\ f \in 0 .. R - 1
        BY <1>1, <1>2
      <3> HIDE DEF f, R
      <3> QED
        <4>1. (f + 1) % R = IF f + 1 < R THEN f + 1 ELSE 0
          BY <3>1, Z3
        <4> QED
          BY <4>1 DEF f, R
    <2>3. d.frame = (c.frame + 1) % (2 * NumFrameIds) /\ d.index = 0
          /\ d.frame \in 0 .. 2 * NumFrameIds - 1
      BY <1>1, <1>2, <2>1, <2>2
    <2>4. d \in Packets
      BY <1>2, <2>1, <2>3 DEF Packets, Frames
    <2>5. Place(c) + 1 = c.frame * numpackets + numpackets
      BY <1>1, <1>2, <2>1
    <2>6. Place(d) = d.frame * numpackets + 0
      BY <2>3, <2>4, PlaceType
    <2>7. CASE c.frame + 1 < 2 * NumFrameIds
      <3>1. d.frame = c.frame + 1
        BY <2>2, <2>3, <2>7
      <3>2. (c.frame + 1) * numpackets = c.frame * numpackets + numpackets
        BY <1>1, <1>2, Z3
      <3>3. Place(d) = Place(c) + 1
        BY <1>1, <1>2, <2>5, <2>6, <3>1, <3>2
      <3>4. Place(d) \in 0 .. Round - 1
        BY <2>4, PlaceType
      <3> QED
        BY <1>2, <1>3, <2>4, <3>3, <3>4
    <2>8. CASE ~(c.frame + 1 < 2 * NumFrameIds)
      <3>1. d.frame = 0 /\ c.frame + 1 = 2 * NumFrameIds
        <4>1. d.frame = 0
          BY <2>2, <2>3, <2>8
        <4>2. c.frame + 1 = 2 * NumFrameIds
          <5> HIDE <1>5
          <5> QED
            BY <1>1, <1>2, <2>8
        <4> QED
          BY <4>1, <4>2
      <3>2. c.frame * numpackets + numpackets = 2 * (NumFrameIds * numpackets)
        <4>1. c.frame * numpackets + numpackets = (c.frame + 1) * numpackets
          BY <1>1, <1>2, Z3
        <4>2. (2 * NumFrameIds) * numpackets = 2 * (NumFrameIds * numpackets)
          BY <1>2, Z3
        <4> QED
          BY <3>1, <4>1, <4>2
      <3>3. Place(c) + 1 = Round
        BY <1>2, <2>5, <3>2
      <3>4. Place(d) = 0
        <4>1. 0 * numpackets = 0
          BY <1>2
        <4> QED
          BY <2>6, <3>1, <4>1
      <3> QED
        BY <1>2, <1>3, <2>4, <3>3, <3>4
    <2> QED
      BY <2>7, <2>8
  <1> QED
    BY <1>4, <1>5

(* Fewer than a whole round of ids lies between two packets: the second is  *)
(* not of an older frame of the same round.                                 *)
LEMMA NotOlder ==
    ASSUME NEW c \in Packets, NEW d \in Packets, NEW n \in 1 .. NumFrameIds * numpackets,
           NEW x \in Nat, Place(c) = x % Round, Place(d) = (x + n) % Round,
           d.frame \div NumFrameIds = c.frame \div NumFrameIds,
           frameid(d.frame) <= frameid(c.frame)
    PROVE  d.frame = c.frame
  <1> DEFINE M == NumFrameIds * numpackets
             N == NumFrameIds
             k == numpackets
             f == c.frame
             g == d.frame
             i == c.index
             j == d.index
  <1>1. /\ N \in Nat /\ N >= 1 /\ k \in Nat /\ k >= 1 /\ M = N * k /\ M \in Nat /\ M >= 1
        /\ Round = 2 * M /\ n \in Nat /\ n >= 1 /\ n <= M
    BY Rounds, VideoUdpAssumption
  <1>2. /\ f \in Nat /\ g \in Nat /\ i \in 0 .. k - 1 /\ j \in 0 .. k - 1
        /\ Place(c) = f * k + i /\ Place(d) = g * k + j
        /\ f * k \in Nat /\ g * k \in Nat
    BY PlaceType, VideoUdpAssumption DEF Frames
  <1>3. g \div N = f \div N /\ g % N <= f % N
    BY DEF frameid
  <1>4. Place(d) = IF Place(c) + n < Round THEN Place(c) + n ELSE Place(c) + n - Round
    <2>1. Round \in Nat /\ Round >= 1 /\ n \in 0 .. Round
      BY <1>1
    <2> QED
      BY <2>1, AddsModulo
  <1> HIDE DEF M, N, k, f, g, i, j
  <1>5. g <= f /\ f - g <= N - 1
    <2>1. f = N * (f \div N) + (f % N) /\ g = N * (g \div N) + (g % N)
          /\ f % N \in 0 .. N - 1 /\ g % N \in 0 .. N - 1
          /\ f \div N \in Nat /\ g \div N \in Nat
      BY <1>1, <1>2, Z3
    <2>2. PICK q \in Nat, a \in 0 .. N - 1, b \in 0 .. N - 1 :
              q = f \div N /\ a = f % N /\ b = g % N
      BY <2>1
    <2>3. q = g \div N /\ b <= a
      BY <1>3, <2>2
    <2>4. f = N * q + a /\ g = N * q + b
      BY <2>1, <2>2, <2>3
    <2>5. PICK Nq \in Nat : Nq = N * q
      BY <1>1, Z3
    <2>6. f = Nq + a /\ g = Nq + b
      BY <2>4, <2>5
    <2> QED
      BY <1>1, <2>2, <2>3, <2>6
  <1>6. ASSUME g < f PROVE FALSE
    <2> PICK m \in 1 .. N - 1 : f = g + m
      <3>1. f - g \in 1 .. N - 1 /\ f = g + (f - g)
        BY <1>1, <1>2, <1>5, <1>6
      <3> QED
        BY <3>1
    <2>1. f * k = g * k + m * k /\ m * k \in Nat
      BY <1>1, <1>2, Z3
    <2>2. m * k >= k /\ m * k <= M - k
      <3>1. m \in Nat /\ m >= 1 /\ m <= N - 1
        BY <1>1
      <3>2. m * k >= 1 * k /\ m * k <= (N - 1) * k
        BY <1>1, <3>1, Z3
      <3>3. (N - 1) * k = N * k - k
        BY <1>1, Z3
      <3> QED
        BY <1>1, <3>2, <3>3
    <2>3. Place(c) - Place(d) >= 1 /\ Place(c) - Place(d) <= M - 1
      <3> DEFINE mk == m * k
                 gk == g * k
      <3>1. /\ Place(c) = gk + mk + i /\ Place(d) = gk + j /\ gk \in Nat /\ mk \in Nat
            /\ mk >= k /\ mk <= M - k
        BY <1>2, <2>1, <2>2
      <3> HIDE DEF mk, gk
      <3> QED
        BY <1>1, <1>2, <3>1
    <2>4. Place(c) \in Nat /\ Place(d) \in Nat
      BY PlaceType
    <2> QED
      BY <1>1, <1>4, <2>3, <2>4
  <1>7. g = f
    BY <1>2, <1>5, <1>6
  <1> QED
    BY <1>7 DEF f, g

-----------------------------------------------------------------------------
(* What happens to the packets on their way.                                *)

ChainOf(s, lost, base, e) ==
    /\ base \in Nat /\ e \in [1 .. Len(s) -> 0 .. lost]
    /\ \A i, j \in 1 .. Len(s) : i <= j => e[i] <= e[j]
    /\ \A i \in 1 .. Len(s) : Place(s[i]) = (base + i + e[i]) % Round

LEMMA ChainTail ==
    ASSUME NEW s \in Seq(Packets), NEW lost \in Nat, Chained(s, lost), s # <<>>
    PROVE  Chained(Tail(s), lost)
  <1> PICK base, e : ChainOf(s, lost, base, e)
    BY DEF Chained, ChainOf
  <1>1. /\ Tail(s) \in Seq(Packets) /\ Len(Tail(s)) = Len(s) - 1 /\ Len(s) \in Nat /\ Len(s) >= 1
        /\ \A k \in 1 .. Len(Tail(s)) : Tail(s)[k] = s[k + 1]
    BY HeadTailProperties, EmptySeq
  <1> PICK t : t = Tail(s)
    OBVIOUS
  <1> DEFINE d == [i \in 1 .. Len(t) |-> e[i + 1]]
  <1>2. ASSUME NEW i \in 1 .. Len(t)
        PROVE  i + 1 \in 1 .. Len(s) /\ t[i] = s[i + 1] /\ d[i] = e[i + 1] /\ e[i + 1] \in 0 .. lost
    BY <1>1 DEF ChainOf
  <1>3. d \in [1 .. Len(t) -> 0 .. lost]
    BY <1>2
  <1> HIDE DEF d
  <1>4. \A i, j \in 1 .. Len(t) : i <= j => d[i] <= d[j]
    <2> TAKE i, j \in 1 .. Len(t)
    <2>1. i <= j => i + 1 <= j + 1
      BY <1>1
    <2> QED
      BY <1>2, <2>1 DEF ChainOf
  <1>5. ASSUME NEW i \in 1 .. Len(t) PROVE Place(t[i]) = ((base + 1) + i + d[i]) % Round
    <2>1. Place(s[i + 1]) = (base + (i + 1) + e[i + 1]) % Round
      BY <1>2 DEF ChainOf
    <2>2. base + (i + 1) + e[i + 1] = (base + 1) + i + d[i]
      BY <1>1, <1>2 DEF ChainOf
    <2> QED
      BY <1>2, <2>1, <2>2
  <1>6. base + 1 \in Nat
    BY DEF ChainOf
  <1>7. ChainOf(t, lost, base + 1, d)
    BY <1>3, <1>4, <1>5, <1>6 DEF ChainOf
  <1> QED
    BY <1>7 DEF Chained, ChainOf

LEMMA ChainAppend ==
    ASSUME NEW s \in Seq(Packets), NEW lost \in Nat, Chained(s, lost), s # <<>>,
           NEW c, c = s[Len(s)], NEW d \in Packets, Place(d) = (Place(c) + 1) % Round
    PROVE  Chained(Append(s, d), lost)
  <1> PICK base, e : ChainOf(s, lost, base, e)
    BY DEF Chained, ChainOf
  <1> PICK n : n = Len(s)
    OBVIOUS
  <1> PICK t : t = Append(s, d)
    OBVIOUS
  <1>1. /\ n \in Nat /\ n >= 1 /\ t \in Seq(Packets) /\ Len(t) = n + 1 /\ t[n + 1] = d
        /\ \A i \in 1 .. n : t[i] = s[i]
    BY EmptySeq
  <1> DEFINE h == [i \in 1 .. Len(t) |-> e[IF i = n + 1 THEN n ELSE i]]
  <1>0. \A i \in 1 .. n : e[i] \in 0 .. lost
    BY DEF ChainOf
  <1>2. ASSUME NEW i \in 1 .. Len(t)
        PROVE  /\ i = n + 1 => h[i] = e[n]
               /\ i # n + 1 => i \in 1 .. n /\ h[i] = e[i]
               /\ h[i] \in 0 .. lost
    <2>1. h[i] = e[IF i = n + 1 THEN n ELSE i]
      OBVIOUS
    <2> HIDE DEF h
    <2>2. n \in 1 .. n /\ (i # n + 1 => i \in 1 .. n)
      BY <1>1
    <2> QED
      BY <1>0, <2>1, <2>2
  <1>3. h \in [1 .. Len(t) -> 0 .. lost]
    BY <1>2
  <1> HIDE DEF h
  <1>4. \A i, j \in 1 .. Len(t) : i <= j => h[i] <= h[j]
    <2> TAKE i, j \in 1 .. Len(t)
    <2>1. \A k \in 1 .. n : k <= n /\ e[k] <= e[n] /\ e[k] \in 0 .. lost
      <3>1. n \in 1 .. n /\ \A k \in 1 .. n : k <= n
        BY <1>1
      <3>2. \A k, j2 \in 1 .. n : k <= j2 => e[k] <= e[j2]
        BY DEF ChainOf
      <3> QED
        BY <1>0, <3>1, <3>2
    <2>2. CASE j = n + 1 /\ i # n + 1
      BY <1>2, <2>1, <2>2
    <2>3. CASE j = n + 1 /\ i = n + 1
      BY <1>2, <2>3
    <2>4. CASE j # n + 1 /\ i # n + 1
      BY <1>2, <2>4 DEF ChainOf
    <2>5. CASE j # n + 1 /\ i = n + 1
      BY <1>1, <1>2, <2>5
    <2> QED
      BY <2>2, <2>3, <2>4, <2>5
  <1>5. ASSUME NEW i \in 1 .. Len(t) PROVE Place(t[i]) = (base + i + h[i]) % Round
    <2>1. CASE i # n + 1
      <3>1. i \in 1 .. n /\ h[i] = e[i] /\ t[i] = s[i]
        BY <1>1, <1>2, <2>1
      <3> QED
        BY <3>1 DEF ChainOf
    <2>2. CASE i = n + 1
      <3>1. h[i] = e[n] /\ t[i] = d /\ e[n] \in 0 .. lost /\ n \in 1 .. n
        BY <1>1, <1>2, <2>2
      <3>2. Place(c) = (base + n + e[n]) % Round
        BY <3>1 DEF ChainOf
      <3> PICK x \in Nat : x = base + n + e[n]
        BY <1>1, <3>1 DEF ChainOf
      <3>3. (x + 1) % Round = ((x % Round) + 1) % Round
        BY NextTwice
      <3>4. base + i + h[i] = x + 1
        BY <1>1, <2>2, <3>1 DEF ChainOf
      <3> QED
        BY <3>1, <3>2, <3>3, <3>4
    <2> QED
      BY <2>1, <2>2
  <1>6. ChainOf(t, lost, base, h)
    BY <1>3, <1>4, <1>5 DEF ChainOf
  <1> QED
    BY <1>6 DEF Chained, ChainOf

(* One packet of s is lost.                                                 *)
Without(t, s, k) ==
    /\ k \in 1 .. Len(s) /\ Len(t) = Len(s) - 1
    /\ \A i \in 1 .. Len(t) : t[i] = s[IF i < k THEN i ELSE i + 1]

LEMMA ChainLoses ==
    ASSUME NEW s \in Seq(Packets), NEW lost \in Nat, Chained(s, lost),
           NEW k, NEW t \in Seq(Packets), Without(t, s, k)
    PROVE  Chained(t, lost + 1)
  <1> PICK base, e : ChainOf(s, lost, base, e)
    BY DEF Chained, ChainOf
  <1>1. /\ Len(s) \in Nat /\ Len(t) \in Nat /\ k \in Nat /\ k >= 1
        /\ k \in 1 .. Len(s) /\ Len(t) = Len(s) - 1
    BY DEF Without
  <1>a. \A i \in 1 .. Len(t) : t[i] = s[IF i < k THEN i ELSE i + 1]
    BY DEF Without
  <1> DEFINE h == [i \in 1 .. Len(t) |-> IF i < k THEN e[i] ELSE e[i + 1] + 1]
  <1>0. /\ \A i \in 1 .. Len(s) : e[i] \in 0 .. lost
        /\ \A i, j \in 1 .. Len(s) : i <= j => e[i] <= e[j]
        /\ base \in Nat
    BY DEF ChainOf
  <1>2. ASSUME NEW i \in 1 .. Len(t)
        PROVE  /\ i < k => i \in 1 .. Len(s) /\ h[i] = e[i] /\ t[i] = s[i] /\ e[i] \in 0 .. lost
               /\ ~(i < k) => /\ i + 1 \in 1 .. Len(s) /\ h[i] = e[i + 1] + 1
                              /\ t[i] = s[i + 1] /\ e[i + 1] \in 0 .. lost
    <2>1. h[i] = IF i < k THEN e[i] ELSE e[i + 1] + 1
      OBVIOUS
    <2> HIDE DEF h
    <2>2. i \in 1 .. Len(s) /\ i + 1 \in 1 .. Len(s)
      BY <1>1
    <2> QED
      BY <1>0, <1>a, <2>1, <2>2
  <1>3. h \in [1 .. Len(t) -> 0 .. lost + 1]
    <2>1. \A i \in 1 .. Len(t) : h[i] \in 0 .. lost + 1
      <3> HIDE DEF h
      <3> TAKE i \in 1 .. Len(t)
      <3>1. CASE i < k
        BY <1>2, <3>1
      <3>2. CASE ~(i < k)
        BY <1>2, <3>2
      <3> QED
        BY <3>1, <3>2
    <2> QED
      BY <2>1
  <1> HIDE DEF h
  <1>4. \A i, j \in 1 .. Len(t) : i <= j => h[i] <= h[j]
    <2> TAKE i, j \in 1 .. Len(t)
    <2>1. CASE i < k /\ j < k
      BY <1>2, <2>1 DEF ChainOf
    <2>2. CASE i < k /\ ~(j < k)
      <3>1. i <= j + 1
        BY <1>1, <2>2
      <3>2. e[i] <= e[j + 1]
        BY <1>0, <1>2, <2>2, <3>1
      <3>3. h[i] = e[i] /\ h[j] = e[j + 1] + 1 /\ e[i] \in 0 .. lost /\ e[j + 1] \in 0 .. lost
        BY <1>2, <2>2
      <3> QED
        BY <3>2, <3>3
    <2>3. CASE ~(i < k) /\ ~(j < k)
      <3>1. i <= j => e[i + 1] <= e[j + 1]
        <4>1. i <= j => i + 1 <= j + 1
          BY <1>1
        <4> QED
          BY <1>0, <1>2, <2>3, <4>1
      <3>2. /\ h[i] = e[i + 1] + 1 /\ h[j] = e[j + 1] + 1
            /\ e[i + 1] \in 0 .. lost /\ e[j + 1] \in 0 .. lost
        BY <1>2, <2>3
      <3> QED
        BY <3>1, <3>2
    <2>4. CASE ~(i < k) /\ j < k
      BY <1>1, <2>4
    <2> QED
      BY <2>1, <2>2, <2>3, <2>4
  <1>5. ASSUME NEW i \in 1 .. Len(t) PROVE Place(t[i]) = (base + i + h[i]) % Round
    <2>1. CASE i < k
      BY <1>2, <2>1 DEF ChainOf
    <2>2. CASE ~(i < k)
      <3>1. Place(t[i]) = (base + (i + 1) + e[i + 1]) % Round
        BY <1>2, <2>2 DEF ChainOf
      <3>2. base + (i + 1) + e[i + 1] = base + i + h[i]
        <4>1. h[i] = e[i + 1] + 1 /\ e[i + 1] \in 0 .. lost
          BY <1>2, <2>2
        <4> QED
          BY <1>0, <4>1
      <3> QED
        BY <3>1, <3>2
    <2> QED
      BY <2>1, <2>2
  <1>6. ChainOf(t, lost + 1, base, h)
    BY <1>3, <1>4, <1>5 DEF ChainOf
  <1> QED
    BY <1>6 DEF Chained, ChainOf

(* Less than a whole round of ids lies between two packets in a row.        *)
LEMMA ChainApart ==
    ASSUME NEW s \in Seq(Packets), NEW lost \in Nat, NEW M \in Nat, lost < M,
           Chained(s, lost), Len(s) >= 2
    PROVE  \E x \in Nat : \E n \in 1 .. M :
               Place(s[1]) = x % Round /\ Place(s[2]) = (x + n) % Round
  <1>0. PICK base, e : ChainOf(s, lost, base, e)
    BY DEF Chained, ChainOf
  <1>1. 1 \in 1 .. Len(s) /\ 2 \in 1 .. Len(s) /\ 1 <= 2
    OBVIOUS
  <1>2. /\ Place(s[1]) = (base + 1 + e[1]) % Round /\ Place(s[2]) = (base + 2 + e[2]) % Round
        /\ e[1] \in 0 .. lost /\ e[2] \in 0 .. lost /\ e[1] <= e[2] /\ base \in Nat
    BY <1>0, <1>1 DEF ChainOf
  <1>3. PICK n \in 1 .. M : base + 2 + e[2] = (base + 1 + e[1]) + n
    BY <1>2, Between
  <1>4. base + 1 + e[1] \in Nat
    BY <1>2
  <1> QED
    BY <1>2, <1>3, <1>4

(* The packet behind a packet drawn is not of an older frame of the same    *)
(* round, unless a whole round was lost.                                    *)
LEMMA ChainOrder ==
    ASSUME NEW s \in Seq(Packets), NEW lost \in Nat, lost < NumFrameIds * numpackets,
           Chained(s, lost), Len(s) >= 2,
           s[2].frame \div NumFrameIds = s[1].frame \div NumFrameIds,
           frameid(s[2].frame) <= frameid(s[1].frame)
    PROVE  s[2].frame = s[1].frame
  <1>1. s[1] \in Packets /\ s[2] \in Packets
    BY 1 \in 1 .. Len(s), 2 \in 1 .. Len(s)
  <1>2. PICK x \in Nat, n \in 1 .. NumFrameIds * numpackets :
            Place(s[1]) = x % Round /\ Place(s[2]) = (x + n) % Round
    <2>1. NumFrameIds * numpackets \in Nat
      BY Rounds
    <2> QED
      BY <2>1, ChainApart
  <1> QED
    BY <1>1, <1>2, NotOlder

-----------------------------------------------------------------------------
(* The sequences of the packets on their way.                               *)
LEMMA RemoveAtProperties ==
    ASSUME NEW S, NEW s \in Seq(S), NEW k \in 1 .. Len(s)
    PROVE  RemoveAt(s, k) \in Seq(S) /\ (k = 1 => RemoveAt(s, k) = Tail(s))
  <1>1. SubSeq(s, 1, k - 1) \in Seq(S) /\ SubSeq(s, k + 1, Len(s)) \in Seq(S)
    <2>1. \A i \in 1 .. k - 1 : s[i] \in S
      OBVIOUS
    <2>2. \A i \in k + 1 .. Len(s) : s[i] \in S
      OBVIOUS
    <2> QED
      BY <2>1, <2>2, SubSeqProperties
  <1>2. ASSUME k = 1 PROVE RemoveAt(s, k) = Tail(s)
    <2>1. SubSeq(s, 1, 0) = <<>>
      OBVIOUS
    <2>2. SubSeq(s, 2, Len(s)) = Tail(s)
      <3>1. s # <<>>
        OBVIOUS
      <3> QED
        BY <3>1
    <2>3. Tail(s) \in Seq(S)
      BY HeadTailProperties
    <2> QED
      BY <1>2, <2>1, <2>2, <2>3, ConcatEmptySeq DEF RemoveAt
  <1> QED
    BY <1>1, <1>2, ConcatProperties DEF RemoveAt

LEMMA HeadAndTail ==
    ASSUME NEW S, NEW s \in Seq(S), s # <<>>
    PROVE  /\ Head(s) \in S /\ Tail(s) \in Seq(S) /\ s = <<Head(s)>> \o Tail(s)
           /\ Len(s) \in Nat /\ Len(s) >= 1
  <1>1. Head(s) \in S /\ Tail(s) \in Seq(S) /\ <<Head(s)>> \in Seq(S) /\ Head(s) = s[1]
    BY HeadTailProperties
  <1>2. Len(s) \in Nat /\ Len(s) >= 1 /\ Len(Tail(s)) = Len(s) - 1
        /\ \A i \in 1 .. Len(Tail(s)) : Tail(s)[i] = s[i + 1]
    BY HeadTailProperties, EmptySeq
  <1> PICK t \in Seq(S) : t = <<Head(s)>> \o Tail(s)
    BY <1>1, ConcatProperties
  <1>3. Len(t) = Len(s)
    BY <1>1, <1>2
  <1>4. ASSUME NEW i \in 1 .. Len(s) PROVE t[i] = s[i]
    <2>1. CASE i = 1
      BY <1>1, <1>2, <2>1
    <2>2. CASE i # 1
      <3>1. i - 1 \in 1 .. Len(Tail(s)) /\ (i - 1) + 1 = i
        BY <1>2, <2>2
      <3>2. t[i] = Tail(s)[i - 1]
        BY <1>1, <1>2, <2>2
      <3> QED
        BY <1>2, <3>1, <3>2
    <2> QED
      BY <2>1, <2>2
  <1>5. t = s
    BY <1>3, <1>4, SeqEqual
  <1> QED
    BY <1>1, <1>2, <1>5

(* Packets that wait, packets on their way and the one to be sent next.     *)
LEMMA JoinProperties ==
    ASSUME NEW S, NEW s \in Seq(S), NEW n \in Seq(S), NEW c \in S
    PROVE  /\ s \o n \o <<c>> \in Seq(S)
           /\ Len(s \o n \o <<c>>) = Len(s) + Len(n) + 1
           /\ s \o n \o <<c>> # <<>>
           /\ (s \o n \o <<c>>)[Len(s \o n \o <<c>>)] = c
           /\ \A i \in 1 .. Len(s) : (s \o n \o <<c>>)[i] = s[i]
           /\ \A i \in 1 .. Len(n) : (s \o n \o <<c>>)[Len(s) + i] = n[i]
  <1>1. <<c>> \in Seq(S) /\ Len(<<c>>) = 1 /\ <<c>>[1] = c
    OBVIOUS
  <1> PICK t \in Seq(S) : t = s \o n
    BY ConcatProperties
  <1>2. /\ Len(t) = Len(s) + Len(n) /\ Len(s) \in Nat /\ Len(n) \in Nat
        /\ \A i \in 1 .. Len(s) : t[i] = s[i]
        /\ \A i \in 1 .. Len(n) : t[Len(s) + i] = n[i]
    OBVIOUS
  <1> PICK u \in Seq(S) : u = t \o <<c>>
    BY <1>1, ConcatProperties
  <1>3. /\ Len(u) = Len(t) + 1 /\ u[Len(t) + 1] = c
        /\ \A i \in 1 .. Len(t) : u[i] = t[i]
    BY <1>1
  <1>4. u # <<>>
    BY <1>2, <1>3
  <1>5. \A i \in 1 .. Len(s) : u[i] = s[i]
    BY <1>2, <1>3
  <1>6. ASSUME NEW i \in 1 .. Len(n) PROVE u[Len(s) + i] = n[i]
    <2>1. Len(s) + i \in 1 .. Len(t)
      BY <1>2
    <2> QED
      BY <1>2, <1>3, <2>1
  <1> QED
    BY <1>2, <1>3, <1>4, <1>5, <1>6

LEMMA JoinSend ==
    ASSUME NEW S, NEW s \in Seq(S), NEW n \in Seq(S), NEW c \in S, NEW d \in S
    PROVE  s \o Append(n, c) \o <<d>> = Append(s \o n \o <<c>>, d)
  <1>1. <<c>> \in Seq(S) /\ <<d>> \in Seq(S) /\ s \o n \in Seq(S)
    BY ConcatProperties
  <1>2. Append(n, c) = n \o <<c>>
    BY AppendIsConcat
  <1>3. s \o (n \o <<c>>) = s \o n \o <<c>>
    BY <1>1, ConcatAssociative
  <1>4. s \o n \o <<c>> \in Seq(S)
    BY <1>1, ConcatProperties
  <1>5. Append(s \o n \o <<c>>, d) = s \o n \o <<c>> \o <<d>>
    BY <1>4, AppendIsConcat
  <1> QED
    BY <1>2, <1>3, <1>5

LEMMA JoinArrive ==
    ASSUME NEW S, NEW s \in Seq(S), NEW n \in Seq(S), n # <<>>, NEW c
    PROVE  Append(s, n[1]) \o Tail(n) \o <<c>> = s \o n \o <<c>>
  <1>1. Head(n) \in S /\ Tail(n) \in Seq(S) /\ n = <<Head(n)>> \o Tail(n)
    BY HeadAndTail
  <1>2. n[1] = Head(n)
    OBVIOUS
  <1>3. Append(s, n[1]) = s \o <<Head(n)>>
    BY <1>1, <1>2, AppendIsConcat
  <1>4. <<Head(n)>> \in Seq(S)
    BY <1>1
  <1>5. (s \o <<Head(n)>>) \o Tail(n) = s \o n
    BY <1>1, <1>4, ConcatAssociative
  <1> QED
    BY <1>3, <1>5

LEMMA JoinReceive ==
    ASSUME NEW S, NEW s \in Seq(S), s # <<>>, NEW n \in Seq(S), NEW c \in S
    PROVE  s \o n \o <<c>> = <<Head(s)>> \o (Tail(s) \o n \o <<c>>)
  <1>1. Head(s) \in S /\ Tail(s) \in Seq(S) /\ s = <<Head(s)>> \o Tail(s)
    BY HeadAndTail
  <1>2. <<Head(s)>> \in Seq(S) /\ <<c>> \in Seq(S) /\ Tail(s) \o n \in Seq(S)
    BY <1>1, ConcatProperties
  <1>3. s \o n = <<Head(s)>> \o (Tail(s) \o n)
    BY <1>1, <1>2, ConcatAssociative
  <1> QED
    BY <1>2, <1>3, ConcatAssociative

(* The same with a packet that was drawn in front of them.                  *)
LEMMA JoinFront ==
    ASSUME NEW S, NEW s \in Seq(S), NEW n \in Seq(S), NEW c \in S, NEW d \in S
    PROVE  /\ <<d>> \o s \in Seq(S)
           /\ <<d>> \o (s \o n \o <<c>>) = (<<d>> \o s) \o n \o <<c>>
  <1>1. <<d>> \in Seq(S) /\ <<c>> \in Seq(S) /\ s \o n \in Seq(S)
    BY ConcatProperties
  <1>2. (<<d>> \o s) \o n = <<d>> \o (s \o n)
    BY <1>1, ConcatAssociative
  <1> QED
    BY <1>1, <1>2, ConcatAssociative, ConcatProperties

LEMMA Middle ==
    \A a, b \in Nat : \A i \in 1 .. a + b + 1 :
        ~(i < a + 1) /\ i # a + b + 1 => \E j \in 1 .. b : i = a + j
  <1> SUFFICES ASSUME NEW a \in Nat, NEW b \in Nat, NEW i \in 1 .. a + b + 1,
                      ~(i < a + 1), i # a + b + 1
               PROVE  \E j \in 1 .. b : i = a + j
    OBVIOUS
  <1>1. i - a \in 1 .. b /\ i = a + (i - a)
    OBVIOUS
  <1> QED
    BY <1>1

(* The first packet on its way is lost.                                     *)
LEMMA JoinLose ==
    ASSUME NEW S, NEW s \in Seq(S), NEW n \in Seq(S), n # <<>>, NEW c \in S,
           NEW k, k = Len(s) + 1
    PROVE  Without(s \o Tail(n) \o <<c>>, s \o n \o <<c>>, k)
  <1> PICK old, new : old = s \o n \o <<c>> /\ new = s \o Tail(n) \o <<c>>
    OBVIOUS
  <1>1. Tail(n) \in Seq(S) /\ Len(n) \in Nat /\ Len(n) >= 1 /\ Len(Tail(n)) = Len(n) - 1
        /\ \A i \in 1 .. Len(Tail(n)) : Tail(n)[i] = n[i + 1]
    BY HeadTailProperties, HeadAndTail
  <1> PICK m \in Seq(S) : m = Tail(n)
    BY <1>1
  <1>2. /\ Len(old) = Len(s) + Len(n) + 1 /\ old[Len(old)] = c
        /\ \A i \in 1 .. Len(s) : old[i] = s[i]
        /\ \A i \in 1 .. Len(n) : old[Len(s) + i] = n[i]
    BY JoinProperties
  <1>3. /\ new \in Seq(S) /\ Len(new) = Len(s) + Len(m) + 1 /\ new[Len(new)] = c
        /\ \A i \in 1 .. Len(s) : new[i] = s[i]
        /\ \A i \in 1 .. Len(m) : new[Len(s) + i] = m[i]
    <2>1. new = s \o m \o <<c>>
      OBVIOUS
    <2> QED
      BY <2>1, JoinProperties
  <1>4. Len(s) \in Nat /\ Len(m) = Len(n) - 1 /\ Len(new) = Len(old) - 1
    BY <1>1, <1>2, <1>3
  <1>5. ASSUME NEW i \in 1 .. Len(new)
        PROVE  new[i] = old[IF i < Len(s) + 1 THEN i ELSE i + 1]
    <2>1. CASE i < Len(s) + 1
      <3>1. i \in 1 .. Len(s)
        BY <1>4, <2>1
      <3> QED
        BY <1>2, <1>3, <2>1, <3>1
    <2>2. CASE ~(i < Len(s) + 1) /\ i # Len(new)
      <3> PICK j \in 1 .. Len(m) : i = Len(s) + j
        <4>1. Len(s) \in Nat /\ Len(m) \in Nat /\ i \in 1 .. Len(s) + Len(m) + 1
              /\ ~(i < Len(s) + 1) /\ i # Len(s) + Len(m) + 1
          BY <1>3, <2>2
        <4> QED
          BY <4>1, Middle
      <3>1. j + 1 \in 1 .. Len(n) /\ i + 1 = Len(s) + (j + 1)
        BY <1>1, <1>4
      <3>2. new[i] = m[j] /\ m[j] = n[j + 1] /\ old[i + 1] = n[j + 1]
        <4>1. new[i] = m[j]
          BY <1>3
        <4>2. m[j] = n[j + 1]
          BY <1>1
        <4>3. old[Len(s) + (j + 1)] = n[j + 1]
          BY <1>2, <3>1
        <4> QED
          BY <3>1, <4>1, <4>2, <4>3
      <3> QED
        BY <2>2, <3>2
    <2>3. CASE ~(i < Len(s) + 1) /\ i = Len(new)
      <3>1. i + 1 = Len(old)
        BY <1>2, <1>4, <2>3
      <3> QED
        BY <1>2, <1>3, <2>3, <3>1
    <2> QED
      BY <2>1, <2>2, <2>3
  <1>6. k \in 1 .. Len(old)
    BY <1>1, <1>2, <1>4
  <1> QED
    BY <1>4, <1>5, <1>6 DEF Without


-----------------------------------------------------------------------------
(* The types that the order needs.                                          *)
LEMMA OrderTypesInitial == Init => OrderTypes
  <1> SUFFICES ASSUME Init PROVE OrderTypes
    OBVIOUS
  <1>1. numpackets \in Nat /\ numpackets >= 1 /\ NumFrameIds \in Nat /\ NumFrameIds >= 2
        /\ MaxLost \in Nat
    BY Rounds, VideoUdpAssumption
  <1>2. camera \in Packets
    BY <1>1 DEF Init, Packets, Frames
  <1> QED
    BY <1>1, <1>2 DEF Init, OrderTypes

LEMMA FrameIdType ==
    ASSUME NEW packet \in Packets
    PROVE  frameid(packet.frame) \in Nat
  <1>1. packet.frame \in Nat /\ NumFrameIds \in Nat /\ NumFrameIds >= 1
    BY PlaceType, VideoUdpAssumption DEF Frames
  <1> PICK f, n \in Nat : f = packet.frame /\ n = NumFrameIds /\ n >= 1 /\ f \in Nat
    BY <1>1
  <1>2. f % n \in Nat
    BY Z3
  <1> QED
    BY <1>2 DEF frameid

LEMMA OrderTypesStep == OrderTypes /\ [Next]_vars => OrderTypes'
  <1> SUFFICES ASSUME OrderTypes, [Next]_vars PROVE OrderTypes'
    OBVIOUS
  <1> USE DEF OrderTypes
  <1>1. CASE SendPacket
    <2>1. camera' \in Packets
      BY <1>1, NextPlace DEF SendPacket
    <2>2. net' \in Seq(Packets)
      BY <1>1 DEF SendPacket
    <2> QED
      BY <1>1, <2>1, <2>2 DEF SendPacket
  <1>2. CASE Arrive
    <2>1. PICK k \in 1 .. 2 : /\ k <= Len(net)
                              /\ env' = [env EXCEPT !.late = IF k = 2 THEN @ + 1 ELSE @]
                              /\ net' = RemoveAt(net, k)
                              /\ sock' = Append(sock, net[k])
                              /\ UNCHANGED camera
      BY <1>2 DEF Arrive
    <2>2. k \in 1 .. Len(net)
      BY <2>1
    <2>3. net' \in Seq(Packets) /\ sock' \in Seq(Packets)
      BY <2>1, <2>2, RemoveAtProperties
    <2>4. env'.late \in Nat /\ env'.lost = env.lost /\ call' = call
      BY <1>2, <2>1 DEF Arrive
    <2> QED
      BY <2>1, <2>3, <2>4
  <1>3. CASE LosePacket
    <2>1. net' \in Seq(Packets)
      BY <1>3, HeadAndTail DEF LosePacket
    <2>2. env'.late \in Nat /\ env'.lost \in 0 .. MaxLost
      BY <1>3, VideoUdpAssumption DEF LosePacket
    <2> QED
      BY <1>3, <2>1, <2>2 DEF LosePacket
  <1>4. CASE Call
    BY <1>4 DEF Call
  <1>5. CASE ReceivePacket
    <2>1. sock' \in Seq(Packets)
      BY <1>5, HeadAndTail DEF ReceivePacket
    <2>2. CASE call' = [call EXCEPT !.pc = "idle"]
      BY <1>5, <2>1, <2>2 DEF ReceivePacket
    <2>3. CASE ~(call' = [call EXCEPT !.pc = "idle"])
      <3>1. call' = [call EXCEPT !.firstFrameReceived = First(frameid(Head(sock).frame)),
                                 !.drawn = @ \cup {Head(sock)}]
        BY <1>5, <2>3 DEF ReceivePacket
      <3>2. Head(sock) \in Packets
        BY <1>5, HeadAndTail DEF ReceivePacket
      <3>3. First(frameid(Head(sock).frame)) \in Nat
        BY <3>2, FrameIdType DEF First
      <3>4. call.drawn \cup {Head(sock)} \in SUBSET Packets
        BY <3>2
      <3>5. call' \in [pc : {"idle", "reading", "stopped"}, firstFrameReceived : Nat,
                       drawn : SUBSET Packets]
        BY <3>1, <3>3, <3>4
      <3> QED
        BY <1>5, <2>1, <3>5 DEF ReceivePacket
    <2> QED
      BY <2>2, <2>3
  <1>6. CASE ReceiveNothing
    BY <1>6 DEF ReceiveNothing
  <1>7. CASE ReceiveFails
    <2>1. env'.late = env.late /\ env'.lost = env.lost
      BY <1>7 DEF ReceiveFails
    <2>2. call' \in [pc : {"idle", "reading", "stopped"}, firstFrameReceived : Nat,
                     drawn : SUBSET Packets]
      BY <1>7 DEF ReceiveFails
    <2> QED
      BY <1>7, <2>1, <2>2 DEF ReceiveFails
  <1>8. CASE UNCHANGED vars
    BY <1>8 DEF vars
  <1> QED
    BY <1>1, <1>2, <1>3, <1>4, <1>5, <1>6, <1>7, <1>8
       DEF Next, Sender, Network, Receiver

(* What is on its way, as the steps change it.                              *)
LEMMA StreamType ==
    ASSUME OrderTypes
    PROVE  Stream \in Seq(Packets) /\ Stream # <<>> /\ Stream[Len(Stream)] = camera
  BY JoinProperties DEF Stream, OrderTypes

LEMMA StreamSend ==
    ASSUME OrderTypes, SendPacket, NEW lost \in Nat
    PROVE  /\ Chained(Stream, lost) => Chained(Stream', lost)
           /\ \A d \in Packets : Chained(<<d>> \o Stream, lost) => Chained(<<d>> \o Stream', lost)
  <1> PICK c \in Packets, b \in Packets : c = camera /\ b = camera'
    BY OrderTypesStep DEF OrderTypes, Next, Sender
  <1>1. Place(b) = (Place(c) + 1) % Round
    BY NextPlace DEF SendPacket
  <1>2. ASSUME NEW s \in Seq(Packets), Chained(s \o net \o <<c>>, lost)
        PROVE  Chained(s \o Append(net, c) \o <<b>>, lost)
    <2> PICK t : t = s \o net \o <<c>>
      OBVIOUS
    <2>1. t \in Seq(Packets) /\ t # <<>> /\ t[Len(t)] = c
      BY JoinProperties DEF OrderTypes
    <2>2. Chained(Append(t, b), lost)
      BY <1>1, <1>2, <2>1, ChainAppend
    <2>3. s \o Append(net, c) \o <<b>> = Append(t, b)
      <3> PICK n \in Seq(Packets) : n = net
        BY DEF OrderTypes
      <3>1. s \o Append(n, c) \o <<b>> = Append(s \o n \o <<c>>, b)
        BY JoinSend
      <3> QED
        BY <3>1
    <2> QED
      BY <2>2, <2>3
  <1>3. Stream' = sock \o Append(net, c) \o <<b>> /\ Stream = sock \o net \o <<c>>
    BY DEF Stream, SendPacket
  <1>4. Chained(Stream, lost) => Chained(Stream', lost)
    BY <1>2, <1>3 DEF OrderTypes
  <1>5. ASSUME NEW d \in Packets, Chained(<<d>> \o Stream, lost)
        PROVE  Chained(<<d>> \o Stream', lost)
    <2>1. <<d>> \o Stream = (<<d>> \o sock) \o net \o <<c>> /\ <<d>> \o sock \in Seq(Packets)
      BY <1>3, JoinFront DEF OrderTypes
    <2>2. Append(net, c) \in Seq(Packets) /\ sock \in Seq(Packets)
      BY DEF OrderTypes
    <2>4. \A n \in Seq(Packets) :
              <<d>> \o (sock \o n \o <<b>>) = (<<d>> \o sock) \o n \o <<b>>
      BY <2>2, JoinFront
    <2>3. <<d>> \o Stream' = (<<d>> \o sock) \o Append(net, c) \o <<b>>
      BY <1>3, <2>2, <2>4
    <2> QED
      BY <1>2, <1>5, <2>1, <2>3
  <1> QED
    BY <1>4, <1>5

LEMMA StreamLose ==
    ASSUME OrderTypes, LosePacket, NEW lost \in Nat
    PROVE  /\ Chained(Stream, lost) => Chained(Stream', lost + 1)
           /\ \A d \in Packets :
                  Chained(<<d>> \o Stream, lost) => Chained(<<d>> \o Stream', lost + 1)
  <1>1. net \in Seq(Packets) /\ net # <<>> /\ Tail(net) \in Seq(Packets) /\ camera \in Packets
        /\ sock \in Seq(Packets)
    BY HeadAndTail DEF LosePacket, OrderTypes
  <1>2. ASSUME NEW s \in Seq(Packets), Chained(s \o net \o <<camera>>, lost)
        PROVE  Chained(s \o Tail(net) \o <<camera>>, lost + 1)
    <2> PICK n \in Seq(Packets), c \in Packets : n = net /\ c = camera /\ n # <<>>
      BY <1>1
    <2>0. Tail(n) \in Seq(Packets)
      BY HeadAndTail
    <2> PICK k : k = Len(s) + 1
      OBVIOUS
    <2>1. Without(s \o Tail(n) \o <<c>>, s \o n \o <<c>>, k)
      BY JoinLose
    <2> PICK old \in Seq(Packets) : old = s \o n \o <<c>>
      BY JoinProperties
    <2> PICK new \in Seq(Packets) : new = s \o Tail(n) \o <<c>>
      BY <2>0, JoinProperties
    <2>2. Chained(old, lost) /\ Without(new, old, k)
      BY <1>2, <2>1
    <2>3. Chained(new, lost + 1)
      BY <2>2, ChainLoses
    <2> QED
      BY <2>3
  <1>3. Stream' = sock \o Tail(net) \o <<camera>> /\ Stream = sock \o net \o <<camera>>
    BY DEF Stream, LosePacket
  <1>4. Chained(Stream, lost) => Chained(Stream', lost + 1)
    BY <1>1, <1>2, <1>3
  <1>5. ASSUME NEW d \in Packets, Chained(<<d>> \o Stream, lost)
        PROVE  Chained(<<d>> \o Stream', lost + 1)
    <2>1. /\ <<d>> \o Stream = (<<d>> \o sock) \o net \o <<camera>>
          /\ <<d>> \o sock \in Seq(Packets)
          /\ <<d>> \o Stream' = (<<d>> \o sock) \o Tail(net) \o <<camera>>
      BY <1>1, <1>3, JoinFront
    <2> QED
      BY <1>2, <1>5, <2>1
  <1> QED
    BY <1>4, <1>5

LEMMA StreamReceive ==
    ASSUME OrderTypes, ReceivePacket
    PROVE  /\ Stream = <<Head(sock)>> \o Stream' /\ Head(sock) \in Packets
           /\ Stream' \in Seq(Packets)
  <1>1. sock \in Seq(Packets) /\ sock # <<>> /\ sock' = Tail(sock) /\ UNCHANGED <<net, camera>>
        /\ net \in Seq(Packets) /\ camera \in Packets
    BY DEF ReceivePacket, OrderTypes
  <1>2. Head(sock) \in Packets /\ Tail(sock) \in Seq(Packets)
    BY <1>1, HeadAndTail
  <1>3. sock \o net \o <<camera>> = <<Head(sock)>> \o (Tail(sock) \o net \o <<camera>>)
    BY <1>1, JoinReceive
  <1>4. Tail(sock) \o net \o <<camera>> \in Seq(Packets)
    BY <1>1, <1>2, JoinProperties
  <1> QED
    BY <1>1, <1>2, <1>3, <1>4 DEF Stream

LEMMA StreamKept ==
    ASSUME OrderTypes, Arrive, env'.late = 0
    PROVE  Stream' = Stream /\ env.late = 0 /\ env'.lost = env.lost
  <1>1. PICK k \in 1 .. 2 : /\ k <= Len(net)
                            /\ env' = [env EXCEPT !.late = IF k = 2 THEN @ + 1 ELSE @]
                            /\ net' = RemoveAt(net, k)
                            /\ sock' = Append(sock, net[k])
                            /\ UNCHANGED camera
    BY DEF Arrive
  <1>2. k = 1 /\ env.late = 0 /\ env'.lost = env.lost
    <2>1. env'.late = IF k = 2 THEN env.late + 1 ELSE env.late
      BY <1>1 DEF OrderTypes
    <2>2. env'.lost = env.lost
      BY <1>1
    <2> QED
      BY <2>1, <2>2 DEF OrderTypes
  <1>3. net \in Seq(Packets) /\ net # <<>> /\ 1 \in 1 .. Len(net) /\ sock \in Seq(Packets)
    BY <1>1, <1>2 DEF OrderTypes
  <1>4. net' = Tail(net) /\ sock' = Append(sock, net[1])
    BY <1>1, <1>2, <1>3, RemoveAtProperties
  <1>5. Append(sock, net[1]) \o Tail(net) \o <<camera>> = sock \o net \o <<camera>>
    <2> PICK n, s, c : n \in Seq(Packets) /\ s \in Seq(Packets) /\ n = net /\ s = sock /\ c = camera
      BY <1>3
    <2>1. Append(s, n[1]) \o Tail(n) \o <<c>> = s \o n \o <<c>>
      BY <1>3, JoinArrive
    <2> QED
      BY <2>1
  <1> QED
    BY <1>1, <1>2, <1>4, <1>5 DEF Stream

LEMMA ChainDrop ==
    ASSUME NEW s \in Seq(Packets), NEW c \in Packets, NEW lost \in Nat,
           Chained(<<c>> \o s, lost)
    PROVE  Chained(s, lost)
  <1>1. <<c>> \o s \in Seq(Packets) /\ <<c>> \o s # <<>> /\ Tail(<<c>> \o s) = s
    OBVIOUS
  <1> QED
    BY <1>1, ChainTail

(* The packet drawn and the next one.                                       *)
LEMMA ChainSecond ==
    ASSUME NEW s \in Seq(Packets), NEW c \in Packets, NEW d \in Packets, NEW lost \in Nat,
           lost < NumFrameIds * numpackets, Chained(<<d>> \o (<<c>> \o s), lost),
           c.frame \div NumFrameIds = d.frame \div NumFrameIds,
           frameid(c.frame) <= frameid(d.frame)
    PROVE  c.frame = d.frame
  <1> PICK t : t = <<d>> \o (<<c>> \o s)
    OBVIOUS
  <1>1. t \in Seq(Packets) /\ Len(t) >= 2 /\ t[1] = d /\ t[2] = c
    OBVIOUS
  <1> QED
    BY <1>1, ChainOrder

-----------------------------------------------------------------------------
(* The order is kept.                                                       *)
LEMMA OrderInitial == Init => OrderInv
  <1> SUFFICES ASSUME Init PROVE OrderInv
    OBVIOUS
  <1>1. OrderTypes
    BY OrderTypesInitial
  <1>2. call.drawn = {} /\ call.firstFrameReceived = 0 /\ env.lost = 0
    BY DEF Init
  <1>3. Chained(Stream, env.lost)
    <2> PICK c \in Packets : c = camera
      BY <1>1 DEF OrderTypes
    <2> PICK s : s = Stream
      OBVIOUS
    <2>1. s = <<c>>
      BY DEF Init, Stream
    <2>2. Len(s) = 1 /\ s[1] = c
      BY <2>1
    <2>3. Place(c) \in Nat /\ Place(c) >= 1 /\ Place(c) % Round = Place(c)
      <3>1. c.frame = 1 /\ c.index = 0 /\ numpackets \in Nat /\ numpackets >= 1
        BY Rounds DEF Init
      <3>2. Place(c) = 1 * numpackets + 0 /\ Place(c) \in 0 .. Round - 1
        BY <3>1, PlaceType
      <3>3. Place(c) >= 1 /\ Place(c) \in Nat
        BY <3>1, <3>2
      <3>4. Place(c) % Round = Place(c)
        <4> PICK R \in Nat : R = Round
          BY Rounds
        <4> PICK p \in 0 .. R - 1 : p = Place(c)
          BY <3>2
        <4>1. R >= 1 /\ R * 0 + p = p /\ 0 \in Nat
          OBVIOUS
        <4>2. (R * 0 + p) % R = p
          BY <4>1, Residue
        <4> QED
          BY <4>1, <4>2
      <3> QED
        BY <3>3, <3>4
    <2> DEFINE z == [i \in 1 .. Len(s) |-> 0]
    <2>4. z \in [1 .. Len(s) -> 0 .. 0] /\ \A i \in 1 .. Len(s) : z[i] = 0
      OBVIOUS
    <2> HIDE DEF z
    <2>5. \A i, j \in 1 .. Len(s) : i <= j => z[i] <= z[j]
      BY <2>4
    <2> PICK base \in Nat : base + 1 = Place(c)
      <3>1. Place(c) - 1 \in Nat /\ (Place(c) - 1) + 1 = Place(c)
        BY <2>3
      <3> QED
        BY <3>1
    <2>6. ASSUME NEW i \in 1 .. Len(s) PROVE Place(s[i]) = (base + i + z[i]) % Round
      <3>1. i = 1 /\ z[i] = 0
        BY <2>2, <2>4
      <3>2. base + i + z[i] = Place(c)
        BY <3>1
      <3> QED
        BY <2>2, <2>3, <3>1, <3>2
    <2>7. Chained(s, 0)
      BY <2>4, <2>5, <2>6 DEF Chained
    <2> QED
      BY <1>2, <2>7
  <1> QED
    BY <1>2, <1>3 DEF OrderInv

LEMMA OrderTransit ==
    ASSUME OrderTypes, OrderInv, UNCHANGED call, env'.late = 0, env.late = 0,
           Chained(Stream, env.lost) => Chained(Stream', env'.lost),
           \A d \in Packets : Chained(<<d>> \o Stream, env.lost)
                                  => Chained(<<d>> \o Stream', env'.lost)
    PROVE  OrderInv'
  <1>1. Chained(Stream', env'.lost)
    BY DEF OrderInv
  <1>2. call' = call /\ FramesDrawn' = FramesDrawn /\ (OneRound' <=> OneRound)
    BY DEF FramesDrawn, OneRound
  <1>3. call.pc = "reading" /\ call.drawn = {} => call.firstFrameReceived = 0
    BY DEF OrderInv
  <1>4. ASSUME OneRound, call.drawn # {}
        PROVE  \E d \in call.drawn :
                   /\ FramesDrawn = {d.frame}
                   /\ call.pc = "reading" => /\ call.firstFrameReceived = frameid(d.frame)
                                             /\ Chained(<<d>> \o Stream', env'.lost)
    <2>1. PICK d \in call.drawn :
                   /\ FramesDrawn = {d.frame}
                   /\ call.pc = "reading" => /\ call.firstFrameReceived = frameid(d.frame)
                                             /\ Chained(<<d>> \o Stream, env.lost)
      BY <1>4 DEF OrderInv
    <2>2. d \in Packets
      BY DEF OrderTypes
    <2> QED
      BY <2>1, <2>2
  <1> QED
    BY <1>1, <1>2, <1>3, <1>4 DEF OrderInv

(* A packet is received: drawn as the first of its call, or drawn with the  *)
(* frame of those before it, or it ends the call.                           *)
LEMMA OrderReceive ==
    ASSUME MaxLost < NumFrameIds * numpackets, OrderTypes, OrderInv, ReceivePacket, env'.late = 0
    PROVE  OrderInv'
  <1> PICK c : c = Head(sock)
    OBVIOUS
  <1> PICK lost \in Nat : lost = env.lost /\ lost < NumFrameIds * numpackets
    <2>1. env.lost \in Nat /\ env.lost <= MaxLost /\ NumFrameIds * numpackets \in Nat
          /\ MaxLost \in Nat
      BY Rounds, VideoUdpAssumption DEF OrderTypes
    <2>2. env.lost < NumFrameIds * numpackets
      BY <2>1
    <2> QED
      BY <2>1, <2>2
  <1> PICK s \in Seq(Packets) : s = Stream'
    BY StreamReceive
  <1>1. Stream = <<c>> \o s /\ c \in Packets /\ env' = env /\ call.pc = "reading"
    BY StreamReceive DEF ReceivePacket
  <1>2. Chained(<<c>> \o s, lost) /\ env.late = 0
    BY <1>1 DEF OrderInv
  <1>3. Chained(s, lost)
    BY <1>1, <1>2, ChainDrop
  <1>4. CASE call' = [call EXCEPT !.pc = "idle"]
    <2>1. call'.pc = "idle" /\ call'.drawn = call.drawn
          /\ call'.firstFrameReceived = call.firstFrameReceived
      BY <1>4 DEF OrderTypes
    <2>2. FramesDrawn' = FramesDrawn /\ (OneRound' <=> OneRound)
      BY <2>1 DEF FramesDrawn, OneRound
    <2>3. OneRound' /\ call'.drawn # {} => \E d \in call'.drawn : FramesDrawn' = {d.frame}
      BY <1>2, <2>1, <2>2 DEF OrderInv
    <2> QED
      BY <1>1, <1>3, <2>1, <2>3 DEF OrderInv
  <1>5. CASE ~(call' = [call EXCEPT !.pc = "idle"])
    <2> PICK id \in Nat : id = frameid(c.frame)
      BY <1>1, FrameIdType
    <2>1. /\ ~IsNext(id)
          /\ call' = [call EXCEPT !.firstFrameReceived = First(id), !.drawn = @ \cup {c}]
      BY <1>5 DEF ReceivePacket
    <2>2. call'.pc = "reading" /\ call'.drawn = call.drawn \cup {c}
          /\ call'.firstFrameReceived = First(id) /\ call.firstFrameReceived \in Nat
      BY <1>1, <2>1 DEF OrderTypes
    <2>3. FramesDrawn' = FramesDrawn \cup {c.frame} /\ c.frame \in FramesDrawn'
      BY <2>2 DEF FramesDrawn
    <2>4. ASSUME OneRound' PROVE OneRound /\ id # 0
      BY <2>3, <2>4 DEF OneRound
    <2>5. ASSUME OneRound', call.drawn = {}
          PROVE  FramesDrawn' = {c.frame} /\ First(id) = id
      <3>1. FramesDrawn = {}
        BY <2>5 DEF FramesDrawn
      <3>2. call.firstFrameReceived = 0
        BY <1>1, <1>2, <2>5 DEF OrderInv
      <3> QED
        BY <2>3, <3>1, <3>2 DEF First
    <2>6. ASSUME OneRound', call.drawn # {}
          PROVE  FramesDrawn' = {c.frame} /\ First(id) = id
      <3>1. PICK d \in call.drawn :
                   /\ FramesDrawn = {d.frame}
                   /\ call.firstFrameReceived = frameid(d.frame)
                   /\ Chained(<<d>> \o Stream, lost)
        BY <1>1, <1>2, <2>4, <2>6 DEF OrderInv
      <3>2. d \in Packets /\ d.frame \in FramesDrawn
        BY <3>1 DEF OrderTypes
      <3>3. c.frame \div NumFrameIds = d.frame \div NumFrameIds
        BY <2>3, <2>6, <3>2 DEF OneRound
      <3>4. frameid(d.frame) # 0
        BY <2>4, <2>6, <3>2 DEF OneRound
      <3>5. First(id) = frameid(d.frame) /\ frameid(d.frame) \in Nat
        BY <3>1, <3>2, <3>4, FrameIdType DEF First
      <3>6. frameid(c.frame) <= frameid(d.frame)
        BY <2>1, <3>5 DEF IsNext
      <3>7. c.frame = d.frame
        BY <1>1, <3>1, <3>2, <3>3, <3>6, ChainSecond
      <3> QED
        BY <2>3, <3>1, <3>5, <3>7
    <2>7. OneRound' => /\ FramesDrawn' = {c.frame} /\ call'.firstFrameReceived = frameid(c.frame)
                       /\ Chained(<<c>> \o Stream', env'.lost) /\ c \in call'.drawn
      BY <1>1, <1>2, <2>2, <2>5, <2>6
    <2>8. call'.drawn # {} /\ Chained(Stream', env'.lost)
      BY <1>1, <1>3, <2>2
    <2> QED
      BY <2>7, <2>8 DEF OrderInv
  <1> QED
    BY <1>4, <1>5

LEMMA OrderStep ==
    ASSUME MaxLost < NumFrameIds * numpackets, OrderTypes, OrderInv, [Next]_vars
    PROVE  OrderInv'
  <1> SUFFICES ASSUME env'.late = 0 PROVE OrderInv'
    BY DEF OrderInv
  <1> PICK lost \in Nat : lost = env.lost
    BY VideoUdpAssumption DEF OrderTypes
  <1>1. CASE SendPacket
    BY <1>1, StreamSend, OrderTransit DEF SendPacket
  <1>2. CASE Arrive
    <2>1. UNCHANGED call
      BY <1>2 DEF Arrive
    <2> QED
      BY <1>2, <2>1, StreamKept, OrderTransit
  <1>3. CASE LosePacket
    <2>1. UNCHANGED call /\ env.late = 0 /\ env'.lost = lost + 1
      BY <1>3 DEF LosePacket, OrderTypes
    <2> QED
      BY <1>3, <2>1, StreamLose, OrderTransit
  <1>4. CASE ReceivePacket
    BY <1>4, OrderReceive
  <1>5. CASE Call
    <2>1. /\ call' = [pc |-> "reading", firstFrameReceived |-> 0, drawn |-> {}]
          /\ UNCHANGED env /\ Stream' = Stream
      BY <1>5 DEF Call, Stream
    <2>2. call'.drawn = {} /\ call'.firstFrameReceived = 0
      BY <2>1
    <2> QED
      BY <2>1, <2>2 DEF OrderInv
  <1>6. CASE ReceiveNothing \/ ReceiveFails
    <2>1. /\ call'.pc # "reading" /\ call'.drawn = call.drawn
          /\ env'.late = env.late /\ env'.lost = env.lost /\ Stream' = Stream
      <3>1. CASE ReceiveNothing
        BY <3>1 DEF ReceiveNothing, OrderTypes, Stream
      <3>2. CASE ReceiveFails
        BY <3>2 DEF ReceiveFails, OrderTypes, Stream
      <3> QED
        BY <1>6, <3>1, <3>2
    <2>2. FramesDrawn' = FramesDrawn /\ (OneRound' <=> OneRound)
      BY <2>1 DEF FramesDrawn, OneRound
    <2>3. OneRound' /\ call'.drawn # {} => \E d \in call'.drawn : FramesDrawn' = {d.frame}
      BY <2>1, <2>2 DEF OrderInv
    <2>4. Chained(Stream', env'.lost)
      <3>1. Chained(Stream, env.lost)
        BY <2>1 DEF OrderInv
      <3> QED
        BY <2>1, <3>1
    <2> QED
      BY <2>1, <2>3, <2>4 DEF OrderInv
  <1>7. CASE UNCHANGED vars
    <2>1. UNCHANGED call /\ env' = env /\ Stream' = Stream
      BY <1>7 DEF vars, Stream
    <2> QED
      BY <2>1, OrderTransit
  <1> QED
    BY <1>1, <1>2, <1>3, <1>4, <1>5, <1>6, <1>7 DEF Next, Sender, Network, Receiver

(* One call draws packets of one frame, as long as the network keeps their  *)
(* order and loses, in all, less than a whole round of the ids of frames;   *)
(* in the code, the packets of 65536 frames.                                *)
THEOREM OneFrame ==
    ASSUME MaxLost < NumFrameIds * numpackets
    PROVE  Spec => []OneFramePerCall
  <1>1. Init => OrderTypes /\ OrderInv
    BY OrderTypesInitial, OrderInitial
  <1>2. OrderTypes /\ OrderInv /\ [Next]_vars => OrderTypes' /\ OrderInv'
    BY OrderTypesStep, OrderStep
  <1>3. OrderTypes /\ OrderInv => OneFramePerCall
    <2> SUFFICES ASSUME OrderInv, env.late = 0, OneRound,
                        NEW f \in FramesDrawn, NEW g \in FramesDrawn
                 PROVE  f = g
      BY DEF OneFramePerCall, OneRound
    <2>1. call.drawn # {}
      BY DEF FramesDrawn
    <2>2. PICK d \in call.drawn : FramesDrawn = {d.frame}
      BY <2>1 DEF OrderInv
    <2> QED
      BY <2>2
  <1> QED
    BY <1>1, <1>2, <1>3, PTL DEF Spec

=============================================================================
