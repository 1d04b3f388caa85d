---------------------------- MODULE UdpTransport ----------------------------
(***************************************************************************)
(* UDPS and UDPR of src/networkudp.cpp: messages sent as datagrams, and a  *)
(* receiver that adds one datagram per call to a buffer and returns as     *)
(* many bytes of it as the caller has room for.  A byte is its message and *)
(* its place.                                                              *)
(***************************************************************************)
EXTENDS Integers, SequencesExt

CONSTANTS
    MessageLengths,   \* what callers send
    MaxDatagram,      \* the longest datagram of UDP
    maxlen2,          \* the longest piece that send gives to sendto
    maxrecvbuflen,    \* the receiver's buffer
    Wanted,           \* mlen of the callers of recv
    MaxUdpMessages,   \* bound: messages sent
    MaxUdpErrors      \* bound: failures of recvfrom

ASSUME UdpAssumption ==
    /\ MessageLengths \subseteq Nat /\ Wanted \subseteq Nat
    /\ MaxDatagram \in Nat /\ maxlen2 \in Nat /\ maxlen2 > MaxDatagram
    /\ maxrecvbuflen \in Nat
    /\ MaxUdpMessages \in Nat /\ MaxUdpErrors \in Nat

VARIABLES
    rsock,       \* datagrams in the receiver's socket
    recvbuf,     \* what was read and not returned; recvbuflen is its length
    initrecv,    \* the socket is open
    returned,    \* history: what each call of recv was asked for and has returned
    output,      \* history: the bytes of all calls, one after the other
    arrived,     \* history: the bytes of the datagrams that recv has read
    cut,         \* history: a datagram found the buffer too small
    udpCount     \* messages and errors, for the bounds
udpVars == <<rsock, recvbuf, initrecv, returned, output, arrived, cut, udpCount>>

-----------------------------------------------------------------------------
Least(m, n) == IF m < n THEN m ELSE n

Datagram(k, len) == [i \in 1 .. len |-> <<k, i>>]

UdpInit ==
    /\ rsock = <<>> /\ recvbuf = <<>> /\ initrecv = TRUE
    /\ returned = <<>> /\ output = <<>> /\ arrived = <<>> /\ cut = FALSE
    /\ udpCount = [messages |-> 0, errors |-> 0]

(* send gives sendto the whole message, as maxlen2 is more than a datagram  *)
(* holds: one datagram, or an error.  The network may lose it.              *)
UdpSend(len) ==
    /\ udpCount.messages < MaxUdpMessages
    /\ Least(len, maxlen2) <= MaxDatagram
    /\ udpCount' = [udpCount EXCEPT !.messages = @ + 1]
    /\ rsock' \in {rsock, Append(rsock, Datagram(udpCount'.messages, len))}
    /\ UNCHANGED <<recvbuf, initrecv, returned, output, arrived, cut>>

-----------------------------------------------------------------------------
(* readEntireBuffer: one datagram, whatever waits behind it, although the   *)
(* comment over it (line 86) says "read all received data into the buffer". *)
(* What the buffer has no room for is lost; nothing when recvfrom times out. *)
Room == maxrecvbuflen - Len(recvbuf)
Read == IF rsock = <<>> THEN <<>> ELSE SubSeq(Head(rsock), 1, Least(Room, Len(Head(rsock))))

(* Mutant of Kept: the rest stays where it was, under the next datagram.    *)
KeptUnmoved(buf, n) == SubSeq(buf, 1, Len(buf) - n)

(* memmove. *)
Kept(buf, n) == SubSeq(buf, n + 1, Len(buf))

(* recv, also by way of recvStr. *)
recv(mlen) ==
    /\ initrecv
    /\ LET buf == recvbuf \o Read
           recvlen == Least(Len(buf), mlen)
           bytes == SubSeq(buf, 1, recvlen)
       IN /\ returned' = Append(returned, [mlen |-> mlen, bytes |-> bytes])
          /\ output' = output \o bytes
          /\ recvbuf' = Kept(buf, recvlen)
    /\ arrived' = arrived \o Read
    /\ rsock' = IF rsock = <<>> THEN rsock ELSE Tail(rsock)
    /\ cut' = (cut \/ (rsock # <<>> /\ Room < Len(Head(rsock))))
    /\ rsock # <<>> \/ recvbuf # <<>>    \* a call that returns nothing changes nothing
    /\ UNCHANGED <<initrecv, udpCount>>

(* recvfrom fails otherwise: stopRecv, and every later call returns 1000.   *)
RecvFails ==
    /\ initrecv /\ udpCount.errors < MaxUdpErrors
    /\ udpCount' = [udpCount EXCEPT !.errors = @ + 1]
    /\ initrecv' = FALSE
    /\ UNCHANGED <<rsock, recvbuf, returned, output, arrived, cut>>

UdpNext == (\E len \in MessageLengths : UdpSend(len)) \/ (\E mlen \in Wanted : recv(mlen)) \/ RecvFails
UdpSpec == UdpInit /\ [][UdpNext]_udpVars

-----------------------------------------------------------------------------
(* Properties. *)

MessagesIn(bytes) == {bytes[i][1] : i \in DOMAIN bytes}

(* What recv has returned, call after call, and then what is in recvbuf are *)
(* the bytes it has read from the socket, in order, and without gaps until  *)
(* a datagram found the buffer too small.  Bytes stay in recvbuf only       *)
(* behind a call that was filled up, and only after such a call does one    *)
(* return bytes of several messages: a caller with more room than the       *)
(* longest message gets one message per call.  This rests on the single     *)
(* recvfrom of readEntireBuffer, which is not what the comment over it      *)
(* says.  Datagrams that wait in rsock are not spoken of: they stay there,  *)
(* however much room a call has, and later calls take one each.             *)
UdpStream ==
    /\ output \o recvbuf = arrived
    /\ ~cut => \A i \in DOMAIN arrived :
                   arrived[i][2] > 1 => i > 1 /\ arrived[i - 1] = <<arrived[i][1], arrived[i][2] - 1>>
    /\ \A i \in DOMAIN returned :
           \/ Cardinality(MessagesIn(returned[i].bytes)) <= 1
           \/ \E j \in 1 .. i - 1 : Len(returned[j].bytes) = returned[j].mlen
    /\ recvbuf # <<>> => Len(Last(returned).bytes) = Last(returned).mlen

=============================================================================
