------------------------------ MODULE VideoUdp ------------------------------
(***************************************************************************)
(* Video over UDP: SendFrame and NetworkVideoFrameReceiver of              *)
(* src/networkvideo.cpp, over UDPS and UDPR of src/networkudp.cpp.  A      *)
(* frame is sent as packets, each of pixels scattered over the frame; the  *)
(* receiver puts every pixel it draws into one image.  A pixel is          *)
(* abstracted to the frame it comes from.  The counts of packets per       *)
(* frame, which nothing reads any more, are left out.                      *)
(***************************************************************************)
EXTENDS Integers, SequencesExt

CONSTANTS NumPixels,      \* rows * cols
          PacketPixels,   \* networkVideo_packetDataPixels
          pixellocMod,    \* scatters the pixels of a packet
          NumFrameIds,    \* networkVideo_numFrameIds, 0x10000 in the code
          Buffer,         \* packets that the network, and the socket, hold
          MaxLost,        \* bound: packets lost
          MaxLate,        \* bound: packets overtaken by the next
          MaxErrors       \* bound: failures of recvfrom

ASSUME VideoUdpAssumption ==
    /\ NumPixels \in Nat \ {0} /\ PacketPixels \in Nat \ {0} /\ pixellocMod \in Nat \ {0}
    /\ NumFrameIds \in Nat \ {0, 1} /\ Buffer \in Nat \ {0}
    /\ MaxLost \in Nat /\ MaxLate \in Nat /\ MaxErrors \in Nat

VARIABLES
    camera,  \* the frame that SendFrame sends and the index of its next packet
    net,     \* packets on their way
    sock,    \* packets in the receiver's socket
    call,    \* updateReceiveFrame: pc, firstFrameReceived, and as history the packets drawn
    image,   \* bufferFrameLatest: the frame each pixel comes from, -1 before the first
    env      \* counts of what is lost, late and failed, for the bounds
vars == <<camera, net, sock, call, image, env>>

\* Frames are counted modulo two rounds of the ids, which tells a frame from the next round's.
Frames == 0 .. 2 * NumFrameIds - 1
frameid(f) == f % NumFrameIds
\* Mutant of numpackets: the division is rounded down.
numpacketsDown == NumPixels \div PacketPixels
numpackets == (NumPixels + PacketPixels - 1) \div PacketPixels
Packets == [frame : Frames, index : 0 .. numpackets - 1]
pixellocToIndex(loc) == (loc * pixellocMod) % NumPixels
PixelsOf(index) == {pixellocToIndex(index * PacketPixels + j) : j \in 0 .. PacketPixels - 1}

\* The multiplier and the number of pixels have no factor in common.
ASSUME ScatterAssumption ==
    \A p \in 0 .. NumPixels - 1 : \E loc \in 0 .. NumPixels - 1 : pixellocToIndex(loc) = p

Init ==
    /\ camera = [frame |-> 1, index |-> 0]
    /\ net = <<>> /\ sock = <<>>
    /\ call = [pc |-> "idle", firstFrameReceived |-> 0, drawn |-> {}]
    /\ image = [p \in 0 .. NumPixels - 1 |-> -1]
    /\ env = [lost |-> 0, late |-> 0, errors |-> 0]

\* One packet of SendFrame, and the next frame after its last.
SendPacket ==
    /\ Len(net) < Buffer
    /\ net' = Append(net, camera)
    /\ camera' = IF camera.index + 1 < numpackets
                 THEN [camera EXCEPT !.index = @ + 1]
                 ELSE [frame |-> (camera.frame + 1) % (2 * NumFrameIds), index |-> 0]
    /\ UNCHANGED <<sock, call, image, env>>

\* The network delivers the oldest packet or the one after it, or loses the oldest.
Arrive ==
    \E k \in 1 .. 2 :
    /\ k <= Len(net) /\ Len(sock) < Buffer
    /\ k = 2 => env.late < MaxLate
    /\ env' = [env EXCEPT !.late = IF k = 2 THEN @ + 1 ELSE @]
    /\ net' = RemoveAt(net, k)
    /\ sock' = Append(sock, net[k])
    /\ UNCHANGED <<camera, call, image>>
LosePacket ==
    /\ net # <<>> /\ env.lost < MaxLost
    /\ env' = [env EXCEPT !.lost = @ + 1]
    /\ net' = Tail(net)
    /\ UNCHANGED <<camera, sock, call, image>>

Call ==
    /\ call.pc = "idle"
    /\ call' = [pc |-> "reading", firstFrameReceived |-> 0, drawn |-> {}]
    /\ UNCHANGED <<camera, net, sock, image, env>>

\* The first frame of a call; 0 stands for none, although it is also an id.
First(id) == IF call.firstFrameReceived = 0 THEN id ELSE call.firstFrameReceived

\* Mutant of IsNext: no packet ends the call.
NeverNext(id) == FALSE

\* A packet of a later frame ends the call.
IsNext(id) == id > First(id)

\* recv returns a packet: draw it, or end the call and forget it.
ReceivePacket ==
    /\ call.pc = "reading" /\ sock # <<>>
    /\ sock' = Tail(sock)
    /\ LET packet == Head(sock)
           id == frameid(packet.frame)
       IN \/ /\ IsNext(id)
             /\ call' = [call EXCEPT !.pc = "idle"]
             /\ UNCHANGED image
          \/ /\ ~IsNext(id)
             /\ call' = [call EXCEPT !.firstFrameReceived = First(id), !.drawn = @ \cup {packet}]
             /\ image' = [p \in DOMAIN image |->
                             IF p \in PixelsOf(packet.index) THEN packet.frame ELSE image[p]]
    /\ UNCHANGED <<camera, net, env>>

\* recv times out and returns nothing: the call ends.
ReceiveNothing ==
    /\ call.pc = "reading" /\ sock = <<>>
    /\ call' = [call EXCEPT !.pc = "idle"]
    /\ UNCHANGED <<camera, net, sock, image, env>>

\* recvfrom fails otherwise: readEntireBuffer closes the socket, and every later call fails.
ReceiveFails ==
    /\ call.pc = "reading" /\ env.errors < MaxErrors
    /\ env' = [env EXCEPT !.errors = @ + 1]
    /\ call' = [call EXCEPT !.pc = "stopped"]
    /\ UNCHANGED <<camera, net, sock, image>>

Sender == SendPacket
Network == Arrive \/ LosePacket
Receiver == Call \/ ReceivePacket \/ ReceiveNothing \/ ReceiveFails
Next == Sender \/ Network \/ Receiver
Spec == Init /\ [][Next]_vars

\* The camera goes on, packets arrive and the receiver keeps calling.
FairSpec == Spec /\ WF_vars(Sender) /\ WF_vars(Arrive) /\ WF_vars(Receiver)

-----------------------------------------------------------------------------
(* Properties. *)

\* Type invariant.
TypeOK ==
    /\ camera \in Packets
    /\ \A s \in {net, sock} : Len(s) <= Buffer /\ ToSet(s) \subseteq Packets
    /\ call.pc \in {"idle", "reading", "stopped"} /\ call.drawn \subseteq Packets
    /\ call.firstFrameReceived \in 0 .. NumFrameIds - 1
    /\ \A p \in 0 .. NumPixels - 1 : image[p] \in Frames \cup {-1}

FramesDrawn == {packet.frame : packet \in call.drawn}

\* What one call draws is of one frame, which is then displayed, while the network keeps the
\* order.  The exceptions: a call that begins with id 0 draws two frames, and one that goes
\* over the end of the ids takes the frames of the next round for older ones.
OneFramePerCall ==
    /\ env.late = 0
    /\ \A f \in FramesDrawn : frameid(f) # 0
    /\ \A f, g \in FramesDrawn : f \div NumFrameIds = g \div NumFrameIds
    => \A f, g \in FramesDrawn : f = g

\* A call that draws all the packets of one frame and of no other leaves an image of that
\* frame only: the packets' pixels cover the frame, the last packet's too.
WholeImage ==
    \A f \in FramesDrawn :
        FramesDrawn = {f} /\ {packet.index : packet \in call.drawn} = 0 .. numpackets - 1
            => \A p \in DOMAIN image : image[p] = f

\* A call returns although packets keep coming, so the display goes on, except one that begins
\* with the last id: it goes on for as long as packets come without a pause.
CallReturns ==
    call.pc = "reading" ~> call.pc # "reading" \/ call.firstFrameReceived = NumFrameIds - 1

=============================================================================
