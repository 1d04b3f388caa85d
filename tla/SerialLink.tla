----------------------------- MODULE SerialLink -----------------------------
(***************************************************************************)
(* The universal serial protocol of src/src/robosub-serial.h between the   *)
(* onboard computer and one Arduino, at the level of frames.               *)
(*                                                                         *)
(* Each node owns one Serial_State and one thread: a send of a message     *)
(* that asks for an acknowledgement stays inside Serial_SendMessageComplex *)
(* and polls for input there; between sends the main loop polls.           *)
(* A frame that is cut, overrun or corrupted fails its CRC (module         *)
(* SerialParser) and has no effect, so every such fault is a lost frame.   *)
(***************************************************************************)
EXTENDS Integers, Sequences

CONSTANTS
    Node,               \* the two ends of the cable
    Peer,               \* Peer[n] is the other end
    SNMod,              \* sequence numbers are bytes: 256 in the code
    FirstSN,            \* lastUsedSN of a new Serial_State: 'a' in the code
    TicksToWaitForAck,  \* Serial_TicksToWaitForAck: 10 in the code
    MaxSends,           \* bound: MaxSends[n] messages are sent by n
    MaxRestarts,        \* bound: restarts of each node
    WireCap             \* frames a direction of the cable and its buffers hold

ASSUME LinkAssumption ==
    /\ Peer \in [Node -> Node]
    /\ \A n \in Node : Peer[n] # n /\ Peer[Peer[n]] = n
    /\ SNMod \in Nat \ {0}
    /\ FirstSN \in 0 .. SNMod - 1
    /\ TicksToWaitForAck \in Nat \ {0}
    /\ MaxSends \in [Node -> Nat]
    /\ MaxRestarts \in Nat
    /\ WireCap \in Nat \ {0}

VARIABLES
    lastUsedSN,             \* the fields of Serial_State, per node
    awaitingAck,
    awaitingAckSN,
    lastMessageHasAckData,
    sending,                \* frame Serial_SendMessageComplex waits on, if any
    ticksWaited,            \* its local counter
    wire,                   \* wire[n]: frames from n to Peer[n], oldest first
    sent,                   \* history: messages n sent, [kind, sn] each
    returned,               \* history: messages of n whose send call returned
    delivered,              \* history: messages of Peer[n] handed to n's callback
    redelivered,            \* history: those handed to it more than once
    latest,                 \* history: the message handed to it last, or 0
    restarts                \* number of restarts of n so far

state == <<lastUsedSN, awaitingAck, awaitingAckSN, lastMessageHasAckData>>
history == <<sent, returned, delivered, redelivered, latest>>
vars == <<state, sending, ticksWaited, wire, history, restarts>>

-----------------------------------------------------------------------------
(* The three ways the code calls Serial_SendMessageComplex for a message:  *)
(* needsack = false, needsack = true, needsackdata = true.                 *)
Kinds == {"fast", "reliable", "response"}

(* The type of a frame is its flags; msg is 0 in a reply, else the index   *)
(* of the message in the sender's history.                                 *)
SN == 0 .. SNMod - 1
Frame == [type : Kinds \cup {"ack", "ackData"}, sn : SN, msg : Nat]
Message == [kind : Kinds, sn : SN]
NoFrame == [type |-> "none", sn |-> 0, msg |-> 0]

(* A frame written to a full cable is overrun. *)
TransmitFirst(w, f) == IF Len(w) < WireCap THEN <<f>> \o w ELSE w
Transmit(w, f) == IF Len(w) < WireCap THEN Append(w, f) ELSE w

(* The replies Serial_OnReceiveMessageProtocol sends to a frame: an ack for *)
(* needsack, a response (which carries no ack) for needsackdata.            *)
AckEither(w, f) ==
    IF f.type \in {"reliable", "response"}
    THEN Transmit(w, [type |-> "ack", sn |-> f.sn, msg |-> 0]) ELSE w

Reply(w, f) ==
    CASE f.type = "reliable" ->
            Transmit(w, [type |-> "ack", sn |-> f.sn, msg |-> 0])
      [] f.type = "response" ->
            Transmit(w, [type |-> "ackData", sn |-> f.sn, msg |-> 0])
      [] OTHER -> w

(* The next sequence number, a byte. *)
NextSN(sn) == (sn + 1) % SNMod

(* Whether Serial_SendMessageComplex waits after it sent a frame. *)
AllWait(kind) == TRUE
Waits(kind) == kind # "fast"

(* Whether frame f clears n's awaitingAck. *)
AnyAck(n, f) == f.type = "ack"
AckOfNext(n, f) == f.type = "ack" /\ f.sn = awaitingAckSN[n] + 1
Acknowledges(n, f) == f.type = "ack" /\ f.sn = awaitingAckSN[n]

-----------------------------------------------------------------------------
Init ==
    /\ lastUsedSN = [n \in Node |-> FirstSN]
    /\ awaitingAck = [n \in Node |-> FALSE]
    /\ awaitingAckSN = [n \in Node |-> 0]
    /\ lastMessageHasAckData = [n \in Node |-> FALSE]
    /\ sending = [n \in Node |-> NoFrame]
    /\ ticksWaited = [n \in Node |-> 0]
    /\ wire = [n \in Node |-> << >>]
    /\ sent = [n \in Node |-> << >>]
    /\ returned = [n \in Node |-> {}]
    /\ delivered = [n \in Node |-> {}]
    /\ redelivered = [n \in Node |-> {}]
    /\ latest = [n \in Node |-> 0]
    /\ restarts = [n \in Node |-> 0]

(* Serial_SendMessage and Serial_SendMessageNeedsResponse up to the first  *)
(* poll: a fast message returns at once, the others wait.                  *)
Send(n, kind) ==
    LET sn == NextSN(lastUsedSN[n])
        m  == Len(sent[n]) + 1
        f  == [type |-> kind, sn |-> sn, msg |-> m]
    IN  /\ sending[n] = NoFrame
        /\ m <= MaxSends[n]
        /\ lastUsedSN' = [lastUsedSN EXCEPT ![n] = sn]
        /\ wire' = [wire EXCEPT ![n] = Transmit(@, f)]
        /\ sent' = [sent EXCEPT ![n] = Append(@, [kind |-> kind, sn |-> sn])]
        /\ IF Waits(kind)
           THEN /\ awaitingAck' = [awaitingAck EXCEPT ![n] = TRUE]
                /\ awaitingAckSN' = [awaitingAckSN EXCEPT ![n] = sn]
                /\ sending' = [sending EXCEPT ![n] = f]
                /\ ticksWaited' = [ticksWaited EXCEPT ![n] = 0]
                /\ UNCHANGED returned
           ELSE /\ returned' = [returned EXCEPT ![n] = @ \cup {m}]
                /\ UNCHANGED <<awaitingAck, awaitingAckSN, sending, ticksWaited>>
        /\ UNCHANGED <<lastMessageHasAckData, delivered, redelivered, latest,
                       restarts>>

(* One frame read by a poll, in the main loop or inside a waiting send:    *)
(* all of Serial_OnReceiveMessageProtocol.  The callback also runs for an  *)
(* ack, with an empty message: that call leaves no trace in the history.   *)
Receive(n) ==
    LET p == Peer[n]
        f == Head(wire[p])
    IN  /\ wire[p] # << >>
        /\ awaitingAck' = [awaitingAck EXCEPT ![n] = @ /\ ~Acknowledges(n, f)]
        /\ wire' = [wire EXCEPT ![p] = Tail(@), ![n] = Reply(@, f)]
        /\ lastMessageHasAckData' =
              [lastMessageHasAckData EXCEPT ![n] = @ \/ f.type = "ackData"]
        /\ IF f.msg # 0
           THEN /\ delivered' = [delivered EXCEPT ![n] = @ \cup {f.msg}]
                /\ redelivered' = [redelivered EXCEPT ![n] =
                                      @ \cup ({f.msg} \cap delivered[n])]
                /\ latest' = [latest EXCEPT ![n] = f.msg]
           ELSE UNCHANGED <<delivered, redelivered, latest>>
        /\ UNCHANGED <<lastUsedSN, awaitingAckSN, sending, ticksWaited, sent,
                       returned, restarts>>

(* The end of one turn of the wait loop: delay, ticksWaited++, the loop's  *)
(* condition.  The send is over only if ticks are left: an ack read in the *)
(* last turn does not stop the retransmission.                             *)
Waiting(n) == sending[n] # NoFrame

Tick(n) ==
    /\ Waiting(n)
    /\ awaitingAck[n]
    /\ ticksWaited[n] + 1 < TicksToWaitForAck
    /\ ticksWaited' = [ticksWaited EXCEPT ![n] = @ + 1]
    /\ UNCHANGED <<state, sending, wire, history, restarts>>

Retransmit(n) ==
    /\ Waiting(n)
    /\ ticksWaited[n] + 1 = TicksToWaitForAck
    /\ wire' = [wire EXCEPT ![n] = Transmit(@, sending[n])]
    /\ awaitingAck' = [awaitingAck EXCEPT ![n] = TRUE]
    /\ awaitingAckSN' = [awaitingAckSN EXCEPT ![n] = sending[n].sn]
    /\ ticksWaited' = [ticksWaited EXCEPT ![n] = 0]
    /\ UNCHANGED <<lastUsedSN, lastMessageHasAckData, sending, history, restarts>>

Return(n) ==
    /\ Waiting(n)
    /\ ~awaitingAck[n]
    /\ ticksWaited[n] + 1 < TicksToWaitForAck
    /\ lastMessageHasAckData' = [lastMessageHasAckData EXCEPT ![n] = FALSE]
    /\ returned' = [returned EXCEPT ![n] = @ \cup {sending[n].msg}]
    /\ sending' = [sending EXCEPT ![n] = NoFrame]
    /\ ticksWaited' = [ticksWaited EXCEPT ![n] = 0]
    /\ UNCHANGED <<lastUsedSN, awaitingAck, awaitingAckSN, wire, sent,
                   delivered, redelivered, latest, restarts>>

(* A reset of the Arduino, or of the onboard process: Serial_NewState. The *)
(* frames it had not read may be flushed (Lose) or may not.                *)
Restart(n) ==
    /\ restarts[n] < MaxRestarts
    /\ restarts' = [restarts EXCEPT ![n] = @ + 1]
    /\ lastUsedSN' = [lastUsedSN EXCEPT ![n] = FirstSN]
    /\ awaitingAck' = [awaitingAck EXCEPT ![n] = FALSE]
    /\ awaitingAckSN' = [awaitingAckSN EXCEPT ![n] = 0]
    /\ lastMessageHasAckData' = [lastMessageHasAckData EXCEPT ![n] = FALSE]
    /\ sending' = [sending EXCEPT ![n] = NoFrame]
    /\ ticksWaited' = [ticksWaited EXCEPT ![n] = 0]
    /\ UNCHANGED <<wire, history>>

(* The cable: the oldest frame is lost, or fails its CRC when it is read. *)
Lose(n) ==
    /\ wire[n] # << >>
    /\ wire' = [wire EXCEPT ![n] = Tail(@)]
    /\ UNCHANGED <<state, sending, ticksWaited, history, restarts>>

System(n) ==
    \/ \E kind \in Kinds : Send(n, kind)
    \/ Receive(n)
    \/ Tick(n)
    \/ Retransmit(n)
    \/ Return(n)

Environment(n) == Restart(n) \/ Lose(n)

(* Both ends have sent what the bound allows and poll an empty cable. *)
Quiescent ==
    /\ \A n \in Node : Len(sent[n]) = MaxSends[n] /\ ~Waiting(n) /\ wire[n] = << >>
    /\ UNCHANGED vars

Next == (\E n \in Node : System(n) \/ Environment(n)) \/ Quiescent

Spec == Init /\ [][Next]_vars

-----------------------------------------------------------------------------
(* Type correctness of every field of Serial_State and of the histories.   *)
TypeOK ==
    /\ lastUsedSN \in [Node -> SN]
    /\ awaitingAck \in [Node -> BOOLEAN]
    /\ awaitingAckSN \in [Node -> SN]
    /\ lastMessageHasAckData \in [Node -> BOOLEAN]
    /\ sending \in [Node -> Frame \cup {NoFrame}]
    /\ ticksWaited \in [Node -> 0 .. TicksToWaitForAck - 1]
    /\ wire \in [Node -> Seq(Frame)]
    /\ sent \in [Node -> Seq(Message)]
    /\ returned \in [Node -> SUBSET Nat]
    /\ delivered \in [Node -> SUBSET Nat]
    /\ redelivered \in [Node -> SUBSET Nat]
    /\ latest \in [Node -> Nat]
    /\ restarts \in [Node -> Nat]

(* Message m of n has a sequence number no earlier message of n had.       *)
Unambiguous(n, m) == restarts[n] = 0 /\ m <= SNMod

(* A call that waited and returned was acknowledged: the peer's callback    *)
(* got a reliable message with that sequence number, sent no later.  This   *)
(* is all the code guarantees when numbers wrap or a node restarts at 'a'.  *)
AckedSNWasDelivered ==
    \A n \in Node : \A m \in returned[n] :
        sent[n][m].kind # "fast" =>
            \E k \in delivered[Peer[n]] :
                /\ k <= m
                /\ sent[n][k] = [kind |-> "reliable", sn |-> sent[n][m].sn]

(* transmitMessageReliable returns only after the peer's callback got this  *)
(* very message, as long as its sequence number was not used before.        *)
AckedWasDelivered ==
    \A n \in Node : \A m \in returned[n] :
        sent[n][m].kind = "reliable" /\ Unambiguous(n, m)
            => m \in delivered[Peer[n]]

(* Serial_SendMessageNeedsResponse never returns: a response frame does not *)
(* include an ack, so nothing clears awaitingAck and the request is sent    *)
(* again for ever.                                                          *)
ResponseNeverReturns ==
    \A n \in Node : \A m \in returned[n] :
        Unambiguous(n, m) => sent[n][m].kind # "response"

(* When a message is delivered, every reliable message sent before it has   *)
(* been: the link leaves no gap among reliable messages.                    *)
NoReliableGap ==
    \A n \in Node : \A m \in delivered[Peer[n]], k \in 1 .. Len(sent[n]) :
        k < m /\ sent[n][k].kind = "reliable" /\ Unambiguous(n, k)
            => k \in delivered[Peer[n]]

(* Only a message that waits for an ack or a response is handed to the      *)
(* callback twice: transmitMessageFast is at most once.                     *)
FastAtMostOnce ==
    \A n \in Node : \A m \in redelivered[n] : sent[Peer[n]][m].kind # "fast"

(* A callback never gets an older message after a newer one, whatever is    *)
(* retransmitted, lost or restarted.                                        *)
InOrder == [][\A n \in Node : latest'[n] >= latest[n]]_vars

-----------------------------------------------------------------------------
(* The inductive invariant behind the safety properties, by named parts.    *)

(* The peer got a reliable message of n with number sn, so it acked sn.     *)
Acked(n, sn) ==
    \E k \in delivered[Peer[n]] : sent[n][k] = [kind |-> "reliable", sn |-> sn]

(* Frame f carries a message of n unchanged. *)
Carries(n, f) ==
    /\ f.msg \in 1 .. Len(sent[n])
    /\ sent[n][f.msg] = [kind |-> f.type, sn |-> f.sn]

(* Every frame on the cable is a message its sender sent, a response, or an *)
(* ack of a reliable message that its sender has already delivered.         *)
FrameOK(n, f) ==
    /\ f.type \in Kinds => Carries(n, f)
    /\ f.type \notin Kinds => f.msg = 0
    /\ f.type = "ack" => Acked(Peer[n], f.sn)

WireInv == \A n \in Node : \A i \in 1 .. Len(wire[n]) : FrameOK(n, wire[n][i])

(* A waiting send is of the last message, awaits its number, and has seen   *)
(* an ack only if the peer got a reliable message with that number.         *)
SendingInv ==
    \A n \in Node : Waiting(n) =>
        /\ Carries(n, sending[n])
        /\ sending[n].msg = Len(sent[n])
        /\ sending[n].type \in {"reliable", "response"}
        /\ awaitingAckSN[n] = sending[n].sn
        /\ ~awaitingAck[n] => Acked(n, sending[n].sn)

(* Only sent messages return or are delivered. *)
HistoryInv ==
    \A n \in Node : /\ returned[n] \subseteq 1 .. Len(sent[n])
                    /\ delivered[Peer[n]] \subseteq 1 .. Len(sent[n])

(* Until n restarts its numbers count up from FirstSN, and every message    *)
(* but the one that is waiting has returned.                                *)
NumberInv ==
    \A n \in Node : restarts[n] = 0 =>
        /\ lastUsedSN[n] = (FirstSN + Len(sent[n])) % SNMod
        /\ \A m \in 1 .. Len(sent[n]) :
              /\ sent[n][m].sn = (FirstSN + m) % SNMod
              /\ m \in returned[n] \/ (Waiting(n) /\ m = sending[n].msg)

IInv ==
    /\ TypeOK
    /\ WireInv
    /\ SendingInv
    /\ HistoryInv
    /\ NumberInv
    /\ AckedSNWasDelivered

-----------------------------------------------------------------------------
(* Fairness: a node that waits or polls goes on doing so.                  *)
Fairness ==
    \A n \in Node :
        /\ WF_vars(Receive(n))
        /\ WF_vars(Tick(n) \/ Retransmit(n) \/ Return(n))

(* The cable: from some moment on nothing is lost, and what is on the wire  *)
(* is read and answered before a waiting node's last tick begins.  Nothing  *)
(* is assumed of the time before.                                           *)
Timely ==
    \A n \in Node :
        ticksWaited[n] < TicksToWaitForAck - 1 /\ ticksWaited'[n] = TicksToWaitForAck - 1
            => \A p \in Node : wire[p] = << >>

EventuallySynchronous ==
    <>[][Timely /\ \A n \in Node : Lose(n) => Receive(Peer[n])]_vars

FairSpec == Spec /\ Fairness /\ EventuallySynchronous

(* A reliable send ends although frames are lost, duplicated by the retry,  *)
(* or acknowledged too late.                                                *)
ReliableReturns ==
    \A n \in Node :
        sending[n].type = "reliable" ~> sending[n].type # "reliable"

-----------------------------------------------------------------------------
(* The link implements the channel its users rely on: order, at-most-once   *)
(* fast messages, blocking reliable sends, and their progress.              *)
Channel == INSTANCE SerialChannel
               WITH sent <- [n \in Node |->
                                [m \in 1 .. Len(sent[n]) |-> sent[n][m].kind]]

ImplementsChannel == Channel!Spec

=============================================================================
