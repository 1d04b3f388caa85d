-------------------------- MODULE SerialLinkProofs --------------------------
(***************************************************************************)
(* Proofs about SerialLink, for any pair of nodes, any width of the        *)
(* sequence number, any timeout, any number of sends and restarts and any  *)
(* capacity of the cable: its type invariant; IInv, on what acks and       *)
(* numbers say, and what follows from it; OrderInv, on the order of what   *)
(* is under way from one node to the other, and from it that a fast        *)
(* message is delivered at most once and nothing older after something     *)
(* newer; and, while no number is used twice, that SerialLink implements   *)
(* the safety of SerialChannel.                                            *)
(***************************************************************************)
EXTENDS SerialLink, TLAPS

(* Sequence numbers are bytes: reducing twice is reducing once, and         *)
(* counting on from a byte a meets no number twice in S steps.              *)
LEMMA Division ==
    ASSUME NEW S \in Nat \ {0}, NEW x \in Nat
    PROVE  /\ x = S * (x \div S) + (x % S)
           /\ x % S \in 0 .. S - 1
           /\ x \div S \in Nat
BY SMT

LEMMA Remainder ==
    ASSUME NEW S \in Nat \ {0}, NEW q \in Nat, NEW r \in 0 .. S - 1
    PROVE  (S * q + r) % S = r
BY SMT

LEMMA Successor ==
    ASSUME NEW S \in Nat \ {0}, NEW x \in Nat
    PROVE  ((x % S) + 1) % S = (x + 1) % S
<1> DEFINE q == x \div S
           r == x % S
<1>1. x = S * q + r /\ r \in 0 .. S - 1 /\ q \in Nat
    BY Division
<1>2. CASE r + 1 < S
    <2>1. (r + 1) % S = r + 1
        BY <1>1, <1>2, SMT
    <2>2. x + 1 = S * q + (r + 1) /\ r + 1 \in 0 .. S - 1
        BY <1>1, <1>2, SMT
    <2> HIDE DEF q, r
    <2>3. (x + 1) % S = r + 1
        BY <2>2, <1>1, Remainder
    <2> QED BY <2>1, <2>3 DEF r
<1>3. CASE r + 1 = S
    <2>1. (r + 1) % S = 0
        BY <1>1, <1>3, SMT
    <2>2. x + 1 = S * (q + 1) + 0 /\ 0 \in 0 .. S - 1 /\ q + 1 \in Nat
        BY <1>1, <1>3, SMT
    <2> HIDE DEF q, r
    <2>3. (x + 1) % S = 0
        BY <2>2, <1>1, Remainder
    <2> QED BY <2>1, <2>3 DEF r
<1> QED BY <1>1, <1>2, <1>3

LEMMA DistinctNumbers ==
    ASSUME NEW S \in Nat \ {0}, NEW a \in 0 .. S - 1,
           NEW k \in 1 .. S, NEW m \in 1 .. S,
           (a + k) % S = (a + m) % S
    PROVE  k = m
<1>1. \A j \in 1 .. S : (a + j) % S = IF a + j < S THEN a + j ELSE a + j - S
    BY SMT
<1> QED BY <1>1, SMT

-----------------------------------------------------------------------------
(* The cable: what Transmit and Tail leave in a queue was there or is new.  *)
LEMMA TransmitElements ==
    ASSUME NEW w \in Seq(Frame), NEW f \in Frame
    PROVE  /\ Transmit(w, f) \in Seq(Frame)
           /\ \A i \in 1 .. Len(Transmit(w, f)) :
                 \/ Transmit(w, f)[i] = f
                 \/ \E j \in 1 .. Len(w) : Transmit(w, f)[i] = w[j]
<1>1. Append(w, f) \in Seq(Frame) /\ Len(Append(w, f)) = Len(w) + 1
    OBVIOUS
<1>2. \A i \in 1 .. Len(Append(w, f)) :
          Append(w, f)[i] = IF i <= Len(w) THEN w[i] ELSE f
    OBVIOUS
<1> QED BY <1>1, <1>2 DEF Transmit

LEMMA TailElements ==
    ASSUME NEW w \in Seq(Frame), w # << >>
    PROVE  /\ Tail(w) \in Seq(Frame)
           /\ Head(w) \in Frame
           /\ Len(w) > 0 /\ Head(w) = w[1]
           /\ \A i \in 1 .. Len(Tail(w)) : i + 1 \in 1 .. Len(w) /\ Tail(w)[i] = w[i + 1]
OBVIOUS

(* A reply is one frame, with the number of the frame it answers. *)
LEMMA ReplyElements ==
    ASSUME NEW w \in Seq(Frame), NEW f \in Frame
    PROVE  /\ Reply(w, f) \in Seq(Frame)
           /\ \A i \in 1 .. Len(Reply(w, f)) :
                 \/ f.type = "reliable" /\ Reply(w, f)[i] = [type |-> "ack", sn |-> f.sn, msg |-> 0]
                 \/ f.type = "response" /\ Reply(w, f)[i] = [type |-> "ackData", sn |-> f.sn, msg |-> 0]
                 \/ \E j \in 1 .. Len(w) : Reply(w, f)[i] = w[j]
<1>2. CASE f.type = "reliable"
    <2> DEFINE reply == [type |-> "ack", sn |-> f.sn, msg |-> 0]
    <2>1. Reply(w, f) = Transmit(w, reply) /\ reply \in Frame
        BY <1>2 DEF Reply, Frame
    <2> HIDE DEF reply
    <2>2. /\ Transmit(w, reply) \in Seq(Frame)
          /\ \A i \in 1 .. Len(Transmit(w, reply)) :
                 \/ Transmit(w, reply)[i] = reply
                 \/ \E j \in 1 .. Len(w) : Transmit(w, reply)[i] = w[j]
        BY <2>1, TransmitElements
    <2>3. /\ Reply(w, f) \in Seq(Frame)
          /\ \A i \in 1 .. Len(Reply(w, f)) :
                Reply(w, f)[i] = reply \/ \E j \in 1 .. Len(w) : Reply(w, f)[i] = w[j]
        BY <2>1, <2>2
    <2> QED BY <1>2, <2>3 DEF reply
<1>3. CASE f.type = "response"
    <2> DEFINE reply == [type |-> "ackData", sn |-> f.sn, msg |-> 0]
    <2>1. Reply(w, f) = Transmit(w, reply) /\ reply \in Frame
        BY <1>3 DEF Reply, Frame
    <2> HIDE DEF reply
    <2>2. /\ Transmit(w, reply) \in Seq(Frame)
          /\ \A i \in 1 .. Len(Transmit(w, reply)) :
                 \/ Transmit(w, reply)[i] = reply
                 \/ \E j \in 1 .. Len(w) : Transmit(w, reply)[i] = w[j]
        BY <2>1, TransmitElements
    <2>3. /\ Reply(w, f) \in Seq(Frame)
          /\ \A i \in 1 .. Len(Reply(w, f)) :
                Reply(w, f)[i] = reply \/ \E j \in 1 .. Len(w) : Reply(w, f)[i] = w[j]
        BY <2>1, <2>2
    <2> QED BY <1>3, <2>3 DEF reply
<1>4. CASE f.type \notin {"reliable", "response"}
    BY <1>4 DEF Reply
<1> QED BY <1>2, <1>3, <1>4

-----------------------------------------------------------------------------
LEMMA PeerFacts ==
    /\ Peer \in [Node -> Node]
    /\ \A n \in Node : Peer[n] \in Node /\ Peer[n] # n /\ Peer[Peer[n]] = n
BY LinkAssumption

LEMMA NumberFacts ==
    /\ SNMod \in Nat \ {0} /\ FirstSN \in SN /\ 0 \in SN /\ SN \subseteq Nat
    /\ \A x \in SN : (x + 1) % SNMod \in SN
    /\ TicksToWaitForAck \in Nat \ {0}
<1>1. SNMod \in Nat \ {0} /\ FirstSN \in SN /\ 0 \in SN /\ SN \subseteq Nat
    BY LinkAssumption DEF SN
<1>2. \A x \in SN : (x + 1) % SNMod \in SN
    BY <1>1, Division DEF SN
<1> QED BY <1>1, <1>2, LinkAssumption

LEMMA NoTicks == 0 \in 0 .. TicksToWaitForAck - 1
BY NumberFacts

(* The steps that touch the cable leave it a queue of frames. *)
LEMMA SendType ==
    ASSUME TypeOK, NEW n \in Node, NEW kind \in Kinds, Send(n, kind)
    PROVE  TypeOK'
<1> DEFINE s == (lastUsedSN[n] + 1) % SNMod
           m == Len(sent[n]) + 1
           f == [type |-> kind, sn |-> s, msg |-> m]
<1>1. s \in SN
    BY NumberFacts DEF TypeOK
<1>2. m \in Nat \ {0} /\ Append(sent[n], [kind |-> kind, sn |-> s]) \in Seq(Message)
    <2>1. [kind |-> kind, sn |-> s] \in Message
        BY <1>1 DEF Message
    <2> QED BY <2>1 DEF TypeOK
<1>3. f \in Frame
    BY <1>1, <1>2 DEF Frame
<1>4. wire'[n] \in Seq(Frame) /\ wire' \in [Node -> Seq(Frame)]
    <2>1. wire' = [wire EXCEPT ![n] = Transmit(wire[n], f)] /\ wire[n] \in Seq(Frame)
        BY DEF Send, NextSN, Waits, TypeOK
    <2>2. Transmit(wire[n], f) \in Seq(Frame)
        BY <1>3, <2>1, TransmitElements
    <2> QED BY <2>1, <2>2 DEF TypeOK
<1>5. lastUsedSN' = [lastUsedSN EXCEPT ![n] = s] /\ sent' = [sent EXCEPT ![n] = Append(@, [kind |-> kind, sn |-> s])]
    BY DEF Send, NextSN, Waits
<1>6. /\ returned' \in [Node -> SUBSET Nat] /\ awaitingAck' \in [Node -> BOOLEAN]
      /\ awaitingAckSN' \in [Node -> SN] /\ sending' \in [Node -> Frame \cup {NoFrame}]
      /\ ticksWaited' \in [Node -> 0 .. TicksToWaitForAck - 1]
    <2>1. CASE kind = "fast"
        <3>1. /\ returned' = [returned EXCEPT ![n] = @ \cup {m}]
              /\ UNCHANGED <<awaitingAck, awaitingAckSN, sending, ticksWaited>>
            BY <2>1 DEF Send, NextSN, Waits
        <3> QED BY <1>2, <3>1 DEF TypeOK
    <2>2. CASE kind # "fast"
        <3>1. /\ awaitingAck' = [awaitingAck EXCEPT ![n] = TRUE]
              /\ awaitingAckSN' = [awaitingAckSN EXCEPT ![n] = s]
              /\ sending' = [sending EXCEPT ![n] = f]
              /\ ticksWaited' = [ticksWaited EXCEPT ![n] = 0]
              /\ returned' = returned
            BY <2>2 DEF Send, NextSN, Waits
        <3> HIDE DEF s, f
        <3> QED BY <1>1, <1>3, <3>1, NoTicks DEF TypeOK
    <2> QED BY <2>1, <2>2
<1>7. UNCHANGED <<lastMessageHasAckData, delivered, redelivered, latest, restarts>>
    BY DEF Send, NextSN, Waits
<1> HIDE DEF s, f, m
<1> QED BY <1>1, <1>2, <1>4, <1>5, <1>6, <1>7 DEF TypeOK

LEMMA ReceiveType ==
    ASSUME TypeOK, NEW n \in Node, Receive(n)
    PROVE  TypeOK'
<1> DEFINE p == Peer[n]
           f == Head(wire[p])
<1>1. p \in Node /\ p # n /\ wire[p] \in Seq(Frame) /\ wire[p] # << >> /\ wire[n] \in Seq(Frame)
    BY PeerFacts DEF TypeOK, Receive
<1>2. f \in Frame /\ f.msg \in Nat /\ Tail(wire[p]) \in Seq(Frame)
    BY <1>1, TailElements DEF Frame
<1>3. wire' \in [Node -> Seq(Frame)]
    <2>1. Reply(wire[n], f) \in Seq(Frame)
        BY <1>1, <1>2, ReplyElements
    <2>2. wire' = [wire EXCEPT ![p] = Tail(@), ![n] = Reply(@, f)]
        BY DEF Receive, Acknowledges
    <2> HIDE DEF p, f
    <2> QED BY <1>1, <1>2, <2>1, <2>2 DEF TypeOK
<1>4. awaitingAck' \in [Node -> BOOLEAN] /\ lastMessageHasAckData' \in [Node -> BOOLEAN]
    BY DEF Receive, Acknowledges, TypeOK
<1>5. /\ delivered' \in [Node -> SUBSET Nat] /\ redelivered' \in [Node -> SUBSET Nat]
      /\ latest' \in [Node -> Nat]
    <2>1. CASE f.msg # 0
        <3>1. /\ delivered' = [delivered EXCEPT ![n] = @ \cup {f.msg}]
              /\ redelivered' = [redelivered EXCEPT ![n] = @ \cup ({f.msg} \cap delivered[n])]
              /\ latest' = [latest EXCEPT ![n] = f.msg]
            BY <2>1 DEF Receive, Acknowledges
        <3> HIDE DEF f
        <3> QED BY <1>2, <3>1 DEF TypeOK
    <2>2. CASE f.msg = 0
        BY <2>2 DEF Receive, Acknowledges, TypeOK
    <2> QED BY <2>1, <2>2
<1>6. UNCHANGED <<lastUsedSN, awaitingAckSN, sending, ticksWaited, sent, returned, restarts>>
    BY DEF Receive, Acknowledges
<1> QED BY <1>3, <1>4, <1>5, <1>6 DEF TypeOK

LEMMA TypeInit == Init => TypeOK
BY NumberFacts DEF Init, TypeOK

LEMMA TypeNext == TypeOK /\ [Next]_vars => TypeOK'
<1> SUFFICES ASSUME TypeOK, [Next]_vars PROVE TypeOK'
    OBVIOUS
<1>1. ASSUME NEW n \in Node, NEW kind \in Kinds, Send(n, kind) PROVE TypeOK'
    BY <1>1, SendType
<1>2. ASSUME NEW n \in Node, Receive(n) PROVE TypeOK'
    BY <1>2, ReceiveType
<1>3. ASSUME NEW n \in Node, Tick(n) PROVE TypeOK'
    <2>1. ticksWaited[n] + 1 \in 0 .. TicksToWaitForAck - 1
        <3>1. ticksWaited[n] \in 0 .. TicksToWaitForAck - 1
            BY DEF TypeOK
        <3>2. ticksWaited[n] + 1 < TicksToWaitForAck
            BY <1>3 DEF Tick
        <3> QED BY <3>1, <3>2, NumberFacts
    <2>2. ticksWaited' \in [Node -> 0 .. TicksToWaitForAck - 1]
        BY <1>3, <2>1 DEF Tick, TypeOK
    <2> QED BY <1>3, <2>2 DEF Tick, TypeOK, state, history
<1>4. ASSUME NEW n \in Node, Retransmit(n) PROVE TypeOK'
    <2>1. sending[n] \in Frame /\ wire[n] \in Seq(Frame)
        BY <1>4 DEF Retransmit, Waiting, TypeOK
    <2>2. Transmit(wire[n], sending[n]) \in Seq(Frame)
        BY <2>1, TransmitElements
    <2>3. sending[n].sn \in SN
        BY <2>1 DEF Frame
    <2>4. wire' \in [Node -> Seq(Frame)]
        BY <1>4, <2>2 DEF Retransmit, TypeOK
    <2>5. awaitingAck' \in [Node -> BOOLEAN] /\ awaitingAckSN' \in [Node -> SN]
        BY <1>4, <2>3 DEF Retransmit, TypeOK
    <2>6. ticksWaited' \in [Node -> 0 .. TicksToWaitForAck - 1]
        BY <1>4, NoTicks DEF Retransmit, TypeOK
    <2> QED BY <1>4, <2>4, <2>5, <2>6 DEF Retransmit, TypeOK, history
<1>5. ASSUME NEW n \in Node, Return(n) PROVE TypeOK'
    <2>1. sending[n] \in Frame
        BY <1>5 DEF Return, Waiting, TypeOK
    <2>2. sending[n].msg \in Nat
        BY <2>1 DEF Frame
    <2>3. returned' \in [Node -> SUBSET Nat]
        BY <1>5, <2>2 DEF Return, TypeOK
    <2>4. ticksWaited' \in [Node -> 0 .. TicksToWaitForAck - 1]
        BY <1>5, NoTicks DEF Return, TypeOK
    <2> QED BY <1>5, <2>3, <2>4 DEF Return, TypeOK
<1>6. ASSUME NEW n \in Node, Restart(n) PROVE TypeOK'
    <2>1. ticksWaited' \in [Node -> 0 .. TicksToWaitForAck - 1]
        BY <1>6, NoTicks DEF Restart, TypeOK
    <2>2. lastUsedSN' \in [Node -> SN] /\ awaitingAckSN' \in [Node -> SN]
        BY <1>6, NumberFacts DEF Restart, TypeOK
    <2>3. restarts' \in [Node -> Nat]
        BY <1>6 DEF Restart, TypeOK
    <2> QED BY <1>6, <2>1, <2>2, <2>3 DEF Restart, TypeOK, history
<1>7. ASSUME NEW n \in Node, Lose(n) PROVE TypeOK'
    BY <1>7, TailElements DEF Lose, TypeOK, state, history
<1>8. CASE UNCHANGED vars
    BY <1>8 DEF vars, state, history, TypeOK
<1> QED
    BY <1>1, <1>2, <1>3, <1>4, <1>5, <1>6, <1>7, <1>8
    DEF Next, System, Environment, Quiescent

(* Every field of both Serial_States, the cable and the histories keep      *)
(* their types in every behaviour.                                          *)
THEOREM TypeCorrect == Spec => []TypeOK
BY TypeInit, TypeNext, PTL DEF Spec

-----------------------------------------------------------------------------
(* Histories only grow, so what was carried or acked stays so.              *)
Grows ==
    \A n \in Node :
        /\ Len(sent'[n]) \in Nat /\ Len(sent'[n]) >= Len(sent[n])
        /\ \A i \in 1 .. Len(sent[n]) : sent'[n][i] = sent[n][i]
        /\ delivered[n] \subseteq delivered'[n]

LEMMA Growth ==
    ASSUME TypeOK, [Next]_vars
    PROVE  Grows
<1>0. \A n \in Node : Len(sent[n]) \in Nat /\ sent[n] \in Seq(Message)
    BY DEF TypeOK
<1>1. ASSUME NEW n \in Node, NEW kind \in Kinds, Send(n, kind) PROVE Grows
    <2> DEFINE msg == [kind |-> kind, sn |-> (lastUsedSN[n] + 1) % SNMod]
    <2>1. msg \in Message
        BY NumberFacts DEF Message, TypeOK
    <2>2. sent' = [sent EXCEPT ![n] = Append(@, msg)] /\ delivered' = delivered
        BY <1>1 DEF Send, NextSN, Waits
    <2> HIDE DEF msg
    <2>3. sent'[n] = Append(sent[n], msg) /\ \A p \in Node \ {n} : sent'[p] = sent[p]
        BY <2>2 DEF TypeOK
    <2>4. /\ Len(sent'[n]) = Len(sent[n]) + 1
          /\ \A i \in 1 .. Len(sent[n]) : sent'[n][i] = sent[n][i]
        BY <2>1, <2>3, <1>0
    <2> QED BY <2>2, <2>3, <2>4, <1>0 DEF Grows
<1>2. ASSUME NEW n \in Node, Receive(n) PROVE Grows
    <2> DEFINE m == Head(wire[Peer[n]]).msg
    <2>1. /\ sent' = sent
          /\ delivered' = delivered \/ delivered' = [delivered EXCEPT ![n] = @ \cup {m}]
        BY <1>2 DEF Receive, Acknowledges
    <2> HIDE DEF m
    <2>2. \A p \in Node : delivered[p] \subseteq delivered'[p]
        BY <2>1 DEF TypeOK
    <2> QED BY <2>1, <2>2, <1>0 DEF Grows
<1>3. ASSUME sent' = sent, delivered' = delivered PROVE Grows
    BY <1>0, <1>3 DEF Grows
<1>4. ASSUME NEW n \in Node, Tick(n) \/ Retransmit(n) \/ Return(n) \/ Restart(n) \/ Lose(n)
      PROVE  sent' = sent /\ delivered' = delivered
    BY <1>4 DEF Tick, Retransmit, Return, Restart, Lose, history
<1>5. CASE UNCHANGED vars
    BY <1>3, <1>5 DEF vars, history
<1> QED
    BY <1>1, <1>2, <1>3, <1>4, <1>5 DEF Next, System, Environment, Quiescent

LEMMA CarriesStable ==
    ASSUME TypeOK, Grows, NEW n \in Node, NEW f, Carries(n, f)
    PROVE  Carries(n, f)'
<1>1. f.msg \in 1 .. Len(sent'[n]) /\ sent'[n][f.msg] = sent[n][f.msg]
    <2>1. Len(sent[n]) \in Nat
        BY DEF TypeOK
    <2> QED BY <2>1 DEF Grows, Carries
<1> QED BY <1>1 DEF Carries

LEMMA AckedStable ==
    ASSUME TypeOK, HistoryInv, Grows, NEW n \in Node, NEW sn, Acked(n, sn)
    PROVE  Acked(n, sn)'
<1>1. PICK k \in delivered[Peer[n]] : sent[n][k] = [kind |-> "reliable", sn |-> sn]
    BY DEF Acked
<1>2. k \in delivered'[Peer[n]] /\ sent'[n][k] = sent[n][k]
    BY PeerFacts DEF Grows, HistoryInv
<1> QED BY <1>1, <1>2 DEF Acked

LEMMA FrameStable ==
    ASSUME TypeOK, HistoryInv, Grows, NEW n \in Node, NEW f, FrameOK(n, f)
    PROVE  FrameOK(n, f)'
<1>1. f.type \in Kinds => Carries(n, f)'
    BY CarriesStable DEF FrameOK
<1>2. f.type = "ack" => Acked(Peer[n], f.sn)'
    BY AckedStable, PeerFacts DEF FrameOK
<1> QED BY <1>1, <1>2 DEF FrameOK

(* So the frames of a step are right if each is an old one or right.        *)
LEMMA WireStep ==
    ASSUME TypeOK, HistoryInv, WireInv, Grows,
           \A n \in Node : \A i \in 1 .. Len(wire'[n]) :
               \/ \E j \in 1 .. Len(wire[n]) : wire'[n][i] = wire[n][j]
               \/ FrameOK(n, wire[n][i])'
    PROVE  WireInv'
<1> SUFFICES ASSUME NEW n \in Node, NEW i \in 1 .. Len(wire'[n])
             PROVE  FrameOK(n, wire[n][i])'
    BY DEF WireInv
<1>1. ASSUME NEW j \in 1 .. Len(wire[n]), wire'[n][i] = wire[n][j]
      PROVE  FrameOK(n, wire[n][i])'
    <2>1. \A f : f = wire[n][j] => FrameOK(n, f)'
        BY FrameStable DEF WireInv
    <2>2. \A f : f = wire'[n][i] => FrameOK(n, f)'
        BY <1>1, <2>1
    <2> QED BY <2>2 DEF FrameOK, Carries, Acked
<1> QED BY <1>1

-----------------------------------------------------------------------------
(* What a frame read by n means to n: its message is one its peer sent, and *)
(* an ack is of a reliable message that the peer got.                       *)
LEMMA HeadOK ==
    ASSUME TypeOK, WireInv, NEW n \in Node, wire[Peer[n]] # << >>
    PROVE  LET f == Head(wire[Peer[n]])
           IN  /\ f \in Frame
               /\ f.msg # 0 => Carries(Peer[n], f) /\ f.type \in Kinds
               /\ f.type \in Kinds => f.msg # 0 /\ Carries(Peer[n], f)
               /\ f.type = "ack" => f.msg = 0 /\ Acked(n, f.sn)
<1> DEFINE p == Peer[n]
           f == Head(wire[p])
<1>1. p \in Node /\ Peer[p] = n /\ wire[p] \in Seq(Frame)
    BY PeerFacts DEF TypeOK
<1>2. f \in Frame /\ Len(wire[p]) > 0 /\ f = wire[p][1] /\ Len(wire[p]) \in Nat
    BY <1>1, TailElements
<1>3. FrameOK(p, f)
    BY <1>1, <1>2 DEF WireInv
<1>4. Carries(p, f) => f.msg # 0
    BY DEF Carries
<1>5. f.type = "ack" => f.type \notin Kinds
    BY DEF Kinds
<1> QED BY <1>1, <1>2, <1>3, <1>4, <1>5 DEF FrameOK

LEMMA WireNext ==
    ASSUME IInv, [Next]_vars
    PROVE  WireInv'
<1> USE DEF IInv
<1>0. Grows
    BY Growth
<1> DEFINE Right(q) == \A i \in 1 .. Len(wire'[q]) :
                 \/ \E j \in 1 .. Len(wire[q]) : wire'[q][i] = wire[q][j]
                 \/ FrameOK(q, wire[q][i])'
<1>w. (\A q \in Node : Right(q)) => WireInv'
    BY <1>0, WireStep
<1>a. ASSUME NEW q \in Node, wire'[q] = wire[q] PROVE Right(q)
    BY <1>a
<1>b. ASSUME NEW q \in Node, wire[q] # << >>, wire'[q] = Tail(wire[q]) PROVE Right(q)
    BY <1>b, TailElements DEF TypeOK
<1>c. ASSUME NEW q \in Node, NEW f \in Frame, wire'[q] = Transmit(wire[q], f),
             FrameOK(q, f)'
      PROVE  Right(q)
    <2>1. wire[q] \in Seq(Frame)
        BY DEF TypeOK
    <2>2. ASSUME NEW i \in 1 .. Len(wire'[q]), wire'[q][i] = f
          PROVE  FrameOK(q, wire[q][i])'
        BY <1>c, <2>2 DEF FrameOK, Carries, Acked
    <2>3. \A i \in 1 .. Len(Transmit(wire[q], f)) :
              \/ Transmit(wire[q], f)[i] = f
              \/ \E j \in 1 .. Len(wire[q]) : Transmit(wire[q], f)[i] = wire[q][j]
        BY <2>1, TransmitElements
    <2> QED BY <1>c, <2>2, <2>3
<1>1. ASSUME NEW n \in Node, NEW kind \in Kinds, Send(n, kind)
      PROVE  WireInv'
    <2>1. PICK s \in SN : s = (lastUsedSN[n] + 1) % SNMod
        BY NumberFacts DEF TypeOK
    <2>2. PICK m \in Nat \ {0} : m = Len(sent[n]) + 1
        BY DEF TypeOK
    <2> DEFINE f == [type |-> kind, sn |-> s, msg |-> m]
               g == [kind |-> kind, sn |-> s]
    <2>3. f \in Frame /\ g \in Message
        BY DEF Frame, Message
    <2>4. /\ wire' = [wire EXCEPT ![n] = Transmit(@, f)]
          /\ sent' = [sent EXCEPT ![n] = Append(@, g)]
        BY <1>1, <2>1, <2>2 DEF Send, NextSN, Waits
    <2>5. f.type = kind /\ f.msg = m /\ g = [kind |-> f.type, sn |-> f.sn]
        OBVIOUS
    <2> HIDE DEF f, g
    <2>6. wire'[n] = Transmit(wire[n], f) /\ \A q \in Node \ {n} : wire'[q] = wire[q]
        BY <2>4 DEF TypeOK
    <2>7. sent[n] \in Seq(Message) /\ sent'[n] = Append(sent[n], g)
        BY <2>4 DEF TypeOK
    <2>8. m \in 1 .. Len(sent'[n]) /\ sent'[n][m] = g
        BY <2>2, <2>3, <2>7
    <2>9. Carries(n, f)'
        BY <2>5, <2>8 DEF Carries
    <2>10. kind # "ack"
        BY DEF Kinds
    <2>11. FrameOK(n, f)'
        BY <2>5, <2>9, <2>10 DEF FrameOK
    <2> HIDE DEF Right
    <2>r. \A q \in Node : Right(q)
        BY <2>3, <2>6, <2>11, <1>a, <1>c
    <2> QED BY <2>r, <1>w
<1>2. ASSUME NEW n \in Node, Receive(n)
      PROVE  WireInv'
    <2> DEFINE p == Peer[n]
    <2>1. p \in Node /\ p # n /\ Peer[p] = n /\ wire[p] # << >>
        BY <1>2, PeerFacts DEF Receive, Acknowledges
    <2>2. PICK f \in Frame :
              /\ f = Head(wire[p])
              /\ f.type \in Kinds => f.msg # 0 /\ Carries(p, f)
        BY <2>1, HeadOK
    <2>0. wire' = [wire EXCEPT ![p] = Tail(@), ![n] = Reply(@, f)]
        BY <1>2, <2>2 DEF Receive, Acknowledges
    <2>4. f.type = "reliable" => Acked(p, f.sn)'
        <3>1. SUFFICES ASSUME f.type = "reliable" PROVE Acked(p, f.sn)'
            OBVIOUS
        <3>2. f.msg # 0 /\ Carries(p, f)
            BY <2>2, <3>1 DEF Kinds
        <3>3. /\ delivered' = [delivered EXCEPT ![n] = @ \cup {f.msg}]
              /\ sent' = sent
            BY <1>2, <2>2, <3>2 DEF Receive, Acknowledges
        <3> HIDE DEF p
        <3>4. f.msg \in delivered'[n]
            BY <3>3 DEF TypeOK
        <3>5. sent'[p][f.msg] = [kind |-> "reliable", sn |-> f.sn]
            BY <3>1, <3>2, <3>3 DEF Carries
        <3> QED BY <2>1, <3>4, <3>5 DEF Acked
    <2>5. wire'[p] = Tail(wire[p]) /\ wire'[n] = Reply(wire[n], f)
          /\ \A q \in Node \ {n, p} : wire'[q] = wire[q]
        <3> HIDE DEF p
        <3> QED BY <2>0, <2>1, <2>2 DEF TypeOK
    <2>6. Right(n)
        <3>1. wire[n] \in Seq(Frame)
            BY DEF TypeOK
        <3>2. SUFFICES ASSUME NEW i \in 1 .. Len(wire'[n]),
                              ~ \E j \in 1 .. Len(wire[n]) : wire'[n][i] = wire[n][j]
                       PROVE  FrameOK(n, wire[n][i])'
            OBVIOUS
        <3>6. \A j \in 1 .. Len(Reply(wire[n], f)) :
                \/ f.type = "reliable" /\ Reply(wire[n], f)[j] = [type |-> "ack", sn |-> f.sn, msg |-> 0]
                \/ f.type = "response" /\ Reply(wire[n], f)[j] = [type |-> "ackData", sn |-> f.sn, msg |-> 0]
                \/ \E k \in 1 .. Len(wire[n]) : Reply(wire[n], f)[j] = wire[n][k]
            BY <3>1, ReplyElements
        <3>3. \/ f.type = "reliable" /\ wire'[n][i] = [type |-> "ack", sn |-> f.sn, msg |-> 0]
              \/ wire'[n][i] = [type |-> "ackData", sn |-> f.sn, msg |-> 0]
            BY <2>5, <3>2, <3>6
        <3>4. wire'[n][i].type \notin Kinds /\ wire'[n][i].msg = 0
            BY <3>3 DEF Kinds
        <3>5. wire'[n][i].type = "ack" => Acked(p, wire[n][i].sn)'
            <4>1. SUFFICES ASSUME wire'[n][i].type = "ack" PROVE Acked(p, wire[n][i].sn)'
                OBVIOUS
            <4>2. f.type = "reliable" /\ wire'[n][i].sn = f.sn
                BY <3>3, <4>1
            <4> QED BY <2>4, <4>2 DEF Acked
        <3> QED BY <3>4, <3>5 DEF FrameOK
    <2> HIDE DEF Right, p
    <2>r. \A q \in Node : Right(q)
        BY <2>1, <2>5, <2>6, <1>a, <1>b
    <2> QED BY <2>r, <1>w
<1>3. ASSUME NEW n \in Node, Retransmit(n)
      PROVE  WireInv'
    <2>1. sending[n] \in Frame /\ Carries(n, sending[n]) /\ sending[n].type \in {"reliable", "response"}
        BY <1>3 DEF Retransmit, Waiting, TypeOK, SendingInv
    <2>2. \A f : f = sending[n] => FrameOK(n, f)'
        BY <2>1, <1>0, CarriesStable DEF FrameOK, Kinds
    <2>3. wire'[n] = Transmit(wire[n], sending[n]) /\ \A q \in Node \ {n} : wire'[q] = wire[q]
        BY <1>3 DEF Retransmit, TypeOK
    <2>4. PICK f \in Frame : f = sending[n]
        BY <2>1
    <2> HIDE DEF Right
    <2>r. \A q \in Node : Right(q)
        BY <2>2, <2>3, <2>4, <1>a, <1>c
    <2> QED BY <2>r, <1>w
<1>4. ASSUME NEW n \in Node, Lose(n)
      PROVE  WireInv'
    <2>1. wire[n] # << >> /\ wire'[n] = Tail(wire[n]) /\ \A q \in Node \ {n} : wire'[q] = wire[q]
        BY <1>4 DEF Lose, TypeOK
    <2> HIDE DEF Right
    <2>r. \A q \in Node : Right(q)
        BY <2>1, <1>a, <1>b
    <2> QED BY <2>r, <1>w
<1>5. ASSUME wire' = wire PROVE WireInv'
    <2> HIDE DEF Right
    <2>r. \A q \in Node : Right(q)
        BY <1>5, <1>a
    <2> QED BY <2>r, <1>w
<1>6. ASSUME NEW n \in Node, Tick(n) \/ Return(n) \/ Restart(n) PROVE WireInv'
    <2>1. wire' = wire
        BY <1>6 DEF Tick, Return, Restart
    <2> QED BY <1>5, <2>1
<1>7. CASE UNCHANGED vars
    BY <1>5, <1>7 DEF vars
<1> QED
    BY <1>1, <1>2, <1>3, <1>4, <1>6, <1>7 DEF Next, System, Environment, Quiescent

LEMMA SendingNext ==
    ASSUME IInv, [Next]_vars
    PROVE  SendingInv'
<1> USE DEF IInv
<1>0. Grows
    BY Growth
<1> DEFINE Right(q) ==
        Waiting(q) =>
            /\ Carries(q, sending[q])
            /\ sending[q].msg = Len(sent[q])
            /\ sending[q].type \in {"reliable", "response"}
            /\ awaitingAckSN[q] = sending[q].sn
            /\ ~awaitingAck[q] => Acked(q, sending[q].sn)
<1> SUFFICES ASSUME NEW q \in Node PROVE Right(q)'
    BY DEF SendingInv
<1>q. Right(q)
    BY DEF SendingInv
\* A step that leaves q's send alone keeps what is known of it.
<1>a. ASSUME sending'[q] = sending[q], sent'[q] = sent[q],
             awaitingAckSN'[q] = awaitingAckSN[q],
             ~awaitingAck'[q] => ~awaitingAck[q] \/ Acked(q, awaitingAckSN[q])'
      PROVE  Right(q)'
    <2>1. SUFFICES ASSUME Waiting(q) PROVE Right(q)'
        BY <1>a DEF Waiting
    <2>2. PICK f : f = sending[q]
        OBVIOUS
    <2>3. Carries(q, f)'
        BY <2>1, <2>2, <1>q, <1>0, CarriesStable
    <2>4. PICK sn : sn = awaitingAckSN[q]
        OBVIOUS
    <2>5. Acked(q, sn) => Acked(q, sn)'
        BY <1>0, AckedStable
    <2>6. ~awaitingAck'[q] => Acked(q, sn)'
        BY <1>a, <2>1, <2>4, <2>5, <1>q DEF Acked
    <2>7. f = sending'[q] /\ sn = awaitingAckSN'[q] /\ sn = f.sn
        BY <1>a, <2>1, <2>2, <2>4, <1>q
    <2>8. Carries(q, sending[q])' /\ (~awaitingAck'[q] => Acked(q, sending[q].sn)')
        BY <2>3, <2>6, <2>7 DEF Carries, Acked
    <2> QED BY <1>a, <2>1, <2>8, <1>q
<1>1. ASSUME NEW n \in Node, NEW kind \in Kinds, Send(n, kind) PROVE Right(q)'
    <2>1. CASE q = n /\ kind # "fast"
        <3>1. PICK s \in SN : s = (lastUsedSN[n] + 1) % SNMod
            BY NumberFacts DEF TypeOK
        <3>2. PICK m \in Nat \ {0} : m = Len(sent[n]) + 1
            BY DEF TypeOK
        <3>3. /\ sent' = [sent EXCEPT ![n] = Append(@, [kind |-> kind, sn |-> s])]
              /\ awaitingAck' = [awaitingAck EXCEPT ![n] = TRUE]
              /\ awaitingAckSN' = [awaitingAckSN EXCEPT ![n] = s]
              /\ sending' = [sending EXCEPT ![n] = [type |-> kind, sn |-> s, msg |-> m]]
            BY <1>1, <2>1, <3>1, <3>2 DEF Send, NextSN, Waits
        <3>4. /\ sent'[n] = Append(sent[n], [kind |-> kind, sn |-> s])
              /\ awaitingAck'[n] /\ awaitingAckSN'[n] = s
              /\ sending'[n] = [type |-> kind, sn |-> s, msg |-> m]
            BY <3>3 DEF TypeOK
        <3>5. [kind |-> kind, sn |-> s] \in Message /\ sent[n] \in Seq(Message)
            BY DEF TypeOK, Message
        <3>6. /\ Len(sent'[n]) = m /\ m \in 1 .. Len(sent'[n])
              /\ sent'[n][m] = [kind |-> kind, sn |-> s]
            BY <3>2, <3>4, <3>5
        <3>7. kind \in {"reliable", "response"}
            BY <2>1 DEF Kinds
        <3> QED BY <2>1, <3>4, <3>6, <3>7 DEF Carries
    <2>2. CASE q = n /\ kind = "fast"
        <3>1. sending'[n] = sending[n] /\ sending[n] = NoFrame
            BY <1>1, <2>2 DEF Send, NextSN, Waits
        <3> QED BY <2>2, <3>1 DEF Waiting
    <2>3. CASE q # n
        <3>1. /\ sending'[q] = sending[q] /\ sent'[q] = sent[q]
              /\ awaitingAckSN'[q] = awaitingAckSN[q] /\ awaitingAck'[q] = awaitingAck[q]
            BY <1>1, <2>3 DEF Send, NextSN, Waits, TypeOK
        <3> QED BY <3>1, <1>a
    <2> QED BY <2>1, <2>2, <2>3
<1>2. ASSUME NEW n \in Node, Receive(n) PROVE Right(q)'
    <2> DEFINE f == Head(wire[Peer[n]])
    <2>1. /\ sending' = sending /\ sent' = sent /\ awaitingAckSN' = awaitingAckSN
          /\ awaitingAck' = [awaitingAck EXCEPT ![n] =
                                @ /\ ~(f.type = "ack" /\ f.sn = awaitingAckSN[n])]
          /\ wire[Peer[n]] # << >>
        BY <1>2 DEF Receive, Acknowledges
    <2>2. f.type = "ack" => Acked(n, f.sn)
        BY <2>1, HeadOK
    <2> HIDE DEF f
    <2>3. ~awaitingAck'[q] => ~awaitingAck[q] \/ Acked(q, awaitingAckSN[q])
        BY <2>1, <2>2 DEF TypeOK
    <2>4. PICK sn : sn = awaitingAckSN[q]
        OBVIOUS
    <2>5. Acked(q, sn) => Acked(q, sn)'
        BY <1>0, AckedStable
    <2>6. Acked(q, awaitingAckSN[q]) => Acked(q, awaitingAckSN[q])'
        BY <2>1, <2>4, <2>5 DEF Acked
    <2> HIDE DEF Right
    <2> QED BY <2>1, <2>3, <2>6, <1>a
<1>3. ASSUME NEW n \in Node, Retransmit(n) PROVE Right(q)'
    <2>1. /\ sending'[q] = sending[q] /\ sent'[q] = sent[q] /\ Waiting(n)
          /\ awaitingAck'[q] = IF q = n THEN TRUE ELSE awaitingAck[q]
          /\ awaitingAckSN'[q] = IF q = n THEN sending[n].sn ELSE awaitingAckSN[q]
        BY <1>3 DEF Retransmit, TypeOK, history
    <2>2. awaitingAckSN'[q] = awaitingAckSN[q]
        BY <2>1, <1>q
    <2> HIDE DEF Right
    <2> QED BY <2>1, <2>2, <1>a
<1>4. ASSUME NEW n \in Node, Return(n) \/ Restart(n) PROVE Right(q)'
    <2>1. CASE q = n
        <3>1. sending'[n] = NoFrame
            BY <1>4 DEF Return, Restart, TypeOK
        <3> QED BY <2>1, <3>1 DEF Waiting
    <2>2. CASE q # n
        <3>1. /\ sending'[q] = sending[q] /\ sent'[q] = sent[q]
              /\ awaitingAckSN'[q] = awaitingAckSN[q] /\ awaitingAck'[q] = awaitingAck[q]
            BY <1>4, <2>2 DEF Return, Restart, TypeOK, history
        <3> HIDE DEF Right
        <3> QED BY <3>1, <1>a
    <2> QED BY <2>1, <2>2
<1>5. ASSUME NEW n \in Node, Tick(n) \/ Lose(n) PROVE Right(q)'
    <2>1. /\ sending' = sending /\ sent' = sent
          /\ awaitingAckSN' = awaitingAckSN /\ awaitingAck' = awaitingAck
        BY <1>5 DEF Tick, Lose, state, history
    <2> HIDE DEF Right
    <2> QED BY <2>1, <1>a
<1>6. ASSUME UNCHANGED vars PROVE Right(q)'
    <2>1. /\ sending' = sending /\ sent' = sent
          /\ awaitingAckSN' = awaitingAckSN /\ awaitingAck' = awaitingAck
        BY <1>6 DEF vars, state, history
    <2> HIDE DEF Right
    <2> QED BY <2>1, <1>a
<1> QED
    BY <1>1, <1>2, <1>3, <1>4, <1>5, <1>6 DEF Next, System, Environment, Quiescent

LEMMA HistoryNext ==
    ASSUME IInv, [Next]_vars
    PROVE  HistoryInv'
<1> USE DEF IInv
<1>0. Grows
    BY Growth
<1>1. \A q \in Node :
          /\ returned[q] \subseteq 1 .. Len(sent'[q])
          /\ delivered[Peer[q]] \subseteq 1 .. Len(sent'[q])
    <2>1. \A q \in Node : Len(sent[q]) \in Nat /\ Len(sent'[q]) \in Nat /\ Len(sent[q]) <= Len(sent'[q])
        BY <1>0 DEF TypeOK, Grows
    <2>2. \A q \in Node : 1 .. Len(sent[q]) \subseteq 1 .. Len(sent'[q])
        BY <2>1
    <2> QED BY <2>2 DEF HistoryInv
<1>2. ASSUME NEW n \in Node, NEW kind \in Kinds, Send(n, kind) PROVE HistoryInv'
    <2>1. PICK m \in Nat \ {0} : m = Len(sent[n]) + 1
        BY DEF TypeOK
    <2>2. m \in 1 .. Len(sent'[n])
        <3> DEFINE g == [kind |-> kind, sn |-> (lastUsedSN[n] + 1) % SNMod]
        <3>1. g \in Message /\ sent[n] \in Seq(Message)
            BY NumberFacts DEF TypeOK, Message
        <3>2. sent'[n] = Append(sent[n], g)
            BY <1>2 DEF Send, NextSN, Waits, TypeOK
        <3> HIDE DEF g
        <3> QED BY <2>1, <3>1, <3>2
    <2>3. /\ delivered' = delivered
          /\ returned' = returned \/ returned' = [returned EXCEPT ![n] = @ \cup {m}]
        BY <1>2, <2>1 DEF Send, NextSN, Waits
    <2>4. \A q \in Node :
              \/ returned'[q] = returned[q]
              \/ q = n /\ returned'[q] = returned[q] \cup {m}
        BY <2>3 DEF TypeOK
    <2>5. \A q \in Node : returned'[q] \subseteq 1 .. Len(sent'[q])
        BY <1>1, <2>2, <2>4
    <2> QED BY <1>1, <2>3, <2>5 DEF HistoryInv
<1>3. ASSUME NEW n \in Node, Receive(n) PROVE HistoryInv'
    <2> DEFINE f == Head(wire[Peer[n]])
    <2>1. /\ sent' = sent /\ returned' = returned /\ wire[Peer[n]] # << >>
          /\ \/ delivered' = delivered
             \/ f.msg # 0 /\ delivered' = [delivered EXCEPT ![n] = @ \cup {f.msg}]
        BY <1>3 DEF Receive, Acknowledges
    <2>2. f.msg # 0 => f.msg \in 1 .. Len(sent[Peer[n]])
        BY <2>1, HeadOK DEF Carries
    <2> HIDE DEF f
    <2>3. \A q \in Node :
              \/ delivered'[Peer[q]] = delivered[Peer[q]]
              \/ /\ Peer[q] = n /\ f.msg # 0
                 /\ delivered'[Peer[q]] = delivered[Peer[q]] \cup {f.msg}
        BY <2>1, PeerFacts DEF TypeOK
    <2>4. \A q \in Node : Peer[q] = n => q = Peer[n]
        BY PeerFacts
    <2>5. \A q \in Node : delivered'[Peer[q]] \subseteq 1 .. Len(sent'[q])
        BY <1>1, <2>1, <2>2, <2>3, <2>4
    <2> QED BY <1>1, <2>1, <2>5 DEF HistoryInv
<1>4. ASSUME NEW n \in Node, Return(n) PROVE HistoryInv'
    <2>1. sending[n].msg \in 1 .. Len(sent[n])
        BY <1>4 DEF Return, SendingInv, Carries
    <2>2. /\ sent' = sent /\ delivered' = delivered
          /\ returned' = [returned EXCEPT ![n] = @ \cup {sending[n].msg}]
        BY <1>4 DEF Return
    <2> QED BY <1>1, <2>1, <2>2 DEF HistoryInv, TypeOK
<1>5. ASSUME UNCHANGED history PROVE HistoryInv'
    BY <1>1, <1>5 DEF HistoryInv, history
<1>6. ASSUME NEW n \in Node, Tick(n) \/ Retransmit(n) \/ Restart(n) \/ Lose(n) PROVE HistoryInv'
    <2>1. UNCHANGED history
        BY <1>6 DEF Tick, Retransmit, Restart, Lose
    <2> QED BY <1>5, <2>1
<1>7. CASE UNCHANGED vars
    BY <1>5, <1>7 DEF vars
<1> QED
    BY <1>2, <1>3, <1>4, <1>6, <1>7 DEF Next, System, Environment, Quiescent

LEMMA NumberNext ==
    ASSUME IInv, [Next]_vars
    PROVE  NumberInv'
<1> USE DEF IInv
<1> DEFINE Right(q) ==
        restarts[q] = 0 =>
            /\ lastUsedSN[q] = (FirstSN + Len(sent[q])) % SNMod
            /\ \A m \in 1 .. Len(sent[q]) :
                  /\ sent[q][m].sn = (FirstSN + m) % SNMod
                  /\ m \in returned[q] \/ (Waiting(q) /\ m = sending[q].msg)
<1> SUFFICES ASSUME NEW q \in Node PROVE Right(q)'
    BY DEF NumberInv
<1>q. Right(q)
    BY DEF NumberInv
<1>a. ASSUME restarts'[q] = restarts[q], lastUsedSN'[q] = lastUsedSN[q], sent'[q] = sent[q],
             returned'[q] = returned[q], sending'[q] = sending[q]
      PROVE  Right(q)'
    BY <1>a, <1>q DEF Waiting
<1>1. ASSUME NEW n \in Node, NEW kind \in Kinds, Send(n, kind) PROVE Right(q)'
    <2>1. CASE q # n
        <3>1. /\ restarts'[q] = restarts[q] /\ lastUsedSN'[q] = lastUsedSN[q]
              /\ sent'[q] = sent[q] /\ returned'[q] = returned[q] /\ sending'[q] = sending[q]
            BY <1>1, <2>1 DEF Send, NextSN, Waits, TypeOK
        <3> HIDE DEF Right
        <3> QED BY <1>a, <3>1
    <2>2. CASE q = n
        <3>1. PICK s \in SN : s = (lastUsedSN[n] + 1) % SNMod
            BY NumberFacts DEF TypeOK
        <3>2. PICK m \in Nat \ {0} : m = Len(sent[n]) + 1
            BY DEF TypeOK
        <3> DEFINE g == [kind |-> kind, sn |-> s]
        <3>3. g \in Message /\ g.sn = s /\ sent[n] \in Seq(Message)
            BY DEF Message, TypeOK
        <3>4. /\ restarts'[n] = restarts[n] /\ lastUsedSN'[n] = s
              /\ sent'[n] = Append(sent[n], g) /\ sending[n] = NoFrame
            BY <1>1, <3>1 DEF Send, NextSN, Waits, TypeOK
        <3> HIDE DEF g
        <3>5. /\ Len(sent'[n]) = m /\ sent'[n][m] = g
              /\ \A k \in 1 .. Len(sent[n]) : sent'[n][k] = sent[n][k]
            BY <3>2, <3>3, <3>4
        <3>6. \/ returned'[n] = returned[n] \cup {m}
              \/ /\ returned'[n] = returned[n]
                 /\ sending'[n] = [type |-> kind, sn |-> s, msg |-> m]
            BY <1>1, <3>1, <3>2 DEF Send, NextSN, Waits, TypeOK
        <3>7. m \in returned'[n] \/ (sending'[n] # NoFrame /\ m = sending'[n].msg)
            BY <3>6, <3>2 DEF NoFrame
        <3>8. returned[n] \subseteq returned'[n]
            BY <3>6
        <3>9. restarts[n] = 0 => s = (FirstSN + m) % SNMod
            <4>1. SUFFICES ASSUME restarts[n] = 0 PROVE s = (FirstSN + m) % SNMod
                OBVIOUS
            <4>2. PICK x \in Nat : x = FirstSN + Len(sent[n])
                BY NumberFacts DEF TypeOK, SN
            <4>3. lastUsedSN[n] = x % SNMod
                BY <2>2, <4>1, <4>2, <1>q
            <4>4. FirstSN + m = x + 1
                BY <3>2, <4>2, NumberFacts DEF SN, TypeOK
            <4> QED BY <3>1, <4>3, <4>4, Successor, NumberFacts
        <3>10. ASSUME restarts[n] = 0, NEW k \in 1 .. m
               PROVE  /\ sent'[n][k].sn = (FirstSN + k) % SNMod
                      /\ k \in returned'[n] \/ (sending'[n] # NoFrame /\ k = sending'[n].msg)
            <4>1. CASE k = m
                BY <4>1, <3>3, <3>5, <3>7, <3>9, <3>10
            <4>2. CASE k # m
                <5>1. k \in 1 .. Len(sent[n]) /\ sent'[n][k] = sent[n][k]
                    BY <3>2, <3>3, <3>5, <4>2
                <5>2. k \in returned[n] /\ sent[n][k].sn = (FirstSN + k) % SNMod
                    BY <2>2, <5>1, <3>4, <3>10, <1>q DEF Waiting
                <5> QED BY <5>1, <5>2, <3>8
            <4> QED BY <4>1, <4>2
        <3> QED BY <2>2, <3>4, <3>5, <3>9, <3>10 DEF Waiting
    <2> QED BY <2>1, <2>2
<1>2. ASSUME NEW n \in Node, Return(n) PROVE Right(q)'
    <2>1. /\ restarts'[q] = restarts[q] /\ lastUsedSN'[q] = lastUsedSN[q] /\ sent'[q] = sent[q]
        BY <1>2 DEF Return
    <2>2. CASE q # n
        <3>1. returned'[q] = returned[q] /\ sending'[q] = sending[q]
            BY <1>2, <2>2 DEF Return, TypeOK
        <3> HIDE DEF Right
        <3> QED BY <1>a, <2>1, <3>1
    <2>3. CASE q = n
        <3>1. returned'[q] = returned[q] \cup {sending[q].msg}
            BY <1>2, <2>3 DEF Return, TypeOK
        <3> QED BY <2>1, <3>1, <1>q
    <2> QED BY <2>2, <2>3
<1>3. ASSUME NEW n \in Node, Restart(n) PROVE Right(q)'
    <2>1. CASE q = n
        <3>1. restarts[n] \in Nat /\ restarts'[n] = restarts[n] + 1
            BY <1>3 DEF Restart, TypeOK
        <3> QED BY <2>1, <3>1
    <2>2. CASE q # n
        <3>1. /\ restarts'[q] = restarts[q] /\ lastUsedSN'[q] = lastUsedSN[q] /\ sent'[q] = sent[q]
              /\ returned'[q] = returned[q] /\ sending'[q] = sending[q]
            BY <1>3, <2>2 DEF Restart, TypeOK, history
        <3> HIDE DEF Right
        <3> QED BY <1>a, <3>1
    <2> QED BY <2>1, <2>2
<1>4. ASSUME restarts' = restarts, lastUsedSN' = lastUsedSN, sent' = sent,
             returned' = returned, sending' = sending
      PROVE  Right(q)'
    <2> HIDE DEF Right
    <2> QED BY <1>a, <1>4
<1>5. ASSUME NEW n \in Node, Receive(n) \/ Tick(n) \/ Retransmit(n) \/ Lose(n) PROVE Right(q)'
    <2>1. /\ restarts' = restarts /\ lastUsedSN' = lastUsedSN /\ sent' = sent
          /\ returned' = returned /\ sending' = sending
        BY <1>5 DEF Receive, Acknowledges, Tick, Retransmit, Lose, state, history
    <2> HIDE DEF Right
    <2> QED BY <1>4, <2>1
<1>6. ASSUME UNCHANGED vars PROVE Right(q)'
    <2> HIDE DEF Right
    <2> QED BY <1>4, <1>6 DEF vars, state, history
<1> HIDE DEF Right
<1> QED
    BY <1>1, <1>2, <1>3, <1>5, <1>6 DEF Next, System, Environment, Quiescent

LEMMA AckedNext ==
    ASSUME IInv, [Next]_vars
    PROVE  AckedSNWasDelivered'
<1> USE DEF IInv
<1>0. Grows
    BY Growth
\* What had returned keeps its witness.
<1>1. ASSUME NEW q \in Node, NEW m \in returned[q]
      PROVE  sent'[q][m].kind # "fast" =>
                \E k \in delivered'[Peer[q]] :
                    /\ k <= m
                    /\ sent'[q][k] = [kind |-> "reliable", sn |-> sent'[q][m].sn]
    <2>1. m \in 1 .. Len(sent[q]) /\ delivered[Peer[q]] \subseteq 1 .. Len(sent[q])
        BY DEF HistoryInv
    <2>2. \A k \in 1 .. Len(sent[q]) : sent'[q][k] = sent[q][k]
        BY <1>0 DEF Grows
    <2>3. delivered[Peer[q]] \subseteq delivered'[Peer[q]]
        BY <1>0, PeerFacts DEF Grows
    <2>4. sent[q][m].kind # "fast" =>
              \E k \in delivered[Peer[q]] :
                  k <= m /\ sent[q][k] = [kind |-> "reliable", sn |-> sent[q][m].sn]
        BY DEF AckedSNWasDelivered
    <2> QED BY <2>1, <2>2, <2>3, <2>4
\* So only what returns in this step is of interest.
<1> SUFFICES ASSUME NEW q \in Node, NEW m \in returned'[q], m \notin returned[q],
                    sent'[q][m].kind # "fast"
             PROVE  \E k \in delivered'[Peer[q]] :
                        /\ k <= m
                        /\ sent'[q][k] = [kind |-> "reliable", sn |-> sent'[q][m].sn]
    BY <1>1 DEF AckedSNWasDelivered
<1>2. ASSUME NEW n \in Node, NEW kind \in Kinds, Send(n, kind) PROVE FALSE
    <2> DEFINE g == [kind |-> kind, sn |-> (lastUsedSN[n] + 1) % SNMod]
    <2>1. g \in Message /\ sent[n] \in Seq(Message) /\ g.kind = kind
        BY NumberFacts DEF TypeOK, Message
    <2>2. sent'[n] = Append(sent[n], g)
        BY <1>2 DEF Send, NextSN, Waits, TypeOK
    <2>3. \/ returned' = returned
          \/ /\ kind = "fast"
             /\ returned' = [returned EXCEPT ![n] = @ \cup {Len(sent[n]) + 1}]
        BY <1>2 DEF Send, NextSN, Waits
    <2> HIDE DEF g
    <2>4. q = n /\ kind = "fast" /\ m = Len(sent[n]) + 1
        BY <2>3 DEF TypeOK
    <2>5. sent'[q][m] = g
        BY <2>1, <2>2, <2>4
    <2> QED BY <2>1, <2>4, <2>5
<1>3. ASSUME NEW n \in Node, Return(n)
      PROVE  \E k \in delivered'[Peer[q]] :
                 /\ k <= m
                 /\ sent'[q][k] = [kind |-> "reliable", sn |-> sent'[q][m].sn]
    <2>1. /\ sent' = sent /\ delivered' = delivered /\ Waiting(n) /\ ~awaitingAck[n]
          /\ returned' = [returned EXCEPT ![n] = @ \cup {sending[n].msg}]
        BY <1>3 DEF Return
    <2>2. q = n /\ m = sending[n].msg
        BY <2>1 DEF TypeOK
    <2>3. /\ m = Len(sent[n]) /\ sent[n][m].sn = sending[n].sn
          /\ Acked(n, sending[n].sn)
        <3>1. /\ Carries(n, sending[n]) /\ sending[n].msg = Len(sent[n])
              /\ Acked(n, sending[n].sn)
            BY <2>1 DEF SendingInv
        <3>2. sent[n][m] = [kind |-> sending[n].type, sn |-> sending[n].sn]
            BY <2>2, <3>1 DEF Carries
        <3> QED BY <2>2, <3>1, <3>2
    <2>4. PICK k \in delivered[Peer[n]] : sent[n][k] = [kind |-> "reliable", sn |-> sending[n].sn]
        BY <2>3 DEF Acked
    <2>5. k \in 1 .. Len(sent[n]) /\ Len(sent[n]) \in Nat
        BY DEF HistoryInv, TypeOK
    <2>6. k <= m
        BY <2>3, <2>5
    <2> QED BY <2>1, <2>2, <2>3, <2>4, <2>6
<1>4. ASSUME returned' = returned PROVE FALSE
    BY <1>4
<1>5. ASSUME NEW n \in Node,
             Receive(n) \/ Tick(n) \/ Retransmit(n) \/ Restart(n) \/ Lose(n)
      PROVE  FALSE
    <2>1. returned' = returned
        BY <1>5 DEF Receive, Acknowledges, Tick, Retransmit, Restart, Lose, history
    <2> QED BY <1>4, <2>1
<1>6. ASSUME UNCHANGED vars PROVE FALSE
    BY <1>4, <1>6 DEF vars, history
<1> QED
    BY <1>2, <1>3, <1>5, <1>6 DEF Next, System, Environment, Quiescent

-----------------------------------------------------------------------------
LEMMA IInvInit == Init => IInv
<1> SUFFICES ASSUME Init PROVE IInv
    OBVIOUS
<1>1. /\ \A n \in Node : /\ wire[n] = << >> /\ sent[n] = << >> /\ returned[n] = {}
                         /\ delivered[n] = {} /\ sending[n] = NoFrame
                         /\ lastUsedSN[n] = FirstSN
    BY DEF Init
<1>2. WireInv /\ HistoryInv /\ SendingInv /\ AckedSNWasDelivered
    BY <1>1, PeerFacts DEF WireInv, HistoryInv, SendingInv, AckedSNWasDelivered, Waiting
<1>3. FirstSN = (FirstSN + 0) % SNMod
    BY NumberFacts DEF SN
<1>4. NumberInv
    BY <1>1, <1>3 DEF NumberInv
<1> QED BY <1>2, <1>4, TypeInit DEF IInv

LEMMA IInvNext == IInv /\ [Next]_vars => IInv'
<1> SUFFICES ASSUME IInv, [Next]_vars PROVE IInv'
    OBVIOUS
<1>1. TypeOK'
    BY TypeNext DEF IInv
<1>2. WireInv' /\ SendingInv'
    BY WireNext, SendingNext
<1>3. HistoryInv' /\ NumberInv'
    BY HistoryNext, NumberNext
<1>4. AckedSNWasDelivered'
    BY AckedNext
<1> QED BY <1>1, <1>2, <1>3, <1>4 DEF IInv

(* The inductive invariant holds: every ack on the cable answers a message  *)
(* its reader's peer has delivered, and every waiting send is of the last   *)
(* message and its number.                                                  *)
THEOREM Invariance == Spec => []IInv
BY IInvInit, IInvNext, PTL DEF Spec

(* A call that waited and returned was acknowledged by the delivery of a    *)
(* reliable message with its number, whatever wraps or restarts.            *)
THEOREM AckedNumber == Spec => []AckedSNWasDelivered
<1>1. IInv => AckedSNWasDelivered
    BY DEF IInv
<1> QED BY <1>1, Invariance, PTL

(* With an unambiguous number it was this very message that was delivered.  *)
LEMMA UnambiguousAck ==
    ASSUME IInv, NEW n \in Node, NEW m \in returned[n],
           sent[n][m].kind # "fast", Unambiguous(n, m)
    PROVE  sent[n][m].kind = "reliable" /\ m \in delivered[Peer[n]]
<1> USE DEF IInv
<1>1. PICK k \in delivered[Peer[n]] :
          k <= m /\ sent[n][k] = [kind |-> "reliable", sn |-> sent[n][m].sn]
    BY DEF AckedSNWasDelivered
<1>2. k \in 1 .. Len(sent[n]) /\ m \in 1 .. Len(sent[n])
    BY DEF HistoryInv
<1>3. restarts[n] = 0 /\ k \in 1 .. SNMod /\ m \in 1 .. SNMod
    <2>1. k \in Nat /\ m \in Nat /\ k >= 1 /\ m >= 1
        BY <1>2
    <2>2. m <= SNMod /\ restarts[n] = 0 /\ k <= m
        BY <1>1 DEF Unambiguous
    <2>3. SNMod \in Nat
        BY NumberFacts
    <2> QED BY <2>1, <2>2, <2>3
<1>4. sent[n][k].sn = (FirstSN + k) % SNMod /\ sent[n][m].sn = (FirstSN + m) % SNMod
    BY <1>2, <1>3 DEF NumberInv
<1>5. sent[n][k].sn = sent[n][m].sn
    BY <1>1
<1>6. k = m
    <2>1. FirstSN \in 0 .. SNMod - 1 /\ SNMod \in Nat \ {0}
        BY LinkAssumption
    <2> QED BY <1>3, <1>4, <1>5, <2>1, DistinctNumbers
<1> QED BY <1>1, <1>6

(* A reliable send returns only after the peer's callback got the message.  *)
THEOREM AckedDelivery == Spec => []AckedWasDelivered
<1>1. IInv => AckedWasDelivered
    BY UnambiguousAck DEF AckedWasDelivered
<1> QED BY <1>1, Invariance, PTL

(* A send that asks for a response never returns. *)
THEOREM NoResponse == Spec => []ResponseNeverReturns
<1>1. IInv => ResponseNeverReturns
    BY UnambiguousAck DEF ResponseNeverReturns
<1> QED BY <1>1, Invariance, PTL

(* What is delivered leaves no gap among the reliable messages before it.   *)
THEOREM NoGap == Spec => []NoReliableGap
<1>1. IInv => NoReliableGap
    <2> SUFFICES ASSUME IInv, NEW n \in Node, NEW m \in delivered[Peer[n]],
                        NEW k \in 1 .. Len(sent[n]), k < m,
                        sent[n][k].kind = "reliable", Unambiguous(n, k)
                 PROVE  k \in delivered[Peer[n]]
        BY DEF NoReliableGap
    <2>1. m \in 1 .. Len(sent[n]) /\ Len(sent[n]) \in Nat
        BY DEF IInv, HistoryInv, TypeOK
    <2>2. k # Len(sent[n])
        BY <2>1
    <2>3. k \in returned[n]
        BY <2>2 DEF IInv, NumberInv, SendingInv, Unambiguous
    <2> QED BY <2>3, UnambiguousAck
<1> QED BY <1>1, Invariance, PTL

-----------------------------------------------------------------------------
(* Order on the cable: the messages of a queue w do not go down, none is    *)
(* older than lo, the one delivered last, or newer than hi.                 *)
Ordered(w, lo, hi) ==
    /\ lo <= hi
    /\ \A i \in 1 .. Len(w) : w[i].msg # 0 => lo <= w[i].msg /\ w[i].msg <= hi
    /\ \A i, j \in 1 .. Len(w) :
          i < j /\ w[i].msg # 0 /\ w[j].msg # 0 => w[i].msg <= w[j].msg

(* A fast message in a queue is in no other place of it and not in D.       *)
Once(w, D) ==
    \A i \in 1 .. Len(w) : w[i].type = "fast" =>
        /\ w[i].msg \notin D
        /\ \A j \in 1 .. Len(w) : i # j => w[j].msg # w[i].msg

(* One direction of the link: its queue, and what its reader has got.       *)
Lane(n) ==
    /\ Ordered(wire[n], latest[Peer[n]], Len(sent[n]))
    /\ Once(wire[n], delivered[Peer[n]])
    /\ \A m \in redelivered[Peer[n]] : m \in delivered[Peer[n]] /\ sent[n][m].kind # "fast"

OrderInv == \A n \in Node : Lane(n)

LEMMA MessageNumbers ==
    /\ \A f \in Frame : f.msg \in Nat
    /\ \A w \in Seq(Frame) : Len(w) \in Nat /\ \A i \in 1 .. Len(w) : w[i] \in Frame /\ w[i].msg \in Nat
<1>1. \A f \in Frame : f.msg \in Nat
    BY DEF Frame
<1>2. \A w \in Seq(Frame) : Len(w) \in Nat /\ \A i \in 1 .. Len(w) : w[i] \in Frame
    OBVIOUS
<1> QED BY <1>1, <1>2

LEMMA TransmitPlaces ==
    ASSUME NEW w \in Seq(Frame), NEW f \in Frame
    PROVE  \/ Transmit(w, f) = w
           \/ /\ Len(Transmit(w, f)) = Len(w) + 1
              /\ \A i \in 1 .. Len(w) : Transmit(w, f)[i] = w[i]
              /\ Transmit(w, f)[Len(w) + 1] = f
<1>1. /\ Len(Append(w, f)) = Len(w) + 1
      /\ \A i \in 1 .. Len(w) : Append(w, f)[i] = w[i]
      /\ Append(w, f)[Len(w) + 1] = f
    OBVIOUS
<1> QED BY <1>1 DEF Transmit

LEMMA OrderedTransmit ==
    ASSUME NEW w \in Seq(Frame), NEW f \in Frame, NEW lo \in Nat, NEW hi \in Nat,
           NEW top \in Nat, Ordered(w, lo, hi), hi <= top,
           f.msg # 0 => hi <= f.msg /\ f.msg <= top
    PROVE  Ordered(Transmit(w, f), lo, top)
<1>0. /\ Len(w) \in Nat /\ f.msg \in Nat
      /\ \A i \in 1 .. Len(w) : w[i].msg \in Nat
    BY MessageNumbers
<1>1. CASE Transmit(w, f) = w
    BY <1>0, <1>1 DEF Ordered
<1>2. CASE /\ Len(Transmit(w, f)) = Len(w) + 1
           /\ \A i \in 1 .. Len(w) : Transmit(w, f)[i] = w[i]
           /\ Transmit(w, f)[Len(w) + 1] = f
    <2> DEFINE u == Transmit(w, f)
    <2> HIDE DEF u
    <2>0. /\ Len(u) = Len(w) + 1 /\ u[Len(w) + 1] = f
          /\ \A i \in 1 .. Len(w) : u[i] = w[i]
        BY <1>2 DEF u
    <2>1. \A i \in 1 .. Len(u) :
              \/ i \in 1 .. Len(w) /\ u[i] = w[i]
              \/ i = Len(w) + 1 /\ u[i] = f
        <3> SUFFICES ASSUME NEW i \in 1 .. Len(u), i # Len(w) + 1
                     PROVE  i \in 1 .. Len(w)
            BY <2>0
        <3>1. i \in 1 .. Len(w) + 1 /\ Len(w) \in Nat
            BY <2>0, MessageNumbers
        <3> QED BY <3>1
    <2>2. \A i \in 1 .. Len(u) : u[i].msg # 0 => lo <= u[i].msg /\ u[i].msg <= top
        BY <1>0, <2>1 DEF Ordered
    <2>3. ASSUME NEW i \in 1 .. Len(u), NEW j \in 1 .. Len(u), i < j, u[i].msg # 0, u[j].msg # 0
          PROVE  u[i].msg <= u[j].msg
        BY <1>0, <2>1, <2>3 DEF Ordered
    <2>4. lo <= top
        BY DEF Ordered
    <2> QED BY <2>2, <2>3, <2>4 DEF Ordered, u
<1> QED BY <1>1, <1>2, TransmitPlaces

LEMMA OrderedTail ==
    ASSUME NEW w \in Seq(Frame), w # << >>, NEW lo \in Nat, NEW hi \in Nat, Ordered(w, lo, hi)
    PROVE  /\ Ordered(Tail(w), lo, hi)
           /\ Head(w).msg # 0 => lo <= Head(w).msg /\ Ordered(Tail(w), Head(w).msg, hi)
<1>1. /\ Len(w) \in Nat /\ Len(w) > 0 /\ Head(w) = w[1] /\ Len(Tail(w)) = Len(w) - 1
      /\ \A i \in 1 .. Len(Tail(w)) : i + 1 \in 1 .. Len(w) /\ Tail(w)[i] = w[i + 1]
      /\ \A i \in 1 .. Len(w) : w[i].msg \in Nat
    BY TailElements, MessageNumbers
<1> DEFINE t == Tail(w)
<1> HIDE DEF t
<1>2. /\ \A i \in 1 .. Len(t) : t[i].msg # 0 => lo <= t[i].msg /\ t[i].msg <= hi
      /\ \A i, j \in 1 .. Len(t) :
            i < j /\ t[i].msg # 0 /\ t[j].msg # 0 => t[i].msg <= t[j].msg
    BY <1>1 DEF Ordered, t
<1>3. ASSUME w[1].msg # 0
      PROVE  /\ lo <= w[1].msg /\ w[1].msg <= hi
             /\ \A i \in 1 .. Len(t) : t[i].msg # 0 => w[1].msg <= t[i].msg
    BY <1>1, <1>3 DEF Ordered, t
<1> QED BY <1>1, <1>2, <1>3 DEF Ordered, t

LEMMA OnceTransmit ==
    ASSUME NEW w \in Seq(Frame), NEW f \in Frame, NEW D, Once(w, D),
           f.type = "fast" => f.msg \notin D /\ \A i \in 1 .. Len(w) : w[i].msg # f.msg,
           \A i \in 1 .. Len(w) : w[i].type = "fast" => w[i].msg # f.msg
    PROVE  Once(Transmit(w, f), D)
<1>1. CASE Transmit(w, f) = w
    BY <1>1
<1>2. CASE /\ Len(Transmit(w, f)) = Len(w) + 1
           /\ \A i \in 1 .. Len(w) : Transmit(w, f)[i] = w[i]
           /\ Transmit(w, f)[Len(w) + 1] = f
    <2> DEFINE u == Transmit(w, f)
    <2> HIDE DEF u
    <2>0. /\ Len(u) = Len(w) + 1 /\ u[Len(w) + 1] = f /\ Len(w) \in Nat
          /\ \A i \in 1 .. Len(w) : u[i] = w[i]
        BY <1>2 DEF u
    <2>1. \A i \in 1 .. Len(u) :
              \/ i \in 1 .. Len(w) /\ u[i] = w[i]
              \/ i = Len(w) + 1 /\ u[i] = f
        <3> SUFFICES ASSUME NEW i \in 1 .. Len(u), i # Len(w) + 1
                     PROVE  i \in 1 .. Len(w)
            BY <2>0
        <3>1. i \in 1 .. Len(w) + 1 /\ Len(w) \in Nat
            BY <2>0, MessageNumbers
        <3> QED BY <3>1
    <2> QED BY <2>1 DEF Once, u
<1> QED BY <1>1, <1>2, TransmitPlaces

LEMMA OnceTail ==
    ASSUME NEW w \in Seq(Frame), w # << >>, NEW D, Once(w, D)
    PROVE  Once(Tail(w), D \cup {Head(w).msg}) /\ Once(Tail(w), D)
<1>1. /\ Len(w) \in Nat /\ Len(w) > 0 /\ Head(w) = w[1]
      /\ \A i \in 1 .. Len(Tail(w)) : i + 1 \in 1 .. Len(w) /\ i + 1 # 1 /\ Tail(w)[i] = w[i + 1]
    BY TailElements
<1>2. \A i, j \in 1 .. Len(Tail(w)) : i # j => i + 1 # j + 1
    OBVIOUS
<1> QED BY <1>1, <1>2 DEF Once

(* Every frame of a queue carries a sent message, in its own kind.          *)
LEMMA FrameMessages ==
    ASSUME TypeOK, WireInv, NEW n \in Node, NEW i \in 1 .. Len(wire[n])
    PROVE  /\ wire[n][i] \in Frame
           /\ wire[n][i].msg # 0 => /\ wire[n][i].msg \in 1 .. Len(sent[n])
                                    /\ sent[n][wire[n][i].msg].kind = wire[n][i].type
           /\ wire[n][i].type = "fast" => wire[n][i].msg # 0
<1>1. wire[n][i] \in Frame
    BY DEF TypeOK
<1>2. FrameOK(n, wire[n][i])
    BY DEF WireInv
<1> QED BY <1>1, <1>2 DEF FrameOK, Carries, Kinds

LEMMA OrderInitial == Init => OrderInv
<1> SUFFICES ASSUME Init, NEW n \in Node PROVE Lane(n)
    BY DEF OrderInv
<1>1. wire[n] = << >> /\ latest[Peer[n]] = 0 /\ sent[n] = << >> /\ redelivered[Peer[n]] = {}
    BY PeerFacts DEF Init
<1> QED BY <1>1 DEF Lane, Ordered, Once

(* A direction that a step leaves alone stays as it was. *)
LEMMA LaneKept ==
    ASSUME NEW q \in Node, Lane(q), wire'[q] = wire[q], sent'[q] = sent[q],
           latest'[Peer[q]] = latest[Peer[q]], delivered'[Peer[q]] = delivered[Peer[q]],
           redelivered'[Peer[q]] = redelivered[Peer[q]]
    PROVE  Lane(q)'
BY DEF Lane

LEMMA OrderSend ==
    ASSUME IInv, OrderInv, NEW n \in Node, NEW kind \in Kinds, Send(n, kind)
    PROVE  OrderInv' /\ latest' = latest
<1>0. TypeOK /\ WireInv /\ HistoryInv
    BY DEF IInv
<1>1. PICK s \in SN : s = NextSN(lastUsedSN[n])
    BY <1>0, NumberFacts DEF TypeOK, NextSN
<1>2. PICK m \in Nat \ {0} : m = Len(sent[n]) + 1
    BY <1>0 DEF TypeOK
<1> DEFINE f == [type |-> kind, sn |-> s, msg |-> m]
           g == [kind |-> kind, sn |-> s]
<1>3. f \in Frame /\ f.msg = m /\ g \in Message
    BY DEF Frame, Message
<1>4. /\ wire' = [wire EXCEPT ![n] = Transmit(@, f)]
      /\ sent' = [sent EXCEPT ![n] = Append(@, g)]
      /\ UNCHANGED <<delivered, redelivered, latest>>
    BY <1>1, <1>2 DEF Send
<1> HIDE DEF f, g
<1>5. /\ \A q \in Node \ {n} : wire'[q] = wire[q] /\ sent'[q] = sent[q]
      /\ wire'[n] = Transmit(wire[n], f) /\ sent'[n] = Append(sent[n], g)
      /\ wire[n] \in Seq(Frame) /\ sent[n] \in Seq(Message)
    BY <1>0, <1>4 DEF TypeOK
<1>6. /\ Len(sent'[n]) = m /\ Len(sent[n]) \in Nat /\ Len(sent[n]) <= m
      /\ \A k \in 1 .. Len(sent[n]) : sent'[n][k] = sent[n][k]
    BY <1>2, <1>3, <1>5
<1>7. latest[Peer[n]] \in Nat /\ Peer[n] \in Node
    BY <1>0, PeerFacts DEF TypeOK
<1>8. Lane(n)
    BY DEF OrderInv
<1>9. Ordered(wire'[n], latest[Peer[n]], m)
    BY <1>3, <1>5, <1>6, <1>7, <1>8, OrderedTransmit DEF Lane
<1>10. Once(wire'[n], delivered[Peer[n]])
    <2>1. \A i \in 1 .. Len(wire[n]) : wire[n][i].msg # m
        BY <1>0, <1>2, <1>6, FrameMessages
    <2>2. m \notin delivered[Peer[n]]
        BY <1>0, <1>2, <1>6 DEF HistoryInv
    <2> QED BY <1>3, <1>5, <1>8, <2>1, <2>2, OnceTransmit DEF Lane
<1>11. Lane(n)'
    <2>1. \A k \in redelivered[Peer[n]] : k \in 1 .. Len(sent[n])
        BY <1>0, <1>8 DEF Lane, HistoryInv
    <2> QED BY <2>1, <1>4, <1>6, <1>8, <1>9, <1>10 DEF Lane
<1> QED BY <1>4, <1>5, <1>11, LaneKept DEF OrderInv

LEMMA OrderReceive ==
    ASSUME IInv, OrderInv, NEW n \in Node, Receive(n)
    PROVE  OrderInv' /\ \A q \in Node : latest'[q] >= latest[q]
<1>0. TypeOK /\ WireInv /\ HistoryInv
    BY DEF IInv
<1> DEFINE p == Peer[n]
<1>1. p \in Node /\ p # n /\ Peer[p] = n /\ wire[p] # << >> /\ wire[p] \in Seq(Frame) /\ wire[n] \in Seq(Frame)
    BY <1>0, PeerFacts DEF Receive, TypeOK
<1>2. PICK f \in Frame :
          /\ f = Head(wire[p]) /\ f.msg \in Nat
          /\ f.msg # 0 => Carries(p, f)
    BY <1>0, <1>1, HeadOK, MessageNumbers
<1>3. /\ wire' = [wire EXCEPT ![p] = Tail(@), ![n] = Reply(@, f)]
      /\ sent' = sent
      /\ IF f.msg # 0
         THEN /\ delivered' = [delivered EXCEPT ![n] = @ \cup {f.msg}]
              /\ redelivered' = [redelivered EXCEPT ![n] = @ \cup ({f.msg} \cap delivered[n])]
              /\ latest' = [latest EXCEPT ![n] = f.msg]
         ELSE UNCHANGED <<delivered, redelivered, latest>>
    BY <1>2 DEF Receive
<1>4. Lane(n) /\ Lane(p) /\ latest[n] \in Nat /\ latest[p] \in Nat
      /\ Len(sent[n]) \in Nat /\ Len(sent[p]) \in Nat
    BY <1>0, <1>1 DEF OrderInv, TypeOK
<1> HIDE DEF p
<1>5. /\ wire'[p] = Tail(wire[p]) /\ wire'[n] = Reply(wire[n], f)
      /\ \A q \in Node \ {n, p} : wire'[q] = wire[q]
    BY <1>0, <1>1, <1>3 DEF TypeOK
<1>6. /\ delivered'[p] = delivered[p] /\ redelivered'[p] = redelivered[p] /\ latest'[p] = latest[p]
      /\ \A q \in Node \ {n} : /\ delivered'[q] = delivered[q] /\ latest'[q] = latest[q]
                               /\ redelivered'[q] = redelivered[q]
    BY <1>0, <1>1, <1>3 DEF TypeOK
\* The reply is no message: the direction to the peer keeps its order.
<1>7. Lane(n)'
    <2>1. CASE Reply(wire[n], f) = wire[n]
        BY <2>1, <1>1, <1>3, <1>4, <1>5, <1>6 DEF Lane, p
    <2>2. ASSUME NEW reply \in Frame, reply.msg = 0, reply.type # "fast",
                 Reply(wire[n], f) = Transmit(wire[n], reply)
          PROVE  Lane(n)'
        <3>1. Ordered(wire'[n], latest[p], Len(sent[n]))
            BY <2>2, <1>1, <1>4, <1>5, OrderedTransmit DEF Lane, p
        <3>2. \A i \in 1 .. Len(wire[n]) : wire[n][i].type = "fast" => wire[n][i].msg # 0
            BY <1>0, FrameMessages
        <3>3. Once(wire'[n], delivered[p])
            BY <2>2, <3>2, <1>1, <1>4, <1>5, OnceTransmit DEF Lane, p
        <3> QED BY <3>1, <3>3, <1>3, <1>4, <1>6 DEF Lane, p
    <2>3. \/ Reply(wire[n], f) = wire[n]
          \/ Reply(wire[n], f) = Transmit(wire[n], [type |-> "ack", sn |-> f.sn, msg |-> 0])
          \/ Reply(wire[n], f) = Transmit(wire[n], [type |-> "ackData", sn |-> f.sn, msg |-> 0])
        BY DEF Reply
    <2>4. /\ [type |-> "ack", sn |-> f.sn, msg |-> 0] \in Frame
          /\ [type |-> "ackData", sn |-> f.sn, msg |-> 0] \in Frame
        BY DEF Frame
    <2> QED BY <2>1, <2>2, <2>3, <2>4
\* What is left of the direction read from is no older than what was read.
<1>8. Lane(p)' /\ latest'[n] >= latest[n]
    <2>1. CASE f.msg = 0
        <3>1. Ordered(wire'[p], latest[n], Len(sent[p])) /\ Once(wire'[p], delivered[n])
            BY <1>1, <1>4, <1>5, OrderedTail, OnceTail DEF Lane
        <3> QED BY <2>1, <3>1, <1>1, <1>3, <1>4 DEF Lane
    <2>2. CASE f.msg # 0
        <3>1. /\ delivered'[n] = delivered[n] \cup {f.msg} /\ latest'[n] = f.msg
              /\ redelivered'[n] = redelivered[n] \cup ({f.msg} \cap delivered[n])
            BY <2>2, <1>0, <1>3 DEF TypeOK
        <3>2. /\ Ordered(wire'[p], f.msg, Len(sent[p])) /\ latest[n] <= f.msg
              /\ Once(wire'[p], delivered[n] \cup {f.msg})
            BY <2>2, <1>1, <1>2, <1>4, <1>5, OrderedTail, OnceTail DEF Lane
        <3>3. f.msg \in delivered[n] => sent[p][f.msg].kind # "fast"
            <4>1. f = wire[p][1] /\ 1 \in 1 .. Len(wire[p])
                BY <1>1, <1>2, TailElements, MessageNumbers
            <4>2. f.type = "fast" => f.msg \notin delivered[n]
                BY <4>1, <1>1, <1>4 DEF Lane, Once
            <4>3. sent[p][f.msg].kind = f.type
                BY <2>2, <1>2 DEF Carries
            <4> QED BY <4>2, <4>3
        <3>4. Lane(p)'
            BY <3>1, <3>2, <3>3, <1>1, <1>3, <1>4 DEF Lane
        <3> QED BY <3>1, <3>2, <3>4, <1>2, <1>4
    <2> QED BY <2>1, <2>2
<1>9. ASSUME NEW q \in Node, q # n, q # p PROVE Lane(q)'
    <2>1. Peer[q] \in Node /\ Peer[q] # n
        BY <1>9, PeerFacts DEF p
    <2> QED BY <2>1, <1>3, <1>5, <1>6, <1>9, LaneKept DEF OrderInv
<1>10. \A q \in Node : q # n => latest'[q] >= latest[q]
    BY <1>0, <1>6 DEF TypeOK
<1> QED BY <1>7, <1>8, <1>9, <1>10 DEF OrderInv

LEMMA OrderRetransmit ==
    ASSUME IInv, OrderInv, NEW n \in Node, Retransmit(n)
    PROVE  OrderInv' /\ latest' = latest
<1>0. TypeOK /\ WireInv /\ HistoryInv
    BY DEF IInv
<1>1. PICK f \in Frame : f = sending[n] /\ Carries(n, f) /\ f.msg = Len(sent[n])
                         /\ f.type \in {"reliable", "response"}
    BY <1>0 DEF IInv, SendingInv, Retransmit, Waiting, TypeOK
<1>2. /\ wire'[n] = Transmit(wire[n], f) /\ \A q \in Node \ {n} : wire'[q] = wire[q]
      /\ UNCHANGED history
    BY <1>0, <1>1 DEF Retransmit, TypeOK
<1>3. /\ wire[n] \in Seq(Frame) /\ Len(sent[n]) \in Nat /\ latest[Peer[n]] \in Nat /\ Lane(n)
    BY <1>0, PeerFacts DEF TypeOK, OrderInv
<1>4. Ordered(wire'[n], latest[Peer[n]], Len(sent[n]))
    BY <1>1, <1>2, <1>3, OrderedTransmit DEF Lane
<1>5. Once(wire'[n], delivered[Peer[n]])
    <2>1. \A i \in 1 .. Len(wire[n]) : wire[n][i].type = "fast" => wire[n][i].msg # f.msg
        BY <1>0, <1>1, FrameMessages DEF Carries
    <2> QED BY <2>1, <1>1, <1>2, <1>3, OnceTransmit DEF Lane
<1>6. Lane(n)'
    BY <1>2, <1>3, <1>4, <1>5 DEF Lane, history
<1> QED BY <1>2, <1>6, LaneKept DEF OrderInv, history

LEMMA OrderLose ==
    ASSUME IInv, OrderInv, NEW n \in Node, Lose(n)
    PROVE  OrderInv' /\ latest' = latest
<1>0. TypeOK
    BY DEF IInv
<1>2. /\ wire'[n] = Tail(wire[n]) /\ wire[n] # << >> /\ \A q \in Node \ {n} : wire'[q] = wire[q]
      /\ UNCHANGED history
    BY <1>0 DEF Lose, TypeOK
<1>3. /\ wire[n] \in Seq(Frame) /\ Len(sent[n]) \in Nat /\ latest[Peer[n]] \in Nat /\ Lane(n)
    BY <1>0, PeerFacts DEF TypeOK, OrderInv
<1>4. Ordered(wire'[n], latest[Peer[n]], Len(sent[n])) /\ Once(wire'[n], delivered[Peer[n]])
    BY <1>2, <1>3, OrderedTail, OnceTail DEF Lane
<1>6. Lane(n)'
    BY <1>2, <1>3, <1>4 DEF Lane, history
<1> QED BY <1>2, <1>6, LaneKept DEF OrderInv, history

LEMMA OrderStep ==
    ASSUME IInv, OrderInv, [Next]_vars
    PROVE  OrderInv' /\ \A n \in Node : latest'[n] >= latest[n]
<1>1. ASSUME latest' = latest PROVE \A n \in Node : latest'[n] >= latest[n]
    BY <1>1 DEF IInv, TypeOK
<1>2. ASSUME UNCHANGED <<wire, history>> PROVE OrderInv' /\ latest' = latest
    BY <1>2, LaneKept DEF OrderInv, history
<1>3. ASSUME NEW n \in Node, Tick(n) \/ Return(n) \/ Restart(n) PROVE OrderInv' /\ latest' = latest
    <2>1. UNCHANGED <<wire, sent, delivered, redelivered, latest>>
        BY <1>3 DEF Tick, Return, Restart, history
    <2> QED BY <2>1, LaneKept DEF OrderInv
<1> QED
    BY <1>1, <1>2, <1>3, OrderSend, OrderReceive, OrderRetransmit, OrderLose
    DEF Next, System, Environment, Quiescent, vars, history

LEMMA Ordering == Spec => [](IInv /\ OrderInv)
<1>1. Init => IInv /\ OrderInv
    BY IInvInit, OrderInitial
<1>2. IInv /\ OrderInv /\ [Next]_vars => (IInv /\ OrderInv)'
    BY IInvNext, OrderStep
<1> QED BY <1>1, <1>2, PTL DEF Spec

(* transmitMessageFast is at most once: a fast message is written once and  *)
(* never again, and the cable keeps order, although both ends may restart   *)
(* and numbers wrap.                                                        *)
THEOREM FastOnce == Spec => []FastAtMostOnce
<1>1. OrderInv => FastAtMostOnce
    BY PeerFacts DEF OrderInv, Lane, FastAtMostOnce
<1> QED BY <1>1, Ordering, PTL

(* A callback never gets an older message after a newer one. *)
THEOREM DeliveryOrder == Spec => InOrder
<1>1. IInv /\ OrderInv /\ [Next]_vars => [\A n \in Node : latest'[n] >= latest[n]]_vars
    BY OrderStep
<1> QED BY <1>1, Ordering, PTL DEF Spec, InOrder

-----------------------------------------------------------------------------
(* The link implements the safety of SerialChannel while no node restarts   *)
(* and no number is used twice.                                             *)
RoundInv ==
    \A n \in Node : /\ restarts[n] = 0
                    /\ Len(sent[n]) <= MaxSends[n]
                    /\ Waiting(n) => sending[n].msg \notin returned[n]

LEMMA RoundStep ==
    ASSUME MaxRestarts = 0, IInv, RoundInv, [Next]_vars
    PROVE  RoundInv'
<1>0. TypeOK /\ HistoryInv
    BY DEF IInv
<1> DEFINE Right(q) == /\ restarts[q] = 0 /\ Len(sent[q]) <= MaxSends[q]
                       /\ Waiting(q) => sending[q].msg \notin returned[q]
<1> SUFFICES ASSUME NEW q \in Node PROVE Right(q)'
    BY DEF RoundInv
<1>1. Right(q)
    BY DEF RoundInv
<1>2. ASSUME restarts'[q] = restarts[q], sent'[q] = sent[q], sending'[q] = sending[q],
             returned'[q] = returned[q]
      PROVE  Right(q)'
    BY <1>1, <1>2 DEF Waiting
<1>3. ASSUME NEW n \in Node, NEW kind \in Kinds, Send(n, kind) PROVE Right(q)'
    <2>1. PICK m \in Nat \ {0} : m = Len(sent[n]) + 1
        BY <1>0 DEF TypeOK
    <2>2. PICK s \in SN : s = NextSN(lastUsedSN[n])
        BY <1>0, NumberFacts DEF TypeOK, NextSN
    <2>3. CASE q # n
        BY <1>2, <1>3, <1>0, <2>3 DEF Send, TypeOK, Waits
    <2>4. CASE q = n
        <3>1. restarts'[q] = 0 /\ m <= MaxSends[q]
            BY <1>1, <1>3, <2>1, <2>4 DEF Send
        <3>2. Len(sent'[q]) = m
            <4>1. sent'[q] = Append(sent[q], [kind |-> kind, sn |-> s]) /\ sent[q] \in Seq(Message)
                BY <1>0, <1>3, <2>2, <2>4 DEF Send, TypeOK
            <4> QED BY <4>1, <2>1, <2>4
        <3>3. m \notin returned[q]
            BY <1>0, <2>1, <2>4 DEF HistoryInv
        <3>4. \/ sending'[q] = NoFrame
              \/ sending'[q].msg = m /\ returned'[q] = returned[q]
            BY <1>0, <1>3, <2>1, <2>4 DEF Send, TypeOK
        <3> QED BY <3>1, <3>2, <3>3, <3>4 DEF Waiting
    <2> QED BY <2>3, <2>4
<1>4. ASSUME NEW n \in Node, Return(n) PROVE Right(q)'
    <2>1. CASE q # n
        BY <1>2, <1>4, <1>0, <2>1 DEF Return, TypeOK
    <2>2. CASE q = n
        BY <1>0, <1>1, <1>4, <2>2 DEF Return, TypeOK, Waiting
    <2> QED BY <2>1, <2>2
<1>5. ASSUME NEW n \in Node, Restart(n) PROVE FALSE
    BY <1>5 DEF Restart, RoundInv
<1>6. ASSUME NEW n \in Node, Receive(n) \/ Tick(n) \/ Retransmit(n) \/ Lose(n) PROVE Right(q)'
    BY <1>2, <1>6 DEF Receive, Tick, Retransmit, Lose, history
<1>7. CASE UNCHANGED vars
    BY <1>2, <1>7 DEF vars, history
<1> HIDE DEF Right
<1> QED
    BY <1>3, <1>4, <1>5, <1>6, <1>7 DEF Next, System, Environment, Quiescent

(* The histories, as SerialChannel sees them. *)
kinds == [n \in Node |-> [m \in 1 .. Len(sent[n]) |-> sent[n][m].kind]]
channelVars == <<kinds, returned, delivered, redelivered, latest>>

LEMMA KindsAre ==
    ASSUME TypeOK, NEW n \in Node
    PROVE  /\ kinds[n] \in Seq(Kinds) /\ Len(kinds[n]) = Len(sent[n])
           /\ \A m \in 1 .. Len(sent[n]) : kinds[n][m] = sent[n][m].kind
<1>1. /\ sent[n] \in Seq(Message) /\ Len(sent[n]) \in Nat
      /\ \A m \in 1 .. Len(sent[n]) : sent[n][m] \in Message
    BY DEF TypeOK
<1>2. \A m \in 1 .. Len(sent[n]) : sent[n][m].kind \in Kinds
    BY <1>1 DEF Message
<1>3. kinds[n] = [m \in 1 .. Len(sent[n]) |-> sent[n][m].kind]
    BY DEF kinds
<1> QED BY <1>1, <1>2, <1>3

LEMMA SendSubmits ==
    ASSUME IInv, RoundInv, NEW n \in Node, NEW kind \in Kinds, Send(n, kind)
    PROVE  Channel!Submit(n, kind)
<1>0. TypeOK
    BY DEF IInv
<1>1. Len(kinds[n]) = Len(sent[n]) /\ Len(sent[n]) \in Nat /\ sent[n] \in Seq(Message)
      /\ kinds[n] \in Seq(Kinds)
    BY <1>0, KindsAre DEF TypeOK
<1>2. MaxSends[n] \in Nat /\ Len(kinds[n]) < MaxSends[n]
    BY <1>1, LinkAssumption DEF Send
<1>3. 1 .. Len(kinds[n]) \subseteq returned[n]
    BY <1>1 DEF IInv, NumberInv, RoundInv, Send, Waiting
<1>4. kinds' = [kinds EXCEPT ![n] = Append(@, kind)]
    <2>1. PICK s \in SN : s = NextSN(lastUsedSN[n])
        BY <1>0, NumberFacts DEF TypeOK, NextSN
    <2> DEFINE g == [kind |-> kind, sn |-> s]
    <2>2. g \in Message /\ g.kind = kind
        BY DEF Message
    <2>3. sent' = [sent EXCEPT ![n] = Append(@, g)]
        BY <2>1 DEF Send
    <2> HIDE DEF g
    <2>4. sent'[n] = Append(sent[n], g) /\ \A q \in Node \ {n} : sent'[q] = sent[q]
        BY <1>0, <2>3 DEF TypeOK
    <2>5. /\ Len(sent'[n]) = Len(sent[n]) + 1
          /\ \A m \in 1 .. Len(sent'[n]) : sent'[n][m] = IF m <= Len(sent[n]) THEN sent[n][m] ELSE g
        BY <1>1, <2>2, <2>4
    <2>6. Append(kinds[n], kind) = [m \in 1 .. Len(sent'[n]) |-> sent'[n][m].kind]
        <3>1. kinds[n] = [m \in 1 .. Len(sent[n]) |-> sent[n][m].kind]
            BY DEF kinds
        <3>2. /\ Append(kinds[n], kind) \in Seq(Kinds) /\ Len(Append(kinds[n], kind)) = Len(sent'[n])
              /\ \A m \in 1 .. Len(sent'[n]) :
                     Append(kinds[n], kind)[m] = IF m <= Len(sent[n]) THEN kinds[n][m] ELSE kind
            BY <1>1, <2>5
        <3>3. \A m \in 1 .. Len(sent'[n]) : Append(kinds[n], kind)[m] = sent'[n][m].kind
            BY <1>1, <2>2, <2>5, <3>1, <3>2
        <3>4. Append(kinds[n], kind) = [m \in 1 .. Len(sent'[n]) |-> Append(kinds[n], kind)[m]]
            BY <3>2
        <3> QED BY <3>3, <3>4
    <2>7. \A q \in Node \ {n} : kinds'[q] = kinds[q]
        BY <2>4 DEF kinds
    <2>8. kinds'[n] = Append(kinds[n], kind)
        BY <2>6 DEF kinds
    <2>9. kinds' = [q \in Node |-> kinds'[q]] /\ kinds = [q \in Node |-> kinds[q]]
        BY DEF kinds
    <2> QED BY <2>7, <2>8, <2>9
<1>5. /\ returned' = IF kind = "fast"
                     THEN [returned EXCEPT ![n] = @ \cup {Len(kinds[n]) + 1}] ELSE returned
      /\ UNCHANGED <<delivered, redelivered, latest>>
    BY <1>1 DEF Send, Waits
<1> QED BY <1>2, <1>3, <1>4, <1>5 DEF Channel!Submit, kinds

LEMMA ReceiveDelivers ==
    ASSUME IInv, OrderInv, RoundInv, \A q \in Node : MaxSends[q] <= SNMod,
           NEW n \in Node, Receive(n)
    PROVE  UNCHANGED channelVars \/ \E m \in 1 .. Len(kinds[Peer[n]]) : Channel!Deliver(n, m)
<1>0. TypeOK /\ WireInv /\ HistoryInv
    BY DEF IInv
<1> DEFINE p == Peer[n]
<1>1. p \in Node /\ p # n /\ Peer[p] = n /\ wire[p] # << >> /\ wire[p] \in Seq(Frame)
    BY <1>0, PeerFacts DEF Receive, TypeOK
<1>2. PICK f \in Frame :
          /\ f = Head(wire[p]) /\ f.msg \in Nat
          /\ f.msg # 0 => Carries(p, f)
    BY <1>0, <1>1, HeadOK, MessageNumbers
<1>3. /\ sent' = sent /\ returned' = returned
      /\ IF f.msg # 0
         THEN /\ delivered' = [delivered EXCEPT ![n] = @ \cup {f.msg}]
              /\ redelivered' = [redelivered EXCEPT ![n] = @ \cup ({f.msg} \cap delivered[n])]
              /\ latest' = [latest EXCEPT ![n] = f.msg]
         ELSE UNCHANGED <<delivered, redelivered, latest>>
    BY <1>2 DEF Receive
<1>4. kinds' = kinds
    BY <1>3 DEF kinds
<1>5. CASE f.msg = 0
    BY <1>3, <1>4, <1>5 DEF channelVars
<1>6. CASE f.msg # 0
    <2> HIDE DEF p
    <2>0. /\ Lane(p) /\ Len(kinds[p]) = Len(sent[p]) /\ Len(sent[p]) \in Nat
          /\ \A m \in 1 .. Len(sent[p]) : kinds[p][m] = sent[p][m].kind
        BY <1>0, <1>1, KindsAre DEF OrderInv, TypeOK
    <2>1. f.msg \in 1 .. Len(kinds[p]) /\ kinds[p][f.msg] = f.type
        BY <1>2, <1>6, <2>0 DEF Carries
    <2>2. f = wire[p][1] /\ 1 \in 1 .. Len(wire[p])
        BY <1>1, <1>2, TailElements, MessageNumbers
    <2>3. f.msg >= latest[n] /\ (f.msg \in delivered[n] => kinds[p][f.msg] # "fast")
        BY <1>1, <1>2, <1>6, <2>0, <2>1, <2>2 DEF Lane, Ordered, Once
    <2>4. ASSUME NEW k \in 1 .. f.msg - 1, kinds[p][k] = "reliable" PROVE k \in delivered[n]
        <3>1. k \in 1 .. Len(sent[p]) /\ k < f.msg /\ k # Len(sent[p]) /\ sent[p][k].kind = "reliable"
            BY <2>0, <2>1, <2>4
        <3>2. k \in returned[p]
            BY <1>1, <3>1 DEF IInv, NumberInv, SendingInv, RoundInv
        <3>3. Unambiguous(p, k)
            <4>1. MaxSends[p] \in Nat /\ MaxSends[p] <= SNMod /\ Len(sent[p]) <= MaxSends[p]
                BY <1>1, LinkAssumption DEF RoundInv
            <4>2. SNMod \in Nat /\ restarts[p] = 0
                BY <1>1, NumberFacts DEF RoundInv
            <4> QED BY <2>0, <3>1, <4>1, <4>2 DEF Unambiguous
        <3> QED BY <1>1, <3>1, <3>2, <3>3, UnambiguousAck
    <2>5. Channel!Deliver(n, f.msg)
        BY <1>3, <1>4, <1>6, <2>1, <2>3, <2>4 DEF Channel!Deliver, kinds, p
    <2> QED BY <2>1, <2>5 DEF p
<1> QED BY <1>5, <1>6

LEMMA ReturnReturns ==
    ASSUME IInv, RoundInv, \A q \in Node : MaxSends[q] <= SNMod, NEW n \in Node, Return(n)
    PROVE  Channel!Return(n)
<1>0. TypeOK /\ HistoryInv
    BY DEF IInv
<1>1. /\ Carries(n, sending[n]) /\ sending[n].msg = Len(sent[n]) /\ Acked(n, sending[n].sn)
      /\ sending[n].msg \notin returned[n] /\ sending[n].type \in {"reliable", "response"}
    BY DEF IInv, SendingInv, RoundInv, Return
<1>2. PICK m \in Nat \ {0} : m = Len(sent[n])
    BY <1>0, <1>1 DEF TypeOK, Carries
<1>3. /\ Len(kinds[n]) = m /\ m \notin returned[n] /\ kinds[n][m] = sent[n][m].kind
      /\ sent[n][m] = [kind |-> sending[n].type, sn |-> sending[n].sn]
    BY <1>0, <1>1, <1>2, KindsAre DEF Carries
<1>4. PICK k \in delivered[Peer[n]] : sent[n][k] = [kind |-> "reliable", sn |-> sending[n].sn]
    BY <1>1 DEF Acked
<1>5. k = m
    <2>1. k \in 1 .. Len(sent[n]) /\ m \in 1 .. Len(sent[n])
        BY <1>0, <1>2 DEF HistoryInv
    <2>2. m <= SNMod /\ restarts[n] = 0 /\ SNMod \in Nat \ {0} /\ FirstSN \in 0 .. SNMod - 1
        <3>1. MaxSends[n] \in Nat /\ SNMod \in Nat \ {0} /\ FirstSN \in 0 .. SNMod - 1
            BY LinkAssumption
        <3> QED BY <1>2, <3>1 DEF RoundInv
    <2>3. k \in 1 .. SNMod /\ m \in 1 .. SNMod
        BY <1>2, <2>1, <2>2
    <2>4. (FirstSN + k) % SNMod = sent[n][k].sn /\ (FirstSN + m) % SNMod = sent[n][m].sn
        BY <2>1, <2>2 DEF IInv, NumberInv
    <2>5. sent[n][k].sn = sent[n][m].sn
        BY <1>3, <1>4
    <2> QED BY <2>2, <2>3, <2>4, <2>5, DistinctNumbers
<1>6. kinds[n][m] = "reliable" /\ m \in delivered[Peer[n]]
    BY <1>3, <1>4, <1>5
<1>7. /\ returned' = [returned EXCEPT ![n] = @ \cup {m}]
      /\ UNCHANGED <<sent, delivered, redelivered, latest>>
    BY <1>1, <1>2 DEF Return
<1>8. kinds' = kinds /\ Len(kinds[n]) > 0
    BY <1>2, <1>3, <1>7 DEF kinds
<1> QED BY <1>3, <1>6, <1>7, <1>8 DEF Channel!Return, kinds

LEMMA ChannelStep ==
    ASSUME IInv, OrderInv, RoundInv, \A q \in Node : MaxSends[q] <= SNMod, [Next]_vars
    PROVE  [Channel!Next]_channelVars
<1>1. ASSUME UNCHANGED history PROVE UNCHANGED channelVars
    BY <1>1 DEF history, channelVars, kinds
<1>2. ASSUME NEW n \in Node, Tick(n) \/ Retransmit(n) \/ Restart(n) \/ Lose(n)
      PROVE  UNCHANGED channelVars
    BY <1>1, <1>2 DEF Tick, Retransmit, Restart, Lose
<1>3. ASSUME NEW n \in Node, NEW kind \in Kinds, Send(n, kind) PROVE Channel!Next
    BY <1>3, SendSubmits DEF Channel!Next, Kinds
<1>4. ASSUME NEW n \in Node, Receive(n) PROVE Channel!Next \/ UNCHANGED channelVars
    BY <1>4, ReceiveDelivers DEF Channel!Next, kinds
<1>5. ASSUME NEW n \in Node, Return(n) PROVE Channel!Next
    BY <1>5, ReturnReturns DEF Channel!Next
<1>6. CASE UNCHANGED vars
    BY <1>1, <1>6 DEF vars
<1> QED
    BY <1>2, <1>3, <1>4, <1>5, <1>6 DEF Next, System, Environment, Quiescent

(* The link is the channel its users rely on, as far as safety goes: order, *)
(* fast messages at most once, reliable sends that return when and only     *)
(* when their message was handed over, and requests that block for ever.    *)
THEOREM Implementation ==
    ASSUME MaxRestarts = 0, \A n \in Node : MaxSends[n] <= SNMod
    PROVE  Spec => Channel!SafeSpec
<1>1. Init => RoundInv
    <2> SUFFICES ASSUME Init, NEW n \in Node
                 PROVE  /\ restarts[n] = 0
                        /\ Len(sent[n]) <= MaxSends[n]
                        /\ ~Waiting(n)
        BY DEF RoundInv
    <2>1. restarts[n] = 0 /\ sending[n] = NoFrame /\ sent[n] = << >>
        BY DEF Init
    <2>2. MaxSends[n] \in Nat
        BY LinkAssumption
    <2> QED BY <2>1, <2>2 DEF Waiting
<1>2. IInv /\ RoundInv /\ [Next]_vars => RoundInv'
    BY RoundStep
<1>3. Init => Channel!Init
    <2> SUFFICES ASSUME Init PROVE Channel!Init
        OBVIOUS
    <2>1. kinds = [n \in Node |-> << >>]
        BY DEF Init, kinds
    <2> QED BY <2>1 DEF Init, Channel!Init, kinds
<1>4. IInv /\ OrderInv /\ RoundInv /\ [Next]_vars => [Channel!Next]_Channel!vars
    BY ChannelStep DEF Channel!vars, channelVars, kinds
<1> QED BY <1>1, <1>2, <1>3, <1>4, Ordering, PTL DEF Spec, Channel!SafeSpec

=============================================================================
