--------------------------- MODULE ControlProofs ---------------------------
(***************************************************************************)
(* Theorems about ControlLink, for every set of commands and of telemetry  *)
(* states and any number of connections.  The flag `ready`, which the two  *)
(* threads of the server share without a lock, works as a token; the flag  *)
(* of the client works as one as long as no send() meets an on_open.  So   *)
(* each direction implements FlowControl, and telemetry arrives in order.  *)
(***************************************************************************)
EXTENDS ControlLink, SequenceTheorems, FiniteSetTheorems, FunctionTheorems, TLAPS

Wires == [Conn -> Seq(Message)]

LinkTypes ==
    /\ up \in Wires /\ down \in Wires
    /\ {toRobot, opened, clientConnectionData} \subseteq Command \cup {NoValue}
    /\ current \in Telemetry \cup {NoValue}
    /\ connections \subseteq Conn /\ todo \subseteq Conn
    /\ connectionState \in [DOMAIN connectionState -> BOOLEAN]

(* A connection the server has not opened yet carries nothing of it.        *)
Unopened(c) == c \notin connections \cup closed
FreshInv ==
    \A c \in Conn : Unopened(c) =>
        /\ down[c] = <<>> /\ Acks(up[c]) = 0
        /\ c \notin todo /\ (serverAt # "loop" => sendTo # c)

Flag(c) == c \in DOMAIN connectionState /\ connectionState[c]
Posting(c) == serverAt = "post" /\ sendTo = c
Tokens(c) == One(Flag(c)) + One(Posting(c)) + States(down[c]) + Acks(up[c])

(* Between the test of the flag and its reset the flag stays up.            *)
HeldInv == serverAt = "prepare" /\ sendTo \in connections => Flag(sendTo)

TokenInv == \A c \in connections : Tokens(c) <= 1

ServerInv == LinkTypes /\ FreshInv /\ HeldInv /\ TokenInv

-----------------------------------------------------------------------------
(* Lemmas that count messages on a wire.                                    *)

At(wire, messages) == {i \in DOMAIN wire : wire[i] \in messages}

LEMMA CountType ==
    ASSUME NEW wire \in Seq(Message), NEW M
    PROVE  /\ IsFiniteSet(At(wire, M)) /\ At(wire, M) \subseteq 1 .. Len(wire)
           /\ Count(wire, M) \in Nat
  <1>1. Len(wire) \in Nat /\ DOMAIN wire = 1 .. Len(wire)
    BY LenProperties
  <1>2. At(wire, M) \in SUBSET (1 .. Len(wire))
    BY <1>1 DEF At
  <1>3. IsFiniteSet(1 .. Len(wire))
    BY <1>1, FS_Interval
  <1>4. IsFiniteSet(At(wire, M))
    BY <1>2, <1>3, FS_Subset
  <1>5. Cardinality(At(wire, M)) \in Nat
    BY <1>4, FS_CardinalityType
  <1> QED
    BY <1>2, <1>4, <1>5 DEF Count, At

LEMMA CountNothing == \A M : Count(<<>>, M) = 0
  <1> TAKE M
  <1>1. {i \in DOMAIN <<>> : <<>>[i] \in M} = {}
    OBVIOUS
  <1> QED
    BY <1>1, FS_EmptySet DEF Count

LEMMA CountAppend ==
    ASSUME NEW wire \in Seq(Message), NEW m \in Message, NEW M
    PROVE  /\ Append(wire, m) \in Seq(Message)
           /\ Count(Append(wire, m), M) = Count(wire, M) + (IF m \in M THEN 1 ELSE 0)
  <1> DEFINE n == Len(wire) + 1
             longer == Append(wire, m)
  <1>1. /\ longer \in Seq(Message) /\ DOMAIN longer = 1 .. n /\ DOMAIN wire = 1 .. Len(wire)
        /\ Len(wire) \in Nat /\ longer[n] = m
        /\ \A i \in 1 .. Len(wire) : longer[i] = wire[i]
    BY LenProperties
  <1>2. CASE m \in M
    <2>1. At(longer, M) = At(wire, M) \cup {n} /\ n \notin At(wire, M)
      BY <1>1, <1>2 DEF At
    <2>2. Cardinality(At(longer, M)) = Cardinality(At(wire, M)) + 1
      BY <2>1, CountType, FS_AddElement
    <2> QED
      BY <1>1, <1>2, <2>2 DEF Count, At, One
  <1>3. CASE m \notin M
    <2>1. At(longer, M) = At(wire, M)
      BY <1>1, <1>3 DEF At
    <2>2. Count(longer, M) = Count(wire, M) /\ Count(wire, M) \in Nat
      BY <2>1, CountType DEF Count, At
    <2> QED
      BY <1>1, <1>3, <2>2 DEF One
  <1> QED
    BY <1>2, <1>3

(* Moving positions by one changes no count.                                *)
LEMMA Shifted ==
    ASSUME NEW A \in SUBSET Nat, IsFiniteSet(A)
    PROVE  Cardinality({i + 1 : i \in A}) = Cardinality(A)
  <1> DEFINE B == {i + 1 : i \in A}
             f == [i \in A |-> i + 1]
  <1>1. /\ f \in [A -> B]
        /\ \A a, b \in A : f[a] = f[b] => a = b
        /\ \A t \in B : \E s \in A : f[s] = t
    OBVIOUS
  <1>2. f \in Bijection(A, B)
    BY <1>1, Fun_IsBij
  <1>3. ExistsBijection(A, B)
    BY <1>2 DEF ExistsBijection
  <1> QED
    BY <1>3, FS_Bijection

LEMMA CountTail ==
    ASSUME NEW wire \in Seq(Message), wire # <<>>, NEW M
    PROVE  /\ Tail(wire) \in Seq(Message) /\ Head(wire) \in Message
           /\ Count(wire, M) = Count(Tail(wire), M) + (IF Head(wire) \in M THEN 1 ELSE 0)
  <1> DEFINE rest == Tail(wire)
             A == At(rest, M)
             B == {i + 1 : i \in A}
  <1>1. /\ rest \in Seq(Message) /\ Head(wire) \in Message /\ Len(rest) = Len(wire) - 1
        /\ Len(wire) \in Nat /\ Len(rest) \in Nat
        /\ DOMAIN rest = 1 .. Len(rest) /\ DOMAIN wire = 1 .. Len(wire)
        /\ Head(wire) = wire[1]
        /\ \A i \in 1 .. Len(rest) : rest[i] = wire[i + 1]
    <2>1. Head(wire) = wire[1]
      OBVIOUS
    <2> QED
      BY <2>1, HeadTailProperties, LenProperties
  <1>2. IsFiniteSet(A) /\ A \in SUBSET Nat
    <2>1. IsFiniteSet(At(rest, M)) /\ At(rest, M) \subseteq 1 .. Len(rest)
      BY <1>1, CountType
    <2>2. 1 .. Len(rest) \subseteq Nat
      BY <1>1
    <2> QED
      BY <2>1, <2>2
  <1>3. Cardinality(B) = Cardinality(A)
    BY <1>2, Shifted
  <1>4. IsFiniteSet(At(wire, M)) /\ Cardinality(At(wire, M)) \in Nat
    BY CountType DEF Count, At
  <1>5. B = At(wire, M) \ {1}
    <2>1. ASSUME NEW k \in B PROVE k \in At(wire, M) \ {1}
      BY <1>1, <2>1 DEF At
    <2>2. ASSUME NEW k \in At(wire, M) \ {1} PROVE k \in B
      <3>1. k - 1 \in 1 .. Len(rest) /\ wire[k] \in M /\ k = (k - 1) + 1
        BY <1>1, <2>2 DEF At
      <3>2. k - 1 \in A
        BY <1>1, <3>1 DEF At
      <3> QED
        BY <3>1, <3>2
    <2> QED
      BY <2>1, <2>2
  <1>6. 1 \in At(wire, M) <=> Head(wire) \in M
    BY <1>1, EmptySeq DEF At
  <1>7. Cardinality(At(wire, M) \ {1}) =
            IF 1 \in At(wire, M) THEN Cardinality(At(wire, M)) - 1 ELSE Cardinality(At(wire, M))
    BY <1>4, FS_RemoveElement
  <1> QED
    <2>1. Count(wire, M) = Cardinality(At(wire, M)) /\ Count(rest, M) = Cardinality(A)
      BY DEF Count, At
    <2>2. Cardinality(A) = IF Head(wire) \in M THEN Count(wire, M) - 1 ELSE Count(wire, M)
      BY <1>3, <1>5, <1>6, <1>7, <2>1
    <2>3. Count(wire, M) \in Nat
      BY <1>4, <2>1
    <2>4. CASE Head(wire) \in M
      BY <1>1, <2>1, <2>2, <2>3, <2>4 DEF One
    <2>5. CASE Head(wire) \notin M
      BY <1>1, <2>1, <2>2, <2>3, <2>5 DEF One
    <2> QED
      BY <2>4, <2>5

LEMMA CountPrefix ==
    ASSUME NEW wire \in Seq(Message), NEW k \in 0 .. Len(wire), NEW M
    PROVE  SubSeq(wire, 1, k) \in Seq(Message) /\ Count(SubSeq(wire, 1, k), M) <= Count(wire, M)
  <1> DEFINE part == SubSeq(wire, 1, k)
  <1>1. Len(wire) \in Nat /\ DOMAIN wire = 1 .. Len(wire) /\ \A i \in 1 .. Len(wire) : wire[i] \in Message
    BY LenProperties, ElementOfSeq
  <1>2. /\ part \in Seq(Message) /\ Len(part) = (IF 1 <= k THEN k - 1 + 1 ELSE 0)
        /\ \A i \in 1 .. k - 1 + 1 : part[i] = wire[1 + i - 1]
    <2>1. \A i \in 1 .. k : wire[i] \in Message
      BY <1>1
    <2> QED
      BY <1>1, <2>1, SubSeqProperties
  <1>3. Len(part) = k /\ DOMAIN part = 1 .. k /\ \A i \in 1 .. k : part[i] = wire[i]
    BY <1>1, <1>2, LenProperties
  <1> HIDE DEF part
  <1>4. At(part, M) \in SUBSET At(wire, M)
    BY <1>1, <1>3 DEF At
  <1>5. Cardinality(At(part, M)) <= Cardinality(At(wire, M))
    BY <1>4, CountType, FS_Subset
  <1> QED
    BY <1>2, <1>5 DEF Count, At, part

-----------------------------------------------------------------------------
(* What the changes of a wire do to its counts.                             *)

Puts(new, wires, c, m) ==
    new \in Wires /\ \A d \in Conn : new[d] = IF d = c THEN Append(wires[d], m) ELSE wires[d]
Takes(new, wires, c) ==
    new \in Wires /\ \A d \in Conn : new[d] = IF d = c THEN Tail(wires[d]) ELSE wires[d]
Cuts(new, wires, c) ==
    /\ new \in Wires
    /\ \A d \in Conn : d # c => new[d] = wires[d]
    /\ c \in Conn => \E k \in 0 .. Len(wires[c]) : new[c] = SubSeq(wires[c], 1, k)

LEMMA WireCounts ==
    ASSUME NEW wires \in Wires, NEW d \in Conn, NEW M
    PROVE  wires[d] \in Seq(Message) /\ Count(wires[d], M) \in Nat
  <1>1. wires[d] \in Seq(Message)
    BY DEF Wires
  <1> QED
    BY <1>1, CountType

LEMMA PutCount ==
    ASSUME NEW wires \in Wires, NEW new, NEW c, NEW m \in Message, Puts(new, wires, c, m), NEW M
    PROVE  \A d \in Conn :
               Count(new[d], M) = Count(wires[d], M) + (IF d = c /\ m \in M THEN 1 ELSE 0)
  <1> TAKE d \in Conn
  <1>1. wires[d] \in Seq(Message) /\ Count(wires[d], M) \in Nat
    BY WireCounts
  <1>2. Count(Append(wires[d], m), M) = Count(wires[d], M) + (IF m \in M THEN 1 ELSE 0)
    BY <1>1, CountAppend
  <1>3. new[d] = IF d = c THEN Append(wires[d], m) ELSE wires[d]
    BY DEF Puts
  <1>4. CASE d = c
    BY <1>2, <1>3, <1>4
  <1>5. CASE d # c
    BY <1>1, <1>3, <1>5
  <1> QED
    BY <1>4, <1>5

LEMMA TakeCount ==
    ASSUME NEW wires \in Wires, NEW new, NEW c \in Conn, wires[c] # <<>>, Takes(new, wires, c), NEW M
    PROVE  /\ Head(wires[c]) \in Message
           /\ Count(wires[c], M) = Count(new[c], M) + (IF Head(wires[c]) \in M THEN 1 ELSE 0)
  <1>1. wires[c] \in Seq(Message)
    BY WireCounts
  <1>2. new[c] = Tail(wires[c])
    BY DEF Takes
  <1> QED
    BY <1>1, <1>2, CountTail

(* A break loses messages and adds none.                                    *)
LEMMA CutCount ==
    ASSUME NEW wires \in Wires, NEW new, NEW c, Cuts(new, wires, c), NEW M
    PROVE  \A d \in Conn : Count(new[d], M) <= Count(wires[d], M)
  <1> TAKE d \in Conn
  <1>1. wires[d] \in Seq(Message) /\ Count(wires[d], M) \in Nat
    BY WireCounts
  <1>2. CASE d # c
    BY <1>1, <1>2 DEF Cuts
  <1>3. CASE d = c
    <2>1. PICK k \in 0 .. Len(wires[d]) : new[d] = SubSeq(wires[d], 1, k)
      BY <1>3 DEF Cuts
    <2> QED
      BY <1>1, <2>1, CountPrefix
  <1> QED
    BY <1>2, <1>3

(* The changes of the specification are such changes.                       *)
LEMMA PutIs ==
    ASSUME NEW wires \in Wires, NEW c, NEW m \in Message, NEW holds
    PROVE  Put(wires, c, m, holds) = wires \/ Puts(Put(wires, c, m, holds), wires, c, m)
  <1>1. [wires EXCEPT ![c] = Append(wires[c], m)] = Put(wires, c, m, holds)
            => Puts(Put(wires, c, m, holds), wires, c, m)
    <2> SUFFICES Puts([wires EXCEPT ![c] = Append(wires[c], m)], wires, c, m)
      OBVIOUS
    <2>1. CASE c \in Conn
      <3>1. Append(wires[c], m) \in Seq(Message)
        BY <2>1, WireCounts, CountAppend
      <3> QED
        BY <2>1, <3>1 DEF Puts, Wires
    <2>2. CASE c \notin Conn
      BY <2>2 DEF Puts, Wires
    <2> QED
      BY <2>1, <2>2
  <1> QED
    BY <1>1 DEF Put

LEMMA TakeIs ==
    ASSUME NEW wires \in Wires, NEW c \in Conn, wires[c] # <<>>, NEW new,
           new = [wires EXCEPT ![c] = Tail(wires[c])]
    PROVE  Takes(new, wires, c)
  <1>1. Tail(wires[c]) \in Seq(Message)
    BY WireCounts, HeadTailProperties
  <1> QED
    BY <1>1 DEF Takes, Wires

LEMMA CutIs ==
    ASSUME NEW wires \in Wires, NEW c, NEW k \in 0 .. Len(wires[c]), NEW new,
           new = [wires EXCEPT ![c] = SubSeq(wires[c], 1, k)]
    PROVE  Cuts(new, wires, c)
  <1>1. CASE c \in Conn
    <2>1. SubSeq(wires[c], 1, k) \in Seq(Message)
      BY <1>1, WireCounts, CountPrefix
    <2> QED
      BY <1>1, <2>1 DEF Cuts, Wires
  <1>2. CASE c \notin Conn
    BY <1>2 DEF Cuts, Wires
  <1> QED
    BY <1>1, <1>2

LEMMA EmptyIs ==
    ASSUME NEW wires \in Wires, NEW c, NEW new, new = [wires EXCEPT ![c] = <<>>]
    PROVE  Cuts(new, wires, c) /\ \A d \in Conn : wires[d] = <<>> => new[d] = <<>>
  <1>1. <<>> \in Seq(Message) /\ \A d \in Conn : 0 \in 0 .. Len(wires[d])
    BY WireCounts, LenProperties, EmptySeq
  <1>2. \A d \in Conn : <<>> = SubSeq(wires[d], 1, 0)
    BY SubSeqEmpty
  <1>3. new \in Wires /\ \A d \in Conn : new[d] = IF d = c THEN <<>> ELSE wires[d]
    BY <1>1 DEF Wires
  <1> QED
    BY <1>1, <1>2, <1>3 DEF Cuts

LEMMA MessageTypes ==
    /\ Ack \in Message
    /\ \A v \in Command \cup Telemetry \cup {NoValue} :
           State(v) \in Message /\ State(v) # Ack
  BY DEF Message, State, Ack

LEMMA TokensType ==
    ASSUME LinkTypes, NEW c \in Conn
    PROVE  /\ States(down[c]) \in Nat /\ Acks(up[c]) \in Nat
           /\ One(Flag(c)) \in {0, 1} /\ One(Posting(c)) \in {0, 1}
  BY CountType DEF LinkTypes, Wires, States, Acks, One

-----------------------------------------------------------------------------
LEMMA ServerInitial == Init => ServerInv
  <1> SUFFICES ASSUME Init PROVE ServerInv
    OBVIOUS
  <1>1. up \in Wires /\ down \in Wires /\ \A c \in Conn : up[c] = <<>> /\ down[c] = <<>>
    BY EmptySeq DEF Init, Disconnected, Wires
  <1>2. connectionState \in [DOMAIN connectionState -> BOOLEAN]
    <2>1. connectionState = << >>
      BY DEF Init, Disconnected
    <2>2. DOMAIN << >> = {}
      OBVIOUS
    <2> QED
      BY <2>1, <2>2
  <1>3. LinkTypes
    BY <1>1, <1>2 DEF Init, Disconnected, LinkTypes
  <1>4. FreshInv
    BY <1>1, CountNothing DEF FreshInv, Acks, Init, Disconnected
  <1>5. HeldInv /\ TokenInv
    BY DEF HeldInv, TokenInv, Init, Disconnected
  <1> QED
    BY <1>3, <1>4, <1>5 DEF ServerInv

(* A step of the client that leaves the server's wires with no more of the  *)
(* token than they had.                                                     *)
LEMMA ClientStep ==
    ASSUME ServerInv, LinkTypes', UNCHANGED server,
           \A c \in Conn : down[c] = <<>> => down'[c] = <<>>,
           \A c \in Conn : down[c] = <<>> /\ Acks(up[c]) = 0 => Acks(up'[c]) = 0,
           \A c \in Conn : States(down'[c]) + Acks(up'[c]) <= States(down[c]) + Acks(up[c])
    PROVE  ServerInv'
  <1> USE DEF server, serverMain, serverWs, serverShared
  <1>1. FreshInv'
    BY DEF ServerInv, FreshInv, Unopened
  <1>2. HeldInv'
    BY DEF ServerInv, HeldInv, Flag
  <1>3. TokenInv'
    <2> SUFFICES ASSUME NEW c \in connections' PROVE Tokens(c)' <= 1
      BY DEF TokenInv
    <2>1. c \in Conn /\ c \in connections /\ Tokens(c) <= 1
      BY DEF ServerInv, LinkTypes, TokenInv
    <2>2. Flag(c)' = Flag(c) /\ Posting(c)' = Posting(c)
      BY DEF Flag, Posting
    <2>3. One(Flag(c)') = One(Flag(c)) /\ One(Posting(c)') = One(Posting(c))
      BY <2>2
    <2>4. /\ States(down[c]) \in Nat /\ Acks(up[c]) \in Nat
          /\ One(Flag(c)) \in {0, 1} /\ One(Posting(c)) \in {0, 1}
      BY <2>1, TokensType DEF ServerInv
    <2>5. States(down'[c]) \in Nat /\ Acks(up'[c]) \in Nat
      BY <2>1, CountType DEF LinkTypes, Wires, States, Acks
    <2>6. States(down'[c]) + Acks(up'[c]) <= States(down[c]) + Acks(up[c])
      BY <2>1
    <2>7. Tokens(c)' = One(Flag(c)) + One(Posting(c)) + States(down'[c]) + Acks(up'[c])
      BY <2>3 DEF Tokens
    <2> QED
      BY <2>1, <2>4, <2>5, <2>6, <2>7 DEF Tokens
  <1> QED
    BY <1>1, <1>2, <1>3 DEF ServerInv

LEMMA ClientKeeps ==
    ASSUME ServerInv,
           \/ ClientUpdate \/ ClientCheck \/ ClientPrepare \/ ClientClear \/ Connect
           \/ OnOpenConnected \/ OnOpenData \/ OnOpenState
    PROVE  ServerInv'
  <1>1. UNCHANGED <<server, up, down>>
    BY DEF ClientUpdate, ClientCheck, ClientPrepare, ClientClear, Connect, OnOpenConnected,
           OnOpenData, OnOpenState, network
  <1>2. {toRobot, opened, clientConnectionData}' \subseteq Command \cup {NoValue}
    <2> USE DEF ServerInv, LinkTypes, clientMain, clientWs, clientShared
    <2>1. CASE ClientUpdate
      BY <2>1 DEF ClientUpdate
    <2>2. CASE ClientCheck
      BY <2>2 DEF ClientCheck
    <2>3. CASE ClientPrepare
      BY <2>3 DEF ClientPrepare
    <2>4. CASE ClientClear
      BY <2>4 DEF ClientClear
    <2>5. CASE Connect
      BY <2>5 DEF Connect
    <2>6. CASE OnOpenConnected
      BY <2>6 DEF OnOpenConnected
    <2>7. CASE OnOpenData
      BY <2>7 DEF OnOpenData
    <2>8. CASE OnOpenState
      BY <2>8 DEF OnOpenState
    <2> QED
      BY <2>1, <2>2, <2>3, <2>4, <2>5, <2>6, <2>7, <2>8
  <1>3. LinkTypes'
    BY <1>1, <1>2 DEF ServerInv, LinkTypes, server, serverMain, serverWs, serverShared
  <1>4. \A c \in Conn : States(down[c]) \in Nat /\ Acks(up[c]) \in Nat
    BY TokensType DEF ServerInv
  <1> QED
    BY <1>1, <1>3, <1>4, ClientStep

LEMMA ClientPosts ==
    ASSUME ServerInv, ClientPost \/ OnOpenSend
    PROVE  ServerInv'
  <1>0. up \in Wires
    BY DEF ServerInv, LinkTypes
  <1>1. PICK v \in Command \cup {NoValue} : up' = up \/ \E c : Puts(up', up, c, State(v))
    <2>1. toRobot \in Command \cup {NoValue} /\ opened \in Command \cup {NoValue}
      BY DEF ServerInv, LinkTypes
    <2>2. State(toRobot) \in Message /\ State(opened) \in Message
      BY <2>1, MessageTypes
    <2>3. CASE ClientPost
      <3>1. up' = up \/ Puts(up', up, sendOn, State(toRobot))
        BY <1>0, <2>2, <2>3, PutIs DEF ClientPost, PutUp
      <3> QED
        BY <2>1, <3>1
    <2>4. CASE OnOpenSend
      <3>1. up' = up \/ Puts(up', up, connection, State(opened))
        BY <1>0, <2>2, <2>4, PutIs DEF OnOpenSend, PutUp
      <3> QED
        BY <2>1, <3>1
    <2> QED
      BY <2>3, <2>4
  <1>2. State(v) \in Message /\ State(v) \notin {Ack}
    BY MessageTypes
  <1>3. \A d \in Conn : Acks(up[d]) \in Nat /\ States(down[d]) \in Nat
    BY TokensType DEF ServerInv
  <1>4. up' \in Wires /\ \A d \in Conn : Acks(up'[d]) = Acks(up[d])
    <2>1. CASE up' = up
      BY <1>0, <2>1
    <2>2. CASE \E c : Puts(up', up, c, State(v))
      <3>0. PICK c : Puts(up', up, c, State(v))
        BY <2>2
      <3>1. \A d \in Conn : Count(up'[d], {Ack})
                = Count(up[d], {Ack}) + (IF d = c /\ State(v) \in {Ack} THEN 1 ELSE 0)
        BY <1>0, <1>2, <3>0, PutCount
      <3>2. up' \in Wires
        BY <3>0 DEF Puts
      <3> QED
        BY <1>2, <1>3, <3>1, <3>2 DEF Acks
    <2> QED
      BY <1>1, <2>1, <2>2
  <1>5. UNCHANGED <<server, down, toRobot, clientConnectionData>> /\ opened' \in {opened, NoValue}
    BY DEF ClientPost, OnOpenSend, clientMain, clientWs, clientShared
  <1>6. LinkTypes'
    BY <1>4, <1>5 DEF ServerInv, LinkTypes, server, serverMain, serverWs, serverShared
  <1> QED
    BY <1>3, <1>4, <1>5, <1>6, ClientStep

(* The client takes a state or an ack; it answers a state with an ack, so   *)
(* the token changes its form and not its number.                           *)
LEMMA ClientTakes == ServerInv /\ ClientMessage => ServerInv'
  <1> SUFFICES ASSUME ServerInv, ClientMessage PROVE ServerInv'
    OBVIOUS
  <1> DEFINE c == connection
             m == Head(down[c])
             states == Message \ {Ack}
  <1>1. /\ down[c] # <<>>
        /\ up' = up \/ (m # Ack /\ Puts(up', up, c, Ack))
        /\ down' = [down EXCEPT ![c] = Tail(down[c])]
        /\ UNCHANGED <<server, toRobot, opened, clientConnectionData>>
    <2>1. Put(up, c, Ack, ClientHolds(c) /\ ServerHolds(c)) = up
              \/ Puts(Put(up, c, Ack, ClientHolds(c) /\ ServerHolds(c)), up, c, Ack)
      BY PutIs, MessageTypes DEF ServerInv, LinkTypes
    <2>2. up' = IF m # Ack THEN Put(up, c, Ack, ClientHolds(c) /\ ServerHolds(c)) ELSE up
      BY DEF ClientMessage, Answers, Answer, PutUp
    <2>3. up' = up \/ (m # Ack /\ Puts(up', up, c, Ack))
      <3>1. CASE m = Ack
        BY <2>2, <3>1
      <3>2. CASE m # Ack
        BY <2>1, <2>2, <3>2
      <3> QED
        BY <3>1, <3>2
    <2> QED
      BY <2>3 DEF ClientMessage, clientMain
  <1>2. up \in Wires /\ down \in Wires /\ Ack \in Message
    BY MessageTypes DEF ServerInv, LinkTypes
  <1>3. \A d \in Conn : Acks(up[d]) \in Nat /\ States(down[d]) \in Nat
    BY TokensType DEF ServerInv
  <1> HIDE DEF c
  <1>4. /\ up' \in Wires
        /\ \A d \in Conn :
               /\ d # c => up'[d] = up[d]
               /\ Acks(up'[d]) <= Acks(up[d]) + (IF d = c /\ m # Ack THEN 1 ELSE 0)
    <2>1. CASE up' = up
      BY <1>2, <1>3, <2>1
    <2>2. CASE m # Ack /\ Puts(up', up, c, Ack)
      <3>1. \A d \in Conn : Count(up'[d], {Ack})
                = Count(up[d], {Ack}) + (IF d = c /\ Ack \in {Ack} THEN 1 ELSE 0)
        BY <1>2, <2>2, PutCount
      <3>2. up' \in Wires /\ \A d \in Conn : d # c => up'[d] = up[d]
        BY <2>2 DEF Puts
      <3> QED
        BY <1>3, <2>2, <3>1, <3>2 DEF Acks
    <2> QED
      BY <1>1, <2>1, <2>2
  <1>5. /\ down' \in Wires /\ \A d \in Conn : d # c => down'[d] = down[d]
        /\ c \in Conn => States(down[c]) = States(down'[c]) + (IF m # Ack THEN 1 ELSE 0)
    <2>1. CASE c \notin Conn
      <3>1. down' = down
        BY <1>1, <1>2, <2>1 DEF Wires
      <3> QED
        BY <1>2, <2>1, <3>1
    <2>2. CASE c \in Conn
      <3>0. Takes(down', down, c)
        BY <1>1, <1>2, <2>2, TakeIs
      <3>1. /\ m \in Message
            /\ Count(down[c], states) = Count(down'[c], states) + (IF m \in states THEN 1 ELSE 0)
        <4>1. down[c] # <<>>
          BY <1>1
        <4> HIDE DEF states
        <4> QED
          BY <1>2, <2>2, <3>0, <4>1, TakeCount
      <3>2. down' \in Wires /\ \A d \in Conn : d # c => down'[d] = down[d]
        BY <3>0 DEF Takes
      <3>3. m \in states <=> m # Ack
        BY <3>1
      <3> QED
        BY <3>1, <3>2, <3>3 DEF States
    <2> QED
      BY <2>1, <2>2
  <1>6. LinkTypes'
    BY <1>1, <1>4, <1>5 DEF ServerInv, LinkTypes, server, serverMain, serverWs, serverShared
  <1>7. \A d \in Conn : Acks(up'[d]) \in Nat /\ States(down'[d]) \in Nat
    BY <1>6, CountType DEF LinkTypes, Wires, Acks, States
  <1>8. ASSUME NEW d \in Conn
        PROVE  /\ down[d] = <<>> => down'[d] = <<>> /\ up'[d] = up[d]
               /\ States(down'[d]) + Acks(up'[d]) <= States(down[d]) + Acks(up[d])
    <2>1. CASE d = c
      BY <1>1, <1>3, <1>4, <1>5, <1>7, <2>1
    <2>2. CASE d # c
      BY <1>3, <1>4, <1>5, <2>2
    <2> QED
      BY <2>1, <2>2
  <1> QED
    BY <1>1, <1>6, <1>8, ClientStep

LEMMA ClientBreaks == ServerInv /\ ClientBreak => ServerInv'
  <1> SUFFICES ASSUME ServerInv, ClientBreak PROVE ServerInv'
    OBVIOUS
  <1> DEFINE c == connection
  <1>1. PICK k \in 0 .. Len(up[c]) : up' = [up EXCEPT ![c] = SubSeq(up[c], 1, k)]
    BY DEF ClientBreak, Break
  <1>2. /\ down' = [down EXCEPT ![c] = <<>>]
        /\ UNCHANGED <<server, toRobot, opened, clientConnectionData>>
    BY DEF ClientBreak, Break, clientMain
  <1>3. up \in Wires /\ down \in Wires
    BY DEF ServerInv, LinkTypes
  <1> HIDE DEF c
  <1>4. up' \in Wires /\ \A d \in Conn : Acks(up'[d]) <= Acks(up[d])
    <2>1. Cuts(up', up, c)
      BY <1>1, <1>3, CutIs
    <2>2. \A d \in Conn : Count(up'[d], {Ack}) <= Count(up[d], {Ack})
      BY <1>3, <2>1, CutCount
    <2> QED
      BY <2>1, <2>2 DEF Cuts, Acks
  <1>5. /\ down' \in Wires
        /\ \A d \in Conn : States(down'[d]) <= States(down[d]) /\ (down[d] = <<>> => down'[d] = <<>>)
    <2>1. Cuts(down', down, c) /\ \A d \in Conn : down[d] = <<>> => down'[d] = <<>>
      BY <1>2, <1>3, EmptyIs
    <2>2. \A d \in Conn : Count(down'[d], Message \ {Ack}) <= Count(down[d], Message \ {Ack})
      BY <1>3, <2>1, CutCount
    <2> QED
      BY <2>1, <2>2 DEF Cuts, States
  <1>6. LinkTypes'
    BY <1>2, <1>4, <1>5 DEF ServerInv, LinkTypes, server, serverMain, serverWs, serverShared
  <1>7. \A d \in Conn : /\ Acks(up'[d]) \in Nat /\ States(down'[d]) \in Nat
                        /\ Acks(up[d]) \in Nat /\ States(down[d]) \in Nat
    BY <1>6, CountType DEF ServerInv, LinkTypes, Wires, Acks, States
  <1> QED
    BY <1>2, <1>4, <1>5, <1>6, <1>7, ClientStep

-----------------------------------------------------------------------------
(* The server's steps.                                                      *)

(* What is left of the token once the flag is c's only change.              *)
LEMMA ServerStep ==
    ASSUME ServerInv, LinkTypes', FreshInv', HeldInv',
           \A d \in connections' : Tokens(d)' <= 1
    PROVE  ServerInv'
  BY DEF ServerInv, TokenInv

(* on_open: nothing of the connection is anywhere yet.                      *)
LEMMA Opens == ASSUME ServerInv, NEW c \in Conn, ServerOpen(c) PROVE ServerInv'
  <1>1. /\ Unopened(c) /\ connections' = connections \cup {c}
        /\ connectionState' = Assigned(connectionState, c, FALSE)
        /\ UNCHANGED <<client, current, serverAt, todo, sendTo, closed, up>>
        /\ down' = Put(down, c, State(current), ClientHolds(c))
    BY DEF ServerOpen, OpenedReady, serverMain, Unopened
  <1>2. /\ up \in Wires /\ down \in Wires /\ State(current) \in Message
        /\ connectionState \in [DOMAIN connectionState -> BOOLEAN] /\ connections \subseteq Conn
    BY MessageTypes DEF ServerInv, LinkTypes
  <1>3. down' = down \/ Puts(down', down, c, State(current))
    BY <1>1, <1>2, PutIs
  <1>4. down' \in Wires /\ \A d \in Conn : d # c => down'[d] = down[d]
    BY <1>2, <1>3 DEF Puts
  <1>5. /\ connectionState' \in [DOMAIN connectionState' -> BOOLEAN]
        /\ DOMAIN connectionState' = DOMAIN connectionState \cup {c}
        /\ connectionState'[c] = FALSE
        /\ \A d \in DOMAIN connectionState : d # c => connectionState'[d] = connectionState[d]
    BY <1>1, <1>2 DEF Assigned
  <1>6. LinkTypes'
    BY <1>1, <1>4, <1>5 DEF ServerInv, LinkTypes, client, clientMain, clientWs, clientShared
  <1>7. down[c] = <<>> /\ Acks(up[c]) = 0 /\ (serverAt # "loop" => sendTo # c)
    BY <1>1 DEF ServerInv, FreshInv
  <1>8. FreshInv'
    BY <1>1, <1>4 DEF ServerInv, FreshInv, Unopened
  <1>9. HeldInv'
    BY <1>1, <1>5, <1>7 DEF ServerInv, HeldInv, Flag
  <1>10. ASSUME NEW d \in connections' PROVE Tokens(d)' <= 1
    <2>1. CASE d # c
      <3>1. d \in connections /\ d \in Conn
        BY <1>1, <1>2, <2>1
      <3>2. Flag(d)' <=> Flag(d)
        BY <1>5, <2>1 DEF Flag
      <3>3. Posting(d)' <=> Posting(d)
        BY <1>1 DEF Posting
      <3>4. down'[d] = down[d] /\ up'[d] = up[d]
        BY <1>1, <1>4, <2>1, <3>1
      <3>5. Tokens(d)' = Tokens(d)
        BY <3>2, <3>3, <3>4 DEF Tokens, One
      <3> QED
        BY <3>1, <3>5 DEF ServerInv, TokenInv
    <2>2. CASE d = c
      <3>1. ~Flag(c)' /\ ~Posting(c)'
        BY <1>1, <1>5, <1>7 DEF Flag, Posting
      <3>2. Acks(up'[c]) = 0
        BY <1>1, <1>7
      <3>3. States(down'[c]) \in {0, 1}
        <4>1. States(down[c]) = 0
          BY <1>7, CountNothing DEF States
        <4>2. CASE down' = down
          BY <4>1, <4>2
        <4>3. CASE Puts(down', down, c, State(current))
          <5>1. \A e \in Conn : Count(down'[e], Message \ {Ack}) = Count(down[e], Message \ {Ack})
                    + (IF e = c /\ State(current) \in Message \ {Ack} THEN 1 ELSE 0)
            BY <1>2, <4>3, PutCount
          <5> QED
            BY <4>1, <5>1 DEF States
        <4> QED
          BY <1>3, <4>2, <4>3
      <3> QED
        BY <2>2, <3>1, <3>2, <3>3 DEF Tokens, One
    <2> QED
      BY <2>1, <2>2
  <1> QED
    BY <1>6, <1>8, <1>9, <1>10, ServerStep

(* on_message: an ack turns into the flag; a command is answered by an ack, *)
(* which is no part of this token.                                          *)
LEMMA Handles == ASSUME ServerInv, NEW c \in Conn, ServerMessage(c) PROVE ServerInv'
  <1> DEFINE m == Head(up[c])
             states == Message \ {Ack}
  <1>1. /\ c \in connections /\ up[c] # <<>>
        /\ connectionState' = IF m = Ack THEN Assigned(connectionState, c, TRUE) ELSE connectionState
        /\ down' = IF m # Ack THEN PutDown(c, Ack) ELSE down
        /\ up' = [up EXCEPT ![c] = Tail(up[c])]
        /\ UNCHANGED <<client, current, serverAt, todo, sendTo, connections, closed>>
    BY DEF ServerMessage, Answers, Answer, serverMain
  <1>2. /\ up \in Wires /\ down \in Wires /\ Ack \in Message
        /\ connectionState \in [DOMAIN connectionState -> BOOLEAN] /\ connections \subseteq Conn
    BY MessageTypes DEF ServerInv, LinkTypes
  <1>3. \A d \in Conn : Acks(up[d]) \in Nat /\ States(down[d]) \in Nat
    BY TokensType DEF ServerInv
  <1>4. down' \in Wires /\ \A d \in Conn : States(down'[d]) = States(down[d])
                                           /\ (d # c => down'[d] = down[d])
    <2>1. CASE down' = down
      BY <1>2, <2>1
    <2>2. CASE Puts(down', down, c, Ack)
      <3>1. \A d \in Conn : Count(down'[d], states)
                = Count(down[d], states) + (IF d = c /\ Ack \in states THEN 1 ELSE 0)
        BY <1>2, <2>2, PutCount
      <3>2. down' \in Wires /\ \A d \in Conn : d # c => down'[d] = down[d]
        BY <2>2 DEF Puts
      <3> QED
        <4>1. Ack \notin states
          OBVIOUS
        <4>2. \A d \in Conn : Count(down'[d], states) = States(down'[d]) /\ Count(down[d], states) = States(down[d])
          BY DEF States
        <4> HIDE DEF states
        <4> QED
          BY <1>3, <3>1, <3>2, <4>1, <4>2
    <2>3. down' = down \/ Puts(down', down, c, Ack)
      <3>1. CASE m = Ack
        BY <1>1, <3>1
      <3>2. CASE m # Ack
        <4>1. down' = Put(down, c, Ack, ClientHolds(c) /\ c \in connections)
          BY <1>1, <3>2 DEF PutDown
        <4> QED
          BY <1>2, <4>1, PutIs
      <3> QED
        BY <3>1, <3>2
    <2> QED
      BY <2>1, <2>2, <2>3
  <1>5. /\ up' \in Wires /\ \A d \in Conn : d # c => up'[d] = up[d]
        /\ Acks(up[c]) = Acks(up'[c]) + (IF m = Ack THEN 1 ELSE 0)
    <2>1. Takes(up', up, c)
      BY <1>1, <1>2, TakeIs
    <2>2. Count(up[c], {Ack}) = Count(up'[c], {Ack}) + (IF Head(up[c]) \in {Ack} THEN 1 ELSE 0)
      <3>1. up[c] # <<>> /\ up \in Wires
        BY <1>1, <1>2
      <3> QED
        BY <2>1, <3>1, TakeCount
    <2> QED
      BY <2>1, <2>2 DEF Takes, Acks
  <1>6. /\ connectionState' \in [DOMAIN connectionState' -> BOOLEAN]
        /\ DOMAIN connectionState \subseteq DOMAIN connectionState'
        /\ \A d : d # c => (Flag(d)' <=> Flag(d))
        /\ m # Ack => (Flag(c)' <=> Flag(c))
        /\ Flag(c) => Flag(c)'
    <2>1. CASE m = Ack
      <3>1. /\ connectionState' \in [DOMAIN connectionState' -> BOOLEAN]
            /\ DOMAIN connectionState' = DOMAIN connectionState \cup {c}
            /\ connectionState'[c] = TRUE
            /\ \A d \in DOMAIN connectionState : d # c => connectionState'[d] = connectionState[d]
        BY <1>1, <1>2, <2>1 DEF Assigned
      <3> QED
        BY <2>1, <3>1 DEF Flag
    <2>2. CASE m # Ack
      BY <1>1, <1>2, <2>2 DEF Flag
    <2> QED
      BY <2>1, <2>2
  <1>7. LinkTypes'
    BY <1>1, <1>4, <1>5, <1>6 DEF ServerInv, LinkTypes, client, clientMain, clientWs, clientShared
  <1>8. FreshInv'
    BY <1>1, <1>4, <1>5 DEF ServerInv, FreshInv, Unopened
  <1>9. HeldInv'
    BY <1>1, <1>6 DEF ServerInv, HeldInv
  <1>10. ASSUME NEW d \in connections' PROVE Tokens(d)' <= 1
    <2>1. d \in connections /\ d \in Conn /\ Tokens(d) <= 1
      BY <1>1, <1>2 DEF ServerInv, TokenInv
    <2>2. Posting(d)' <=> Posting(d)
      BY <1>1 DEF Posting
    <2>3. Acks(up'[d]) \in Nat /\ States(down'[d]) \in Nat
      BY <2>1, <1>7, CountType DEF LinkTypes, Wires, Acks, States
    <2>4. States(down'[d]) = States(down[d]) /\ Acks(up[d]) \in Nat /\ States(down[d]) \in Nat
      BY <1>3, <1>4, <2>1
    <2>5. CASE d # c \/ m # Ack
      <3>1. Flag(d)' <=> Flag(d)
        BY <1>6, <2>5
      <3>2. Acks(up'[d]) = Acks(up[d])
        BY <1>3, <1>5, <2>1, <2>3, <2>5
      <3>3. Tokens(d)' = Tokens(d)
        BY <2>2, <2>4, <3>1, <3>2 DEF Tokens, One
      <3> QED
        BY <2>1, <3>3
    <2>6. CASE d = c /\ m = Ack
      <3>1. Acks(up[d]) = Acks(up'[d]) + 1
        BY <1>5, <2>6
      <3>2. /\ ~Flag(d) /\ ~Posting(d) /\ States(down[d]) = 0 /\ Acks(up'[d]) = 0
        BY <2>1, <2>3, <2>4, <3>1 DEF Tokens, One
      <3> QED
        BY <2>2, <2>4, <3>2 DEF Tokens, One
    <2> QED
      BY <2>5, <2>6
  <1> QED
    BY <1>7, <1>8, <1>9, <1>10, ServerStep

LEMMA Closes == ASSUME ServerInv, NEW c \in Conn, ServerClose(c) PROVE ServerInv'
  <1>1. PICK k \in 0 .. Len(down[c]) : down' = [down EXCEPT ![c] = SubSeq(down[c], 1, k)]
    BY DEF ServerClose, Break
  <1>2. /\ connections' = connections \ {c} /\ closed' = closed \cup {c} /\ c \in connections
        /\ connectionState' = Restrict(connectionState, DOMAIN connectionState \ {c})
        /\ up' = [up EXCEPT ![c] = <<>>]
        /\ UNCHANGED <<client, current, serverAt, todo, sendTo>>
    BY DEF ServerClose, Break, serverMain
  <1>3. /\ up \in Wires /\ down \in Wires
        /\ connectionState \in [DOMAIN connectionState -> BOOLEAN] /\ connections \subseteq Conn
    BY DEF ServerInv, LinkTypes
  <1>4. /\ up' \in Wires /\ down' \in Wires
        /\ \A d \in Conn : d # c => up'[d] = up[d] /\ down'[d] = down[d]
    <2>1. Cuts(down', down, c)
      BY <1>1, <1>3, CutIs
    <2>2. Cuts(up', up, c)
      <3>1. up' = [up EXCEPT ![c] = <<>>] /\ up \in Wires
        BY <1>2, <1>3
      <3> QED
        BY <3>1, EmptyIs
    <2> QED
      BY <2>1, <2>2 DEF Cuts
  <1>5. /\ connectionState' \in [DOMAIN connectionState' -> BOOLEAN]
        /\ \A d : d # c => (Flag(d)' <=> Flag(d))
    BY <1>2, <1>3 DEF Restrict, Flag
  <1>6. LinkTypes'
    BY <1>2, <1>3, <1>4, <1>5 DEF ServerInv, LinkTypes, client, clientMain, clientWs, clientShared
  <1>7. FreshInv'
    BY <1>2, <1>4 DEF ServerInv, FreshInv, Unopened
  <1>8. HeldInv'
    BY <1>2, <1>5 DEF ServerInv, HeldInv
  <1>9. ASSUME NEW d \in connections' PROVE Tokens(d)' <= 1
    <2>1. d \in connections /\ d # c /\ d \in Conn
      BY <1>2, <1>3
    <2>2. (Posting(d)' <=> Posting(d)) /\ (Flag(d)' <=> Flag(d))
      BY <1>2, <1>5, <2>1 DEF Posting
    <2>3. Tokens(d)' = Tokens(d)
      BY <1>4, <2>1, <2>2 DEF Tokens, One
    <2> QED
      BY <2>1, <2>3 DEF ServerInv, TokenInv
  <1> QED
    BY <1>6, <1>7, <1>8, <1>9, ServerStep

LEMMA Updates == ServerInv /\ ServerUpdate => ServerInv'
  <1> SUFFICES ASSUME ServerInv, ServerUpdate PROVE ServerInv'
    OBVIOUS
  <1>1. /\ current' \in Telemetry /\ todo' = connections
        /\ UNCHANGED <<client, serverAt, sendTo, connections, closed, connectionState, up, down>>
    BY DEF ServerUpdate, serverWs, serverShared, network
  <1>2. LinkTypes'
    BY <1>1 DEF ServerInv, LinkTypes, client, clientMain, clientWs, clientShared
  <1>3. FreshInv'
    BY <1>1 DEF ServerInv, FreshInv, Unopened
  <1>4. HeldInv'
    BY <1>1 DEF ServerInv, HeldInv, Flag
  <1>5. TokenInv'
    BY <1>1 DEF ServerInv, TokenInv, Tokens, Flag, Posting
  <1> QED
    BY <1>2, <1>3, <1>4, <1>5 DEF ServerInv

(* The loop goes on to send only if the flag is up; a missing entry is made *)
(* with the flag down.                                                      *)
LEMMA Checks == ASSUME ServerInv, NEW c \in Conn, ServerCheck(c) PROVE ServerInv'
  <1>1. /\ serverAt = "loop" /\ c \in todo /\ todo' = todo \ {c}
        /\ connectionState' = Looked(connectionState, c, FALSE)
        /\ IF connectionState'[c]
           THEN serverAt' = "prepare" /\ sendTo' = c
           ELSE UNCHANGED <<serverAt, sendTo>>
        /\ UNCHANGED <<client, current, connections, closed, up, down>>
    BY DEF ServerCheck, serverWs, network
  <1>2. connectionState \in [DOMAIN connectionState -> BOOLEAN] /\ connections \subseteq Conn
    BY DEF ServerInv, LinkTypes
  <1>3. /\ connectionState' \in [DOMAIN connectionState' -> BOOLEAN]
        /\ \A d : Flag(d)' <=> Flag(d)
        /\ connectionState'[c] => Flag(c)'
    BY <1>1, <1>2 DEF Looked, Assigned, Flag
  <1>4. LinkTypes'
    BY <1>1, <1>3 DEF ServerInv, LinkTypes, client, clientMain, clientWs, clientShared
  <1>5. FreshInv'
    BY <1>1 DEF ServerInv, FreshInv, Unopened
  <1>6. HeldInv'
    BY <1>1, <1>3 DEF HeldInv
  <1>7. ASSUME NEW d \in connections' PROVE Tokens(d)' <= 1
    <2>1. ~Posting(d)' /\ ~Posting(d)
      BY <1>1 DEF Posting
    <2>2. Flag(d)' <=> Flag(d)
      BY <1>3
    <2>3. Tokens(d)' = Tokens(d)
      BY <1>1, <2>1, <2>2 DEF Tokens, One
    <2> QED
      BY <1>1, <2>3 DEF ServerInv, TokenInv
  <1> QED
    BY <1>4, <1>5, <1>6, <1>7, ServerStep

(* The flag goes down and the state is on its way to the wire.              *)
LEMMA Prepares == ServerInv /\ ServerPrepare => ServerInv'
  <1> SUFFICES ASSUME ServerInv, ServerPrepare PROVE ServerInv'
    OBVIOUS
  <1>1. /\ serverAt = "prepare"
        /\ UNCHANGED <<client, current, todo, sendTo, connections, closed, up, down>>
        /\ \/ serverAt' = "loop" /\ connectionState' = connectionState
           \/ serverAt' = "post" /\ connectionState' = Assigned(connectionState, sendTo, FALSE)
    BY DEF ServerPrepare, SentReady, serverWs, network
  <1>2. connectionState \in [DOMAIN connectionState -> BOOLEAN] /\ connections \subseteq Conn
    BY DEF ServerInv, LinkTypes
  <1>3. /\ connectionState' \in [DOMAIN connectionState' -> BOOLEAN]
        /\ \A d : d # sendTo => (Flag(d)' <=> Flag(d))
        /\ serverAt' = "loop" => \A d : Flag(d)' <=> Flag(d)
        /\ serverAt' = "post" => ~Flag(sendTo)'
    BY <1>1, <1>2 DEF Assigned, Flag
  <1>4. LinkTypes'
    BY <1>1, <1>3 DEF ServerInv, LinkTypes, client, clientMain, clientWs, clientShared
  <1>5. FreshInv'
    BY <1>1 DEF ServerInv, FreshInv, Unopened
  <1>6. HeldInv'
    BY <1>1 DEF HeldInv
  <1>7. ASSUME NEW d \in connections' PROVE Tokens(d)' <= 1
    <2>1. d \in connections /\ Tokens(d) <= 1 /\ ~Posting(d) /\ d \in Conn
      BY <1>1, <1>2 DEF ServerInv, TokenInv, Posting
    <2>2. CASE d = sendTo /\ serverAt' = "post"
      <3>1. Flag(d) /\ ~Flag(d)' /\ Posting(d)'
        BY <1>1, <1>3, <2>1, <2>2 DEF ServerInv, HeldInv, Posting
      <3>2. Tokens(d)' = Tokens(d)
        <4>1. States(down[d]) \in Nat /\ Acks(up[d]) \in Nat
          BY <2>1, TokensType DEF ServerInv
        <4> QED
          BY <1>1, <2>1, <3>1, <4>1 DEF Tokens, One
      <3> QED
        BY <2>1, <3>2
    <2>3. CASE ~(d = sendTo /\ serverAt' = "post")
      <3>1. (Flag(d)' <=> Flag(d)) /\ ~Posting(d)'
        BY <1>1, <1>3, <2>3 DEF Posting
      <3>2. Tokens(d)' = Tokens(d)
        BY <1>1, <2>1, <3>1 DEF Tokens, One
      <3> QED
        BY <2>1, <3>2
    <2> QED
      BY <2>2, <2>3
  <1> QED
    BY <1>4, <1>5, <1>6, <1>7, ServerStep

LEMMA Posts == ServerInv /\ ServerPost => ServerInv'
  <1> SUFFICES ASSUME ServerInv, ServerPost PROVE ServerInv'
    OBVIOUS
  <1> DEFINE states == Message \ {Ack}
             holds == ClientHolds(sendTo) /\ sendTo \in connections
  <1>1. /\ serverAt = "post" /\ serverAt' = "loop"
        /\ down' = Put(down, sendTo, State(current), holds)
        /\ UNCHANGED <<client, current, todo, sendTo, connections, closed, connectionState, up>>
    BY DEF ServerPost, PutDown, serverWs, serverShared
  <1>2. /\ down \in Wires /\ State(current) \in states /\ connections \subseteq Conn
    BY MessageTypes DEF ServerInv, LinkTypes
  <1>3. down' = down \/ (Puts(down', down, sendTo, State(current)) /\ sendTo \in connections)
    <2>1. CASE holds
      BY <1>1, <1>2, <2>1, PutIs
    <2>2. CASE ~holds
      BY <1>1, <2>2 DEF Put
    <2> QED
      BY <2>1, <2>2
  <1> HIDE DEF states, holds
  <1>4. down' \in Wires /\ \A d \in Conn : d # sendTo \/ d \notin connections => down'[d] = down[d]
    BY <1>2, <1>3 DEF Puts
  <1>5. LinkTypes'
    BY <1>1, <1>4 DEF ServerInv, LinkTypes, client, clientMain, clientWs, clientShared
  <1>6. FreshInv'
    BY <1>1, <1>4 DEF ServerInv, FreshInv, Unopened
  <1>7. HeldInv'
    BY <1>1 DEF HeldInv
  <1>8. ASSUME NEW d \in connections' PROVE Tokens(d)' <= 1
    <2>1. d \in connections /\ Tokens(d) <= 1 /\ ~Posting(d)' /\ d \in Conn
      BY <1>1, <1>2 DEF ServerInv, TokenInv, Posting
    <2>2. (Flag(d)' <=> Flag(d)) /\ up'[d] = up[d]
      BY <1>1 DEF Flag
    <2>3. States(down[d]) \in Nat /\ Acks(up[d]) \in Nat
      BY <2>1, TokensType DEF ServerInv
    <2>4. CASE down'[d] = down[d]
      BY <2>1, <2>2, <2>3, <2>4 DEF Tokens, One
    <2>5. CASE Puts(down', down, sendTo, State(current)) /\ d = sendTo
      <3>1. \A e \in Conn : Count(down'[e], states)
                = Count(down[e], states) + (IF e = sendTo /\ State(current) \in states THEN 1 ELSE 0)
        <4>1. State(current) \in Message
          BY <1>2 DEF states
        <4> QED
          BY <1>2, <2>5, <4>1, PutCount
      <3>2. States(down'[d]) = States(down[d]) + 1
        BY <1>2, <2>1, <2>5, <3>1 DEF States, states
      <3>3. Posting(d)
        BY <1>1, <2>5 DEF Posting
      <3> QED
        BY <2>1, <2>2, <2>3, <3>2, <3>3 DEF Tokens, One
    <2> QED
      BY <1>3, <1>4, <2>1, <2>4, <2>5
  <1> QED
    BY <1>5, <1>6, <1>7, <1>8, ServerStep

-----------------------------------------------------------------------------
LEMMA ServerInductive == ServerInv /\ [Next]_vars => ServerInv'
  <1> SUFFICES ASSUME ServerInv, [Next]_vars PROVE ServerInv'
    OBVIOUS
  <1>1. CASE \/ ClientUpdate \/ ClientCheck \/ ClientPrepare \/ ClientClear \/ Connect
             \/ OnOpenConnected \/ OnOpenData \/ OnOpenState
    BY <1>1, ClientKeeps
  <1>2. CASE ClientPost \/ OnOpenSend
    BY <1>2, ClientPosts
  <1>3. CASE ClientMessage
    BY <1>3, ClientTakes
  <1>4. CASE ClientBreak
    BY <1>4, ClientBreaks
  <1>5. CASE \E c \in Conn : ServerOpen(c) \/ ServerMessage(c) \/ ServerClose(c)
    BY <1>5, Opens, Handles, Closes
  <1>6. CASE ServerUpdate \/ (\E c \in Conn : ServerCheck(c)) \/ ServerPrepare \/ ServerPost
    BY <1>6, Updates, Checks, Prepares, Posts
  <1>7. CASE UNCHANGED vars
    <2>1. UNCHANGED <<toRobot, opened, clientConnectionData, current, serverAt, todo, sendTo,
                      connections, closed, connectionState, up, down>>
      BY <1>7 DEF vars, client, server, network, clientMain, clientWs, clientShared, serverMain,
                  serverWs, serverShared
    <2> QED
      BY <2>1 DEF ServerInv, LinkTypes, FreshInv, Unopened, HeldInv, TokenInv, Tokens, Flag, Posting
  <1> QED
    BY <1>1, <1>2, <1>3, <1>4, <1>5, <1>6, <1>7 DEF Next, ClientLoop, ClientHandler, ServerLoop

(* The server's flag and what it stands for: the invariant ties it to the   *)
(* states and acks on the wires, and to where the main thread is in its     *)
(* loop (server.cpp, the loop and on_message), across all reconnections.    *)
THEOREM ServerInvariance == Spec => []ServerInv
  BY ServerInitial, ServerInductive, PTL DEF Spec

(* At most one telemetry state is unacknowledged on a connection, and none  *)
(* while the flag is up, whatever the two threads and the network do.       *)
THEOREM OneInFlight == Spec => []OneTelemetryInFlight
  <1>1. ServerInv => OneTelemetryInFlight
    BY DEF ServerInv, TokenInv, OneTelemetryInFlight, Tokens, Flag, Posting
  <1> QED
    BY <1>1, ServerInvariance, PTL

-----------------------------------------------------------------------------
(* The client's half.  Its flag is a token only while no send() overlaps    *)
(* on_open, so the invariant follows the main thread through send() and the *)
(* websocket thread through on_open.                                        *)

Open == Opening \/ clientAt = "running"
Running == clientAt = "running"

(* The main thread is in send() on this connection, and holds the flag it   *)
(* has tested, or has put the flag down and is about to write.              *)
Preparing == sendAt \in {"prepare", "clear"} /\ sendOn = connection
Writing == sendAt = "post" /\ sendOn = connection

(* The commands that are or will be in flight before another can be sent.   *)
Load == One(clientReady \/ Preparing) + One(Writing) + CommandsInFlight

(* Where the threads can be, and on which connection.                       *)
PlaceInv ==
    /\ connection \in 0 .. MaxConnections /\ sendOn \in 0 .. connection
    /\ robotFrom \in 0 .. connection
    /\ clientAt \in {"waiting", "connecting", "opened", "copied", "reset", "running"}
    /\ sendAt \in {"update", "check", "prepare", "clear", "post"}
    /\ clientReady \in BOOLEAN
    /\ sendAt # "update" => toRobot \in Command
    /\ clientAt # "waiting" => connection # 0
    /\ clientConnected <=> Open
    /\ connections \subseteq 1 .. connection
    /\ connections \cap closed = {}
    /\ \A c \in Conn : c > connection => up[c] = <<>> /\ down[c] = <<>>

(* What a send() that meets on_open leaves: nothing, when overlap = "none". *)
OverlapInv ==
    /\ overlap \in {"none", "during", "outlasted"}
    /\ clientAt = "connecting" => sendOn < connection
    /\ Open /\ overlap # "outlasted" /\ Sending => sendOn = connection
    /\ Opening /\ overlap = "none" => ~Sending
    /\ clientAt = "reset" => ~clientReady

(* The client's flag, its send() and what is in flight.                     *)
LoadInv ==
    /\ clientAt = "connecting" \/ (Opening /\ overlap = "none")
          => CommandsInFlight = 0 /\ robotFrom # connection
    /\ Opening => Load <= 1
    /\ Running => Load <= IF overlap = "none" THEN 1 ELSE 2

(* The tokens of both ends are not lost while the connection is up.         *)
KeptInv ==
    /\ clientAt # "waiting" /\ connection \in connections => Tokens(connection) > 0
    /\ Running /\ connection \notin closed /\ overlap # "outlasted"
          => clientReady \/ sendAt = "post" \/ CommandsInFlight > 0

(* A wire that carries one state only, besides acknowledgements.            *)
Carries(wire, v) == \A i \in 1 .. Len(wire) : wire[i] \in {Ack, State(v)}

(* What is on its way to the robot is what the client remembers as sent;    *)
(* when it has been acknowledged the robot obeys it.                        *)
CurrentInv ==
    /\ overlap = "none" /\ clientAt = "reset" => opened = clientConnectionData
    /\ overlap = "none" /\ Running =>
           /\ Carries(up[connection], clientConnectionData)
           /\ sendAt \in {"clear", "post"} => clientConnectionData = toRobot
           /\ robotFrom = connection => clientConnectionData # NoValue
           /\ /\ clientReady \/ Acks(down[connection]) > 0
              /\ sendAt \notin {"clear", "post"} /\ robotFrom = connection
              => robotCommand = clientConnectionData

ClientInv == ServerInv /\ PlaceInv /\ OverlapInv /\ LoadInv /\ KeptInv /\ CurrentInv

-----------------------------------------------------------------------------
(* What one change of a wire does to all that the invariant says of it.     *)

LEMMA Sent ==
    ASSUME NEW wires \in Wires, NEW c, NEW m \in Message, NEW holds \in BOOLEAN,
           holds => c \in Conn, NEW new, new = Put(wires, c, m, holds)
    PROVE  /\ new \in Wires /\ \A d \in Conn : d # c => new[d] = wires[d]
           /\ ~holds => new = wires
           /\ holds => /\ Acks(new[c]) = Acks(wires[c]) + One(m = Ack)
                       /\ States(new[c]) = States(wires[c]) + One(m # Ack)
                       /\ \A v : Carries(wires[c], v) /\ m \in {Ack, State(v)}
                                     => Carries(new[c], v)
  <1>1. CASE ~holds
    BY <1>1 DEF Put
  <1>2. CASE holds
    <2>1. new = [wires EXCEPT ![c] = Append(wires[c], m)] /\ c \in Conn
      BY <1>2 DEF Put
    <2>2. wires[c] \in Seq(Message)
      BY <2>1, WireCounts
    <2>3. /\ Append(wires[c], m) \in Seq(Message)
          /\ Count(Append(wires[c], m), {Ack}) = Count(wires[c], {Ack}) + One(m = Ack)
      BY <2>2, CountAppend DEF One
    <2>4. Count(Append(wires[c], m), Message \ {Ack})
              = Count(wires[c], Message \ {Ack}) + One(m # Ack)
      <3>1. Count(Append(wires[c], m), Message \ {Ack})
              = Count(wires[c], Message \ {Ack}) + (IF m \in Message \ {Ack} THEN 1 ELSE 0)
        BY <2>2, CountAppend
      <3>2. m \in Message \ {Ack} <=> m # Ack
        OBVIOUS
      <3> QED
        BY <3>1, <3>2 DEF One
    <2>5. new \in Wires /\ new[c] = Append(wires[c], m) /\ \A d \in Conn : d # c => new[d] = wires[d]
      BY <2>1, <2>3 DEF Wires
    <2>6. ASSUME NEW v, Carries(wires[c], v), m \in {Ack, State(v)} PROVE Carries(new[c], v)
      <3>1. \A i \in 1 .. Len(new[c]) :
                \/ i \in 1 .. Len(wires[c]) /\ new[c][i] = wires[c][i]
                \/ new[c][i] = m
        BY <2>2, <2>5
      <3> QED
        BY <2>6, <3>1 DEF Carries
    <2> QED
      BY <1>2, <2>3, <2>4, <2>5, <2>6 DEF Acks, States
  <1> QED
    BY <1>1, <1>2

LEMMA Taken ==
    ASSUME NEW wires \in Wires, NEW new, NEW c \in Conn, wires[c] # <<>>, Takes(new, wires, c)
    PROVE  /\ Head(wires[c]) \in Message
           /\ new \in Wires /\ \A d \in Conn : d # c => new[d] = wires[d]
           /\ Acks(wires[c]) = Acks(new[c]) + One(Head(wires[c]) = Ack)
           /\ States(wires[c]) = States(new[c]) + One(Head(wires[c]) # Ack)
           /\ \A v : Carries(wires[c], v)
                         => Head(wires[c]) \in {Ack, State(v)} /\ Carries(new[c], v)
  <1>1. wires[c] \in Seq(Message)
    BY WireCounts
  <1>2. \A M : /\ Head(wires[c]) \in Message
               /\ Count(wires[c], M) = Count(new[c], M) + (IF Head(wires[c]) \in M THEN 1 ELSE 0)
    <2>1. new[c] = Tail(wires[c])
      BY DEF Takes
    <2> QED
      BY <1>1, <2>1, CountTail
  <1>3. Count(wires[c], Message \ {Ack})
            = Count(new[c], Message \ {Ack}) + One(Head(wires[c]) # Ack)
    <2>1. Count(wires[c], Message \ {Ack})
            = Count(new[c], Message \ {Ack}) + (IF Head(wires[c]) \in Message \ {Ack} THEN 1 ELSE 0)
      BY <1>2
    <2>2. Head(wires[c]) \in Message \ {Ack} <=> Head(wires[c]) # Ack
      BY <1>2
    <2> QED
      BY <2>1, <2>2 DEF One
  <1>6. Count(wires[c], {Ack}) = Count(new[c], {Ack}) + One(Head(wires[c]) = Ack)
    <2>1. Count(wires[c], {Ack}) = Count(new[c], {Ack}) + (IF Head(wires[c]) \in {Ack} THEN 1 ELSE 0)
      BY <1>2
    <2> QED
      BY <2>1 DEF One
  <1>4. new \in Wires /\ new[c] = Tail(wires[c]) /\ \A d \in Conn : d # c => new[d] = wires[d]
    BY DEF Takes
  <1>5. ASSUME NEW v, Carries(wires[c], v)
        PROVE  Head(wires[c]) \in {Ack, State(v)} /\ Carries(new[c], v)
    <2>1. \A w \in Seq(Message) : w # <<>> =>
              /\ Head(w) = w[1] /\ 1 \in 1 .. Len(w)
              /\ \A i \in 1 .. Len(Tail(w)) : i + 1 \in 1 .. Len(w) /\ Tail(w)[i] = w[i + 1]
      OBVIOUS
    <2>2. /\ Head(wires[c]) = wires[c][1] /\ 1 \in 1 .. Len(wires[c])
          /\ \A i \in 1 .. Len(new[c]) : i + 1 \in 1 .. Len(wires[c]) /\ new[c][i] = wires[c][i + 1]
      BY <1>1, <1>4, <2>1
    <2> QED
      BY <1>5, <2>2 DEF Carries
  <1> QED
    BY <1>2, <1>3, <1>4, <1>5, <1>6 DEF Acks, States

LEMMA Broken ==
    ASSUME NEW wires \in Wires, NEW new, NEW c \in Conn, Cuts(new, wires, c)
    PROVE  /\ \A d \in Conn : d # c => new[d] = wires[d]
           /\ Acks(new[c]) <= Acks(wires[c]) /\ States(new[c]) <= States(wires[c])
           /\ \A v : Carries(wires[c], v) => Carries(new[c], v)
  <1>1. wires[c] \in Seq(Message)
    BY WireCounts
  <1>2. PICK k \in 0 .. Len(wires[c]) : new[c] = SubSeq(wires[c], 1, k)
    BY DEF Cuts
  <1>3. Len(new[c]) = k /\ \A i \in 1 .. k : i \in 1 .. Len(wires[c]) /\ new[c][i] = wires[c][i]
    BY <1>1, <1>2
  <1>4. \A v : Carries(wires[c], v) => Carries(new[c], v)
    BY <1>3 DEF Carries
  <1>5. Acks(new[c]) <= Acks(wires[c]) /\ States(new[c]) <= States(wires[c])
    BY CutCount DEF Acks, States
  <1> QED
    BY <1>4, <1>5 DEF Cuts

LEMMA Emptied ==
    /\ Acks(<<>>) = 0 /\ States(<<>>) = 0
    /\ \A v : Carries(<<>>, v)
  <1>1. \A v : Carries(<<>>, v)
    BY DEF Carries
  <1> QED
    BY <1>1, CountNothing DEF Acks, States

LEMMA Counts ==
    ASSUME LinkTypes, NEW c \in Conn
    PROVE  /\ Acks(up[c]) \in Nat /\ States(up[c]) \in Nat
           /\ Acks(down[c]) \in Nat /\ States(down[c]) \in Nat
  BY CountType DEF LinkTypes, Wires, States, Acks

(* A wire that counts no state carries acknowledgements only.               *)
LEMMA NoStates ==
    ASSUME NEW wire \in Seq(Message), States(wire) = 0
    PROVE  \A i \in 1 .. Len(wire) : wire[i] = Ack
  <1>1. IsFiniteSet(At(wire, Message \ {Ack})) /\ Cardinality(At(wire, Message \ {Ack})) = 0
    BY CountType DEF States, Count, At
  <1>2. At(wire, Message \ {Ack}) = {}
    BY <1>1, FS_EmptySet
  <1>3. DOMAIN wire = 1 .. Len(wire) /\ \A i \in 1 .. Len(wire) : wire[i] \in Message
    OBVIOUS
  <1> QED
    BY <1>2, <1>3 DEF At

-----------------------------------------------------------------------------
LEMMA ClientInitial == Init => ClientInv
  <1> SUFFICES ASSUME Init PROVE ClientInv
    OBVIOUS
  <1>1. ServerInv
    BY ServerInitial
  <1>2. MaxConnections \in Nat \ {0}
    BY ControlAssumption
  <1>3. PlaceInv
    <2>1. \A c \in Conn : up[c] = <<>> /\ down[c] = <<>>
      BY DEF Init, Disconnected
    <2>2. /\ connection = 0 /\ sendOn = 0 /\ robotFrom = 0 /\ clientAt = "waiting"
          /\ sendAt = "update" /\ clientReady = FALSE /\ clientConnected = FALSE
          /\ connections = {} /\ closed = {}
      BY DEF Init, Disconnected
    <2>3. /\ connection \in 0 .. MaxConnections /\ sendOn \in 0 .. connection
          /\ robotFrom \in 0 .. connection
      BY <1>2, <2>2
    <2>4. clientConnected <=> Open
      BY <2>2 DEF Open, Opening
    <2> QED
      BY <2>1, <2>2, <2>3, <2>4 DEF PlaceInv
  <1>4. OverlapInv /\ LoadInv /\ KeptInv /\ CurrentInv
    BY DEF OverlapInv, LoadInv, KeptInv, CurrentInv, Open, Opening, Running, Sending, Init,
           Disconnected
  <1> QED
    BY <1>1, <1>3, <1>4 DEF ClientInv

(* A client's step that touches no wire and no connection number.           *)
LEMMA QuietCounts ==
    ASSUME UNCHANGED <<connection, up, down, connections, connectionState, serverAt, sendTo>>
    PROVE  /\ CommandsInFlight' = CommandsInFlight
           /\ Tokens(connection)' = Tokens(connection)
  BY DEF CommandsInFlight, Tokens, Flag, Posting

(* The number of commands in flight on the open connection.                 *)
LEMMA InFlightType ==
    ASSUME ClientInv, clientAt # "waiting"
    PROVE  CommandsInFlight \in Nat /\ connection \in Conn
  BY Counts DEF ClientInv, ServerInv, PlaceInv, CommandsInFlight, Conn

LEMMA ClientUpdates == ASSUME ClientInv, ClientUpdate PROVE ClientInv'
  <1>1. /\ sendAt = "update" /\ toRobot' \in Command /\ sendAt' = "check"
        /\ UNCHANGED <<sendOn, clientWs, clientShared, overlap, server, network>>
    BY DEF ClientUpdate
  <1> USE DEF clientWs, clientShared, server, serverMain, serverWs, serverShared, network
  <1>2. CommandsInFlight' = CommandsInFlight /\ Tokens(connection)' = Tokens(connection)
    BY <1>1, QuietCounts
  <1>3. ServerInv'
    BY ClientKeeps DEF ClientInv
  <1>4. PlaceInv'
    BY <1>1 DEF ClientInv, PlaceInv, Open, Opening
  <1>5. OverlapInv'
    BY <1>1 DEF ClientInv, OverlapInv, Open, Opening, Sending
  <1>6. LoadInv'
    BY <1>1, <1>2 DEF ClientInv, LoadInv, Load, Opening, Running, Preparing, Writing
  <1>7. KeptInv'
    BY <1>1, <1>2 DEF ClientInv, KeptInv, Running
  <1>8. CurrentInv'
    BY <1>1 DEF ClientInv, CurrentInv, Running
  <1> QED
    BY <1>3, <1>4, <1>5, <1>6, <1>7, <1>8 DEF ClientInv

LEMMA ClientChecks == ASSUME ClientInv, ClientCheck PROVE ClientInv'
  <1>1. /\ sendAt = "check"
        /\ UNCHANGED <<toRobot, clientWs, clientShared, server, network>>
        /\ \/ /\ clientConnected /\ clientReady /\ sendAt' = "prepare" /\ sendOn' = connection
              /\ overlap' = IF Opening /\ overlap = "none" THEN "during" ELSE overlap
           \/ sendAt' = "update" /\ UNCHANGED <<sendOn, overlap>>
    BY DEF ClientCheck
  <1> USE DEF clientWs, clientShared, server, serverMain, serverWs, serverShared, network
  <1>2. CommandsInFlight' = CommandsInFlight /\ Tokens(connection)' = Tokens(connection)
    BY <1>1, QuietCounts
  <1>3. ServerInv'
    BY ClientKeeps DEF ClientInv
  <1>4. PlaceInv'
    BY <1>1 DEF ClientInv, PlaceInv, Open, Opening
  <1>5. OverlapInv'
    BY <1>1 DEF ClientInv, PlaceInv, OverlapInv, Open, Opening, Sending
  <1>6. LoadInv'
    BY <1>1, <1>2 DEF ClientInv, PlaceInv, LoadInv, Load, Open, Opening, Running, Preparing, Writing
  <1>7. KeptInv'
    BY <1>1, <1>2 DEF ClientInv, KeptInv, Running, Opening
  <1>8. CurrentInv'
    BY <1>1 DEF ClientInv, CurrentInv, Running, Opening
  <1> QED
    BY <1>3, <1>4, <1>5, <1>6, <1>7, <1>8 DEF ClientInv

LEMMA ClientPrepares == ASSUME ClientInv, ClientPrepare PROVE ClientInv'
  <1>1. /\ sendAt = "prepare" /\ clientConnectionData' = toRobot
        /\ sendAt' = IF toRobot = clientConnectionData THEN "update" ELSE "clear"
        /\ UNCHANGED <<toRobot, sendOn, clientWs, clientConnected, clientReady, overlap,
                       server, network>>
    BY DEF ClientPrepare
  <1> USE DEF clientWs, server, serverMain, serverWs, serverShared, network
  <1>2. CommandsInFlight' = CommandsInFlight /\ Tokens(connection)' = Tokens(connection)
    BY <1>1, QuietCounts
  <1>3. ServerInv'
    BY ClientKeeps DEF ClientInv
  <1>4. PlaceInv'
    BY <1>1 DEF ClientInv, PlaceInv, Open, Opening
  <1>5. OverlapInv'
    BY <1>1 DEF ClientInv, OverlapInv, Open, Opening, Sending
  <1>6. LoadInv'
    <2>1. clientAt # "waiting" => CommandsInFlight \in Nat
      BY InFlightType
    <2> QED
      BY <1>1, <1>2, <2>1 DEF ClientInv, LoadInv, Load, Opening, Running, Preparing, Writing, One
  <1>7. KeptInv'
    BY <1>1, <1>2 DEF ClientInv, KeptInv, Running
  <1>8. CurrentInv'
    <2> SUFFICES ASSUME overlap = "none", Running
                 PROVE  /\ Carries(up[connection], toRobot)
                        /\ toRobot # NoValue
                        /\ sendAt' = "update" => toRobot = clientConnectionData
      <3>1. /\ Running' <=> Running
            /\ overlap' = "none" /\ clientAt' = "reset" => FALSE
        BY <1>1 DEF ClientInv, OverlapInv, Opening, Sending, Running
      <3> QED
        BY <1>1, <3>1 DEF ClientInv, CurrentInv, Running
    <2>1. toRobot \in Command /\ toRobot # NoValue
      BY <1>1, ControlAssumption DEF ClientInv, PlaceInv
    <2>2. CommandsInFlight \in Nat /\ connection \in Conn
      BY InFlightType DEF Running
    <2>3. sendOn = connection
      BY <1>1 DEF ClientInv, OverlapInv, Open, Running, Sending
    <2>4. CommandsInFlight = 0
      BY <1>1, <2>2, <2>3 DEF ClientInv, LoadInv, Load, Preparing, Writing, One, Running
    <2>5. States(up[connection]) = 0
      BY <2>2, <2>4, Counts DEF CommandsInFlight, ClientInv, ServerInv
    <2>6. up[connection] \in Seq(Message)
      BY <2>2 DEF ClientInv, ServerInv, LinkTypes, Wires
    <2>7. \A i \in 1 .. Len(up[connection]) : up[connection][i] = Ack
      BY <2>5, <2>6, NoStates
    <2> QED
      BY <1>1, <2>1, <2>7 DEF Carries
  <1> QED
    BY <1>3, <1>4, <1>5, <1>6, <1>7, <1>8 DEF ClientInv

LEMMA ClientClears == ASSUME ClientInv, ClientClear PROVE ClientInv'
  <1>1. /\ sendAt = "clear" /\ sendAt' = "post" /\ clientReady' = FALSE
        /\ UNCHANGED <<toRobot, sendOn, clientWs, clientConnected, clientConnectionData, overlap,
                       server, network>>
    BY DEF ClientClear, SentReady
  <1> USE DEF clientWs, server, serverMain, serverWs, serverShared, network
  <1>2. CommandsInFlight' = CommandsInFlight /\ Tokens(connection)' = Tokens(connection)
    BY <1>1, QuietCounts
  <1>3. ServerInv'
    BY ClientKeeps DEF ClientInv
  <1>4. PlaceInv'
    BY <1>1 DEF ClientInv, PlaceInv, Open, Opening
  <1>5. OverlapInv'
    BY <1>1 DEF ClientInv, OverlapInv, Open, Opening, Sending
  <1>6. LoadInv'
    <2>1. clientAt # "waiting" => CommandsInFlight \in Nat
      BY InFlightType
    <2> QED
      BY <1>1, <1>2, <2>1 DEF ClientInv, LoadInv, Load, Opening, Running, Preparing, Writing, One
  <1>7. KeptInv'
    BY <1>1, <1>2 DEF ClientInv, KeptInv, Running
  <1>8. CurrentInv'
    BY <1>1 DEF ClientInv, CurrentInv, Running
  <1> QED
    BY <1>3, <1>4, <1>5, <1>6, <1>7, <1>8 DEF ClientInv

(* What a write to the client's own connection does to it.  A connection    *)
(* the server has closed takes nothing.                                     *)
LEMMA Writes ==
    ASSUME ClientInv, clientAt # "waiting", NEW m \in Message, NEW b \in BOOLEAN,
           up' = IF b THEN PutUp(connection, m) ELSE up
    PROVE  /\ \A d \in Conn : d # connection => up'[d] = up[d]
           /\ b /\ connection \notin closed =>
                  /\ Acks(up'[connection]) = Acks(up[connection]) + One(m = Ack)
                  /\ States(up'[connection]) = States(up[connection]) + One(m # Ack)
           /\ ~b \/ connection \in closed => up'[connection] = up[connection]
           /\ \A v : Carries(up[connection], v) /\ m \in {Ack, State(v)}
                         => Carries(up'[connection], v)
  <1>1. up \in Wires /\ connection \in Conn
    BY InFlightType DEF ClientInv, ServerInv, LinkTypes
  <1>2. CASE ~b
    BY <1>2
  <1>3. CASE b
    <2> DEFINE holds == ClientHolds(connection) /\ ServerHolds(connection)
    <2>1. (connection \notin closed <=> holds) /\ up' = Put(up, connection, m, holds)
      BY <1>3 DEF PutUp, ClientHolds, ServerHolds
    <2>2. holds \in BOOLEAN
      BY DEF ClientHolds, ServerHolds
    <2> HIDE DEF holds
    <2>3. /\ \A d \in Conn : d # connection => up'[d] = up[d]
          /\ ~holds => up' = up
          /\ holds => /\ Acks(up'[connection]) = Acks(up[connection]) + One(m = Ack)
                      /\ States(up'[connection]) = States(up[connection]) + One(m # Ack)
                      /\ \A v : Carries(up[connection], v) /\ m \in {Ack, State(v)}
                                    => Carries(up'[connection], v)
      BY <1>1, <2>1, <2>2, Sent
    <2> QED
      BY <1>3, <2>1, <2>2, <2>3
  <1> QED
    BY <1>2, <1>3

(* What the server has of the client's connection, when down did not change.*)
LEMMA TokensKept ==
    ASSUME UNCHANGED <<connection, down, connections, connectionState, serverAt, sendTo>>,
           Acks(up'[connection]) = Acks(up[connection])
    PROVE  Tokens(connection)' = Tokens(connection)
  BY DEF Tokens, Flag, Posting

(* A send() on an earlier connection writes nothing: its socket is gone.    *)
LEMMA ClientWrites == ASSUME ClientInv, ClientPost PROVE ClientInv'
  <1>1. /\ sendAt = "post" /\ sendAt' = "update" /\ up' = PutUp(sendOn, State(toRobot))
        /\ UNCHANGED <<toRobot, sendOn, clientWs, clientShared, overlap, server, down>>
    BY DEF ClientPost
  <1> USE DEF clientWs, clientShared, server, serverMain, serverWs, serverShared
  <1> DEFINE b == sendOn = connection
  <1>2. State(toRobot) \in Message /\ State(toRobot) # Ack
    BY MessageTypes DEF ClientInv, ServerInv, LinkTypes
  <1>3. up' = IF b /\ clientAt # "waiting" THEN PutUp(connection, State(toRobot)) ELSE up
    BY <1>1 DEF PutUp, Put, ClientHolds
  <1>4. ServerInv'
    BY ClientPosts DEF ClientInv
  <1>5. clientAt # "waiting" =>
            /\ connection \in Conn /\ CommandsInFlight \in Nat
            /\ \A d \in Conn : d # connection => up'[d] = up[d]
            /\ Acks(up'[connection]) = Acks(up[connection])
            /\ b /\ connection \notin closed =>
                   States(up'[connection]) = States(up[connection]) + 1
            /\ ~b \/ connection \in closed => up'[connection] = up[connection]
            /\ \A v : Carries(up[connection], v) /\ (b => v = toRobot)
                          => Carries(up'[connection], v)
    <2> SUFFICES ASSUME clientAt # "waiting"
                 PROVE  /\ connection \in Conn /\ CommandsInFlight \in Nat
                        /\ \A d \in Conn : d # connection => up'[d] = up[d]
                        /\ Acks(up'[connection]) = Acks(up[connection])
                        /\ b /\ connection \notin closed =>
                               States(up'[connection]) = States(up[connection]) + 1
                        /\ ~b \/ connection \in closed => up'[connection] = up[connection]
                        /\ \A v : Carries(up[connection], v) /\ (b => v = toRobot)
                                      => Carries(up'[connection], v)
      OBVIOUS
    <2>1. connection \in Conn /\ CommandsInFlight \in Nat
      BY InFlightType
    <2>2. /\ Acks(up[connection]) \in Nat /\ States(up[connection]) \in Nat
      BY <2>1, Counts DEF ClientInv, ServerInv
    <2>3. b \in BOOLEAN /\ up' = IF b THEN PutUp(connection, State(toRobot)) ELSE up
      BY <1>3
    <2> HIDE DEF b
    <2>4. /\ \A d \in Conn : d # connection => up'[d] = up[d]
          /\ b /\ connection \notin closed =>
                  /\ Acks(up'[connection]) = Acks(up[connection]) + One(State(toRobot) = Ack)
                  /\ States(up'[connection]) = States(up[connection]) + One(State(toRobot) # Ack)
          /\ ~b \/ connection \in closed => up'[connection] = up[connection]
          /\ \A v : Carries(up[connection], v) /\ State(toRobot) \in {Ack, State(v)}
                         => Carries(up'[connection], v)
      BY <1>2, <2>3, Writes
    <2>5. One(State(toRobot) = Ack) = 0 /\ One(State(toRobot) # Ack) = 1
      BY <1>2 DEF One
    <2>6. ASSUME NEW v, Carries(up[connection], v), b => v = toRobot
          PROVE  Carries(up'[connection], v)
      BY <2>3, <2>4, <2>6
    <2> QED
      BY <2>1, <2>2, <2>3, <2>4, <2>5, <2>6
  <1>6. clientAt # "waiting" =>
            /\ Tokens(connection)' = Tokens(connection)
            /\ CommandsInFlight' = CommandsInFlight + One(b /\ connection \notin closed)
    <2>1. clientAt # "waiting" => /\ States(up[connection]) \in Nat
                                  /\ Acks(down[connection]) \in Nat
      BY <1>5, Counts DEF ClientInv, ServerInv
    <2> QED
      BY <1>1, <1>5, <2>1, TokensKept DEF CommandsInFlight, One
  <1>7. PlaceInv'
    <2>1. \A c \in Conn : c > connection => up'[c] = up[c]
      BY <1>3, <1>5 DEF ClientInv, PlaceInv
    <2> QED
      BY <1>1, <2>1 DEF ClientInv, PlaceInv, Open, Opening
  <1>8. OverlapInv'
    BY <1>1 DEF ClientInv, OverlapInv, Open, Opening, Sending
  <1>9. LoadInv'
    <2> USE DEF Opening, Running
    <2>1. CASE clientAt = "connecting" \/ (Opening /\ overlap = "none")
      <3>1. ~b
        BY <1>1, <2>1 DEF ClientInv, PlaceInv, OverlapInv, Sending
      <3> QED
        BY <1>1, <1>5, <1>6, <2>1, <3>1 DEF ClientInv, LoadInv, Load, Preparing, Writing, One
    <2>2. CASE ~(clientAt = "connecting" \/ (Opening /\ overlap = "none"))
      <3>1. clientAt # "waiting" => Load' <= Load
        BY <1>1, <1>5, <1>6 DEF Load, Preparing, Writing, One
      <3>2. clientAt # "waiting" => Load' \in Int /\ Load \in Int
        BY <1>1, <1>5, <1>6 DEF Load, One
      <3> QED
        BY <1>1, <2>2, <3>1, <3>2 DEF ClientInv, LoadInv
    <2> QED
      BY <2>1, <2>2
  <1>10. KeptInv'
    BY <1>1, <1>5, <1>6 DEF ClientInv, OverlapInv, KeptInv, Running, Open, Sending, One
  <1>11. CurrentInv'
    <2>1. Running' <=> Running
      BY <1>1 DEF Running
    <2> SUFFICES ASSUME Running, overlap = "none"
                 PROVE  /\ Carries(up'[connection], clientConnectionData)
                        /\ ~clientReady /\ Acks(down[connection]) = 0
      BY <1>1, <2>1 DEF ClientInv, CurrentInv, Running
    <2>2. b /\ clientConnectionData = toRobot /\ Carries(up[connection], clientConnectionData)
      BY <1>1 DEF ClientInv, OverlapInv, CurrentInv, Open, Sending, Running
    <2>3. clientAt # "waiting" /\ Load <= 1 /\ Writing
      BY <1>1, <2>2 DEF ClientInv, LoadInv, Running, Writing
    <2>4. /\ States(up[connection]) \in Nat /\ Acks(down[connection]) \in Nat
      BY <1>5, <2>3, Counts DEF ClientInv, ServerInv
    <2> QED
      BY <1>5, <2>2, <2>3, <2>4 DEF Load, CommandsInFlight, One
  <1> QED
    BY <1>4, <1>7, <1>8, <1>9, <1>10, <1>11 DEF ClientInv

(* A new connection is empty at both ends.                                  *)
LEMMA Connects == ASSUME ClientInv, Connect PROVE ClientInv'
  <1>1. /\ clientAt = "waiting" /\ connection < MaxConnections
        /\ connection' = connection + 1 /\ clientAt' = "connecting"
        /\ UNCHANGED <<clientMain, opened, shown, clientShared, overlap, server, network>>
    BY DEF Connect
  <1> USE DEF clientMain, clientShared, server, serverMain, serverWs, serverShared, network
  <1>2. ServerInv'
    BY ClientKeeps DEF ClientInv
  <1>3. connection \in Nat /\ MaxConnections \in Nat /\ connection' \in Conn
    BY <1>1, ControlAssumption DEF ClientInv, PlaceInv, Conn
  <1>4. PlaceInv'
    BY <1>1, <1>3 DEF ClientInv, PlaceInv, Open, Opening
  <1>5. OverlapInv'
    BY <1>1, <1>3 DEF ClientInv, PlaceInv, OverlapInv, Open, Opening, Sending
  <1>6. CommandsInFlight' = 0 /\ robotFrom # connection' /\ connection' \notin connections
    <2>1. up[connection'] = <<>> /\ down[connection'] = <<>>
      BY <1>1, <1>3 DEF ClientInv, PlaceInv
    <2>2. robotFrom # connection' /\ connection' \notin connections
      BY <1>1, <1>3 DEF ClientInv, PlaceInv
    <2> QED
      BY <1>1, <2>1, <2>2, CountNothing DEF CommandsInFlight, Acks, States
  <1>7. LoadInv' /\ KeptInv' /\ CurrentInv'
    BY <1>1, <1>6 DEF LoadInv, KeptInv, CurrentInv, Opening, Running
  <1> QED
    BY <1>2, <1>4, <1>5, <1>7 DEF ClientInv

LEMMA OpensConnected == ASSUME ClientInv, OnOpenConnected PROVE ClientInv'
  <1>1. /\ clientAt = "connecting" /\ clientConnected' = TRUE /\ clientAt' = "opened"
        /\ overlap' = IF Sending THEN "outlasted" ELSE "none"
        /\ UNCHANGED <<clientMain, connection, opened, shown, clientConnectionData, clientReady,
                       server, network>>
    BY DEF OnOpenConnected
  <1> USE DEF clientMain, server, serverMain, serverWs, serverShared, network
  <1>2. CommandsInFlight' = CommandsInFlight /\ Tokens(connection)' = Tokens(connection)
    BY <1>1, QuietCounts
  <1>3. ServerInv'
    BY ClientKeeps DEF ClientInv
  <1>4. PlaceInv'
    BY <1>1 DEF ClientInv, PlaceInv, Open, Opening
  <1>5. OverlapInv'
    BY <1>1 DEF ClientInv, OverlapInv, Open, Opening, Sending
  <1>6. LoadInv'
    <2>1. sendOn # connection
      BY <1>1 DEF ClientInv, PlaceInv, OverlapInv
    <2> QED
      BY <1>1, <1>2, <2>1 DEF ClientInv, LoadInv, Load, Opening, Running, Preparing, Writing, One
  <1>7. KeptInv'
    BY <1>1, <1>2 DEF ClientInv, KeptInv, Running
  <1>8. CurrentInv'
    BY <1>1 DEF CurrentInv, Running
  <1> QED
    BY <1>3, <1>4, <1>5, <1>6, <1>7, <1>8 DEF ClientInv

LEMMA OpensData == ASSUME ClientInv, OnOpenData PROVE ClientInv'
  <1>1. /\ clientAt = "opened" /\ clientConnectionData' = toRobot /\ clientAt' = "copied"
        /\ UNCHANGED <<clientMain, connection, opened, shown, clientConnected, clientReady, overlap,
                       server, network>>
    BY DEF OnOpenData
  <1> USE DEF clientMain, server, serverMain, serverWs, serverShared, network
  <1>2. CommandsInFlight' = CommandsInFlight /\ Tokens(connection)' = Tokens(connection)
    BY <1>1, QuietCounts
  <1>3. ServerInv'
    BY ClientKeeps DEF ClientInv
  <1>4. PlaceInv'
    BY <1>1 DEF ClientInv, PlaceInv, Open, Opening
  <1>5. OverlapInv'
    BY <1>1 DEF ClientInv, OverlapInv, Open, Opening, Sending
  <1>6. LoadInv'
    BY <1>1, <1>2 DEF ClientInv, LoadInv, Load, Opening, Running, Preparing, Writing
  <1>7. KeptInv'
    BY <1>1, <1>2 DEF ClientInv, KeptInv, Running
  <1>8. CurrentInv'
    BY <1>1 DEF CurrentInv, Running
  <1> QED
    BY <1>3, <1>4, <1>5, <1>6, <1>7, <1>8 DEF ClientInv

LEMMA OpensState == ASSUME ClientInv, OnOpenState PROVE ClientInv'
  <1>1. /\ clientAt = "copied" /\ clientReady' = FALSE /\ opened' = clientConnectionData
        /\ clientAt' = "reset"
        /\ UNCHANGED <<clientMain, connection, shown, clientConnected, clientConnectionData, overlap,
                       server, network>>
    BY DEF OnOpenState, OpenedReady
  <1> USE DEF clientMain, server, serverMain, serverWs, serverShared, network
  <1>2. CommandsInFlight' = CommandsInFlight /\ Tokens(connection)' = Tokens(connection)
    BY <1>1, QuietCounts
  <1>3. ServerInv'
    BY ClientKeeps DEF ClientInv
  <1>4. PlaceInv'
    BY <1>1 DEF ClientInv, PlaceInv, Open, Opening
  <1>5. OverlapInv'
    BY <1>1 DEF ClientInv, OverlapInv, Open, Opening, Sending
  <1>6. LoadInv'
    <2>1. CommandsInFlight \in Nat
      BY <1>1, InFlightType
    <2> QED
      BY <1>1, <1>2, <2>1 DEF ClientInv, LoadInv, Load, Opening, Running, Preparing, Writing, One
  <1>7. KeptInv'
    BY <1>1, <1>2 DEF ClientInv, KeptInv, Running
  <1>8. CurrentInv'
    BY <1>1 DEF CurrentInv, Running
  <1> QED
    BY <1>3, <1>4, <1>5, <1>6, <1>7, <1>8 DEF ClientInv

(* The first command of a connection.  A send() in on_open may have put one *)
(* there before it.                                                         *)
LEMMA OpensSend == ASSUME ClientInv, OnOpenSend PROVE ClientInv'
  <1>1. /\ clientAt = "reset" /\ up' = PutUp(connection, State(opened)) /\ clientAt' = "running"
        /\ UNCHANGED <<clientMain, connection, shown, clientShared, overlap, server, down>>
    BY DEF OnOpenSend
  <1> USE DEF clientMain, clientShared, server, serverMain, serverWs, serverShared
  <1>2. State(opened) \in Message /\ State(opened) # Ack
    BY MessageTypes DEF ClientInv, ServerInv, LinkTypes
  <1>3. ServerInv'
    BY ClientPosts DEF ClientInv
  <1>4. /\ connection \in Conn /\ CommandsInFlight \in Nat
        /\ Acks(up[connection]) \in Nat /\ States(up[connection]) \in Nat
        /\ Acks(down[connection]) \in Nat
    BY <1>1, InFlightType, Counts DEF ClientInv, ServerInv
  <1>5. /\ \A d \in Conn : d # connection => up'[d] = up[d]
        /\ Acks(up'[connection]) = Acks(up[connection])
        /\ States(up'[connection]) = States(up[connection]) + One(connection \notin closed)
        /\ \A v : Carries(up[connection], v) /\ v = opened => Carries(up'[connection], v)
    <2>1. /\ \A d \in Conn : d # connection => up'[d] = up[d]
          /\ connection \notin closed =>
                  /\ Acks(up'[connection]) = Acks(up[connection]) + One(State(opened) = Ack)
                  /\ States(up'[connection]) = States(up[connection]) + One(State(opened) # Ack)
          /\ connection \in closed => up'[connection] = up[connection]
          /\ \A v : Carries(up[connection], v) /\ State(opened) \in {Ack, State(v)}
                         => Carries(up'[connection], v)
      <3>1. up' = IF TRUE THEN PutUp(connection, State(opened)) ELSE up
        BY <1>1
      <3>2. clientAt # "waiting"
        BY <1>1
      <3> QED
        BY <1>2, <3>1, <3>2, Writes
    <2>2. One(State(opened) = Ack) = 0 /\ One(State(opened) # Ack) = 1
      BY <1>2 DEF One
    <2> QED
      BY <1>4, <2>1, <2>2 DEF One
  <1>6. /\ Tokens(connection)' = Tokens(connection)
        /\ CommandsInFlight' = CommandsInFlight + One(connection \notin closed)
    BY <1>1, <1>4, <1>5, TokensKept DEF CommandsInFlight, One
  <1>7. PlaceInv'
    BY <1>1, <1>5 DEF ClientInv, PlaceInv, Open, Opening
  <1>8. OverlapInv'
    BY <1>1 DEF ClientInv, OverlapInv, Open, Opening, Sending
  <1>9. LoadInv'
    BY <1>1, <1>4, <1>6 DEF ClientInv, OverlapInv, LoadInv, Load, Opening, Running, Preparing, Writing,
                            Sending, One
  <1>10. KeptInv'
    BY <1>1, <1>4, <1>6 DEF ClientInv, KeptInv, Running, One
  <1>11. CurrentInv'
    <2> SUFFICES ASSUME overlap = "none"
                 PROVE  /\ Carries(up'[connection], clientConnectionData)
                        /\ ~Sending /\ robotFrom # connection
      BY <1>1 DEF CurrentInv, Running, Sending
    <2>1. /\ ~Sending /\ CommandsInFlight = 0 /\ robotFrom # connection
          /\ opened = clientConnectionData
      BY <1>1 DEF ClientInv, OverlapInv, LoadInv, CurrentInv, Opening
    <2>2. up[connection] \in Seq(Message) /\ States(up[connection]) = 0
      BY <1>4, <2>1 DEF CommandsInFlight, ClientInv, ServerInv, LinkTypes, Wires
    <2>3. Carries(up[connection], clientConnectionData)
      BY <2>2, NoStates DEF Carries
    <2> QED
      BY <1>5, <2>1, <2>3
  <1> QED
    BY <1>3, <1>7, <1>8, <1>9, <1>10, <1>11 DEF ClientInv

(* The client takes an ack, which is its token, or answers a state.         *)
LEMMA ClientReads == ASSUME ClientInv, ClientMessage PROVE ClientInv'
  <1> DEFINE m == Head(down[connection])
             b == m # Ack
  <1>1. /\ clientAt = "running" /\ down[connection] # <<>>
        /\ clientReady' = (clientReady \/ m = Ack)
        /\ up' = IF b THEN PutUp(connection, Ack) ELSE up
        /\ down' = [down EXCEPT ![connection] = Tail(down[connection])]
        /\ UNCHANGED <<clientMain, clientAt, connection, opened, clientConnected,
                       clientConnectionData, overlap, server>>
    BY DEF ClientMessage, Answers, Answer
  <1> USE DEF clientMain, server, serverMain, serverWs, serverShared
  <1>2. ServerInv'
    BY ClientTakes DEF ClientInv
  <1>3. /\ connection \in Conn /\ CommandsInFlight \in Nat /\ down \in Wires
        /\ Acks(up[connection]) \in Nat /\ States(up[connection]) \in Nat
        /\ Acks(down[connection]) \in Nat /\ States(down[connection]) \in Nat
    BY <1>1, InFlightType, Counts DEF ClientInv, ServerInv, LinkTypes
  <1>4. /\ m \in Message
        /\ \A d \in Conn : d # connection => down'[d] = down[d]
        /\ Acks(down[connection]) = Acks(down'[connection]) + One(m = Ack)
        /\ States(down[connection]) = States(down'[connection]) + One(m # Ack)
    <2>1. down[connection] # <<>>
      BY <1>1
    <2>2. Takes(down', down, connection)
      BY <1>1, <1>3, TakeIs
    <2> QED
      BY <1>3, <2>1, <2>2, Taken DEF Takes
  <1>5. /\ Acks(down'[connection]) \in Nat /\ States(down'[connection]) \in Nat
        /\ Acks(up'[connection]) \in Nat
    <2>1. connection' \in Conn
      BY <1>1, <1>3
    <2> QED
      BY <1>1, <1>2, <2>1, CountType DEF ServerInv, LinkTypes, Wires, Acks, States
  <1>6. /\ \A d \in Conn : d # connection => up'[d] = up[d]
        /\ States(up'[connection]) = States(up[connection])
        /\ Acks(up'[connection]) = Acks(up[connection]) + One(b /\ connection \notin closed)
        /\ \A v : Carries(up[connection], v) => Carries(up'[connection], v)
    <2>1. /\ \A d \in Conn : d # connection => up'[d] = up[d]
          /\ b /\ connection \notin closed =>
                  /\ Acks(up'[connection]) = Acks(up[connection]) + One(Ack = Ack)
                  /\ States(up'[connection]) = States(up[connection]) + One(Ack # Ack)
          /\ ~b \/ connection \in closed => up'[connection] = up[connection]
          /\ \A v : Carries(up[connection], v) /\ Ack \in {Ack, State(v)}
                         => Carries(up'[connection], v)
      <3>1. b \in BOOLEAN
        OBVIOUS
      <3>2. up' = IF b THEN PutUp(connection, Ack) ELSE up
        BY <1>1
      <3>3. clientAt # "waiting" /\ Ack \in Message
        BY <1>1, MessageTypes
      <3> HIDE DEF b
      <3> QED
        BY <3>1, <3>2, <3>3, Writes
    <2> QED
      BY <1>3, <2>1 DEF One
  <1> HIDE DEF m
  <1>0. clientReady' <=> (clientReady \/ m = Ack)
    BY <1>1 DEF ClientInv, PlaceInv
  <1>7. CommandsInFlight' = CommandsInFlight - One(m = Ack)
    BY <1>1, <1>3, <1>4, <1>5, <1>6 DEF CommandsInFlight, One
  <1>8. connection \in connections => Tokens(connection)' = Tokens(connection)
    <2>1. connection \in connections => connection \notin closed
      BY DEF ClientInv, PlaceInv
    <2>2. (Flag(connection)' <=> Flag(connection)) /\ (Posting(connection)' <=> Posting(connection))
      BY <1>1 DEF Flag, Posting
    <2> QED
      BY <1>1, <1>3, <1>4, <1>5, <1>6, <2>1, <2>2 DEF Tokens, One
  <1>9. PlaceInv'
    <2>1. \A c \in Conn : c > connection => up'[c] = up[c] /\ down'[c] = down[c]
      BY <1>4, <1>6 DEF ClientInv, PlaceInv
    <2>2. clientReady' \in BOOLEAN
      BY <1>1 DEF ClientInv, PlaceInv
    <2> QED
      BY <1>1, <2>1, <2>2 DEF ClientInv, PlaceInv, Open, Opening
  <1>10. OverlapInv'
    BY <1>1 DEF ClientInv, OverlapInv, Open, Opening, Sending
  <1>11. LoadInv'
    BY <1>1, <1>3, <1>7 DEF ClientInv, PlaceInv, LoadInv, Load, Opening, Running, Preparing, Writing, One
  <1>12. KeptInv'
    <2>1. connection \notin closed /\ overlap # "outlasted"
              => clientReady' \/ sendAt' = "post" \/ CommandsInFlight' > 0
      BY <1>0, <1>1, <1>3, <1>7 DEF ClientInv, KeptInv, Running, One
    <2> QED
      BY <1>1, <1>8, <2>1 DEF ClientInv, KeptInv, Running
  <1>13. CurrentInv'
    <2> SUFFICES ASSUME overlap = "none"
                 PROVE  /\ Carries(up'[connection], clientConnectionData)
                        /\ clientReady' \/ Acks(down'[connection]) > 0
                              => clientReady \/ Acks(down[connection]) > 0
      BY <1>1 DEF ClientInv, CurrentInv, Running
    <2>1. Carries(up'[connection], clientConnectionData)
      BY <1>1, <1>6 DEF ClientInv, CurrentInv, Running
    <2> QED
      BY <1>0, <1>3, <1>4, <1>5, <2>1 DEF One
  <1> QED
    BY <1>2, <1>9, <1>10, <1>11, <1>12, <1>13 DEF ClientInv

LEMMA ClientCloses == ASSUME ClientInv, ClientBreak PROVE ClientInv'
  <1>1. /\ clientAt \in {"connecting", "running"} /\ clientConnected' = FALSE /\ clientAt' = "waiting"
        /\ down' = [down EXCEPT ![connection] = <<>>]
        /\ UNCHANGED <<clientMain, connection, opened, shown, clientConnectionData, clientReady,
                       overlap, server>>
    BY DEF ClientBreak, Break
  <1>2. PICK k \in 0 .. Len(up[connection]) :
            up' = [up EXCEPT ![connection] = SubSeq(up[connection], 1, k)]
    BY DEF ClientBreak, Break
  <1> USE DEF clientMain, server, serverMain, serverWs, serverShared
  <1>3. ServerInv'
    BY ClientBreaks DEF ClientInv
  <1>4. PlaceInv'
    <2>1. connection \in Conn /\ up \in Wires /\ down \in Wires
      BY <1>1, InFlightType DEF ClientInv, ServerInv, LinkTypes
    <2>2. \A d \in Conn : d # connection => up'[d] = up[d] /\ down'[d] = down[d]
      BY <1>1, <1>2, <2>1 DEF Wires
    <2> QED
      BY <1>1, <2>2 DEF ClientInv, PlaceInv, Open, Opening
  <1>5. OverlapInv' /\ LoadInv' /\ KeptInv' /\ CurrentInv'
    BY <1>1 DEF ClientInv, OverlapInv, LoadInv, KeptInv, CurrentInv, Open, Opening, Running
  <1> QED
    BY <1>3, <1>4, <1>5 DEF ClientInv

-----------------------------------------------------------------------------
(* The server's steps, seen from the client's connection.                   *)

(* Place is kept by a step that opens or closes connections made already.   *)
LEMMA ServerPlace ==
    ASSUME ClientInv, UNCHANGED client,
           connections' \subseteq 1 .. connection, connections' \cap closed' = {},
           robotFrom' \in 0 .. connection,
           \A d \in Conn : d > connection => up'[d] = up[d] /\ down'[d] = down[d]
    PROVE  PlaceInv' /\ OverlapInv'
  <1> USE DEF client, clientMain, clientWs, clientShared
  <1>1. PlaceInv'
    BY DEF ClientInv, PlaceInv, Open, Opening
  <1>2. OverlapInv'
    BY DEF ClientInv, OverlapInv, Open, Opening, Sending
  <1> QED
    BY <1>1, <1>2

LEMMA ServerKeeps ==
    ASSUME ClientInv, ServerInv', UNCHANGED client, PlaceInv', OverlapInv', CurrentInv',
           clientAt # "waiting" =>
               /\ CommandsInFlight' \in Nat /\ CommandsInFlight' <= CommandsInFlight
               /\ connection \notin closed' =>
                      connection \notin closed /\ CommandsInFlight' = CommandsInFlight
               /\ connection \in connections' => Tokens(connection)' > 0
               /\ robotFrom' = connection => CommandsInFlight > 0 \/ robotFrom = connection
    PROVE  ClientInv'
  <1> USE DEF client, clientMain, clientWs, clientShared
  <1>1. clientAt # "waiting" => CommandsInFlight \in Nat
    BY InFlightType
  <1>2. LoadInv'
    <2>1. clientAt # "waiting" => Load' <= Load /\ Load' \in Int /\ Load \in Int
      BY <1>1 DEF Load, Preparing, Writing, One
    <2>2. clientAt = "connecting" \/ (Opening /\ overlap = "none")
              => CommandsInFlight' = 0 /\ robotFrom' # connection
      BY <1>1 DEF ClientInv, LoadInv, Opening
    <2> QED
      BY <2>1, <2>2 DEF ClientInv, LoadInv, Opening, Running
  <1>3. KeptInv'
    BY <1>1 DEF ClientInv, KeptInv, Running
  <1> QED
    BY <1>2, <1>3 DEF ClientInv

(* The robot obeys the same command, or another connection's.               *)
LEMMA ServerCurrent ==
    ASSUME ClientInv, ServerInv', UNCHANGED client,
           robotFrom' = connection => UNCHANGED <<robotFrom, robotCommand>>,
           clientAt # "waiting" =>
               /\ Acks(down'[connection]) <= Acks(down[connection])
               /\ \A v : Carries(up[connection], v) => Carries(up'[connection], v)
    PROVE  CurrentInv'
  <1> USE DEF client, clientMain, clientWs, clientShared
  <1>1. clientAt # "waiting" => /\ Acks(down[connection]) \in Nat
                                /\ Acks(down'[connection]) \in Nat
    <2>1. clientAt # "waiting" => connection \in Conn /\ connection' \in Conn
      BY InFlightType
    <2> QED
      BY <2>1, CountType DEF ClientInv, ServerInv, LinkTypes, Wires, Acks
  <1> QED
    BY <1>1 DEF ClientInv, CurrentInv, Running

(* The main thread's steps touch no wire, but for its write.                *)
LEMMA ServerQuiet ==
    ASSUME ClientInv, ServerInv', UNCHANGED <<client, serverWs, up>>,
           clientAt # "waiting" =>
               /\ Acks(down'[connection]) = Acks(down[connection])
               /\ connection \in connections => Tokens(connection)' = Tokens(connection),
           \A d \in Conn : d \notin connections => down'[d] = down[d]
    PROVE  ClientInv'
  <1> USE DEF serverWs
  <1>1. connection' = connection /\ clientAt' = clientAt
    BY DEF client, clientWs
  <1>2. clientAt # "waiting" => CommandsInFlight' = CommandsInFlight /\ CommandsInFlight \in Nat
    BY <1>1, InFlightType DEF CommandsInFlight
  <1>3. \A d \in Conn : d > connection => down'[d] = down[d]
    <2>1. connections \subseteq 1 .. connection /\ connection \in 0 .. MaxConnections
      BY DEF ClientInv, PlaceInv
    <2>2. \A d \in 1 .. connection : ~(d > connection)
      BY <2>1
    <2> QED
      BY <2>1, <2>2
  <1>4. PlaceInv' /\ OverlapInv'
    <2>1. /\ connections \subseteq 1 .. connection /\ connections \cap closed = {}
          /\ robotFrom \in 0 .. connection
      BY DEF ClientInv, PlaceInv
    <2> QED
      BY <1>3, <2>1, ServerPlace
  <1>5. CurrentInv'
    <2>1. clientAt # "waiting" => Acks(down[connection]) \in Nat
      BY InFlightType, Counts DEF ClientInv, ServerInv
    <2> QED
      BY <2>1, ServerCurrent
  <1>6. clientAt # "waiting" /\ connection \in connections => Tokens(connection)' > 0
    BY DEF ClientInv, KeptInv
  <1> QED
    BY <1>1, <1>2, <1>4, <1>5, <1>6, ServerKeeps

LEMMA ServerUpdates == ASSUME ClientInv, ServerUpdate PROVE ClientInv'
  <1>1. UNCHANGED <<client, serverAt, sendTo, serverWs, serverShared, network>>
    BY DEF ServerUpdate
  <1>2. ServerInv'
    BY Updates DEF ClientInv
  <1>3. UNCHANGED <<connection, up, down, connections, connectionState, serverAt, sendTo>>
    BY <1>1 DEF client, clientWs, serverWs, serverShared, network
  <1> QED
    BY <1>1, <1>2, <1>3, QuietCounts, ServerQuiet

LEMMA ServerChecks == ASSUME ClientInv, NEW c \in Conn, ServerCheck(c) PROVE ClientInv'
  <1>1. /\ serverAt = "loop" /\ serverAt' \in {"loop", "prepare"}
        /\ connectionState' = Looked(connectionState, c, FALSE)
        /\ UNCHANGED <<client, serverWs, up, down>>
    BY DEF ServerCheck, network
  <1>2. ServerInv'
    BY Checks DEF ClientInv
  <1>3. /\ Flag(connection)' <=> Flag(connection)
        /\ ~Posting(connection) /\ ~Posting(connection)'
    BY <1>1 DEF Looked, Assigned, Flag, Posting, client, clientWs
  <1>4. Tokens(connection)' = Tokens(connection)
    BY <1>1, <1>3 DEF Tokens, One, client, clientWs
  <1> QED
    BY <1>1, <1>2, <1>4, ServerQuiet

LEMMA ServerPrepares == ASSUME ClientInv, ServerPrepare PROVE ClientInv'
  <1>1. /\ serverAt = "prepare" /\ UNCHANGED <<client, sendTo, serverWs, up, down>>
        /\ \/ serverAt' = "loop" /\ connectionState' = connectionState
           \/ serverAt' = "post" /\ connectionState' = Assigned(connectionState, sendTo, FALSE)
    BY DEF ServerPrepare, SentReady, network
  <1>2. ServerInv'
    BY Prepares DEF ClientInv
  <1>3. clientAt # "waiting" /\ connection \in connections
            => Tokens(connection)' = Tokens(connection)
    <2> SUFFICES ASSUME clientAt # "waiting", connection \in connections
                 PROVE  Tokens(connection)' = Tokens(connection)
      OBVIOUS
    <2>1. connection' = connection
      BY <1>1 DEF client, clientWs
    <2>2. States(down[connection]) \in Nat /\ Acks(up[connection]) \in Nat
      BY InFlightType, Counts DEF ClientInv, ServerInv
    <2>3. One(Flag(connection)') + One(Posting(connection)') = One(Flag(connection)) + One(Posting(connection))
      <3>1. CASE serverAt' = "post" /\ sendTo = connection
        <4>1. Flag(connection) /\ ~Posting(connection)
          BY <1>1, <3>1 DEF ClientInv, ServerInv, HeldInv, Posting
        <4>2. ~Flag(connection)' /\ Posting(connection)'
          BY <1>1, <2>1, <3>1 DEF Flag, Posting, Assigned
        <4> QED
          BY <4>1, <4>2 DEF One
      <3>2. CASE ~(serverAt' = "post" /\ sendTo = connection)
        <4>1. ~Posting(connection) /\ ~Posting(connection)'
          BY <1>1, <2>1, <3>2 DEF Posting
        <4>2. Flag(connection)' <=> Flag(connection)
          BY <1>1, <2>1, <3>2 DEF Flag, Assigned
        <4> QED
          BY <4>1, <4>2 DEF One
      <3> QED
        BY <3>1, <3>2
    <2> QED
      BY <1>1, <2>1, <2>2, <2>3 DEF Tokens, One
  <1> QED
    BY <1>1, <1>2, <1>3, ServerQuiet DEF client, clientWs

LEMMA ServerWrites == ASSUME ClientInv, ServerPost PROVE ClientInv'
  <1> DEFINE c == connection
             holds == ClientHolds(sendTo) /\ sendTo \in connections
  <1>1. /\ serverAt = "post" /\ serverAt' = "loop"
        /\ down' = Put(down, sendTo, State(current), holds)
        /\ UNCHANGED <<client, sendTo, serverWs, connectionState, up>>
    BY DEF ServerPost, PutDown, serverShared
  <1>2. ServerInv'
    BY Posts DEF ClientInv
  <1>3. /\ down \in Wires /\ State(current) \in Message /\ State(current) # Ack
        /\ connections \subseteq Conn
    BY MessageTypes DEF ClientInv, ServerInv, LinkTypes
  <1>4. holds \in BOOLEAN /\ (holds => sendTo \in connections)
    BY DEF ClientHolds
  <1>5. clientAt # "waiting" /\ sendTo = c /\ c \in connections => holds
    BY DEF ClientHolds
  <1> HIDE DEF holds
  <1>6. /\ \A d \in Conn : d # sendTo => down'[d] = down[d]
        /\ ~holds => down' = down
        /\ holds => /\ Acks(down'[sendTo]) = Acks(down[sendTo]) + One(State(current) = Ack)
                    /\ States(down'[sendTo]) = States(down[sendTo]) + One(State(current) # Ack)
    BY <1>1, <1>3, <1>4, Sent
  <1>7. clientAt # "waiting" =>
            /\ Acks(down'[c]) = Acks(down[c])
            /\ c \in connections => Tokens(c)' = Tokens(c)
    <2> SUFFICES ASSUME clientAt # "waiting"
                 PROVE  /\ Acks(down'[c]) = Acks(down[c])
                        /\ c \in connections => Tokens(c)' = Tokens(c)
      OBVIOUS
    <2>1. /\ c \in Conn /\ c' = c
          /\ Acks(up[c]) \in Nat /\ States(down[c]) \in Nat /\ Acks(down[c]) \in Nat
      BY <1>1, InFlightType, Counts DEF ClientInv, ServerInv, client, clientWs
    <2>2. (Flag(c)' <=> Flag(c)) /\ ~Posting(c)' /\ (Posting(c) <=> sendTo = c)
      BY <1>1, <2>1 DEF Flag, Posting
    <2>3. holds /\ sendTo = c => /\ Acks(down'[c]) = Acks(down[c])
                                 /\ States(down'[c]) = States(down[c]) + 1
      BY <1>3, <1>6, <2>1 DEF One
    <2>4. ~(holds /\ sendTo = c) => down'[c] = down[c]
      BY <1>6, <2>1
    <2>5. c \in connections => Tokens(c)' = Tokens(c)
      <3>1. CASE sendTo = c /\ c \in connections
        <4>1. /\ One(Posting(c)) = 1 /\ One(Posting(c)') = 0
              /\ One(Flag(c)') = One(Flag(c)) /\ One(Flag(c)) \in Nat
          BY <2>2, <3>1 DEF One
        <4>2. States(down'[c]) = States(down[c]) + 1 /\ up'[c] = up[c]
          BY <1>1, <1>5, <2>3, <3>1
        <4> QED
          BY <2>1, <4>1, <4>2 DEF Tokens
      <3>2. CASE sendTo # c
        BY <1>1, <2>1, <2>2, <2>4, <3>2 DEF Tokens, One
      <3> QED
        BY <3>1, <3>2
    <2> QED
      BY <2>3, <2>4, <2>5
  <1>8. \A d \in Conn : d \notin connections => down'[d] = down[d]
    BY <1>4, <1>6
  <1> QED
    BY <1>1, <1>2, <1>7, <1>8, ServerQuiet

(* on_open on a connection the client holds puts its token on the wire.     *)
LEMMA ServerOpens == ASSUME ClientInv, NEW c \in Conn, ServerOpen(c) PROVE ClientInv'
  <1>1. /\ c \in 1 .. connection \ (connections \cup closed) /\ connections' = connections \cup {c}
        /\ down' = Put(down, c, State(current), ClientHolds(c))
        /\ UNCHANGED <<client, serverMain, closed, robotCommand, robotFrom, up>>
    BY DEF ServerOpen
  <1>2. ServerInv'
    BY Opens DEF ClientInv
  <1>3. /\ down \in Wires /\ State(current) \in Message /\ State(current) # Ack
        /\ ClientHolds(c) \in BOOLEAN
    BY MessageTypes DEF ClientInv, ServerInv, LinkTypes, ClientHolds
  <1>4. connection' = connection
    BY <1>1 DEF client, clientWs
  <1>5. /\ \A d \in Conn : d # c => down'[d] = down[d]
        /\ ClientHolds(c) => /\ Acks(down'[c]) = Acks(down[c]) + One(State(current) = Ack)
                             /\ States(down'[c]) = States(down[c]) + One(State(current) # Ack)
        /\ ~ClientHolds(c) => down' = down
    BY <1>1, <1>3, Sent
  <1>6. \A d \in Conn : Acks(down'[d]) = Acks(down[d])
    <2>1. Acks(down[c]) \in Nat
      BY Counts DEF ClientInv, ServerInv
    <2> QED
      BY <1>3, <1>5, <2>1 DEF One
  <1>7. PlaceInv' /\ OverlapInv'
    <2>1. connections' \subseteq 1 .. connection /\ connections' \cap closed' = {}
      BY <1>1 DEF ClientInv, PlaceInv
    <2>2. robotFrom' \in 0 .. connection
      BY <1>1 DEF ClientInv, PlaceInv
    <2>3. \A d \in Conn : d > connection => d # c
      BY <1>1 DEF ClientInv, PlaceInv
    <2> QED
      BY <1>1, <1>5, <2>1, <2>2, <2>3, ServerPlace
  <1>8. clientAt # "waiting" => connection \in Conn
    BY InFlightType
  <1>9. CurrentInv'
    <2>1. clientAt # "waiting" => Acks(down[connection]) \in Nat
      BY <1>8, Counts DEF ClientInv, ServerInv
    <2> QED
      BY <1>1, <1>2, <1>6, <1>8, <2>1, ServerCurrent
  <1>10. clientAt # "waiting" => CommandsInFlight' = CommandsInFlight /\ CommandsInFlight \in Nat
    BY <1>1, <1>4, <1>6, <1>8, InFlightType DEF CommandsInFlight
  <1>11. clientAt # "waiting" /\ connection \in connections' => Tokens(connection)' > 0
    <2> SUFFICES ASSUME clientAt # "waiting", connection \in connections'
                 PROVE  Tokens(connection)' > 0
      OBVIOUS
    <2>0. /\ States(down'[connection]) \in Nat /\ Acks(up'[connection]) \in Nat
          /\ One(Flag(connection)') \in Nat /\ One(Posting(connection)') \in Nat
      <3>1. connection' \in Conn
        BY <1>4, <1>8
      <3> QED
        BY <1>2, <1>4, <3>1, CountType DEF ServerInv, LinkTypes, Wires, Acks, States, One
    <2>1. CASE connection = c
      <3>1. States(down'[c]) = States(down[c]) + 1 /\ States(down[c]) \in Nat
        BY <1>3, <1>5, <2>1, Counts DEF ClientInv, ServerInv, ClientHolds, One
      <3> QED
        BY <1>4, <2>0, <2>1, <3>1 DEF Tokens
    <2>2. CASE connection # c
      <3>1. connection \in connections /\ down'[connection] = down[connection]
        BY <1>1, <1>5, <1>8, <2>2
      <3>2. (Flag(connection)' <=> Flag(connection)) /\ (Posting(connection)' <=> Posting(connection))
        <4>1. connectionState' = Assigned(connectionState, c, FALSE)
          BY DEF ServerOpen, OpenedReady
        <4> QED
          BY <1>1, <1>4, <2>2, <4>1 DEF Flag, Posting, Assigned, serverMain
      <3>3. Tokens(connection)' = Tokens(connection)
        BY <1>1, <1>4, <3>1, <3>2 DEF Tokens, One
      <3> QED
        BY <3>1, <3>3 DEF ClientInv, KeptInv
    <2> QED
      BY <2>1, <2>2
  <1> QED
    BY <1>1, <1>2, <1>7, <1>9, <1>10, <1>11, ServerKeeps

LEMMA ServerCloses == ASSUME ClientInv, NEW c \in Conn, ServerClose(c) PROVE ClientInv'
  <1>1. /\ c \in connections /\ connections' = connections \ {c} /\ closed' = closed \cup {c}
        /\ connectionState' = Restrict(connectionState, DOMAIN connectionState \ {c})
        /\ up' = [up EXCEPT ![c] = <<>>]
        /\ UNCHANGED <<client, serverMain, robotCommand, robotFrom>>
    BY DEF ServerClose, Break
  <1>2. PICK k \in 0 .. Len(down[c]) : down' = [down EXCEPT ![c] = SubSeq(down[c], 1, k)]
    BY DEF ServerClose, Break
  <1>3. ServerInv'
    BY Closes DEF ClientInv
  <1>4. /\ up \in Wires /\ down \in Wires /\ c \in 1 .. connection
        /\ connection' = connection /\ clientAt' = clientAt
    BY <1>1 DEF ClientInv, ServerInv, LinkTypes, PlaceInv, client, clientWs
  <1>5. /\ \A d \in Conn : d # c => up'[d] = up[d] /\ down'[d] = down[d]
        /\ States(up'[c]) = 0 /\ Acks(down'[c]) <= Acks(down[c])
        /\ \A v : Carries(up'[c], v)
    <2>1. /\ \A d \in Conn : d # c => up'[d] = up[d]
          /\ States(up'[c]) = 0 /\ \A v : Carries(up'[c], v)
      <3>1. up'[c] = <<>> /\ \A d \in Conn : d # c => up'[d] = up[d]
        BY <1>1, <1>4 DEF Wires
      <3> QED
        BY <3>1, Emptied
    <2>2. /\ \A d \in Conn : d # c => down'[d] = down[d]
          /\ Acks(down'[c]) <= Acks(down[c])
      <3>1. Cuts(down', down, c)
        BY <1>2, <1>4, CutIs
      <3> QED
        BY <1>4, <3>1, Broken
    <2> QED
      BY <2>1, <2>2
  <1>6. PlaceInv' /\ OverlapInv'
    <2>1. connections' \subseteq 1 .. connection /\ connections' \cap closed' = {}
      BY <1>1 DEF ClientInv, PlaceInv
    <2>2. robotFrom' \in 0 .. connection
      BY <1>1 DEF ClientInv, PlaceInv
    <2>3. \A d \in Conn : d > connection => d # c
      BY <1>4 DEF ClientInv, PlaceInv
    <2> QED
      BY <1>1, <1>5, <2>1, <2>2, <2>3, ServerPlace
  <1>7. clientAt # "waiting" =>
            /\ connection \in Conn /\ connection' \in Conn /\ CommandsInFlight \in Nat
            /\ Acks(down[connection]) \in Nat /\ States(up[connection]) \in Nat
            /\ Acks(down'[connection]) \in Nat
    <2>1. clientAt # "waiting" => connection \in Conn /\ connection' \in Conn
                                 /\ CommandsInFlight \in Nat
      BY <1>4, InFlightType
    <2>2. clientAt # "waiting" => Acks(down[connection]) \in Nat /\ States(up[connection]) \in Nat
      BY <2>1, Counts DEF ClientInv, ServerInv
    <2>3. clientAt # "waiting" => Acks(down'[connection]) \in Nat
      BY <1>3, <1>4, <2>1, CountType DEF ServerInv, LinkTypes, Wires, Acks
    <2> QED
      BY <2>1, <2>2, <2>3
  <1>8. CurrentInv'
    <2>1. clientAt # "waiting" =>
              /\ Acks(down'[connection]) <= Acks(down[connection])
              /\ \A v : Carries(up[connection], v) => Carries(up'[connection], v)
      BY <1>5, <1>7
    <2> QED
      BY <1>1, <1>3, <2>1, ServerCurrent
  <1>9. clientAt # "waiting" =>
            /\ CommandsInFlight' \in Nat /\ CommandsInFlight' <= CommandsInFlight
            /\ connection # c => CommandsInFlight' = CommandsInFlight
    <2> SUFFICES ASSUME clientAt # "waiting"
                 PROVE  /\ CommandsInFlight' \in Nat /\ CommandsInFlight' <= CommandsInFlight
                        /\ connection # c => CommandsInFlight' = CommandsInFlight
      OBVIOUS
    <2>1. CommandsInFlight' = States(up'[connection]) + Acks(down'[connection])
      BY <1>4 DEF CommandsInFlight
    <2>2. CASE connection # c
      BY <1>5, <1>7, <2>1, <2>2 DEF CommandsInFlight
    <2>3. CASE connection = c
      BY <1>5, <1>7, <2>1, <2>3 DEF CommandsInFlight
    <2> QED
      BY <2>2, <2>3
  <1>10. clientAt # "waiting" /\ connection \in connections' => Tokens(connection)' > 0
    <2> SUFFICES ASSUME clientAt # "waiting", connection \in connections, connection # c
                 PROVE  Tokens(connection)' > 0
      BY <1>1
    <2>1. (Flag(connection)' <=> Flag(connection)) /\ (Posting(connection)' <=> Posting(connection))
      BY <1>1, <1>4 DEF Flag, Posting, Restrict, serverMain
    <2>2. Tokens(connection)' = Tokens(connection)
      BY <1>4, <1>5, <1>7, <2>1 DEF Tokens, One
    <2> QED
      BY <2>2 DEF ClientInv, KeptInv
  <1> QED
    BY <1>1, <1>3, <1>6, <1>8, <1>9, <1>10, ServerKeeps

(* The robot takes an ack, which is its token, or obeys a state and answers *)
(* it: the client's token comes back as long as the client holds its end.   *)
LEMMA ServerReads == ASSUME ClientInv, NEW c \in Conn, ServerMessage(c) PROVE ClientInv'
  <1> DEFINE m == Head(up[c])
             b == m # Ack
             holds == b /\ ClientHolds(c)
  <1>1. /\ c \in connections /\ up[c] # <<>>
        /\ connectionState' = IF b THEN connectionState ELSE Assigned(connectionState, c, TRUE)
        /\ IF m \in {Ack, State(NoValue)}
           THEN UNCHANGED <<robotCommand, robotFrom>>
           ELSE robotCommand' = m.value /\ robotFrom' = c
        /\ up' = [up EXCEPT ![c] = Tail(up[c])]
        /\ UNCHANGED <<client, serverMain, connections, closed>>
    BY DEF ServerMessage
  <1>2. ServerInv'
    BY Handles DEF ClientInv
  <1>3. /\ up \in Wires /\ down \in Wires /\ Ack \in Message
        /\ holds \in BOOLEAN /\ connectionState \in [DOMAIN connectionState -> BOOLEAN]
    BY MessageTypes DEF ClientInv, ServerInv, LinkTypes, ClientHolds
  <1>4. down' = Put(down, c, Ack, holds)
    BY <1>1 DEF ServerMessage, Answers, Answer, PutDown, Put
  <1>5. /\ connection' = connection /\ clientAt' = clientAt /\ c \in 1 .. connection
        /\ connection \in 0 .. MaxConnections /\ c \notin closed
    BY <1>1 DEF ClientInv, PlaceInv, client, clientWs
  <1>6. /\ m \in Message
        /\ \A d \in Conn : d # c => up'[d] = up[d]
        /\ Acks(up[c]) = Acks(up'[c]) + One(m = Ack)
        /\ States(up[c]) = States(up'[c]) + One(m # Ack)
        /\ \A v : Carries(up[c], v) => m \in {Ack, State(v)} /\ Carries(up'[c], v)
    <2>1. up[c] # <<>>
      BY <1>1
    <2>2. Takes(up', up, c)
      BY <1>1, <1>3, TakeIs
    <2> QED
      BY <1>3, <2>1, <2>2, Taken DEF Takes
  <1>7. /\ \A d \in Conn : d # c => down'[d] = down[d]
        /\ ~holds => down'[c] = down[c]
        /\ holds => /\ Acks(down'[c]) = Acks(down[c]) + 1
                    /\ States(down'[c]) = States(down[c])
    <2> HIDE DEF holds
    <2>1. /\ \A d \in Conn : d # c => down'[d] = down[d]
          /\ ~holds => down' = down
          /\ holds => /\ Acks(down'[c]) = Acks(down[c]) + One(Ack = Ack)
                      /\ States(down'[c]) = States(down[c]) + One(Ack # Ack)
      BY <1>3, <1>4, Sent
    <2>2. States(down[c]) \in Nat
      BY Counts DEF ClientInv, ServerInv
    <2> QED
      BY <2>1, <2>2 DEF One
  <1>8. clientAt # "waiting" => (ClientHolds(c) <=> c = connection)
    BY DEF ClientHolds
  <1>9. clientAt # "waiting" =>
            /\ connection \in Conn /\ connection' \in Conn /\ CommandsInFlight \in Nat
            /\ Acks(down[connection]) \in Nat /\ States(down[connection]) \in Nat
            /\ Acks(up[connection]) \in Nat /\ States(up[connection]) \in Nat
            /\ Acks(up'[connection]) \in Nat /\ States(up'[connection]) \in Nat
    <2> SUFFICES ASSUME clientAt # "waiting"
                 PROVE  /\ connection \in Conn /\ connection' \in Conn /\ CommandsInFlight \in Nat
                        /\ Acks(down[connection]) \in Nat /\ States(down[connection]) \in Nat
                        /\ Acks(up[connection]) \in Nat /\ States(up[connection]) \in Nat
                        /\ Acks(up'[connection]) \in Nat /\ States(up'[connection]) \in Nat
      OBVIOUS
    <2>1. connection \in Conn /\ connection' \in Conn /\ CommandsInFlight \in Nat
      BY <1>5, InFlightType
    <2>2. /\ Acks(down[connection]) \in Nat /\ States(down[connection]) \in Nat
          /\ Acks(up[connection]) \in Nat /\ States(up[connection]) \in Nat
      BY <2>1, Counts DEF ClientInv, ServerInv
    <2>3. Acks(up'[connection]) \in Nat /\ States(up'[connection]) \in Nat
      BY <1>2, <1>5, <2>1, CountType DEF ServerInv, LinkTypes, Wires, Acks, States
    <2> QED
      BY <2>1, <2>2, <2>3
  <1> HIDE DEF m, holds
  <1>10. PlaceInv' /\ OverlapInv'
    <2>1. connections' \subseteq 1 .. connection /\ connections' \cap closed' = {}
      BY <1>1 DEF ClientInv, PlaceInv
    <2>2. robotFrom' \in 0 .. connection
      BY <1>1, <1>5 DEF ClientInv, PlaceInv
    <2>3. \A d \in Conn : d > connection => d # c
      BY <1>5
    <2> QED
      BY <1>1, <1>6, <1>7, <2>1, <2>2, <2>3, ServerPlace
  <1>11. clientAt # "waiting" => CommandsInFlight' = CommandsInFlight
    <2> SUFFICES ASSUME clientAt # "waiting" PROVE CommandsInFlight' = CommandsInFlight
      OBVIOUS
    <2>1. CommandsInFlight' = States(up'[connection]) + Acks(down'[connection])
      BY <1>5 DEF CommandsInFlight
    <2>2. CASE connection # c
      BY <1>6, <1>7, <1>9, <2>1, <2>2 DEF CommandsInFlight
    <2>3. CASE connection = c
      <3>1. holds <=> m # Ack
        BY <1>8, <2>3 DEF holds
      <3> QED
        BY <1>6, <1>7, <1>9, <2>1, <2>3, <3>1 DEF CommandsInFlight, One
    <2> QED
      BY <2>2, <2>3
  <1>12. clientAt # "waiting" /\ connection \in connections' => Tokens(connection)' > 0
    <2> SUFFICES ASSUME clientAt # "waiting", connection \in connections
                 PROVE  Tokens(connection)' > 0
      BY <1>1
    <2>0. Tokens(connection) > 0
      BY DEF ClientInv, KeptInv
    <2>1. Posting(connection)' <=> Posting(connection)
      BY <1>1, <1>5 DEF Posting, serverMain
    <2>2. States(down'[connection]) = States(down[connection])
      BY <1>7, <1>9
    <2>3. CASE connection # c \/ m # Ack
      <3>1. Flag(connection)' <=> Flag(connection)
        BY <1>1, <1>5, <2>3 DEF Flag, Assigned
      <3>2. Acks(up'[connection]) = Acks(up[connection])
        BY <1>6, <1>9, <2>3 DEF One
      <3>3. Tokens(connection)' = Tokens(connection)
        BY <1>5, <2>1, <2>2, <3>1, <3>2 DEF Tokens, One
      <3> QED
        BY <2>0, <3>3
    <2>4. CASE connection = c /\ m = Ack
      <3>1. Flag(connection)'
        BY <1>1, <1>5, <2>4 DEF Flag, Assigned
      <3> QED
        BY <1>5, <1>9, <2>1, <2>2, <3>1 DEF Tokens, One
    <2> QED
      BY <2>3, <2>4
  <1>13. robotFrom' = connection /\ clientAt # "waiting"
             => CommandsInFlight > 0 \/ robotFrom = connection
    <2>1. CASE m \in {Ack, State(NoValue)}
      BY <1>1, <2>1
    <2>2. CASE m \notin {Ack, State(NoValue)} /\ c # connection
      BY <1>1, <2>2
    <2>3. CASE clientAt # "waiting" /\ m # Ack /\ c = connection
      <3>1. States(up[connection]) = States(up'[connection]) + 1
        BY <1>6, <2>3 DEF One
      <3> QED
        BY <1>9, <2>3, <3>1 DEF CommandsInFlight
    <2> QED
      BY <2>1, <2>2, <2>3
  <1>14. CurrentInv'
    <2>1. CASE c # connection
      <3>1. robotFrom' = connection => UNCHANGED <<robotFrom, robotCommand>>
        BY <1>1, <2>1
      <3>2. clientAt # "waiting" =>
                /\ Acks(down'[connection]) <= Acks(down[connection])
                /\ \A v : Carries(up[connection], v) => Carries(up'[connection], v)
        BY <1>6, <1>7, <1>9, <2>1
      <3> QED
        BY <1>1, <1>2, <3>1, <3>2, ServerCurrent
    <2>2. CASE c = connection /\ m = Ack
      <3>1. UNCHANGED <<robotFrom, robotCommand>> /\ ~holds
        BY <1>1, <2>2 DEF holds
      <3>2. clientAt # "waiting" =>
                /\ Acks(down'[connection]) <= Acks(down[connection])
                /\ \A v : Carries(up[connection], v) => Carries(up'[connection], v)
        BY <1>6, <1>7, <1>9, <2>2, <3>1
      <3> QED
        BY <1>1, <1>2, <3>1, <3>2, ServerCurrent
    <2>3. CASE c = connection /\ m # Ack
      <3>1. UNCHANGED <<overlap, clientAt, opened, clientConnectionData, connection, sendAt, toRobot,
                        clientReady>>
        BY <1>1 DEF client, clientMain, clientWs, clientShared
      <3>2. ASSUME overlap = "none", Running
            PROVE  /\ Carries(up'[connection], clientConnectionData)
                   /\ robotFrom' = connection => clientConnectionData # NoValue
                   /\ robotFrom' = connection => robotCommand' = clientConnectionData
        <4>1. /\ Carries(up[connection], clientConnectionData)
              /\ robotFrom = connection => clientConnectionData # NoValue
          BY <3>2 DEF ClientInv, CurrentInv
        <4>2. m = State(clientConnectionData) /\ Carries(up'[connection], clientConnectionData)
          BY <1>6, <2>3, <4>1
        <4>3. CASE m = State(NoValue)
          <5>1. clientConnectionData = NoValue
            BY <4>2, <4>3 DEF State
          <5> QED
            BY <1>1, <4>1, <4>2, <4>3, <5>1
        <4>4. CASE m # State(NoValue)
          <5>1. robotFrom' = c /\ robotCommand' = m.value
            BY <1>1, <2>3, <4>4
          <5> QED
            BY <4>2, <4>4, <5>1 DEF State
        <4> QED
          BY <4>3, <4>4
      <3> QED
        BY <3>1, <3>2 DEF ClientInv, CurrentInv, Running
    <2> QED
      BY <2>1, <2>2, <2>3
  <1> QED
    BY <1>1, <1>2, <1>9, <1>10, <1>11, <1>12, <1>13, <1>14, ServerKeeps

-----------------------------------------------------------------------------
LEMMA ClientInductive == ClientInv /\ [Next]_vars => ClientInv'
  <1> SUFFICES ASSUME ClientInv, [Next]_vars PROVE ClientInv'
    OBVIOUS
  <1>1. CASE ClientLoop
    BY <1>1, ClientUpdates, ClientChecks, ClientPrepares, ClientClears, ClientWrites DEF ClientLoop
  <1>2. CASE Connect \/ ClientBreak
    BY <1>2, Connects, ClientCloses
  <1>3. CASE ClientHandler
    BY <1>3, OpensConnected, OpensData, OpensState, OpensSend, ClientReads DEF ClientHandler
  <1>4. CASE \E c \in Conn : ServerOpen(c) \/ ServerMessage(c) \/ ServerClose(c)
    BY <1>4, ServerOpens, ServerReads, ServerCloses
  <1>5. CASE ServerLoop
    BY <1>5, ServerUpdates, ServerChecks, ServerPrepares, ServerWrites DEF ServerLoop
  <1>6. CASE UNCHANGED vars
    <2>1. UNCHANGED <<client, server, network>>
      BY <1>6 DEF vars
    <2>2. UNCHANGED <<client, serverAt, sendTo, serverWs, serverShared, network>>
      BY <2>1 DEF server, serverMain
    <2>3. UNCHANGED <<connection, up, down, connections, connectionState, serverAt, sendTo>>
      BY <2>2 DEF client, clientWs, serverWs, serverShared, network
    <2>4. ServerInv'
      BY ServerInductive DEF ClientInv
    <2> QED
      BY <2>2, <2>3, <2>4, QuietCounts, ServerQuiet
  <1> QED
    BY <1>1, <1>2, <1>3, <1>4, <1>5, <1>6 DEF Next

(* The client's flag, its send() and on_open, and the commands on the wires,*)
(* over any number of connections made and broken (network.cpp).            *)
THEOREM ClientInvariance == Spec => []ClientInv
  BY ClientInitial, ClientInductive, PTL DEF Spec

(* The client has at most one command in flight, and two only on a          *)
(* connection whose on_open met a send() of the main thread.                *)
THEOREM FewCommands == Spec => []CommandsBounded
  <1>1. ClientInv => CommandsBounded
    <2> SUFFICES ASSUME ClientInv, clientAt = "running"
                 PROVE  CommandsInFlight <= IF overlap = "none" THEN 1 ELSE 2
      BY DEF CommandsBounded
    <2>1. CommandsInFlight \in Nat
      BY InFlightType
    <2> QED
      BY <2>1 DEF ClientInv, LoadInv, Load, Running, One
  <1> QED
    BY <1>1, ClientInvariance, PTL

(* A client that is ready and idle is obeyed: the robot's command is the    *)
(* one the client remembers, unless a send() met on_open or the robot has   *)
(* since handled a late command of an earlier connection.                   *)
THEOREM RobotObeys == Spec => []CommandCurrent
  <1>1. ClientInv => CommandCurrent
    BY DEF ClientInv, CurrentInv, CommandCurrent, Running, Sending
  <1> QED
    BY <1>1, ClientInvariance, PTL

(* Neither end waits for an acknowledgement that is not coming, except a    *)
(* client whose send() began on an earlier connection and outlasted it.     *)
THEOREM NobodyStalls == Spec => []NothingStalls
  <1>1. ClientInv => NothingStalls
    <2> SUFFICES ASSUME ClientInv PROVE ClientNotStalled /\ ServerNotStalled
      BY DEF NothingStalls
    <2>1. ClientNotStalled
      BY DEF ClientInv, KeptInv, ClientNotStalled, Running
    <2>2. ServerNotStalled
      <3> SUFFICES ASSUME clientAt = "running", connection \in connections, ~Posting(connection),
                          ~Flag(connection)
                   PROVE  States(down[connection]) + Acks(up[connection]) > 0
        BY DEF ServerNotStalled, Posting, Flag
      <3>1. Tokens(connection) > 0
        BY DEF ClientInv, KeptInv
      <3>2. States(down[connection]) \in Nat /\ Acks(up[connection]) \in Nat
        BY InFlightType, Counts DEF ClientInv, ServerInv
      <3> QED
        BY <3>1, <3>2 DEF Tokens, One
    <2> QED
      BY <2>1, <2>2
  <1> QED
    BY <1>1, ClientInvariance, PTL

-----------------------------------------------------------------------------
(* Each direction implements FlowControl, step by step: with what is read   *)
(* off the wires as the mapping, every action of ControlLink is one of      *)
(* FlowControl's or leaves its variables alone.                             *)

(* What the mapping reads off the wires is bounded also where an end has    *)
(* left: behind the server's close, and behind the client's break.          *)
LeftInv ==
    /\ closed \subseteq Conn
    /\ \A c \in closed : States(down[c]) <= 1
    /\ clientAt = "waiting" /\ connection # 0 /\ overlap = "none" => CommandsInFlight <= 1

FlowInv == ClientInv /\ LeftInv

-----------------------------------------------------------------------------
(* What one change of a wire does to the values it carries.                 *)

LEMMA ValuesNone ==
    /\ Values(<<>>) = {}
    /\ \A wire \in Seq(Message) : States(wire) = 0 => Values(wire) = {}
  <1>1. \A wire \in Seq(Message) : States(wire) = 0 => Values(wire) = {}
    <2> TAKE wire \in Seq(Message)
    <2> SUFFICES ASSUME States(wire) = 0 PROVE Values(wire) = {}
      OBVIOUS
    <2>1. DOMAIN wire = 1 .. Len(wire)
      OBVIOUS
    <2>2. \A i \in DOMAIN wire : wire[i] = Ack
      BY <2>1, NoStates
    <2> QED
      BY <2>2 DEF Values
  <1>2. <<>> \in Seq(Message) /\ States(<<>>) = 0
    BY Emptied, EmptySeq
  <1> QED
    BY <1>1, <1>2

LEMMA ValuesAppend ==
    ASSUME NEW wire \in Seq(Message), NEW m \in Message, m # Ack
    PROVE  Values(Append(wire, m)) = Values(wire) \cup {m.value}
  <1> DEFINE new == Append(wire, m)
  <1>1. /\ DOMAIN wire = 1 .. Len(wire) /\ DOMAIN new = 1 .. Len(wire) + 1
        /\ Len(wire) \in Nat /\ new[Len(wire) + 1] = m
        /\ \A i \in 1 .. Len(wire) : new[i] = wire[i]
    OBVIOUS
  <1> HIDE DEF new
  <1>2. ASSUME NEW v \in Values(new)
        PROVE  v \in Values(wire) \/ v = m.value
    <2>1. PICK i \in DOMAIN new : new[i] # Ack /\ v = new[i].value
      BY <1>2 DEF Values
    <2>2. CASE i \in 1 .. Len(wire)
      BY <1>1, <2>1, <2>2 DEF Values
    <2>3. CASE i = Len(wire) + 1
      BY <1>1, <2>1, <2>3
    <2> QED
      BY <1>1, <2>2, <2>3
  <1>3. Values(wire) \subseteq Values(new) /\ m.value \in Values(new)
    BY <1>1 DEF Values
  <1>4. Values(new) = Values(wire) \cup {m.value}
    BY <1>2, <1>3
  <1> QED
    BY <1>4 DEF new

LEMMA ValuesAppendAck ==
    ASSUME NEW wire \in Seq(Message)
    PROVE  Values(Append(wire, Ack)) = Values(wire)
  <1> DEFINE new == Append(wire, Ack)
  <1>1. /\ DOMAIN wire = 1 .. Len(wire) /\ DOMAIN new = 1 .. Len(wire) + 1
        /\ Len(wire) \in Nat /\ new[Len(wire) + 1] = Ack
        /\ \A i \in 1 .. Len(wire) : new[i] = wire[i]
    BY MessageTypes
  <1> HIDE DEF new
  <1>2. Values(new) \subseteq Values(wire)
    <2> SUFFICES ASSUME NEW i \in DOMAIN new, new[i] # Ack PROVE new[i].value \in Values(wire)
      BY DEF Values
    <2>1. i \in 1 .. Len(wire)
      BY <1>1
    <2> QED
      BY <1>1, <2>1 DEF Values
  <1>3. Values(wire) \subseteq Values(new)
    BY <1>1 DEF Values
  <1> QED
    BY <1>2, <1>3 DEF new

LEMMA PutCounts ==
    ASSUME NEW wires \in Wires, NEW c \in Conn, NEW m \in Message, NEW new, new = Put(wires, c, m, TRUE)
    PROVE  /\ new \in Wires /\ new[c] = Append(wires[c], m)
           /\ Acks(new[c]) = Acks(wires[c]) + (IF m = Ack THEN 1 ELSE 0)
           /\ States(new[c]) = States(wires[c]) + (IF m = Ack THEN 0 ELSE 1)
  <1>1. new = [wires EXCEPT ![c] = Append(wires[c], m)] /\ wires[c] \in Seq(Message)
    BY WireCounts DEF Put
  <1>2. \A M : /\ Append(wires[c], m) \in Seq(Message)
               /\ Count(Append(wires[c], m), M) = Count(wires[c], M) + (IF m \in M THEN 1 ELSE 0)
    BY <1>1, CountAppend
  <1>3. new \in Wires /\ new[c] = Append(wires[c], m)
    BY <1>1, <1>2 DEF Wires
  <1>4. Count(new[c], {Ack}) = Count(wires[c], {Ack}) + (IF m = Ack THEN 1 ELSE 0)
    BY <1>2, <1>3
  <1>5. Count(new[c], Message \ {Ack}) = Count(wires[c], Message \ {Ack}) + (IF m = Ack THEN 0 ELSE 1)
    <2>1. m \in Message \ {Ack} <=> m # Ack
      OBVIOUS
    <2>2. Count(Append(wires[c], m), Message \ {Ack})
              = Count(wires[c], Message \ {Ack}) + (IF m \in Message \ {Ack} THEN 1 ELSE 0)
      BY <1>2
    <2> QED
      BY <1>3, <2>1, <2>2
  <1> QED
    BY <1>3, <1>4, <1>5 DEF Acks, States

LEMMA ValuesPut ==
    ASSUME NEW wires \in Wires, NEW c \in Conn, NEW m \in Message, m # Ack,
           NEW new, new = Put(wires, c, m, TRUE)
    PROVE  Values(new[c]) = Values(wires[c]) \cup {m.value}
  <1>1. new[c] = Append(wires[c], m) /\ wires[c] \in Seq(Message)
    BY PutCounts, WireCounts
  <1> QED
    BY <1>1, ValuesAppend

LEMMA ValuesPutAck ==
    ASSUME NEW wires \in Wires, NEW c \in Conn, NEW new, new = Put(wires, c, Ack, TRUE)
    PROVE  Values(new[c]) = Values(wires[c])
  <1>1. Ack \in Message
    BY MessageTypes
  <1>2. new[c] = Append(wires[c], Ack) /\ wires[c] \in Seq(Message)
    BY <1>1, PutCounts, WireCounts
  <1> QED
    BY <1>2, ValuesAppendAck

LEMMA ValuesTaken ==
    ASSUME NEW wires \in Wires, NEW c \in Conn, wires[c] # <<>>, NEW new,
           new = [wires EXCEPT ![c] = Tail(wires[c])]
    PROVE  /\ Head(wires[c]) \in Message
           /\ new \in Wires /\ \A d \in Conn : d # c => new[d] = wires[d]
           /\ Acks(wires[c]) = Acks(new[c]) + (IF Head(wires[c]) = Ack THEN 1 ELSE 0)
           /\ States(wires[c]) = States(new[c]) + (IF Head(wires[c]) = Ack THEN 0 ELSE 1)
           /\ Values(new[c]) \subseteq Values(wires[c])
           /\ Head(wires[c]) # Ack => Head(wires[c]).value \in Values(wires[c])
  <1>1. Takes(new, wires, c)
    BY TakeIs
  <1>2. wires[c] \in Seq(Message) /\ new[c] = Tail(wires[c])
    BY <1>1, WireCounts DEF Takes
  <1>3. \A w \in Seq(Message) : w # <<>> =>
            /\ Head(w) = w[1] /\ 1 \in DOMAIN w /\ Len(w) \in Nat
            /\ DOMAIN w = 1 .. Len(w) /\ DOMAIN Tail(w) = 1 .. Len(w) - 1
            /\ \A i \in 1 .. Len(w) - 1 : i + 1 \in 1 .. Len(w) /\ Tail(w)[i] = w[i + 1]
    OBVIOUS
  <1>4. /\ Head(wires[c]) = wires[c][1] /\ 1 \in DOMAIN wires[c] /\ Len(wires[c]) \in Nat
        /\ DOMAIN wires[c] = 1 .. Len(wires[c]) /\ DOMAIN new[c] = 1 .. Len(wires[c]) - 1
        /\ \A i \in 1 .. Len(wires[c]) - 1 :
               i + 1 \in 1 .. Len(wires[c]) /\ new[c][i] = wires[c][i + 1]
    BY <1>2, <1>3
  <1>5. Values(new[c]) \subseteq Values(wires[c])
    BY <1>4 DEF Values
  <1>7. Head(wires[c]) # Ack => Head(wires[c]).value \in Values(wires[c])
    BY <1>4 DEF Values
  <1>8. /\ Head(wires[c]) \in Message
        /\ new \in Wires /\ \A d \in Conn : d # c => new[d] = wires[d]
    BY <1>1, Taken
  <1>9. Acks(wires[c]) = Acks(new[c]) + (IF Head(wires[c]) \in {Ack} THEN 1 ELSE 0)
    BY <1>2, CountTail DEF Acks
  <1>10. States(wires[c]) = States(new[c]) + (IF Head(wires[c]) \in Message \ {Ack} THEN 1 ELSE 0)
    BY <1>2, CountTail DEF States
  <1> QED
    BY <1>5, <1>7, <1>8, <1>9, <1>10

(* An acknowledgement carries nothing.                                      *)
LEMMA ValuesAck ==
    ASSUME NEW wires \in Wires, NEW c \in Conn, wires[c] # <<>>, NEW new,
           new = [wires EXCEPT ![c] = Tail(wires[c])], Head(wires[c]) = Ack
    PROVE  Values(new[c]) = Values(wires[c])
  <1>1. Takes(new, wires, c)
    BY TakeIs
  <1>2. wires[c] \in Seq(Message) /\ new[c] = Tail(wires[c])
    BY <1>1, WireCounts DEF Takes
  <1>3. \A w \in Seq(Message) : w # <<>> =>
            /\ Head(w) = w[1] /\ 1 \in DOMAIN w /\ Len(w) \in Nat
            /\ DOMAIN w = 1 .. Len(w) /\ DOMAIN Tail(w) = 1 .. Len(w) - 1
            /\ \A i \in 1 .. Len(w) - 1 : i + 1 \in 1 .. Len(w) /\ Tail(w)[i] = w[i + 1]
    OBVIOUS
  <1>4. /\ Head(wires[c]) = wires[c][1] /\ 1 \in DOMAIN wires[c] /\ Len(wires[c]) \in Nat
        /\ DOMAIN wires[c] = 1 .. Len(wires[c]) /\ DOMAIN new[c] = 1 .. Len(wires[c]) - 1
        /\ \A i \in 1 .. Len(wires[c]) - 1 :
               i + 1 \in 1 .. Len(wires[c]) /\ new[c][i] = wires[c][i + 1]
    BY <1>2, <1>3
  <1>5. Values(new[c]) \subseteq Values(wires[c])
    BY <1>4 DEF Values
  <1>6. Values(wires[c]) \subseteq Values(new[c])
    <2> SUFFICES ASSUME NEW k \in DOMAIN wires[c], wires[c][k] # Ack
                 PROVE  wires[c][k].value \in Values(new[c])
      BY DEF Values
    <2>1. k - 1 \in 1 .. Len(wires[c]) - 1 /\ new[c][k - 1] = wires[c][k]
      <3>1. k # 1 /\ k \in 1 .. Len(wires[c])
        BY <1>4
      <3>2. k - 1 \in 1 .. Len(wires[c]) - 1 /\ (k - 1) + 1 = k
        BY <1>4, <3>1
      <3> QED
        BY <1>4, <3>2
    <2> QED
      BY <1>4, <2>1 DEF Values
  <1> QED
    BY <1>5, <1>6

LEMMA ValuesCut ==
    ASSUME NEW wires \in Wires, NEW c \in Conn, NEW new, Cuts(new, wires, c)
    PROVE  /\ new \in Wires /\ \A d \in Conn : d # c => new[d] = wires[d]
           /\ Acks(new[c]) <= Acks(wires[c]) /\ States(new[c]) <= States(wires[c])
           /\ Values(new[c]) \subseteq Values(wires[c])
  <1>1. wires[c] \in Seq(Message)
    BY WireCounts
  <1>2. PICK k \in 0 .. Len(wires[c]) : new[c] = SubSeq(wires[c], 1, k)
    BY DEF Cuts
  <1>3. /\ DOMAIN wires[c] = 1 .. Len(wires[c]) /\ DOMAIN new[c] = 1 .. k
        /\ \A i \in 1 .. k : i \in 1 .. Len(wires[c]) /\ new[c][i] = wires[c][i]
    BY <1>1, <1>2
  <1>4. Values(new[c]) \subseteq Values(wires[c])
    BY <1>3 DEF Values
  <1> QED
    BY <1>4, Broken DEF Cuts

-----------------------------------------------------------------------------
(* The wires that end where an end has left carry less and less.            *)

LEMMA LeftInitial == Init => LeftInv
  BY DEF Init, Disconnected, LeftInv

LEMMA LeftQuiet ==
    ASSUME FlowInv, UNCHANGED <<up, down, closed, connection>>,
           clientAt' = "waiting" /\ overlap' = "none" => clientAt = "waiting" /\ overlap = "none"
    PROVE  LeftInv'
  BY DEF FlowInv, LeftInv, CommandsInFlight

(* Less on the wires of the connections closed, and on the last one.        *)
LEMMA LeftLess ==
    ASSUME FlowInv, UNCHANGED <<closed, connection, overlap>>, up' \in Wires, down' \in Wires,
           \A c \in closed : States(down'[c]) <= States(down[c]),
           clientAt' = "waiting" /\ connection # 0 =>
               /\ States(up'[connection]) <= States(up[connection])
               /\ Acks(down'[connection]) <= Acks(down[connection])
               /\ CommandsInFlight <= 1 \/ overlap # "none"
    PROVE  LeftInv'
  <1>1. /\ closed \subseteq Conn /\ \A c \in closed : States(down[c]) <= 1
        /\ connection \in 0 .. MaxConnections /\ up \in Wires /\ down \in Wires
    BY DEF FlowInv, LeftInv, ClientInv, PlaceInv, ServerInv, LinkTypes
  <1>2. \A c \in closed' : States(down'[c]) <= 1
    <2> SUFFICES ASSUME NEW c \in closed PROVE States(down'[c]) <= 1
      OBVIOUS
    <2>1. States(down'[c]) \in Nat /\ States(down[c]) \in Nat
      BY <1>1, WireCounts DEF States
    <2> QED
      BY <1>1, <2>1
  <1>3. ASSUME clientAt' = "waiting", connection' # 0, overlap' = "none"
        PROVE  CommandsInFlight' <= 1
    <2>1. connection \in Conn
      BY <1>1, <1>3 DEF Conn
    <2>2. /\ States(up'[connection]) \in Nat /\ States(up[connection]) \in Nat
          /\ Acks(down'[connection]) \in Nat /\ Acks(down[connection]) \in Nat
      BY <1>1, <2>1, WireCounts DEF States, Acks
    <2>3. /\ States(up'[connection]) <= States(up[connection])
          /\ Acks(down'[connection]) <= Acks(down[connection])
          /\ CommandsInFlight <= 1
      BY <1>3
    <2> QED
      BY <2>2, <2>3 DEF CommandsInFlight
  <1> QED
    BY <1>1, <1>2, <1>3 DEF LeftInv

LEMMA LeftAtBreak == ASSUME FlowInv, ClientBreak PROVE LeftInv'
  <1>1. /\ clientAt \in {"connecting", "running"} /\ connection \in Conn
        /\ CommandsInFlight \in Nat /\ up \in Wires /\ down \in Wires
        /\ UNCHANGED <<closed, connection, overlap>>
        /\ down' = [down EXCEPT ![connection] = <<>>]
        /\ Break(connection, down, up)
    BY InFlightType
       DEF ClientBreak, FlowInv, ClientInv, ServerInv, LinkTypes, Break, server, serverWs
  <1>2. Cuts(down', down, connection) /\ Cuts(up', up, connection)
    BY <1>1, EmptyIs, CutIs DEF Break
  <1>3. /\ \A d \in Conn : States(down'[d]) <= States(down[d])
        /\ States(up'[connection]) <= States(up[connection])
        /\ Acks(down'[connection]) <= Acks(down[connection])
    BY <1>1, <1>2, CutCount DEF States, Acks
  <1>4. overlap = "none" => CommandsInFlight <= 1
    BY <1>1 DEF FlowInv, ClientInv, LoadInv, Load, Running, One
  <1>5. closed \subseteq Conn
    BY DEF FlowInv, LeftInv
  <1> QED
    BY <1>1, <1>2, <1>3, <1>4, <1>5, LeftLess DEF Cuts

LEMMA LeftAtWrite == ASSUME FlowInv, ClientPost \/ OnOpenSend PROVE LeftInv'
  <1>1. UNCHANGED <<closed, connection, overlap, down>> /\ down \in Wires
    BY DEF ClientPost, OnOpenSend, clientWs, server, serverWs, FlowInv, ClientInv, ServerInv, LinkTypes
  <1>2. \A c \in closed : States(down[c]) <= 1
    BY DEF FlowInv, LeftInv
  <1>3. closed \subseteq Conn
    BY DEF FlowInv, LeftInv
  <1>4. CASE clientAt' # "waiting"
    BY <1>1, <1>2, <1>3, <1>4 DEF LeftInv
  <1>5. CASE clientAt' = "waiting"
    <2>1. ClientPost /\ clientAt = "waiting"
      BY <1>5 DEF ClientPost, OnOpenSend, clientWs
    <2>2. up' = up
      BY <2>1 DEF ClientPost, PutUp, Put, ClientHolds
    <2> QED
      BY <1>1, <2>1, <2>2, LeftQuiet
  <1> QED
    BY <1>4, <1>5

LEMMA LeftAtMessage == ASSUME FlowInv, ClientMessage PROVE LeftInv'
  <1>1. /\ clientAt' = "running" /\ down[connection] # <<>> /\ down \in Wires
        /\ UNCHANGED <<closed, connection, overlap>>
        /\ down' = [down EXCEPT ![connection] = Tail(down[connection])]
    BY DEF ClientMessage, FlowInv, ClientInv, ServerInv, LinkTypes, server, serverWs
  <1>2. connection \in Conn
    BY InFlightType DEF FlowInv, ClientMessage
  <1>3. /\ States(down[connection])
               = States(down'[connection]) + (IF Head(down[connection]) = Ack THEN 0 ELSE 1)
        /\ down' \in Wires
    BY <1>1, <1>2, ValuesTaken
  <1>7. \A d \in Conn : d # connection => down'[d] = down[d]
    BY <1>1 DEF Wires
  <1>4. \A d \in Conn : States(down'[d]) \in Nat /\ States(down[d]) \in Nat
    BY <1>1, <1>3, WireCounts DEF States
  <1>5. closed \subseteq Conn /\ \A c \in closed : States(down[c]) <= 1
    BY DEF FlowInv, LeftInv
  <1>6. \A c \in closed : States(down'[c]) <= 1
    <2> TAKE c \in closed
    <2>1. CASE c = connection
      BY <1>2, <1>3, <1>4, <1>5, <2>1
    <2>2. CASE c # connection
      BY <1>7, <1>5, <2>2
    <2> QED
      BY <2>1, <2>2
  <1> QED
    BY <1>1, <1>5, <1>6 DEF LeftInv

LEMMA LeftAtServerWrite ==
    ASSUME FlowInv, ServerPost \/ \E c \in Conn : ServerOpen(c)
    PROVE  LeftInv'
  <1>1. /\ UNCHANGED <<closed, connection, overlap, clientAt, up>>
        /\ down \in Wires /\ closed \subseteq Conn /\ connections \cap closed = {}
        /\ \A c \in closed : States(down[c]) <= 1
    BY DEF ServerPost, ServerOpen, FlowInv, LeftInv, ClientInv, PlaceInv, ServerInv, LinkTypes,
           client, clientWs, serverWs
  <1>2. /\ \A c \in closed : down'[c] = down[c]
        /\ clientAt = "waiting" => down' = down
    <2>1. CASE ServerPost
      <3>1. down' = Put(down, sendTo, State(current), ClientHolds(sendTo) /\ sendTo \in connections)
        BY <2>1 DEF ServerPost, PutDown
      <3> QED
        BY <1>1, <3>1 DEF Put, ClientHolds, Wires
    <2>2. ASSUME NEW c \in Conn, ServerOpen(c)
          PROVE  /\ \A d \in closed : down'[d] = down[d]
                 /\ clientAt = "waiting" => down' = down
      <3>1. down' = Put(down, c, State(current), ClientHolds(c)) /\ c \notin closed
        BY <2>2 DEF ServerOpen
      <3> QED
        BY <1>1, <3>1 DEF Put, ClientHolds, Wires
    <2> QED
      BY <2>1, <2>2
  <1>3. CASE clientAt = "waiting"
    BY <1>1, <1>2, <1>3, LeftQuiet
  <1>4. CASE clientAt # "waiting"
    BY <1>1, <1>2, <1>4 DEF LeftInv
  <1> QED
    BY <1>3, <1>4

LEMMA LeftAtServerMessage == ASSUME FlowInv, NEW c \in Conn, ServerMessage(c) PROVE LeftInv'
  <1>1. /\ UNCHANGED <<closed, connection, overlap, clientAt>>
        /\ down \in Wires /\ up \in Wires /\ closed \subseteq Conn
        /\ \A d \in closed : States(down[d]) <= 1
        /\ c \in connections /\ c \notin closed /\ up[c] # <<>>
        /\ up' = [up EXCEPT ![c] = Tail(up[c])]
    BY DEF ServerMessage, FlowInv, LeftInv, ClientInv, PlaceInv, ServerInv, LinkTypes,
           client, clientWs
  <1>2. /\ \A d \in closed : down'[d] = down[d]
        /\ clientAt = "waiting" => down' = down
    <2>1. down' = down \/ down' = Put(down, c, Ack, ClientHolds(c) /\ c \in connections)
      BY DEF ServerMessage, PutDown, Answer
    <2> QED
      BY <1>1, <2>1 DEF Put, ClientHolds, Wires
  <1>3. \A d \in Conn : States(up'[d]) <= States(up[d])
    <2> TAKE d \in Conn
    <2>1. /\ up' \in Wires
          /\ States(up[c]) = States(up'[c]) + (IF Head(up[c]) = Ack THEN 0 ELSE 1)
      BY <1>1, ValuesTaken
    <2>3. d # c => up'[d] = up[d]
      BY <1>1 DEF Wires
    <2>2. /\ States(up[d]) \in Nat /\ States(up'[d]) \in Nat
          /\ States(up[c]) \in Nat /\ States(up'[c]) \in Nat
      BY <1>1, <2>1, WireCounts DEF States
    <2> QED
      BY <2>1, <2>2, <2>3
  <1>4. CASE clientAt = "waiting"
    <2>1. up' \in Wires
      BY <1>1, ValuesTaken
    <2>2. \A d \in Conn : States(down[d]) \in Nat /\ Acks(down[d]) \in Nat
      BY <1>1, WireCounts DEF States, Acks
    <2>3. connection \in 0 .. MaxConnections /\ (overlap = "none" /\ connection # 0 => CommandsInFlight <= 1)
      BY <1>4 DEF FlowInv, LeftInv, ClientInv, PlaceInv
    <2> QED
      BY <1>1, <1>2, <1>3, <1>4, <2>1, <2>2, <2>3, LeftLess DEF Conn
  <1>5. CASE clientAt # "waiting"
    BY <1>1, <1>2, <1>5 DEF LeftInv
  <1> QED
    BY <1>4, <1>5

LEMMA LeftAtClose == ASSUME FlowInv, NEW c \in Conn, ServerClose(c) PROVE LeftInv'
  <1>1. /\ UNCHANGED <<connection, overlap, clientAt>>
        /\ down \in Wires /\ up \in Wires /\ closed \subseteq Conn
        /\ \A d \in closed : States(down[d]) <= 1
        /\ c \in connections /\ closed' = closed \cup {c}
        /\ up' = [up EXCEPT ![c] = <<>>] /\ Break(c, up, down)
        /\ connection \in 0 .. MaxConnections
    BY DEF ServerClose, Break, FlowInv, LeftInv, ClientInv, PlaceInv, ServerInv, LinkTypes,
           client, clientWs
  <1>2. Cuts(up', up, c) /\ Cuts(down', down, c)
    BY <1>1, EmptyIs, CutIs DEF Break
  <1>3. \A d \in Conn :
            /\ States(down'[d]) <= States(down[d]) /\ States(up'[d]) <= States(up[d])
            /\ Acks(down'[d]) <= Acks(down[d])
    BY <1>1, <1>2, CutCount DEF States, Acks
  <1>4. \A d \in Conn : /\ States(down'[d]) \in Nat /\ States(up'[d]) \in Nat
                        /\ States(down[d]) \in Nat /\ States(up[d]) \in Nat
                        /\ Acks(down'[d]) \in Nat /\ Acks(down[d]) \in Nat
    BY <1>1, <1>2, WireCounts DEF States, Acks, Cuts
  <1>5. States(down[c]) <= 1
    <2>1. Tokens(c) <= 1
      BY <1>1 DEF FlowInv, ClientInv, ServerInv, TokenInv
    <2> QED
      BY <2>1, TokensType DEF FlowInv, ClientInv, ServerInv, Tokens
  <1>6. \A d \in closed' : d \in Conn /\ States(down'[d]) <= 1
    BY <1>1, <1>3, <1>4, <1>5
  <1>7. ASSUME clientAt' = "waiting", connection' # 0, overlap' = "none"
        PROVE  CommandsInFlight' <= 1
    <2>1. connection \in Conn /\ CommandsInFlight <= 1
      BY <1>1, <1>7 DEF FlowInv, LeftInv, Conn
    <2> QED
      BY <1>1, <1>3, <1>4, <2>1 DEF CommandsInFlight
  <1> QED
    BY <1>6, <1>7 DEF LeftInv

LEMMA LeftStep == FlowInv /\ [Next]_vars => LeftInv'
  <1> SUFFICES ASSUME FlowInv, [Next]_vars PROVE LeftInv'
    OBVIOUS
  <1> USE DEF client, clientMain, clientWs, clientShared, server, serverMain, serverWs,
              serverShared, network
  <1>1. CASE ClientUpdate \/ ClientCheck \/ ClientPrepare \/ ClientClear \/ Connect
    <2>1. CASE Connect
      BY <2>1 DEF Connect, FlowInv, LeftInv
    <2>2. CASE ClientUpdate \/ ClientCheck \/ ClientPrepare \/ ClientClear
      <3>1. UNCHANGED <<up, down, closed, connection, clientAt>>
        BY <2>2 DEF ClientUpdate, ClientCheck, ClientPrepare, ClientClear
      <3>2. overlap' = "none" => overlap = "none"
        BY <2>2 DEF ClientUpdate, ClientCheck, ClientPrepare, ClientClear
      <3> QED
        BY <3>1, <3>2, LeftQuiet
    <2> QED
      BY <1>1, <2>1, <2>2
  <1>2. CASE OnOpenConnected \/ OnOpenData \/ OnOpenState
    <2>1. UNCHANGED <<up, down, closed, connection>> /\ clientAt' # "waiting"
      BY <1>2 DEF OnOpenConnected, OnOpenData, OnOpenState
    <2> QED
      BY <2>1, LeftQuiet
  <1>3. CASE ServerUpdate \/ ServerPrepare \/ (\E c \in Conn : ServerCheck(c)) \/ UNCHANGED vars
    <2>1. UNCHANGED <<up, down, closed, connection, clientAt, overlap>>
      BY <1>3 DEF ServerUpdate, ServerPrepare, ServerCheck, vars
    <2> QED
      BY <2>1, LeftQuiet
  <1>4. CASE ClientBreak \/ ClientPost \/ OnOpenSend \/ ClientMessage
    BY <1>4, LeftAtBreak, LeftAtWrite, LeftAtMessage
  <1>5. CASE ServerPost \/ \E c \in Conn : ServerOpen(c) \/ ServerMessage(c) \/ ServerClose(c)
    BY <1>5, LeftAtServerWrite, LeftAtServerMessage, LeftAtClose
  <1> QED
    BY <1>1, <1>2, <1>3, <1>4, <1>5 DEF Next, ClientLoop, ClientHandler, ServerLoop

LEMMA FlowInvariance == Spec => []FlowInv
  <1>1. Init => FlowInv
    BY ClientInitial, LeftInitial DEF FlowInv
  <1>2. FlowInv /\ [Next]_vars => FlowInv'
    BY ClientInductive, LeftStep DEF FlowInv
  <1> QED
    BY <1>1, <1>2, PTL DEF Spec

-----------------------------------------------------------------------------
(* What the mapping reads, and how the steps of FlowControl look in it.     *)

LEMMA LatestIs ==
    ASSUME FlowInv
    PROVE  /\ connection \in 0 .. MaxConnections
           /\ connection # 0 => connection \in Conn
           /\ connection \in Conn => /\ connection # 0
                                     /\ Latest(up) = up[connection]
                                     /\ Latest(down) = down[connection]
           /\ connection = 0 => Latest(up) = <<>> /\ Latest(down) = <<>>
           /\ Acks(Latest(up)) \in Nat /\ Acks(Latest(down)) \in Nat
  <1>1. connection \in 0 .. MaxConnections /\ up \in Wires /\ down \in Wires
    BY DEF FlowInv, ClientInv, PlaceInv, ServerInv, LinkTypes
  <1>2. connection \in Conn <=> connection # 0
    BY <1>1 DEF Conn
  <1>3. connection \in Conn => Acks(up[connection]) \in Nat /\ Acks(down[connection]) \in Nat
    BY <1>1, WireCounts DEF Acks
  <1>4. connection = 0 => Latest(up) = <<>> /\ Latest(down) = <<>>
    BY DEF Latest
  <1>5. connection # 0 => Latest(up) = up[connection] /\ Latest(down) = down[connection]
    BY DEF Latest
  <1>6. CASE connection = 0
    BY <1>1, <1>2, <1>4, <1>6, Emptied
  <1>7. CASE connection # 0
    BY <1>1, <1>2, <1>3, <1>5, <1>7
  <1> QED
    BY <1>6, <1>7

LEMMA LatestSame ==
    ASSUME UNCHANGED connection
    PROVE  /\ up'[connection] = up[connection] => Latest(up)' = Latest(up)
           /\ down'[connection] = down[connection] => Latest(down)' = Latest(down)
  BY DEF Latest

LEMMA TelemetryBreak ==
    ASSUME UNCHANGED <<current, shown>>, telemetryHand' \subseteq telemetryHand,
           Values(Latest(down))' \subseteq Values(Latest(down)),
           Acks(Latest(up))' \in 0 .. Acks(Latest(up))
    PROVE  TelemetryFlow!Next
  BY DEF TelemetryFlow!Next, TelemetryFlow!Break

LEMMA TelemetryStutter ==
    ASSUME UNCHANGED <<current, shown>>, telemetryHand' = telemetryHand,
           Values(Latest(down))' = Values(Latest(down)), Acks(Latest(up))' = Acks(Latest(up))
    PROVE  UNCHANGED TelemetryFlow!vars
  BY DEF TelemetryFlow!vars

LEMMA CommandBreak ==
    ASSUME UNCHANGED <<toRobot, robotCommand>>, commandHand' \subseteq commandHand,
           Values(Latest(up))' \subseteq Values(Latest(up)),
           Acks(Latest(down))' \in 0 .. Acks(Latest(down))
    PROVE  CommandFlow!Next
  BY DEF CommandFlow!Next, CommandFlow!Break

LEMMA CommandStutter ==
    ASSUME UNCHANGED <<toRobot, robotCommand>>, commandHand' = commandHand,
           Values(Latest(up))' = Values(Latest(up)), Acks(Latest(down))' = Acks(Latest(down))
    PROVE  UNCHANGED CommandFlow!vars
  BY DEF CommandFlow!vars

(* A state that is acknowledged or on its way takes the whole connection.   *)
LEMMA TelemetryFree ==
    ASSUME FlowInv, connection \in connections, Flag(connection) \/ Posting(connection)
    PROVE  Values(Latest(down)) = {} /\ Acks(Latest(up)) = 0
  <1>1. connection \in Conn /\ Tokens(connection) <= 1 /\ down \in Wires
    BY DEF FlowInv, ClientInv, ServerInv, LinkTypes, TokenInv
  <1>2. States(down[connection]) = 0 /\ Acks(up[connection]) = 0
    BY <1>1, TokensType DEF FlowInv, ClientInv, ServerInv, Tokens, One
  <1>3. Values(down[connection]) = {}
    BY <1>1, <1>2, ValuesNone DEF Wires
  <1> QED
    BY <1>1, <1>2, <1>3, LatestIs

LEMMA CommandFree ==
    ASSUME FlowInv, connection # 0, CommandsInFlight = 0
    PROVE  Values(Latest(up)) = {} /\ Acks(Latest(down)) = 0
  <1>1. connection \in Conn
    BY LatestIs
  <1>4. up \in Wires
    BY DEF FlowInv, ClientInv, ServerInv, LinkTypes
  <1>2. States(up[connection]) = 0 /\ Acks(down[connection]) = 0
    BY <1>1, Counts DEF FlowInv, ClientInv, ServerInv, CommandsInFlight
  <1>3. Values(up[connection]) = {}
    BY <1>1, <1>2, <1>4, ValuesNone DEF Wires
  <1> QED
    BY <1>1, <1>2, <1>3, LatestIs

-----------------------------------------------------------------------------
(* Telemetry: what each action is in FlowControl.                           *)

LEMMA TelemetryQuiet ==
    ASSUME UNCHANGED <<server, up, down, connection, shown>>
    PROVE  UNCHANGED TelemetryFlow!vars
  <1>1. Latest(up)' = Latest(up) /\ Latest(down)' = Latest(down)
    BY DEF Latest
  <1>2. telemetryHand' = telemetryHand /\ current' = current
    BY DEF telemetryHand, server, serverMain, serverWs
  <1> QED
    BY <1>1, <1>2, TelemetryStutter

LEMMA TelemetryClientWrite ==
    ASSUME FlowInv, ClientPost \/ OnOpenSend
    PROVE  UNCHANGED TelemetryFlow!vars
  <1>1. /\ UNCHANGED <<server, down, connection, shown>>
        /\ {toRobot, opened} \subseteq Command \cup {NoValue} /\ up \in Wires
    BY DEF ClientPost, OnOpenSend, clientWs, FlowInv, ClientInv, ServerInv, LinkTypes
  <1>2. \E c : \E v \in Command \cup {NoValue} :
            up' = Put(up, c, State(v), ClientHolds(c) /\ ServerHolds(c))
    <2>1. CASE ClientPost
      BY <1>1, <2>1 DEF ClientPost, PutUp
    <2>2. CASE OnOpenSend
      BY <1>1, <2>2 DEF OnOpenSend, PutUp
    <2> QED
      BY <2>1, <2>2
  <1>6. PICK c : \E v \in Command \cup {NoValue} :
            up' = Put(up, c, State(v), ClientHolds(c) /\ ServerHolds(c))
    BY <1>2
  <1> DEFINE holds == ClientHolds(c) /\ ServerHolds(c)
  <1>7. PICK m \in Message : m # Ack /\ up' = Put(up, c, m, holds)
    BY <1>6, MessageTypes
  <1>3. holds \in BOOLEAN /\ (holds => c = connection /\ c \in Conn)
    BY InFlightType DEF ClientHolds, ServerHolds, FlowInv
  <1> HIDE DEF holds
  <1>4. Acks(Latest(up))' = Acks(Latest(up))
    <2>1. CASE ~holds
      BY <1>1, <1>7, <2>1 DEF Put, Latest
    <2>2. CASE holds
      <3>1. up' = Put(up, c, m, TRUE) /\ c \in Conn
        BY <1>3, <1>7, <2>2 DEF Put
      <3>2. Acks(up'[c]) = Acks(up[c]) + (IF m = Ack THEN 1 ELSE 0)
        BY <1>1, <3>1, PutCounts
      <3>3. Acks(up[c]) \in Nat
        BY <1>1, <1>3, <2>2, WireCounts DEF Acks
      <3>4. Acks(up'[c]) = Acks(up[c])
        BY <1>7, <3>2, <3>3
      <3> QED
        BY <1>1, <1>3, <2>2, <3>4 DEF Latest
    <2> QED
      BY <2>1, <2>2
  <1>5. telemetryHand' = telemetryHand /\ current' = current /\ Latest(down)' = Latest(down)
    BY <1>1 DEF telemetryHand, Latest, server, serverMain, serverWs
  <1> QED
    BY <1>1, <1>4, <1>5, TelemetryStutter

LEMMA TelemetryConnect == ASSUME FlowInv, Connect PROVE TelemetryFlow!Next
  <1>1. /\ connection' = connection + 1 /\ connection' \in Conn
        /\ UNCHANGED <<server, up, down, shown>>
        /\ connections \subseteq 1 .. connection /\ connection \in Nat
        /\ \A c \in Conn : c > connection => up[c] = <<>> /\ down[c] = <<>>
    BY ControlAssumption
       DEF Connect, FlowInv, ClientInv, PlaceInv, network, Conn
  <1>2. connection' # 0 /\ connection' \notin connections' /\ connection' > connection
    BY <1>1 DEF server, serverWs
  <1>3. Latest(up)' = <<>> /\ Latest(down)' = <<>>
    BY <1>1, <1>2 DEF Latest
  <1>4. telemetryHand' = {} /\ current' = current
    BY <1>1, <1>2 DEF telemetryHand, server, serverMain
  <1>5. Values(Latest(down))' = {} /\ Acks(Latest(up))' = 0
    BY <1>3, ValuesNone, Emptied
  <1>6. Acks(Latest(up)) \in Nat
    BY LatestIs
  <1> QED
    BY <1>1, <1>4, <1>5, <1>6, TelemetryBreak

LEMMA TelemetryDeliver ==
    ASSUME FlowInv, ClientMessage
    PROVE  TelemetryFlow!Next \/ UNCHANGED TelemetryFlow!vars
  <1> DEFINE m == Head(down[connection])
             holds == m # Ack /\ ClientHolds(connection) /\ ServerHolds(connection)
  <1>1. /\ clientAt = "running" /\ down[connection] # <<>> /\ down \in Wires /\ up \in Wires
        /\ UNCHANGED <<server, connection>>
        /\ down' = [down EXCEPT ![connection] = Tail(down[connection])]
        /\ up' = IF m # Ack THEN PutUp(connection, Ack) ELSE up
        /\ shown' = IF m \in {Ack, State(NoValue)} THEN shown ELSE m.value
    BY DEF ClientMessage, FlowInv, ClientInv, ServerInv, LinkTypes, Answers, Answer
  <1>2. connection \in Conn /\ connection # 0
    BY <1>1, InFlightType DEF FlowInv, Conn
  <1>3. /\ m \in Message
        /\ States(down[connection]) = States(down'[connection]) + (IF m = Ack THEN 0 ELSE 1)
        /\ m = Ack => Values(down'[connection]) = Values(down[connection])
        /\ m # Ack => m.value \in Values(down[connection])
    <2>1. m \in Message
      BY <1>1, <1>2, ValuesTaken
    <2>2. States(down[connection]) = States(down'[connection]) + (IF m = Ack THEN 0 ELSE 1)
      BY <1>1, <1>2, ValuesTaken
    <2>5. ASSUME Head(down[connection]) = Ack
          PROVE  Values(down'[connection]) = Values(down[connection])
      BY <1>1, <1>2, <2>5, ValuesAck
    <2>3. m = Ack => Values(down'[connection]) = Values(down[connection])
      BY <2>5
    <2>4. m # Ack => m.value \in Values(down[connection])
      BY <1>1, <1>2, ValuesTaken
    <2> QED
      BY <2>1, <2>2, <2>3, <2>4
  <1>4. down' \in Wires
    BY <1>1, <1>2, ValuesTaken
  <1>5. /\ Latest(up) = up[connection] /\ Latest(down) = down[connection]
        /\ Latest(up)' = up'[connection] /\ Latest(down)' = down'[connection]
    BY <1>1, <1>2 DEF Latest
  <1>6. telemetryHand' = telemetryHand /\ current' = current
    BY <1>1 DEF telemetryHand, server, serverMain, serverWs
  <1>7. CASE m = Ack
    <2>1. up' = up /\ shown' = shown
      BY <1>1, <1>7
    <2> QED
      BY <1>3, <1>5, <1>6, <1>7, <2>1, TelemetryStutter
  <1>8. CASE m # Ack
    <2>1. States(down[connection]) <= 1
      <3>1. CASE connection \in connections
        <4>1. Tokens(connection) <= 1
          BY <3>1 DEF FlowInv, ClientInv, ServerInv, TokenInv
        <4> QED
          BY <1>2, <4>1, TokensType DEF FlowInv, ClientInv, ServerInv, Tokens
      <3>2. CASE connection \in closed
        BY <3>2 DEF FlowInv, LeftInv
      <3>3. CASE Unopened(connection)
        BY <1>1, <1>2, <3>3 DEF FlowInv, ClientInv, ServerInv, FreshInv
      <3> QED
        BY <3>1, <3>2, <3>3 DEF Unopened
    <2>2. /\ States(down[connection]) \in Nat /\ States(down'[connection]) \in Nat
          /\ down'[connection] \in Seq(Message)
      BY <1>1, <1>2, <1>4, WireCounts DEF States
    <2>3. States(down'[connection]) = 0
      BY <1>3, <1>8, <2>1, <2>2
    <2>4. Values(down'[connection]) = {}
      BY <2>2, <2>3, ValuesNone
    <2>5. Acks(up'[connection]) \in {Acks(up[connection]), Acks(up[connection]) + 1}
      <3>1. up' = Put(up, connection, Ack, holds) /\ holds \in BOOLEAN /\ Ack \in Message
        BY <1>1, <1>8, MessageTypes DEF PutUp, ClientHolds, ServerHolds
      <3> HIDE DEF holds
      <3>2. /\ ~holds => up' = up
            /\ holds => up' = Put(up, connection, Ack, TRUE)
        BY <3>1 DEF Put
      <3>3. holds => Acks(up'[connection]) = Acks(up[connection]) + (IF Ack = Ack THEN 1 ELSE 0)
        BY <1>1, <1>2, <3>1, <3>2, PutCounts
      <3> QED
        BY <3>1, <3>2, <3>3
    <2>6. shown' = IF m.value = NoValue THEN shown ELSE m.value
      <3>1. PICK v \in Command \cup Telemetry \cup {NoValue} : m = State(v)
        BY <1>3, <1>8 DEF Message
      <3>2. m.value = v /\ (m = State(NoValue) <=> v = NoValue)
        BY <3>1 DEF State
      <3> QED
        BY <1>1, <1>8, <3>2
    <2>7. TelemetryFlow!Deliver
      BY <1>3, <1>5, <1>6, <1>8, <2>4, <2>5, <2>6 DEF TelemetryFlow!Deliver
    <2> QED
      BY <2>7 DEF TelemetryFlow!Next
  <1> QED
    BY <1>7, <1>8

LEMMA TelemetryAtBreak == ASSUME FlowInv, ClientBreak PROVE TelemetryFlow!Next
  <1>1. /\ clientAt # "waiting" /\ up \in Wires /\ down \in Wires
        /\ UNCHANGED <<server, connection, shown>>
        /\ down' = [down EXCEPT ![connection] = <<>>]
        /\ Break(connection, down, up)
    BY DEF ClientBreak, FlowInv, ClientInv, ServerInv, LinkTypes, Break
  <1>2. connection \in Conn /\ connection # 0
    BY <1>1, InFlightType DEF FlowInv, Conn
  <1>3. Cuts(down', down, connection) /\ Cuts(up', up, connection)
    BY <1>1, EmptyIs, CutIs DEF Break
  <1>4. /\ Acks(up'[connection]) <= Acks(up[connection])
        /\ Values(down'[connection]) \subseteq Values(down[connection])
    BY <1>1, <1>2, <1>3, ValuesCut
  <1>5. Acks(up'[connection]) \in Nat /\ Acks(up[connection]) \in Nat
    BY <1>1, <1>2, <1>3, WireCounts DEF Acks, Cuts
  <1>6. /\ Latest(up) = up[connection] /\ Latest(down) = down[connection]
        /\ Latest(up)' = up'[connection] /\ Latest(down)' = down'[connection]
    BY <1>1, <1>2 DEF Latest
  <1>7. telemetryHand' = telemetryHand /\ current' = current
    BY <1>1 DEF telemetryHand, server, serverMain, serverWs
  <1>8. Acks(Latest(up))' \in 0 .. Acks(Latest(up))
    BY <1>4, <1>5, <1>6
  <1> QED
    BY <1>1, <1>4, <1>6, <1>7, <1>8, TelemetryBreak

LEMMA TelemetryOpens ==
    ASSUME FlowInv, NEW c \in Conn, ServerOpen(c)
    PROVE  TelemetryFlow!Next \/ UNCHANGED TelemetryFlow!vars
  <1>1. /\ Unopened(c) /\ connections' = connections \cup {c}
        /\ down' = Put(down, c, State(current), ClientHolds(c))
        /\ UNCHANGED <<current, serverAt, sendTo, up, connection, shown>>
        /\ down \in Wires /\ current \in Telemetry \cup {NoValue}
    BY DEF ServerOpen, Unopened, client, clientWs, serverMain, FlowInv, ClientInv, ServerInv, LinkTypes
  <1>2. down[c] = <<>> /\ Acks(up[c]) = 0 /\ (serverAt # "loop" => sendTo # c)
    BY <1>1 DEF FlowInv, ClientInv, ServerInv, FreshInv
  <1>3. telemetryHand' = telemetryHand
    BY <1>1, <1>2 DEF telemetryHand
  <1>4. CASE ~ClientHolds(c)
    <2>1. down' = down
      BY <1>1, <1>4 DEF Put
    <2>2. Latest(up)' = Latest(up) /\ Latest(down)' = Latest(down)
      BY <1>1, <2>1 DEF Latest
    <2> QED
      BY <1>1, <1>3, <2>2, TelemetryStutter
  <1>5. CASE ClientHolds(c)
    <2>1. c = connection /\ connection # 0
      BY <1>5 DEF ClientHolds, Conn
    <2>2. down' = Put(down, c, State(current), TRUE)
      BY <1>1, <1>5 DEF Put
    <2>3. current \in Command \cup Telemetry \cup {NoValue} /\ down \in Wires
      BY <1>1
    <2>4. /\ State(current) \in Message /\ State(current) # Ack
          /\ Values(down'[c]) = Values(down[c]) \cup {State(current).value}
      BY <2>2, <2>3, MessageTypes, ValuesPut
    <2>5. Values(down[c]) = {}
      BY <1>2, ValuesNone
    <2>6. Values(down'[c]) = {current}
      BY <2>4, <2>5 DEF State
    <2>7. /\ Latest(up) = up[c] /\ Latest(down) = down[c]
          /\ Latest(up)' = up[c] /\ Latest(down)' = down'[c]
      BY <1>1, <2>1 DEF Latest
    <2>8. telemetryHand = {}
      BY <1>2, <2>1 DEF telemetryHand
    <2>9. TelemetryFlow!TakeAndSend
      BY <1>1, <1>2, <1>3, <2>5, <2>6, <2>7, <2>8 DEF TelemetryFlow!TakeAndSend, TelemetryFlow!Idle
    <2> QED
      BY <2>9 DEF TelemetryFlow!Next
  <1> QED
    BY <1>4, <1>5

LEMMA TelemetryReads ==
    ASSUME FlowInv, NEW c \in Conn, ServerMessage(c)
    PROVE  TelemetryFlow!Next \/ UNCHANGED TelemetryFlow!vars
  <1>1. /\ up[c] # <<>> /\ up' = [up EXCEPT ![c] = Tail(up[c])]
        /\ down' = down \/ \E holds \in BOOLEAN : down' = Put(down, c, Ack, holds)
        /\ UNCHANGED <<current, serverAt, sendTo, connections, connection, shown>>
        /\ down \in Wires /\ up \in Wires
    BY DEF ServerMessage, PutDown, Answer, ClientHolds, client, clientWs, serverMain,
           FlowInv, ClientInv, ServerInv, LinkTypes
  <1>2. telemetryHand' = telemetryHand
    BY <1>1 DEF telemetryHand
  <1>3. Values(Latest(down))' = Values(Latest(down))
    <2>1. CASE down' = down
      BY <1>1, <2>1 DEF Latest
    <2>2. CASE down' = Put(down, c, Ack, TRUE) /\ c = connection
      <3>3. Values(down'[c]) = Values(down[c])
        BY <1>1, <2>2, ValuesPutAck
      <3>4. Latest(down) = down[c] /\ Latest(down)' = down'[c]
        BY <1>1, <2>2, LatestIs DEF Latest
      <3> QED
        BY <3>3, <3>4
    <2>3. CASE down' = Put(down, c, Ack, TRUE) /\ c # connection
      <3>1. connection # 0 => connection \in Conn
        BY LatestIs
      <3>2. connection \in Conn => down'[connection] = down[connection]
        BY <1>1, <2>3 DEF Put, Wires
      <3> QED
        BY <1>1, <3>1, <3>2 DEF Latest
    <2> QED
      BY <1>1, <2>1, <2>2, <2>3 DEF Put
  <1>4. CASE c # connection
    <2>1. connection # 0 => connection \in Conn
      BY LatestIs
    <2>2. connection \in Conn => up'[connection] = up[connection]
      BY <1>1, <1>4 DEF Wires
    <2>3. Latest(up)' = Latest(up)
      BY <1>1, <2>1, <2>2 DEF Latest
    <2> QED
      BY <1>1, <1>2, <1>3, <2>3, TelemetryStutter
  <1>5. CASE c = connection
    <2>1. Latest(up) = up[c] /\ Latest(up)' = up'[c]
      BY <1>1, <1>5 DEF Latest, Conn
    <2>2. Acks(up[c]) = Acks(up'[c]) + (IF Head(up[c]) = Ack THEN 1 ELSE 0) /\ up' \in Wires
      BY <1>1, ValuesTaken
    <2>3. Acks(up[c]) \in Nat /\ Acks(up'[c]) \in Nat
      BY <1>1, <2>2, WireCounts DEF Acks
    <2>4. CASE Head(up[c]) = Ack
      <3>1. Acks(Latest(up)) > 0 /\ Acks(Latest(up))' = Acks(Latest(up)) - 1
        BY <2>1, <2>2, <2>3, <2>4
      <3>2. TelemetryFlow!Acknowledge
        BY <1>1, <1>2, <1>3, <3>1 DEF TelemetryFlow!Acknowledge
      <3> QED
        BY <3>2 DEF TelemetryFlow!Next
    <2>5. CASE Head(up[c]) # Ack
      <3>1. Acks(Latest(up))' = Acks(Latest(up))
        BY <2>1, <2>2, <2>3, <2>5
      <3> QED
        BY <1>1, <1>2, <1>3, <3>1, TelemetryStutter
    <2> QED
      BY <2>4, <2>5
  <1> QED
    BY <1>4, <1>5

LEMMA TelemetryCloses ==
    ASSUME FlowInv, NEW c \in Conn, ServerClose(c)
    PROVE  TelemetryFlow!Next
  <1>1. /\ down \in Wires /\ up \in Wires /\ connections' \subseteq connections
        /\ up' = [up EXCEPT ![c] = <<>>] /\ Break(c, up, down)
        /\ UNCHANGED <<current, serverAt, sendTo, connection, shown>>
    BY DEF ServerClose, Break, client, clientWs, serverMain, FlowInv, ClientInv, ServerInv, LinkTypes
  <1>2. Cuts(up', up, c) /\ Cuts(down', down, c)
    BY <1>1, EmptyIs, CutIs DEF Break
  <1>3. telemetryHand' \subseteq telemetryHand
    BY <1>1 DEF telemetryHand
  <1>4. \A d \in Conn : Values(down'[d]) \subseteq Values(down[d]) /\ Acks(up'[d]) <= Acks(up[d])
    <2> TAKE d \in Conn
    <2>1. CASE d = c
      <3>1. Values(down'[c]) \subseteq Values(down[c])
        BY <1>1, <1>2, ValuesCut
      <3>2. Acks(up'[c]) <= Acks(up[c])
        BY <1>1, <1>2, ValuesCut
      <3> QED
        BY <2>1, <3>1, <3>2
    <2>2. CASE d # c
      <3>1. down'[d] = down[d] /\ up'[d] = up[d]
        BY <1>2, <2>2 DEF Cuts
      <3>2. Acks(up[d]) \in Nat
        BY <1>1, WireCounts DEF Acks
      <3> QED
        BY <3>1, <3>2
    <2> QED
      BY <2>1, <2>2
  <1>5. Values(Latest(down))' \subseteq Values(Latest(down)) /\ Acks(Latest(up))' \in 0 .. Acks(Latest(up))
    <2>1. CASE connection = 0
      <3>1. Latest(up) = <<>> /\ Latest(down) = <<>> /\ Latest(up)' = <<>> /\ Latest(down)' = <<>>
        BY <1>1, <2>1 DEF Latest
      <3> QED
        BY <3>1, Emptied
    <2>2. CASE connection # 0
      <3>1. connection \in Conn
        BY <2>2, LatestIs
      <3>2. Acks(up'[connection]) \in Nat /\ Acks(up[connection]) \in Nat
        BY <1>1, <1>2, <3>1, WireCounts DEF Acks, Cuts
      <3>3. /\ Latest(up) = up[connection] /\ Latest(down) = down[connection]
            /\ Latest(up)' = up'[connection] /\ Latest(down)' = down'[connection]
        BY <1>1, <2>2 DEF Latest
      <3> QED
        BY <1>4, <3>1, <3>2, <3>3
    <2> QED
      BY <2>1, <2>2
  <1> QED
    BY <1>1, <1>3, <1>5, TelemetryBreak

LEMMA TelemetryLoops ==
    ASSUME FlowInv, ServerUpdate \/ ServerPrepare \/ \E c \in Conn : ServerCheck(c)
    PROVE  TelemetryFlow!Next \/ UNCHANGED TelemetryFlow!vars
  <1>1. /\ UNCHANGED <<up, down, connection, shown, connections>>
        /\ telemetryHand = {}
    BY DEF ServerUpdate, ServerPrepare, ServerCheck, client, clientWs, serverWs, network, telemetryHand
  <1>2. Latest(up)' = Latest(up) /\ Latest(down)' = Latest(down)
    BY <1>1 DEF Latest
  <1>3. CASE ServerUpdate
    <2>1. telemetryHand' = {} /\ current' \in Telemetry
      BY <1>3 DEF ServerUpdate, telemetryHand
    <2>2. TelemetryFlow!Update
      BY <1>1, <1>2, <2>1 DEF TelemetryFlow!Update
    <2> QED
      BY <2>2 DEF TelemetryFlow!Next
  <1>4. CASE \E c \in Conn : ServerCheck(c)
    <2>1. telemetryHand' = {} /\ current' = current
      BY <1>4 DEF ServerCheck, telemetryHand
    <2> QED
      BY <1>1, <1>2, <2>1, TelemetryStutter
  <1>5. CASE ServerPrepare
    <2>1. current' = current /\ sendTo' = sendTo /\ serverAt = "prepare"
      BY <1>5 DEF ServerPrepare
    <2>2. CASE telemetryHand' = {}
      BY <1>1, <1>2, <2>1, <2>2, TelemetryStutter
    <2>3. CASE telemetryHand' # {}
      <3>1. telemetryHand' = {current} /\ sendTo = connection /\ connection \in connections
        BY <1>1, <2>1, <2>3 DEF telemetryHand
      <3>2. Flag(connection)
        BY <2>1, <3>1 DEF FlowInv, ClientInv, ServerInv, HeldInv
      <3>3. Values(Latest(down)) = {} /\ Acks(Latest(up)) = 0
        BY <3>1, <3>2, TelemetryFree
      <3>4. TelemetryFlow!Take
        BY <1>1, <1>2, <2>1, <3>1, <3>3 DEF TelemetryFlow!Take, TelemetryFlow!Idle
      <3> QED
        BY <3>4 DEF TelemetryFlow!Next
    <2> QED
      BY <2>2, <2>3
  <1> QED
    BY <1>3, <1>4, <1>5

LEMMA TelemetryPosts ==
    ASSUME FlowInv, ServerPost
    PROVE  TelemetryFlow!Next \/ UNCHANGED TelemetryFlow!vars
  <1> DEFINE holds == ClientHolds(sendTo) /\ sendTo \in connections
  <1>1. /\ serverAt = "post" /\ serverAt' = "loop"
        /\ down' = Put(down, sendTo, State(current), holds)
        /\ UNCHANGED <<current, sendTo, connections, up, connection, shown>>
        /\ down \in Wires /\ current \in Telemetry \cup {NoValue}
    BY DEF ServerPost, PutDown, client, clientWs, serverWs, FlowInv, ClientInv, ServerInv, LinkTypes
  <1>2. telemetryHand' = {} /\ current' = current /\ shown' = shown /\ Latest(up)' = Latest(up)
    BY <1>1 DEF telemetryHand, Latest
  <1>3. Acks(Latest(up)) \in Nat
    BY LatestIs
  <1>4. CASE ~holds
    <2>1. Latest(down)' = Latest(down)
      BY <1>1, <1>4 DEF Put, Latest
    <2> QED
      BY <1>2, <1>3, <2>1, TelemetryBreak
  <1>5. CASE holds
    <2>1. sendTo = connection /\ connection \in connections /\ connection \in Conn /\ connection # 0
      BY <1>5, InFlightType DEF ClientHolds, FlowInv, Conn
    <2>2. down' = Put(down, connection, State(current), TRUE)
      BY <1>1, <1>5, <2>1 DEF Put
    <2>3. current \in Command \cup Telemetry \cup {NoValue} /\ down \in Wires
      BY <1>1
    <2>4. /\ State(current) \in Message /\ State(current) # Ack
          /\ Values(down'[connection]) = Values(down[connection]) \cup {State(current).value}
      BY <2>1, <2>2, <2>3, MessageTypes, ValuesPut
    <2>5. Values(Latest(down)) = {} /\ Acks(Latest(up)) = 0
      BY <1>1, <2>1, TelemetryFree DEF Posting
    <2>6. Latest(down) = down[connection] /\ Latest(down)' = down'[connection]
      BY <1>1, <2>1 DEF Latest
    <2>7. Values(Latest(down))' = {current}
      BY <2>4, <2>5, <2>6 DEF State
    <2>8. telemetryHand = {current}
      BY <1>1, <2>1 DEF telemetryHand
    <2>9. TelemetryFlow!Send
      BY <1>2, <2>7, <2>8 DEF TelemetryFlow!Send
    <2> QED
      BY <2>9 DEF TelemetryFlow!Next
  <1> QED
    BY <1>4, <1>5

LEMMA TelemetryInitial == Init => TelemetryFlow!Init
  <1> SUFFICES ASSUME Init PROVE TelemetryFlow!Init
    OBVIOUS
  <1>1. Latest(up) = <<>> /\ Latest(down) = <<>> /\ telemetryHand = {}
    BY DEF Init, Disconnected, Latest, telemetryHand
  <1>2. Values(Latest(down)) = {} /\ Acks(Latest(up)) = 0
    BY <1>1, ValuesNone, Emptied
  <1> QED
    BY <1>1, <1>2 DEF TelemetryFlow!Init, Init

LEMMA TelemetryStep == FlowInv /\ [Next]_vars => [TelemetryFlow!Next]_(TelemetryFlow!vars)
  <1> SUFFICES ASSUME FlowInv, [Next]_vars
               PROVE  TelemetryFlow!Next \/ UNCHANGED TelemetryFlow!vars
    OBVIOUS
  <1>1. CASE \/ ClientUpdate \/ ClientCheck \/ ClientPrepare \/ ClientClear
             \/ OnOpenConnected \/ OnOpenData \/ OnOpenState \/ UNCHANGED vars
    <2>1. UNCHANGED <<server, up, down, connection, shown>>
      BY <1>1 DEF ClientUpdate, ClientCheck, ClientPrepare, ClientClear, OnOpenConnected, OnOpenData,
             OnOpenState, vars, client, clientWs, network
    <2> QED
      BY <2>1, TelemetryQuiet
  <1>2. CASE ClientPost \/ OnOpenSend
    BY <1>2, TelemetryClientWrite
  <1>3. CASE Connect \/ ClientMessage \/ ClientBreak
    BY <1>3, TelemetryConnect, TelemetryDeliver, TelemetryAtBreak
  <1>4. CASE \E c \in Conn : ServerOpen(c) \/ ServerMessage(c) \/ ServerClose(c)
    BY <1>4, TelemetryOpens, TelemetryReads, TelemetryCloses
  <1>5. CASE ServerLoop
    BY <1>5, TelemetryLoops, TelemetryPosts DEF ServerLoop
  <1> QED
    BY <1>1, <1>2, <1>3, <1>4, <1>5 DEF Next, ClientLoop, ClientHandler

-----------------------------------------------------------------------------
(* Commands: the same, while no send() meets an on_open.                    *)

(* At most one command is in flight, wherever the client's thread is, and   *)
(* none while it opens a connection or its main thread has the flag.        *)
LEMMA CommandsFew ==
    ASSUME FlowInv, overlap = "none", connection # 0
    PROVE  /\ connection \in Conn /\ CommandsInFlight \in Nat /\ CommandsInFlight <= 1
           /\ Opening \/ (clientAt = "running" /\ Sending) => CommandsInFlight = 0
           /\ (Opening => ~Sending) /\ (clientAt = "running" /\ Sending => sendOn = connection)
  <1>1. connection \in Conn /\ LinkTypes
    BY LatestIs DEF FlowInv, ClientInv, ServerInv
  <1>2. CommandsInFlight \in Nat
    BY <1>1, Counts DEF CommandsInFlight
  <1>3. /\ clientAt \in {"waiting", "connecting", "opened", "copied", "reset", "running"}
        /\ sendAt \in {"update", "check", "prepare", "clear", "post"}
        /\ (Opening => ~Sending) /\ (Open /\ Sending => sendOn = connection)
        /\ clientAt = "connecting" \/ Opening => CommandsInFlight = 0
        /\ Running => Load <= 1
    BY DEF FlowInv, ClientInv, PlaceInv, OverlapInv, LoadInv
  <1>4. clientAt = "waiting" => CommandsInFlight <= 1
    BY DEF FlowInv, LeftInv
  <1>5. One(clientReady \/ Preparing) \in {0, 1} /\ One(Writing) \in {0, 1}
    BY DEF One
  <1>6. clientAt = "running" => CommandsInFlight <= 1
    BY <1>2, <1>3, <1>5 DEF Running, Load
  <1>7. clientAt = "running" /\ Sending => CommandsInFlight = 0 /\ sendOn = connection
    <2> SUFFICES ASSUME clientAt = "running", Sending
                 PROVE  CommandsInFlight = 0 /\ sendOn = connection
      OBVIOUS
    <2>1. sendOn = connection
      BY <1>3 DEF Open
    <2>2. One(clientReady \/ Preparing) = 1 \/ One(Writing) = 1
      BY <2>1 DEF Sending, Preparing, Writing, One
    <2> QED
      BY <1>2, <1>3, <1>5, <2>1, <2>2 DEF Running, Load
  <1> QED
    BY <1>1, <1>2, <1>3, <1>4, <1>6, <1>7 DEF Opening

LEMMA CommandQuiet ==
    ASSUME UNCHANGED <<toRobot, sendAt, clientAt, connection, opened, clientConnectionData,
                       up, down, robotCommand>>
    PROVE  UNCHANGED CommandFlow!vars
  <1>1. Latest(up)' = Latest(up) /\ Latest(down)' = Latest(down)
    BY DEF Latest
  <1>2. commandHand' = commandHand
    BY DEF commandHand
  <1> QED
    BY <1>1, <1>2, CommandStutter

LEMMA CommandLoops ==
    ASSUME FlowInv, overlap = "none",
           ClientUpdate \/ ClientCheck \/ ClientPrepare \/ ClientClear
    PROVE  CommandFlow!Next \/ UNCHANGED CommandFlow!vars
  <1>1. /\ UNCHANGED <<clientAt, connection, opened, up, down, robotCommand>>
        /\ clientAt \in {"waiting", "connecting", "opened", "copied", "reset", "running"}
    BY DEF ClientUpdate, ClientCheck, ClientPrepare, ClientClear, clientWs, server, serverWs, network,
           FlowInv, ClientInv, PlaceInv
  <1>2. Latest(up)' = Latest(up) /\ Latest(down)' = Latest(down)
    BY <1>1 DEF Latest
  <1>3. CASE ClientUpdate
    <2>1. commandHand' = commandHand /\ toRobot' \in Command
      BY <1>1, <1>3 DEF ClientUpdate, clientShared, commandHand
    <2>2. CommandFlow!Update
      BY <1>1, <1>2, <2>1 DEF CommandFlow!Update
    <2> QED
      BY <2>2 DEF CommandFlow!Next
  <1>4. CASE ClientCheck
    <2>1. commandHand' = commandHand /\ toRobot' = toRobot
      BY <1>1, <1>4 DEF ClientCheck, clientShared, commandHand
    <2> QED
      BY <1>1, <1>2, <2>1, CommandStutter
  <1>5. CASE ClientClear
    <2>1. commandHand' = commandHand /\ toRobot' = toRobot
      BY <1>1, <1>5 DEF ClientClear, commandHand
    <2> QED
      BY <1>1, <1>2, <2>1, CommandStutter
  <1>6. CASE ClientPrepare
    <2>1. sendAt = "prepare" /\ toRobot' = toRobot /\ sendAt' \in {"update", "clear"}
      BY <1>6 DEF ClientPrepare
    <2>2. clientAt \notin {"opened", "copied", "reset"}
      BY <2>1 DEF FlowInv, ClientInv, OverlapInv, Opening, Sending
    <2>3. commandHand = {} /\ (commandHand' # {} => commandHand' = {toRobot} /\ clientAt = "running")
      BY <1>1, <2>1, <2>2 DEF commandHand
    <2>4. CASE commandHand' = {}
      BY <1>1, <1>2, <2>1, <2>3, <2>4, CommandStutter
    <2>5. CASE commandHand' # {}
      <3>1. connection # 0 /\ clientAt = "running" /\ Sending
        BY <2>1, <2>3, <2>5 DEF FlowInv, ClientInv, PlaceInv, Sending
      <3>2. CommandsInFlight = 0
        BY <3>1, CommandsFew
      <3>3. Values(Latest(up)) = {} /\ Acks(Latest(down)) = 0
        BY <3>1, <3>2, CommandFree
      <3>4. CommandFlow!Take
        BY <1>1, <1>2, <2>1, <2>3, <2>5, <3>3 DEF CommandFlow!Take, CommandFlow!Idle
      <3> QED
        BY <3>4 DEF CommandFlow!Next
    <2> QED
      BY <2>4, <2>5
  <1> QED
    BY <1>3, <1>4, <1>5, <1>6

(* Either end's write of a state to a connection that carries nothing.      *)
LEMMA CommandWrite ==
    ASSUME FlowInv, connection # 0, UNCHANGED <<toRobot, connection, down, robotCommand>>,
           NEW v \in Command \cup {NoValue}, commandHand = {v}, commandHand' = {},
           CommandsInFlight = 0,
           NEW holds, up' = Put(up, connection, State(v), holds)
    PROVE  CommandFlow!Next
  <1>1. Values(Latest(up)) = {} /\ Acks(Latest(down)) = 0 /\ Latest(down)' = Latest(down)
    BY CommandFree DEF Latest
  <1>2. CASE up' = up
    <2>1. Latest(up)' = Latest(up)
      BY <1>2 DEF Latest
    <2>2. commandHand' \subseteq commandHand /\ Values(Latest(up))' \subseteq Values(Latest(up))
      BY <2>1
    <2>3. Acks(Latest(down))' \in 0 .. Acks(Latest(down))
      BY <1>1
    <2> QED
      BY <2>2, <2>3, CommandBreak
  <1>3. CASE up' = Put(up, connection, State(v), TRUE)
    <2>1. connection \in Conn /\ up \in Wires
      BY LatestIs DEF FlowInv, ClientInv, ServerInv, LinkTypes
    <2>2. v \in Command \cup Telemetry \cup {NoValue}
      OBVIOUS
    <2>7. State(v) \in Message /\ State(v) # Ack
      BY <2>2, MessageTypes
    <2>3. Values(up'[connection]) = Values(up[connection]) \cup {State(v).value}
      <3> DEFINE m == State(v)
      <3>1. up \in Wires /\ connection \in Conn /\ up' = Put(up, connection, m, TRUE)
        BY <1>3, <2>1
      <3>2. m \in Message /\ m # Ack
        BY <2>7
      <3> HIDE DEF m
      <3>3. Values(up'[connection]) = Values(up[connection]) \cup {m.value}
        <4>1. up'[connection] = Append(up[connection], m) /\ up[connection] \in Seq(Message)
          BY <3>1, <3>2, PutCounts, WireCounts
        <4> QED
          BY <3>2, <4>1, ValuesAppend
      <3> QED
        BY <3>3 DEF m
    <2>4. Latest(up) = up[connection] /\ Latest(up)' = up'[connection]
      BY DEF Latest
    <2>5. Values(Latest(up))' = {v}
      BY <1>1, <2>3, <2>4 DEF State
    <2>6. CommandFlow!Send
      BY <1>1, <2>5 DEF CommandFlow!Send
    <2> QED
      BY <2>6 DEF CommandFlow!Next
  <1> QED
    BY <1>2, <1>3 DEF Put

LEMMA CommandPosts ==
    ASSUME FlowInv, overlap = "none", ClientPost
    PROVE  CommandFlow!Next \/ UNCHANGED CommandFlow!vars
  <1>1. /\ sendAt = "post" /\ sendAt' = "update"
        /\ up' = Put(up, sendOn, State(toRobot), ClientHolds(sendOn) /\ ServerHolds(sendOn))
        /\ UNCHANGED <<toRobot, clientAt, connection, opened, clientConnectionData, down, robotCommand>>
        /\ toRobot \in Command \cup {NoValue}
        /\ clientAt \in {"waiting", "connecting", "opened", "copied", "reset", "running"}
    BY DEF ClientPost, PutUp, clientWs, clientShared, server, serverWs, FlowInv, ClientInv, ServerInv,
           LinkTypes, PlaceInv
  <1>2. Sending /\ clientAt \notin {"opened", "copied", "reset"}
    BY <1>1 DEF FlowInv, ClientInv, OverlapInv, Opening, Sending
  <1>3. CASE clientAt = "running"
    <2>1. connection # 0
      BY <1>3 DEF FlowInv, ClientInv, PlaceInv
    <2>2. CommandsInFlight = 0 /\ sendOn = connection
      BY <1>2, <1>3, <2>1, CommandsFew
    <2>3. commandHand = {toRobot} /\ commandHand' = {}
      BY <1>1, <1>3 DEF commandHand
    <2> QED
      BY <1>1, <2>1, <2>2, <2>3, CommandWrite
  <1>4. CASE clientAt \in {"waiting", "connecting"}
    <2>1. ~ClientHolds(sendOn)
      BY <1>4 DEF FlowInv, ClientInv, PlaceInv, OverlapInv, ClientHolds
    <2>2. up' = up
      BY <1>1, <2>1 DEF Put
    <2>3. commandHand' = commandHand
      BY <1>1, <1>4 DEF commandHand
    <2>4. Latest(up)' = Latest(up) /\ Latest(down)' = Latest(down)
      BY <1>1, <2>2 DEF Latest
    <2> QED
      BY <1>1, <2>3, <2>4, CommandStutter
  <1> QED
    BY <1>1, <1>2, <1>3, <1>4

LEMMA CommandConnect == ASSUME FlowInv, Connect PROVE CommandFlow!Next
  <1>1. /\ connection' = connection + 1 /\ connection' \in Conn /\ connection \in Nat
        /\ UNCHANGED <<toRobot, up, down, robotCommand>>
        /\ clientAt = "waiting" /\ clientAt' = "connecting"
        /\ \A c \in Conn : c > connection => up[c] = <<>> /\ down[c] = <<>>
    BY ControlAssumption
       DEF Connect, FlowInv, ClientInv, PlaceInv, clientMain, server, serverWs, network, Conn
  <1>2. connection' # 0 /\ connection' > connection
    BY <1>1
  <1>3. Latest(up)' = <<>> /\ Latest(down)' = <<>>
    BY <1>1, <1>2 DEF Latest
  <1>4. commandHand' = {}
    BY <1>1 DEF commandHand
  <1>5. Values(Latest(up))' = {} /\ Acks(Latest(down))' = 0
    BY <1>3, ValuesNone, Emptied
  <1>6. Acks(Latest(down)) \in Nat
    BY LatestIs
  <1> QED
    BY <1>1, <1>4, <1>5, <1>6, CommandBreak

LEMMA CommandOpens ==
    ASSUME FlowInv, overlap = "none", OnOpenData \/ OnOpenState \/ OnOpenSend
    PROVE  CommandFlow!Next \/ UNCHANGED CommandFlow!vars
  <1>1. /\ UNCHANGED <<toRobot, sendAt, connection, down, robotCommand>>
        /\ Opening /\ connection # 0 /\ opened \in Command \cup {NoValue}
    BY DEF OnOpenData, OnOpenState, OnOpenSend, clientMain, server, serverWs, network, Opening,
           FlowInv, ClientInv, ServerInv, LinkTypes, PlaceInv
  <1>2. CommandsInFlight = 0 /\ ~Sending
    BY <1>1, CommandsFew
  <1>3. Values(Latest(up)) = {} /\ Acks(Latest(down)) = 0
    BY <1>1, <1>2, CommandFree
  <1>4. CASE OnOpenData
    <2>1. commandHand = {} /\ commandHand' = {toRobot} /\ up' = up
      BY <1>4 DEF OnOpenData, network, commandHand
    <2>2. Latest(up)' = Latest(up) /\ Latest(down)' = Latest(down)
      BY <1>1, <2>1 DEF Latest
    <2>3. CommandFlow!Take
      BY <1>1, <1>3, <2>1, <2>2 DEF CommandFlow!Take, CommandFlow!Idle
    <2> QED
      BY <2>3 DEF CommandFlow!Next
  <1>5. CASE OnOpenState
    <2>1. commandHand' = commandHand /\ up' = up
      BY <1>5 DEF OnOpenState, network, commandHand
    <2>2. Latest(up)' = Latest(up) /\ Latest(down)' = Latest(down)
      BY <1>1, <2>1 DEF Latest
    <2> QED
      BY <1>1, <2>1, <2>2, CommandStutter
  <1>6. CASE OnOpenSend
    <2>1. up' = Put(up, connection, State(opened), ClientHolds(connection) /\ ServerHolds(connection))
      BY <1>6 DEF OnOpenSend, PutUp
    <2>2. sendAt' \notin {"clear", "post"}
      BY <1>1, <1>2 DEF Sending
    <2>3. commandHand = {opened} /\ commandHand' = {}
      BY <1>6, <2>2 DEF OnOpenSend, commandHand
    <2> QED
      BY <1>1, <1>2, <2>1, <2>3, CommandWrite
  <1> QED
    BY <1>4, <1>5, <1>6

LEMMA CommandOpened ==
    ASSUME OnOpenConnected
    PROVE  UNCHANGED CommandFlow!vars
  <1>1. /\ UNCHANGED <<toRobot, connection, up, down, robotCommand>>
        /\ clientAt = "connecting" /\ clientAt' = "opened"
    BY DEF OnOpenConnected, clientMain, server, serverWs, network
  <1>2. commandHand' = commandHand
    BY <1>1 DEF commandHand
  <1>3. Latest(up)' = Latest(up) /\ Latest(down)' = Latest(down)
    BY <1>1 DEF Latest
  <1> QED
    BY <1>1, <1>2, <1>3, CommandStutter

LEMMA CommandReads ==
    ASSUME FlowInv, ClientMessage
    PROVE  CommandFlow!Next \/ UNCHANGED CommandFlow!vars
  <1> DEFINE m == Head(down[connection])
  <1>1. /\ clientAt = "running" /\ down[connection] # <<>> /\ down \in Wires /\ up \in Wires
        /\ UNCHANGED <<toRobot, sendAt, clientAt, connection, opened, clientConnectionData, robotCommand>>
        /\ down' = [down EXCEPT ![connection] = Tail(down[connection])]
        /\ up' = up \/ \E holds \in BOOLEAN : up' = Put(up, connection, Ack, holds)
    BY DEF ClientMessage, FlowInv, ClientInv, ServerInv, LinkTypes, PutUp, Answer, ClientHolds,
           ServerHolds, clientMain, server, serverWs
  <1>2. connection \in Conn /\ connection # 0
    BY <1>1, InFlightType DEF FlowInv, Conn
  <1>3. commandHand' = commandHand
    BY <1>1 DEF commandHand
  <1>4. Acks(down[connection]) = Acks(down'[connection]) + (IF m = Ack THEN 1 ELSE 0) /\ down' \in Wires
    BY <1>1, <1>2, ValuesTaken
  <1>5. Acks(down[connection]) \in Nat /\ Acks(down'[connection]) \in Nat
    BY <1>1, <1>2, <1>4, WireCounts DEF Acks
  <1>6. /\ Latest(up) = up[connection] /\ Latest(down) = down[connection]
        /\ Latest(up)' = up'[connection] /\ Latest(down)' = down'[connection]
    BY <1>1, <1>2 DEF Latest
  <1>7. Values(up'[connection]) = Values(up[connection])
    <2>1. CASE up' = up
      BY <2>1
    <2>2. CASE up' = Put(up, connection, Ack, TRUE)
      BY <1>1, <1>2, <2>2, ValuesPutAck
    <2> QED
      BY <1>1, <2>1, <2>2 DEF Put
  <1>8. CASE m = Ack
    <2>1. Acks(Latest(down)) > 0 /\ Acks(Latest(down))' = Acks(Latest(down)) - 1
      BY <1>4, <1>5, <1>6, <1>8
    <2>2. CommandFlow!Acknowledge
      BY <1>1, <1>3, <1>6, <1>7, <2>1 DEF CommandFlow!Acknowledge
    <2> QED
      BY <2>2 DEF CommandFlow!Next
  <1>9. CASE m # Ack
    <2>1. Acks(Latest(down))' = Acks(Latest(down))
      BY <1>4, <1>5, <1>6, <1>9
    <2> QED
      BY <1>1, <1>3, <1>6, <1>7, <2>1, CommandStutter
  <1> QED
    BY <1>8, <1>9

LEMMA CommandAtBreak == ASSUME FlowInv, ClientBreak PROVE CommandFlow!Next
  <1>1. /\ clientAt # "waiting" /\ clientAt' = "waiting" /\ up \in Wires /\ down \in Wires
        /\ UNCHANGED <<toRobot, connection, robotCommand>>
        /\ down' = [down EXCEPT ![connection] = <<>>]
        /\ Break(connection, down, up)
    BY DEF ClientBreak, FlowInv, ClientInv, ServerInv, LinkTypes, Break, clientMain, server, serverWs
  <1>2. connection \in Conn /\ connection # 0
    BY <1>1, InFlightType DEF FlowInv, Conn
  <1>3. Cuts(down', down, connection) /\ Cuts(up', up, connection)
    BY <1>1, EmptyIs, CutIs DEF Break
  <1>4. /\ Acks(down'[connection]) <= Acks(down[connection])
        /\ Values(up'[connection]) \subseteq Values(up[connection])
    BY <1>1, <1>2, <1>3, ValuesCut
  <1>5. Acks(down'[connection]) \in Nat /\ Acks(down[connection]) \in Nat
    BY <1>1, <1>2, <1>3, WireCounts DEF Acks, Cuts
  <1>6. /\ Latest(up) = up[connection] /\ Latest(down) = down[connection]
        /\ Latest(up)' = up'[connection] /\ Latest(down)' = down'[connection]
    BY <1>1, <1>2 DEF Latest
  <1>7. commandHand' = {}
    BY <1>1 DEF commandHand
  <1>8. Acks(Latest(down))' \in 0 .. Acks(Latest(down))
    BY <1>4, <1>5, <1>6
  <1> QED
    BY <1>1, <1>4, <1>6, <1>7, <1>8, CommandBreak

LEMMA CommandServerWrite ==
    ASSUME FlowInv, ServerPost \/ \E c \in Conn : ServerOpen(c)
    PROVE  UNCHANGED CommandFlow!vars
  <1>1. /\ UNCHANGED <<client, up, robotCommand>> /\ down \in Wires
        /\ current \in Command \cup Telemetry \cup {NoValue}
    BY DEF ServerPost, ServerOpen, serverWs, FlowInv, ClientInv, ServerInv, LinkTypes
  <1>2. \E c \in {sendTo} \cup Conn : \E holds \in BOOLEAN :
            /\ down' = Put(down, c, State(current), holds)
            /\ holds => ClientHolds(c)
    <2>1. CASE ServerPost
      BY <2>1 DEF ServerPost, PutDown, ClientHolds
    <2>2. CASE \E c \in Conn : ServerOpen(c)
      BY <2>2 DEF ServerOpen, ClientHolds
    <2> QED
      BY <2>1, <2>2
  <1>3. PICK c : \E holds \in BOOLEAN :
            down' = Put(down, c, State(current), holds) /\ (holds => ClientHolds(c))
    BY <1>2
  <1>4. Acks(Latest(down))' = Acks(Latest(down))
    <2>1. CASE down' = down
      BY <1>1, <2>1 DEF Latest, client, clientWs
    <2>2. CASE down' = Put(down, c, State(current), TRUE) /\ ClientHolds(c)
      <3>1. c = connection /\ connection \in Conn /\ connection # 0
        BY <2>2, InFlightType DEF ClientHolds, FlowInv, Conn
      <3>2. State(current) \in Message /\ State(current) # Ack
        BY <1>1, MessageTypes
      <3>3. Acks(down'[c]) = Acks(down[c]) + (IF State(current) = Ack THEN 1 ELSE 0)
        BY <1>1, <2>2, <3>1, <3>2, PutCounts
      <3>4. Acks(down[c]) \in Nat
        BY <1>1, <3>1, WireCounts DEF Acks
      <3>5. Latest(down) = down[c] /\ Latest(down)' = down'[c]
        BY <1>1, <3>1 DEF Latest, client, clientWs
      <3> QED
        BY <3>2, <3>3, <3>4, <3>5
    <2> QED
      BY <1>3, <2>1, <2>2 DEF Put
  <1>5. commandHand' = commandHand /\ Latest(up)' = Latest(up) /\ toRobot' = toRobot
    BY <1>1 DEF commandHand, Latest, client, clientMain, clientWs, clientShared
  <1> QED
    BY <1>1, <1>4, <1>5, CommandStutter

LEMMA CommandDelivers ==
    ASSUME FlowInv, overlap = "none", NEW c \in Conn, ServerMessage(c), ~Late
    PROVE  CommandFlow!Next \/ UNCHANGED CommandFlow!vars
  <1> DEFINE m == Head(up[c])
             holds == m # Ack /\ ClientHolds(c) /\ c \in connections
  <1>1. /\ up[c] # <<>> /\ up' = [up EXCEPT ![c] = Tail(up[c])]
        /\ IF m \in {Ack, State(NoValue)}
           THEN UNCHANGED <<robotCommand, robotFrom>>
           ELSE robotCommand' = m.value /\ robotFrom' = c
        /\ UNCHANGED client /\ down \in Wires /\ up \in Wires
    BY DEF ServerMessage, FlowInv, ClientInv, ServerInv, LinkTypes
  <1>2. down' = Put(down, c, Ack, holds)
    BY <1>1 DEF ServerMessage, Answers, Answer, PutDown, Put
  <1>3. /\ commandHand' = commandHand /\ toRobot' = toRobot /\ connection' = connection
        /\ clientAt' = clientAt
    BY <1>1 DEF commandHand, client, clientMain, clientWs, clientShared
  <1>4. CASE c # connection
    <2>1. connection # 0 => connection \in Conn
      BY LatestIs
    <2>2. connection \in Conn => up'[connection] = up[connection] /\ down'[connection] = down[connection]
      BY <1>1, <1>2, <1>4 DEF Wires, Put
    <2>3. Latest(up)' = Latest(up) /\ Latest(down)' = Latest(down)
      BY <1>3, <2>1, <2>2 DEF Latest
    <2>4. robotCommand' = robotCommand
      BY <1>1, <1>3, <1>4 DEF Late
    <2> QED
      BY <1>3, <2>3, <2>4, CommandStutter
  <1>5. CASE c = connection
    <2>1. /\ Latest(up) = up[c] /\ Latest(down) = down[c]
          /\ Latest(up)' = up'[c] /\ Latest(down)' = down'[c] /\ connection # 0
      BY <1>3, <1>5, LatestIs DEF Latest
    <2>2. m \in Message
      BY <1>1, TakeIs, Taken
    <2>3. States(up[c]) = States(up'[c]) + (IF m = Ack THEN 0 ELSE 1) /\ up' \in Wires
      <3>1. up[c] # <<>> /\ up' = [up EXCEPT ![c] = Tail(up[c])] /\ up \in Wires
        BY <1>1
      <3>2. States(up[c]) = States(up'[c]) + (IF Head(up[c]) = Ack THEN 0 ELSE 1)
        BY <3>1, ValuesTaken
      <3>3. up' \in Wires
        BY <3>1, ValuesTaken
      <3> QED
        BY <3>2, <3>3
    <2>4. CASE m = Ack
      <3>1. Values(up'[c]) = Values(up[c])
        BY <1>1, <2>4, ValuesAck
      <3>2. down' = down /\ robotCommand' = robotCommand
        BY <1>1, <1>2, <2>4 DEF Put
      <3> QED
        BY <1>3, <2>1, <3>1, <3>2, CommandStutter
    <2>5. CASE m # Ack
      <3>1. m.value \in Values(up[c])
        BY <1>1, <2>5, ValuesTaken
      <3>2. States(up[c]) <= 1
        <4>1. CommandsInFlight <= 1
          BY <2>1, CommandsFew
        <4>2. States(up[c]) \in Nat /\ Acks(down[c]) \in Nat
          BY <1>1, WireCounts DEF States, Acks
        <4> QED
          BY <1>5, <4>1, <4>2 DEF CommandsInFlight
      <3>3. States(up[c]) \in Nat /\ States(up'[c]) \in Nat /\ up'[c] \in Seq(Message)
        BY <1>1, <2>3, WireCounts DEF States
      <3>4. States(up'[c]) = 0
        BY <2>3, <2>5, <3>2, <3>3
      <3>5. Values(up'[c]) = {}
        BY <3>3, <3>4, ValuesNone
      <3>6. Acks(down'[c]) \in {Acks(down[c]), Acks(down[c]) + 1}
        <4>1. CASE down' = down
          BY <4>1
        <4>2. CASE down' = Put(down, c, Ack, TRUE)
          <5>1. Acks(down'[c]) = Acks(down[c]) + (IF Ack = Ack THEN 1 ELSE 0)
            BY <1>1, <4>2, MessageTypes, PutCounts
          <5> QED
            BY <5>1
        <4> QED
          BY <1>2, <4>1, <4>2 DEF Put
      <3>7. robotCommand' = IF m.value = NoValue THEN robotCommand ELSE m.value
        <4>1. PICK v \in Command \cup Telemetry \cup {NoValue} : m = State(v)
          BY <2>2, <2>5 DEF Message
        <4>2. m.value = v /\ (m = State(NoValue) <=> v = NoValue)
          BY <4>1 DEF State
        <4> QED
          BY <1>1, <2>5, <4>2
      <3>8. CommandFlow!Deliver
        BY <1>3, <2>1, <3>1, <3>5, <3>6, <3>7 DEF CommandFlow!Deliver
      <3> QED
        BY <3>8 DEF CommandFlow!Next
    <2> QED
      BY <2>4, <2>5
  <1> QED
    BY <1>4, <1>5

LEMMA CommandCloses ==
    ASSUME FlowInv, NEW c \in Conn, ServerClose(c)
    PROVE  CommandFlow!Next
  <1>1. /\ down \in Wires /\ up \in Wires
        /\ up' = [up EXCEPT ![c] = <<>>] /\ Break(c, up, down)
        /\ UNCHANGED <<client, robotCommand>>
    BY DEF ServerClose, Break, FlowInv, ClientInv, ServerInv, LinkTypes
  <1>2. Cuts(up', up, c) /\ Cuts(down', down, c)
    BY <1>1, EmptyIs, CutIs DEF Break
  <1>3. commandHand' = commandHand /\ toRobot' = toRobot /\ connection' = connection
    BY <1>1 DEF commandHand, client, clientMain, clientWs, clientShared
  <1>4. \A d \in Conn : Values(up'[d]) \subseteq Values(up[d]) /\ Acks(down'[d]) <= Acks(down[d])
    <2> TAKE d \in Conn
    <2>1. CASE d = c
      <3>1. Values(up'[c]) \subseteq Values(up[c])
        BY <1>1, <1>2, ValuesCut
      <3>2. Acks(down'[c]) <= Acks(down[c])
        BY <1>1, <1>2, ValuesCut
      <3> QED
        BY <2>1, <3>1, <3>2
    <2>2. CASE d # c
      <3>1. down'[d] = down[d] /\ up'[d] = up[d]
        BY <1>2, <2>2 DEF Cuts
      <3>2. Acks(down[d]) \in Nat
        BY <1>1, WireCounts DEF Acks
      <3> QED
        BY <3>1, <3>2
    <2> QED
      BY <2>1, <2>2
  <1>5. Values(Latest(up))' \subseteq Values(Latest(up)) /\ Acks(Latest(down))' \in 0 .. Acks(Latest(down))
    <2>1. CASE connection = 0
      <3>1. Latest(up) = <<>> /\ Latest(down) = <<>> /\ Latest(up)' = <<>> /\ Latest(down)' = <<>>
        BY <1>3, <2>1 DEF Latest
      <3> QED
        BY <3>1, Emptied
    <2>2. CASE connection # 0
      <3>1. connection \in Conn
        BY <2>2, LatestIs
      <3>2. Acks(down'[connection]) \in Nat /\ Acks(down[connection]) \in Nat
        BY <1>1, <1>2, <3>1, WireCounts DEF Acks, Cuts
      <3>3. /\ Latest(up) = up[connection] /\ Latest(down) = down[connection]
            /\ Latest(up)' = up'[connection] /\ Latest(down)' = down'[connection]
        BY <1>3, <2>2 DEF Latest
      <3> QED
        BY <1>4, <3>1, <3>2, <3>3
    <2> QED
      BY <2>1, <2>2
  <1> QED
    BY <1>1, <1>3, <1>5, CommandBreak

LEMMA CommandInitial == Init => CommandFlow!Init
  <1> SUFFICES ASSUME Init PROVE CommandFlow!Init
    OBVIOUS
  <1>1. Latest(up) = <<>> /\ Latest(down) = <<>> /\ commandHand = {}
    BY DEF Init, Disconnected, Latest, commandHand
  <1>2. Values(Latest(up)) = {} /\ Acks(Latest(down)) = 0
    BY <1>1, ValuesNone, Emptied
  <1> QED
    BY <1>1, <1>2 DEF CommandFlow!Init, Init

LEMMA CommandStep ==
    FlowInv /\ [Next]_vars
        => (overlap = "none" /\ overlap' = "none" /\ ~Late => [CommandFlow!Next]_(CommandFlow!vars))
  <1> SUFFICES ASSUME FlowInv, [Next]_vars, overlap = "none", ~Late
               PROVE  CommandFlow!Next \/ UNCHANGED CommandFlow!vars
    OBVIOUS
  <1>1. CASE ClientUpdate \/ ClientCheck \/ ClientPrepare \/ ClientClear \/ ClientPost
    BY <1>1, CommandLoops, CommandPosts
  <1>2. CASE Connect \/ ClientBreak \/ ClientMessage
    BY <1>2, CommandConnect, CommandAtBreak, CommandReads
  <1>3. CASE OnOpenConnected \/ OnOpenData \/ OnOpenState \/ OnOpenSend
    BY <1>3, CommandOpened, CommandOpens
  <1>4. CASE ServerUpdate \/ ServerPrepare \/ (\E c \in Conn : ServerCheck(c)) \/ UNCHANGED vars
    <2>1. UNCHANGED <<client, up, down, robotCommand>>
      BY <1>4 DEF ServerUpdate, ServerPrepare, ServerCheck, vars, server, serverWs, network
    <2>2. UNCHANGED <<toRobot, sendAt, clientAt, connection, opened, clientConnectionData,
                      up, down, robotCommand>>
      BY <2>1 DEF client, clientMain, clientWs, clientShared
    <2> QED
      BY <2>2, CommandQuiet
  <1>5. CASE ServerPost \/ \E c \in Conn : ServerOpen(c)
    BY <1>5, CommandServerWrite
  <1>6. CASE \E c \in Conn : ServerMessage(c) \/ ServerClose(c)
    BY <1>6, CommandDelivers, CommandCloses
  <1> QED
    BY <1>1, <1>2, <1>3, <1>4, <1>5, <1>6 DEF Next, ClientLoop, ClientHandler, ServerLoop

(* Telemetry and commands flow as FlowControl says, for every set of values *)
(* and any number of connections: network.cpp and server.cpp, with their    *)
(* flags `ready` read and written by two threads each, send a state only    *)
(* when the one before was acknowledged.                                    *)
THEOREM Flow == Spec => ImplementsFlow
  <1>1. FlowInv /\ [Next]_vars => [TelemetryFlow!Next]_(TelemetryFlow!vars)
    BY TelemetryStep
  <1>2. FlowInv /\ [Next]_vars
        => [overlap = "none" /\ overlap' = "none" /\ ~Late
               => [CommandFlow!Next]_(CommandFlow!vars)]_vars
    BY CommandStep
  <1> QED
    BY <1>1, <1>2, FlowInvariance, TelemetryInitial, CommandInitial, PTL
       DEF Spec, ImplementsFlow, TelemetryFlow!SafeSpec

-----------------------------------------------------------------------------
(* What follows for the pilot.                                              *)

Follows(R, x, y) == x = y \/ <<x, y>> \in R
Transitive(R, S) ==
    \A x, y, z \in S : <<x, y>> \in R /\ <<y, z>> \in R => <<x, z>> \in R
Shown == Telemetry \cup {NoValue}

(* The receiver is never ahead of what is on its way, nor that of the       *)
(* sender; and at most one thing is on its way.                             *)
OrderInv(R) ==
    /\ {current, shown} \subseteq Shown
    /\ telemetryHand \cup Values(Latest(down)) \subseteq Shown
    /\ Follows(R, shown, current)
    /\ \A v \in telemetryHand \cup Values(Latest(down)) :
           Follows(R, shown, v) /\ Follows(R, v, current)
    /\ Values(Latest(down)) # {} => telemetryHand = {}

LEMMA OrderStep ==
    ASSUME NEW R, Transitive(R, Shown), OrderInv(R), Follows(R, current, current'),
           TelemetryFlow!Next
    PROVE  OrderInv(R)' /\ Follows(R, shown, shown')
  <1> DEFINE hand == telemetryHand
             way == Values(Latest(down))
  <1>1. /\ {current, shown} \subseteq Shown /\ hand \cup way \subseteq Shown
        /\ Follows(R, shown, current)
        /\ \A v \in hand \cup way : Follows(R, shown, v) /\ Follows(R, v, current)
        /\ way # {} => hand = {}
    BY DEF OrderInv
  <1>2. \A x, y, z \in Shown : Follows(R, x, y) /\ Follows(R, y, z) => Follows(R, x, z)
    BY DEF Follows, Transitive
  <1>3. \A x : Follows(R, x, x)
    BY DEF Follows
  <1>4. SUFFICES /\ {current', shown'} \subseteq Shown /\ hand' \cup way' \subseteq Shown
                 /\ Follows(R, shown', current')
                 /\ \A v \in hand' \cup way' : Follows(R, shown', v) /\ Follows(R, v, current')
                 /\ way' # {} => hand' = {}
                 /\ Follows(R, shown, shown')
    BY DEF OrderInv, Follows
  <1> HIDE DEF hand, way
  <1> USE DEF TelemetryFlow!Idle
  <1>5. CASE TelemetryFlow!Update
    <2>1. current' \in Shown /\ shown' = shown /\ hand' = hand /\ way' = way
      BY <1>5 DEF TelemetryFlow!Update, Shown, hand, way
    <2> QED
      BY <1>1, <1>2, <1>3, <2>1
  <1>6. CASE TelemetryFlow!Take \/ TelemetryFlow!TakeAndSend
    <2>1. /\ current' = current /\ shown' = shown
          /\ hand' \cup way' = {current} /\ (way' = {} \/ hand' = {})
      BY <1>6 DEF TelemetryFlow!Take, TelemetryFlow!TakeAndSend, hand, way
    <2> QED
      BY <1>1, <1>2, <1>3, <2>1
  <1>7. CASE TelemetryFlow!Send \/ TelemetryFlow!Acknowledge \/ TelemetryFlow!Break
    <2>1. /\ current' = current /\ shown' = shown
          /\ hand' \cup way' \subseteq hand \cup way /\ (way' = {} \/ hand' = {})
      BY <1>1, <1>7
         DEF TelemetryFlow!Send, TelemetryFlow!Acknowledge, TelemetryFlow!Break, hand, way
    <2> QED
      BY <1>1, <1>3, <2>1
  <1>8. CASE TelemetryFlow!Deliver
    <2>1. PICK v \in way : /\ way' = {} /\ hand' = hand /\ current' = current
                           /\ shown' = IF v = NoValue THEN shown ELSE v
      BY <1>8 DEF TelemetryFlow!Deliver, hand, way
    <2>2. hand = {}
      BY <1>1, <2>1
    <2>3. shown' \in {shown, v}
      BY <2>1
    <2> QED
      BY <1>1, <1>3, <2>1, <2>2, <2>3
  <1> QED
    BY <1>5, <1>6, <1>7, <1>8 DEF TelemetryFlow!Next

(* The pilot is never shown an older state after a newer one: if the        *)
(* robot's state only moves on in an order, whatever order that is, then so *)
(* does what network.cpp hands to the screen, over all reconnections and    *)
(* all that the threads of both ends interleave.                            *)
THEOREM NeverOlder ==
    ASSUME NEW CONSTANT R, Transitive(R, Shown)
    PROVE  Spec /\ [][Follows(R, current, current')]_vars => [][Follows(R, shown, shown')]_vars
  <1>1. Init => OrderInv(R)
    <2> SUFFICES ASSUME Init PROVE OrderInv(R)
      OBVIOUS
    <2>1. TelemetryFlow!Init
      BY TelemetryInitial
    <2> QED
      BY <2>1 DEF TelemetryFlow!Init, OrderInv, Shown, Follows
  <1>2. OrderInv(R) /\ FlowInv /\ [Next]_vars /\ [Follows(R, current, current')]_vars
            => OrderInv(R)' /\ [Follows(R, shown, shown')]_vars
    <2> SUFFICES ASSUME OrderInv(R), FlowInv, [Next]_vars, [Follows(R, current, current')]_vars
                 PROVE  OrderInv(R)' /\ Follows(R, shown, shown')
      OBVIOUS
    <2>1. Follows(R, current, current')
      BY DEF Follows, vars, server, serverMain
    <2>2. TelemetryFlow!Next \/ UNCHANGED TelemetryFlow!vars
      BY TelemetryStep
    <2>3. CASE TelemetryFlow!Next
      BY <2>1, <2>3, OrderStep
    <2>4. CASE UNCHANGED TelemetryFlow!vars
      <3>1. /\ current' = current /\ shown' = shown /\ telemetryHand' = telemetryHand
            /\ Values(Latest(down))' = Values(Latest(down))
        BY <2>4 DEF TelemetryFlow!vars
      <3> QED
        BY <3>1 DEF OrderInv, Follows
    <2> QED
      BY <2>2, <2>3, <2>4
  <1> QED
    BY <1>1, <1>2, FlowInvariance, PTL DEF Spec

=============================================================================
