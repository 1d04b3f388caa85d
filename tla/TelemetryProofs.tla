-------------------------- MODULE TelemetryProofs ---------------------------
(***************************************************************************)
(* Theorems about telemetry: the readings, for every length of a second,   *)
(* every rate of the counters and every bound; and the deltas of states,   *)
(* for every set of states and every stamp.                                *)
(*                                                                         *)
(* That a delta is right goes by the nesting of what is compared.  What    *)
(* diff makes of two values depends on its calls for values that are       *)
(* nested less deep, so there is one function of all its calls, and it     *)
(* satisfies diff's recursive definition.  A script carries one document   *)
(* to another when its operations, applied in their order, make the second *)
(* of the first and none throws.  Scripts carry on from each other, and a  *)
(* script that carries a child's value to another carries, with the        *)
(* child's token in front of its paths, the parent to one in which only    *)
(* this child is changed.  The delta of two arrays or objects consists of  *)
(* such scripts, of additions and of removals, and the documents between   *)
(* them can be written down.                                               *)
(***************************************************************************)
EXTENDS TelemetryReadings, JsonPatch, SequenceTheorems, FiniteSetTheorems, NaturalsInduction,
        WellFoundedInduction, TLAPS

-----------------------------------------------------------------------------
(* Telemetry readings. *)

TelType ==
    /\ clock \in Nat
    /\ stat \in [busy : Int, idle : Nat, back : Nat]
    /\ telemetry \in [busy : Int, idle : Int, percent : Int \X Int, time : Int]
    /\ sample \in Nat /\ sample > 0
    /\ message \in [cpu : Int \X Int, imu : Nat]
    /\ screen \in Nat
    /\ calls \in [time : Nat, sent : Nat, sentTime : Nat]

(* The last reading, if there was one, is of the past.                      *)
Past == telemetry.time = Never \/ telemetry.time \in 0 .. clock

(* Unless a counter has gone back, every unit since the last reading, or    *)
(* since the start, has a tick, and what the last call got is of the second *)
(* before it.                                                               *)
Counted ==
    stat.back = 0 =>
        /\ stat.busy >= telemetry.busy /\ stat.idle >= telemetry.idle
        /\ stat.busy - telemetry.busy + stat.idle - telemetry.idle
               >= clock - (IF telemetry.time = Never THEN 0 ELSE telemetry.time)
        /\ IF telemetry.time = Never THEN calls.time = 0 /\ IsNumber(telemetry.percent)
           ELSE calls.time < telemetry.time + Second

(* Only the reading of the very first moment is no number.                  *)
Numbers == stat.back = 0 /\ ~IsNumber(telemetry.percent) => telemetry.time = 0

(* The message on its way is the one sent last.                             *)
Sent ==
    /\ calls.sentTime <= calls.time /\ calls.time <= clock
    /\ message # NoMessage => message.imu = calls.sent
    /\ stat.back = 0 /\ calls.sentTime >= Second =>
           IF message = NoMessage THEN screen = calls.sent ELSE IsNumber(message.cpu)

TelInv ==
    /\ TelType
    /\ telemetry.percent[1] \in 0 .. telemetry.percent[2]
    /\ Past
    /\ Counted
    /\ Numbers
    /\ Sent

-----------------------------------------------------------------------------
LEMMA TelInitial == TelInit => TelInv
  BY TelAssumption DEF TelInit, TelInv, TelType, Past, Counted, Numbers, Sent, Never, NoMessage, IsNumber

(* Time goes on: every unit brings a tick, or a counter goes back.          *)
LEMMA TicksKeep == TelInv /\ Ticks => TelInv'
  <1> SUFFICES ASSUME TelInv, Ticks PROVE TelInv'
    OBVIOUS
  <1> USE TelAssumption DEF TelInv, TelType, Never
  <1>1. UNCHANGED <<telemetry, sample, message, connectionData, screen, calls>> /\ clock' = clock + 1
    BY DEF Ticks
  <1>2. CASE \E step \in TickSteps :
                 stat' = [busy |-> stat.busy + step[1], idle |-> stat.idle + step[2], back |-> stat.back]
    <2>1. PICK step \in TickSteps :
              stat' = [busy |-> stat.busy + step[1], idle |-> stat.idle + step[2], back |-> stat.back]
      BY <1>2
    <2>2. step[1] \in Nat /\ step[2] \in Nat /\ step[1] + step[2] >= 1
      <3>1. step \in Nat \X Nat /\ step # <<0, 0>>
        OBVIOUS
      <3>2. step = <<step[1], step[2]>>
        BY <3>1
      <3> QED
        BY <3>1, <3>2
    <2>3. /\ stat'.busy = stat.busy + step[1] /\ stat'.idle = stat.idle + step[2]
          /\ stat'.back = stat.back
          /\ stat' \in [busy : Int, idle : Nat, back : Nat]
      BY <2>1, <2>2
    <2> QED
      BY <1>1, <2>2, <2>3 DEF Past, Counted, Numbers, Sent, IsNumber, NoMessage
  <1>3. CASE /\ stat.idle > 0
             /\ stat' = [busy |-> stat.busy, idle |-> stat.idle - 1, back |-> stat.back + 1]
    <2>1. stat' \in [busy : Int, idle : Nat, back : Nat] /\ stat'.back > 0
      BY <1>3
    <2> QED
      BY <1>1, <2>1 DEF Past, Counted, Numbers, Sent, NoMessage
  <1> QED
    BY <1>2, <1>3 DEF Ticks

(* A reading: the old one, or one of the ticks since.                       *)
LEMMA ReadingKeeps ==
    ASSUME TelInv
    PROVE  LET tel == getSystemCPUUsage(telemetry) IN
           /\ tel \in [busy : Int, idle : Int, percent : Int \X Int, time : Int]
           /\ tel.percent[1] \in 0 .. tel.percent[2]
           /\ tel.time = Never \/ tel.time \in 0 .. clock
           /\ stat.back = 0 =>
                  /\ tel.time # Never
                  /\ stat.busy >= tel.busy /\ stat.idle >= tel.idle
                  /\ stat.busy - tel.busy + stat.idle - tel.idle >= clock - tel.time
                  /\ clock < tel.time + Second
                  /\ ~IsNumber(tel.percent) => tel.time = 0
  <1> USE TelAssumption DEF TelInv, TelType
  <1>1. CASE TooSoon(telemetry) \/ WentBack(telemetry)
    <2>1. getSystemCPUUsage(telemetry) = telemetry
      BY <1>1 DEF getSystemCPUUsage
    <2>2. stat.back = 0 => TooSoon(telemetry) /\ telemetry.time # Never
      BY <1>1 DEF TooSoon, WentBack, Counted, Never
    <2> QED
      BY <2>1, <2>2 DEF Past, Counted, Numbers, TooSoon, Never
  <1>2. CASE ~TooSoon(telemetry) /\ ~WentBack(telemetry)
    <2> DEFINE busy == stat.busy - telemetry.busy
               total == stat.busy - telemetry.busy + stat.idle - telemetry.idle
    <2>1. getSystemCPUUsage(telemetry) =
              [busy |-> stat.busy, idle |-> stat.idle, time |-> clock, percent |-> <<busy, total>>]
      BY <1>2 DEF getSystemCPUUsage
    <2>2. busy \in 0 .. total
      BY <1>2 DEF WentBack
    <2>3. stat.back = 0 /\ ~(total > 0) => clock = 0
      BY <1>2 DEF Counted, Past, TooSoon, Never
    <2> QED
      BY <2>1, <2>2, <2>3 DEF IsNumber, Never
  <1> QED
    BY <1>1, <1>2

LEMMA ServerTurnKeeps == TelInv /\ ServerTurn => TelInv'
  <1> SUFFICES ASSUME TelInv, ServerTurn PROVE TelInv'
    OBVIOUS
  <1> USE TelAssumption DEF TelInv, TelType
  <1> DEFINE tel == getSystemCPUUsage(telemetry)
  <1>1. telemetry' = tel /\ UNCHANGED <<clock, stat, sample, screen>>
    BY DEF ServerTurn
  <1>2. /\ tel \in [busy : Int, idle : Int, percent : Int \X Int, time : Int]
        /\ tel.percent[1] \in 0 .. tel.percent[2]
        /\ tel.time = Never \/ tel.time \in 0 .. clock
        /\ stat.back = 0 =>
               /\ tel.time # Never
               /\ stat.busy >= tel.busy /\ stat.idle >= tel.idle
               /\ stat.busy - tel.busy + stat.idle - tel.idle >= clock - tel.time
               /\ clock < tel.time + Second
               /\ ~IsNumber(tel.percent) => tel.time = 0
    BY ReadingKeeps
  <1> HIDE DEF tel
  <1> DEFINE state == [cpu |-> tel.percent, imu |-> sample]
  <1>3. \/ /\ message = NoMessage /\ message' = state
           /\ calls' = [time |-> clock, sent |-> sample, sentTime |-> clock]
        \/ calls' = [calls EXCEPT !.time = clock] /\ message' = message
    BY <1>1 DEF ServerTurn
  <1>4. CASE /\ message = NoMessage /\ message' = state
             /\ calls' = [time |-> clock, sent |-> sample, sentTime |-> clock]
    <2>1. message' # NoMessage
      BY <1>4 DEF NoMessage
    <2> QED
      BY <1>1, <1>2, <1>4, <2>1 DEF Past, Counted, Numbers, Sent, IsNumber
  <1>5. CASE calls' = [calls EXCEPT !.time = clock] /\ message' = message
    BY <1>1, <1>2, <1>5 DEF Past, Counted, Numbers, Sent, IsNumber, NoMessage
  <1> QED
    BY <1>3, <1>4, <1>5

LEMMA OthersKeep == TelInv /\ (NewSample \/ ClientTurn \/ UNCHANGED telVars) => TelInv'
  <1> SUFFICES ASSUME TelInv, NewSample \/ ClientTurn \/ UNCHANGED telVars PROVE TelInv'
    OBVIOUS
  <1> USE TelAssumption DEF TelInv, TelType, Past, Counted, Numbers, Sent, IsNumber, NoMessage, Never
  <1>1. CASE NewSample
    BY <1>1 DEF NewSample
  <1>2. CASE ClientTurn
    BY <1>2 DEF ClientTurn
  <1>3. CASE UNCHANGED telVars
    BY <1>3 DEF telVars
  <1> QED
    BY <1>1, <1>2, <1>3

(* The invariant holds whatever the counters do.                            *)
THEOREM TelInvariance == TelSpec => []TelInv
  <1>1. TelInv /\ [TelNext]_telVars => TelInv'
    BY TicksKeep, ServerTurnKeeps, OthersKeep DEF TelNext
  <1> QED
    BY TelInitial, <1>1, PTL DEF TelSpec

(* The pilot gets the IMU's readings and a percentage of the ticks counted, *)
(* with the exception of the first second and of counters that go back.     *)
THEOREM Reach == TelSpec => []ReadingsReach
  <1>1. TelInv => ReadingsReach
    BY TelAssumption DEF TelInv, TelType, Past, Counted, Numbers, Sent, Never, ReadingsReach
  <1> QED
    BY TelInvariance, <1>1, PTL

-----------------------------------------------------------------------------
(* Induction over an interval. *)

(* A set of numbers has a least one.                                        *)
LEMMA LeastElement ==
    ASSUME NEW T \in SUBSET Nat, T # {}
    PROVE  \E x \in T : \A y \in T : ~(y < x)
  <1> DEFINE R == OpToRel(<, Nat)
  <1>1. R = {ss \in Nat \X Nat : ss[1] < ss[2]}
    BY DEF OpToRel
  <1>2. IsWellFoundedOn(R, Nat)
    BY NatLessThanWellFounded
  <1>3. \E x \in T : \A y \in T : ~(<<y, x>> \in R)
    <2> HIDE DEF R
    <2> QED
      BY <1>2, WFMin
  <1> QED
    BY <1>1, <1>3

(* What holds of 0 and of the successors holds of a whole interval.        *)
LEMMA SetInduction ==
    ASSUME NEW n \in Nat, NEW S \in SUBSET Nat, 0 \in S,
           \A k \in 0 .. n - 1 : k \in S => k + 1 \in S
    PROVE  0 .. n \subseteq S
  <1> SUFFICES ASSUME NEW m \in 0 .. n, m \notin S PROVE FALSE
    OBVIOUS
  <1> DEFINE T == {k \in 0 .. n : k \notin S}
  <1>1. T \in SUBSET Nat /\ T # {}
    OBVIOUS
  <1>2. PICK x \in T : \A y \in T : ~(y < x)
    BY <1>1, LeastElement
  <1>3. x # 0 /\ x \in 0 .. n
    OBVIOUS
  <1>4. x - 1 \in 0 .. n - 1 /\ x - 1 < x
    BY <1>3
  <1>5. x - 1 \in S
    BY <1>2, <1>4
  <1> QED
    BY <1>4, <1>5

-----------------------------------------------------------------------------
(* Deltas of states.  A pointer is a sequence of strings.                   *)
Key == STRING
Pointer == Seq(Key)

(* The values on the way to a pointer.                                      *)
LEMMA WalkDef ==
    ASSUME NEW j, NEW ptr \in Pointer
    PROVE  /\ Walk(j, ptr)[0] = j
           /\ \A n \in 1 .. Len(ptr) : Walk(j, ptr)[n] = Child(Walk(j, ptr)[n - 1], ptr[n])
  <1> DEFINE len == Len(ptr)
             Def(m, g) == g = [n \in 0 .. m |-> IF n = 0 THEN j ELSE Child(g[n - 1], ptr[n])]
             S == {m \in Nat : \E g : Def(m, g)}
  <1>1. len \in Nat
    BY DEF Pointer
  <1>2. 0 \in S
    <2>1. Def(0, [n \in 0 .. 0 |-> j])
      OBVIOUS
    <2> QED
      BY <2>1
  <1>3. ASSUME NEW m \in 0 .. len - 1, m \in S PROVE m + 1 \in S
    <2>1. PICK g : Def(m, g)
      BY <1>3
    <2> DEFINE h == [n \in 0 .. m + 1 |-> IF n = m + 1 THEN Child(g[m], ptr[n]) ELSE g[n]]
    <2>2. \A n \in 0 .. m + 1 : h[n] = IF n = 0 THEN j ELSE Child(h[n - 1], ptr[n])
      BY <1>1, <2>1
    <2>3. Def(m + 1, h)
      BY <2>2
    <2> HIDE DEF Def, h
    <2>4. m + 1 \in Nat /\ \E k : Def(m + 1, k)
      BY <1>1, <2>3
    <2> QED
      BY <2>4
  <1>4. len \in S
    <2>1. S \in SUBSET Nat
      OBVIOUS
    <2>2. \A k \in 0 .. len - 1 : k \in S => k + 1 \in S
      BY <1>3
    <2> HIDE DEF S
    <2>3. 0 .. len \subseteq S
      BY <1>1, <1>2, <2>1, <2>2, SetInduction
    <2> QED
      BY <1>1, <2>3
  <1>5. Walk(j, ptr) = CHOOSE g : Def(len, g)
    BY DEF Walk
  <1>6. Def(len, Walk(j, ptr))
    BY <1>4, <1>5
  <1> QED
    BY <1>1, <1>6

(* What is put together again on the way back from it.                      *)
LEMMA RebuiltDef ==
    ASSUME NEW j, NEW ptr \in Pointer, NEW val
    PROVE  /\ Rebuilt(j, ptr, val)[Len(ptr)] = val
           /\ \A n \in 0 .. Len(ptr) - 1 :
                  Rebuilt(j, ptr, val)[n]
                      = WithChild(Walk(j, ptr)[n], ptr[n + 1], Rebuilt(j, ptr, val)[n + 1])
  <1> DEFINE len == Len(ptr)
             On(g, n) == IF n = len THEN val ELSE WithChild(Walk(j, ptr)[n], ptr[n + 1], g[n + 1])
             Def(m, g) == \A n \in 0 .. len : n >= len - m => g[n] = On(g, n)
             S == {m \in Nat : \E g : Def(m, g)}
  <1>1. len \in Nat
    BY DEF Pointer
  <1>2. 0 \in S
    <2>1. Def(0, [n \in 0 .. len |-> val])
      BY <1>1
    <2> HIDE DEF Def
    <2> QED
      BY <2>1
  <1>3. ASSUME NEW m \in 0 .. len - 1, m \in S PROVE m + 1 \in S
    <2>1. PICK g : Def(m, g)
      BY <1>3
    <2> DEFINE h == [n \in 0 .. len |-> On(g, n)]
    <2>2. ASSUME NEW n \in 0 .. len, n >= len - (m + 1) PROVE h[n] = On(h, n)
      <3>1. CASE n = len
        BY <3>1
      <3>2. CASE n # len
        <4>1. n + 1 \in 0 .. len /\ n + 1 >= len - m
          BY <1>1, <2>2, <3>2
        <4>2. g[n + 1] = On(g, n + 1)
          BY <2>1, <4>1
        <4>3. h[n + 1] = On(g, n + 1) /\ h[n] = On(g, n)
          BY <4>1
        <4> QED
          BY <3>2, <4>2, <4>3
      <3> QED
        BY <3>1, <3>2
    <2>3. Def(m + 1, h)
      BY <2>2
    <2> HIDE DEF Def, h
    <2>4. m + 1 \in Nat /\ \E k : Def(m + 1, k)
      BY <1>1, <2>3
    <2> QED
      BY <2>4
  <1>4. len \in S
    <2>1. S \in SUBSET Nat
      OBVIOUS
    <2>2. \A k \in 0 .. len - 1 : k \in S => k + 1 \in S
      BY <1>3
    <2> HIDE DEF S
    <2>3. 0 .. len \subseteq S
      BY <1>1, <1>2, <2>1, <2>2, SetInduction
    <2> QED
      BY <1>1, <2>3
  <1> DEFINE Whole(g) == g = [n \in 0 .. len |-> On(g, n)]
  <1>5. \E g : Whole(g)
    <2>1. PICK g : Def(len, g)
      BY <1>4
    <2> DEFINE h == [n \in 0 .. len |-> On(g, n)]
    <2>2. ASSUME NEW n \in 0 .. len PROVE h[n] = On(h, n)
      <3>1. CASE n = len
        BY <3>1
      <3>2. CASE n # len
        <4>1. n + 1 \in 0 .. len /\ n + 1 >= len - len
          BY <1>1, <3>2
        <4>2. g[n + 1] = On(g, n + 1)
          BY <2>1, <4>1
        <4>3. h[n + 1] = On(g, n + 1) /\ h[n] = On(g, n)
          BY <4>1
        <4> QED
          BY <3>2, <4>2, <4>3
      <3> QED
        BY <3>1, <3>2
    <2>3. Whole(h)
      BY <2>2
    <2> HIDE DEF Whole, h
    <2> QED
      BY <2>3
  <1>6. Rebuilt(j, ptr, val) = CHOOSE g : Whole(g)
    BY DEF Rebuilt
  <1>7. Whole(Rebuilt(j, ptr, val))
    BY <1>5, <1>6
  <1> QED
    BY <1>1, <1>7

(* A token put in front of a pointer moves its tokens back by one.          *)
LEMMA LongerPointer ==
    ASSUME NEW token \in Key, NEW ptr \in Pointer
    PROVE  /\ <<token>> \o ptr \in Pointer
           /\ Len(<<token>> \o ptr) = Len(ptr) + 1 /\ Len(ptr) \in Nat
           /\ (<<token>> \o ptr)[1] = token
           /\ \A n \in 1 .. Len(ptr) : (<<token>> \o ptr)[n + 1] = ptr[n]
  BY DEF Pointer

(* A pointer with a token in front is the rest of it in that child.         *)
LEMMA WalkBelow ==
    ASSUME NEW j, NEW token \in Key, NEW ptr \in Pointer
    PROVE  \A n \in 0 .. Len(ptr) : Walk(j, <<token>> \o ptr)[n + 1] = Walk(Child(j, token), ptr)[n]
  <1>1. PICK longer \in Pointer : longer = <<token>> \o ptr
    BY LongerPointer
  <1>2. /\ Len(longer) = Len(ptr) + 1 /\ Len(ptr) \in Nat /\ longer[1] = token
        /\ \A n \in 1 .. Len(ptr) : longer[n + 1] = ptr[n]
    BY <1>1, LongerPointer
  <1> DEFINE S == {n \in Nat : n <= Len(ptr) => Walk(j, longer)[n + 1] = Walk(Child(j, token), ptr)[n]}
  <1>3. /\ Walk(j, longer)[0] = j
        /\ \A n \in 1 .. Len(longer) : Walk(j, longer)[n] = Child(Walk(j, longer)[n - 1], longer[n])
    BY WalkDef
  <1>4. /\ Walk(Child(j, token), ptr)[0] = Child(j, token)
        /\ \A n \in 1 .. Len(ptr) :
               Walk(Child(j, token), ptr)[n] = Child(Walk(Child(j, token), ptr)[n - 1], ptr[n])
    BY WalkDef
  <1>5. 0 \in S
    <2>1. 1 \in 1 .. Len(longer) /\ 1 - 1 = 0 /\ 0 + 1 = 1
      BY <1>2
    <2> QED
      BY <1>2, <1>3, <1>4, <2>1
  <1>6. ASSUME NEW n \in 0 .. Len(ptr) - 1, n \in S PROVE n + 1 \in S
    <2>1. /\ n + 1 \in 1 .. Len(ptr) /\ (n + 1) - 1 = n /\ n <= Len(ptr) /\ n + 1 \in Nat
          /\ (n + 1) + 1 \in 1 .. Len(longer) /\ ((n + 1) + 1) - 1 = n + 1
      BY <1>2
    <2>2. Walk(j, longer)[(n + 1) + 1] = Child(Walk(j, longer)[n + 1], ptr[n + 1])
      BY <1>2, <1>3, <2>1
    <2>3. Walk(Child(j, token), ptr)[n + 1] = Child(Walk(Child(j, token), ptr)[n], ptr[n + 1])
      BY <1>4, <2>1
    <2>4. Walk(j, longer)[n + 1] = Walk(Child(j, token), ptr)[n]
      BY <1>6, <2>1
    <2> QED
      BY <2>1, <2>2, <2>3, <2>4
  <1>7. 0 .. Len(ptr) \subseteq S
    <2>1. S \in SUBSET Nat
      OBVIOUS
    <2> HIDE DEF S
    <2> QED
      BY <1>2, <1>5, <1>6, <2>1, SetInduction
  <1>8. ASSUME NEW n \in 0 .. Len(ptr)
        PROVE  Walk(j, longer)[n + 1] = Walk(Child(j, token), ptr)[n]
    <2>1. n <= Len(ptr)
      BY <1>2
    <2>2. n \in S
      <3> HIDE DEF S
      <3> QED
        BY <1>7
    <2> QED
      BY <2>1, <2>2
  <1> HIDE DEF S
  <1> QED
    BY <1>1, <1>8

(* So what is at the longer pointer is what is at the pointer in the        *)
(* child.                                                                   *)
LEMMA AtBelow ==
    ASSUME NEW j, NEW token \in Key, NEW ptr \in Pointer
    PROVE  at(j, <<token>> \o ptr) = at(Child(j, token), ptr)
  <1>1. Len(ptr) \in 0 .. Len(ptr) /\ Len(<<token>> \o ptr) = Len(ptr) + 1
    BY LongerPointer
  <1>2. Walk(j, <<token>> \o ptr)[Len(ptr) + 1] = Walk(Child(j, token), ptr)[Len(ptr)]
    BY <1>1, WalkBelow
  <1> QED
    BY <1>1, <1>2 DEF at

(* The empty pointer is the document's own.                                 *)
LEMMA AtHere ==
    ASSUME NEW j, NEW val
    PROVE  at(j, <<>>) = j /\ With(j, <<>>, val) = val /\ <<>> \in Pointer
  <1>1. <<>> \in Pointer /\ Len(<<>>) = 0
    BY DEF Pointer
  <1>2. Walk(j, <<>>)[0] = j
    BY <1>1, WalkDef
  <1>3. Rebuilt(j, <<>>, val)[0] = val
    <2>1. PICK ptr \in Pointer : ptr = <<>> /\ Len(ptr) = 0
      BY <1>1
    <2>2. Rebuilt(j, ptr, val)[Len(ptr)] = val
      BY RebuiltDef
    <2> QED
      BY <2>1, <2>2
  <1> QED
    BY <1>1, <1>2, <1>3 DEF at, With

(* A change below a child is a change of the child.                         *)
LEMMA WithBelow ==
    ASSUME NEW j, NEW token \in Key, NEW ptr \in Pointer, NEW val
    PROVE  With(j, <<token>> \o ptr, val) = WithChild(j, token, With(Child(j, token), ptr, val))
  <1>1. PICK longer \in Pointer : longer = <<token>> \o ptr
    BY LongerPointer
  <1>2. PICK len \in Nat : len = Len(ptr)
    BY LongerPointer
  <1>3. /\ Len(longer) = len + 1 /\ longer[1] = token
        /\ \A n \in 1 .. len : longer[n + 1] = ptr[n]
    BY <1>1, <1>2, LongerPointer
  <1> DEFINE R == Rebuilt(j, longer, val)
             Q == Rebuilt(Child(j, token), ptr, val)
             S == {m \in Nat : m <= len => R[(len - m) + 1] = Q[len - m]}
  <1>4. /\ R[len + 1] = val
        /\ \A n \in 0 .. len : R[n] = WithChild(Walk(j, longer)[n], longer[n + 1], R[n + 1])
    <2>1. /\ R[Len(longer)] = val
          /\ \A n \in 0 .. Len(longer) - 1 : R[n] = WithChild(Walk(j, longer)[n], longer[n + 1], R[n + 1])
      BY RebuiltDef
    <2>2. (len + 1) - 1 = len
      OBVIOUS
    <2> HIDE DEF R
    <2> QED
      BY <1>3, <2>1, <2>2
  <1>5. /\ Q[len] = val
        /\ \A n \in 0 .. len - 1 :
               Q[n] = WithChild(Walk(Child(j, token), ptr)[n], ptr[n + 1], Q[n + 1])
    <2>1. /\ Q[Len(ptr)] = val
          /\ \A n \in 0 .. Len(ptr) - 1 :
                 Q[n] = WithChild(Walk(Child(j, token), ptr)[n], ptr[n + 1], Q[n + 1])
      <3>1. PICK child : child = Child(j, token)
        OBVIOUS
      <3>2. /\ Rebuilt(child, ptr, val)[Len(ptr)] = val
            /\ \A n \in 0 .. Len(ptr) - 1 :
                   Rebuilt(child, ptr, val)[n]
                       = WithChild(Walk(child, ptr)[n], ptr[n + 1], Rebuilt(child, ptr, val)[n + 1])
        BY RebuiltDef
      <3> QED
        BY <3>1, <3>2
    <2> HIDE DEF Q
    <2> QED
      BY <1>2, <2>1
  <1>6. 0 \in S
    <2>1. len - 0 = len
      OBVIOUS
    <2>2. R[(len - 0) + 1] = Q[len - 0]
      BY <1>4, <1>5, <2>1
    <2> HIDE DEF R, Q
    <2> QED
      BY <2>2
  <1>7. ASSUME NEW m \in 0 .. len - 1, m \in S PROVE m + 1 \in S
    <2>1. PICK n \in 0 .. len - 1 : n = len - (m + 1)
      OBVIOUS
    <2>2. /\ n + 1 = len - m /\ n + 1 \in 1 .. len /\ n + 1 \in 0 .. len /\ m <= len
          /\ n \in 0 .. len /\ (n + 1) + 1 = (len - m) + 1 /\ m + 1 \in Nat
      BY <2>1
    <2>3. R[n + 1] = WithChild(Walk(j, longer)[n + 1], longer[(n + 1) + 1], R[(n + 1) + 1])
      BY <1>4, <2>2
    <2>4. Q[n] = WithChild(Walk(Child(j, token), ptr)[n], ptr[n + 1], Q[n + 1])
      BY <1>5
    <2>5. Walk(j, longer)[n + 1] = Walk(Child(j, token), ptr)[n]
      BY <1>1, <1>2, <2>2, WalkBelow
    <2>6. longer[(n + 1) + 1] = ptr[n + 1]
      BY <1>3, <2>2
    <2>7. R[(n + 1) + 1] = Q[n + 1]
      BY <1>7, <2>2
    <2> HIDE DEF R, Q
    <2> QED
      BY <2>1, <2>2, <2>3, <2>4, <2>5, <2>6, <2>7
  <1>8. R[1] = Q[0]
    <2>1. S \in SUBSET Nat
      OBVIOUS
    <2>2. 0 .. len \subseteq S
      <3> HIDE DEF S
      <3> QED
        BY <1>6, <1>7, <2>1, SetInduction
    <2>3. len \in 0 .. len /\ len <= len /\ len - len = 0 /\ 0 + 1 = 1
      OBVIOUS
    <2> HIDE DEF R, Q
    <2>4. len \in S
      BY <2>2, <2>3
    <2>5. R[(len - len) + 1] = Q[len - len]
      BY <2>3, <2>4
    <2> QED
      BY <2>3, <2>5
  <1>9. R[0] = WithChild(j, token, R[1])
    <2>1. 0 \in 0 .. len /\ 0 + 1 = 1
      OBVIOUS
    <2>2. Walk(j, longer)[0] = j
      BY WalkDef
    <2> HIDE DEF R
    <2> QED
      BY <1>3, <1>4, <2>1, <2>2
  <1> QED
    BY <1>1, <1>8, <1>9 DEF With

(* A document whose children can be exchanged.                              *)
Formed(j) ==
    /\ IsObject(j) => j = Object([k \in DOMAIN j.value |-> j.value[k]])
    /\ IsArray(j) => j = Array(j.value) /\ \E S : j.value \in Seq(S)

(* The children of an object are exchanged one by one, the last value       *)
(* counts.                                                                  *)
LEMMA ObjectChild ==
    ASSUME NEW j, Formed(j), IsObject(j), NEW token, HasChild(j, token), NEW val,
           NEW changed, changed = WithChild(j, token, val)
    PROVE  /\ Formed(changed) /\ HasChild(changed, token) /\ Child(changed, token) = val
           /\ \A w : WithChild(changed, token, w) = WithChild(j, token, w)
           /\ WithChild(j, token, Child(j, token)) = j
  <1>1. ~IsArray(j)
    BY DEF IsObject, IsArray
  <1>2. token \in DOMAIN j.value
    BY <1>1 DEF HasChild
  <1>3. \A w : WithChild(j, token, w)
                   = Object([k \in DOMAIN j.value |-> IF k = token THEN w ELSE j.value[k]])
    <2> TAKE w
    <2>1. DOMAIN j.value \cup {token} = DOMAIN j.value
      BY <1>2
    <2> QED
      BY <2>1 DEF WithChild, SetKey
  <1>4. j = Object([k \in DOMAIN j.value |-> j.value[k]])
    BY DEF Formed
  <1>5. /\ IsObject(changed) /\ ~IsArray(changed) /\ DOMAIN changed.value = DOMAIN j.value
        /\ changed.value = [k \in DOMAIN j.value |-> IF k = token THEN val ELSE j.value[k]]
        /\ changed = Object(changed.value)
    BY <1>3 DEF Object, IsObject, IsArray
  <1>6. Formed(changed)
    BY <1>5 DEF Formed
  <1>7. HasChild(changed, token) /\ Child(changed, token) = val
    BY <1>2, <1>5 DEF HasChild, Child
  <1>8. \A w : WithChild(changed, token, w) = WithChild(j, token, w)
    <2> TAKE w
    <2>1. DOMAIN changed.value \cup {token} = DOMAIN j.value
      BY <1>2, <1>5
    <2>2. WithChild(changed, token, w)
              = Object([k \in DOMAIN j.value |-> IF k = token THEN w ELSE changed.value[k]])
      BY <1>5, <2>1 DEF WithChild, SetKey
    <2>3. [k \in DOMAIN j.value |-> IF k = token THEN w ELSE changed.value[k]]
              = [k \in DOMAIN j.value |-> IF k = token THEN w ELSE j.value[k]]
      BY <1>5
    <2> QED
      BY <1>3, <2>2, <2>3
  <1>9. WithChild(j, token, Child(j, token)) = j
    <2>1. Child(j, token) = j.value[token]
      BY DEF Child
    <2>2. [k \in DOMAIN j.value |-> IF k = token THEN j.value[token] ELSE j.value[k]]
              = [k \in DOMAIN j.value |-> j.value[k]]
      OBVIOUS
    <2> QED
      BY <1>3, <1>4, <2>1, <2>2
  <1> QED
    BY <1>6, <1>7, <1>8, <1>9

(* The index that a token of a child stands for.                            *)
LEMMA IndexType ==
    ASSUME NEW token, NEW last \in Int, IsIndex(token, last)
    PROVE  array_index(token, last) \in 0 .. last /\ token = Token(array_index(token, last))
  BY DEF IsIndex, array_index

(* So are those of an array.                                                *)
LEMMA ArrayChild ==
    ASSUME NEW j, Formed(j), IsArray(j), NEW token, HasChild(j, token), NEW val,
           NEW changed, changed = WithChild(j, token, val)
    PROVE  /\ Formed(changed) /\ HasChild(changed, token) /\ Child(changed, token) = val
           /\ \A w : WithChild(changed, token, w) = WithChild(j, token, w)
           /\ WithChild(j, token, Child(j, token)) = j
  <1>1. ~IsObject(j) /\ j = Array(j.value)
    BY DEF IsObject, IsArray, Formed
  <1>2. PICK S : j.value \in Seq(S)
    BY DEF Formed
  <1>3. PICK s \in Seq(S) : s = j.value
    BY <1>2
  <1>4. PICK len \in Nat : len = Len(s)
    BY <1>3
  <1>5. DOMAIN s = 1 .. len
    BY <1>3, <1>4
  <1>6. IsIndex(token, len - 1)
    BY <1>1, <1>3, <1>4 DEF HasChild
  <1>7. PICK n \in Nat : n = array_index(token, len - 1) + 1
    BY <1>4, <1>6, IndexType
  <1>8. n \in 1 .. len
    BY <1>4, <1>6, <1>7, IndexType
  <1>9. \A w : WithChild(j, token, w) = Array([s EXCEPT ![n] = w])
    BY <1>1, <1>3, <1>4, <1>7 DEF WithChild
  <1>10. Child(j, token) = s[n]
    BY <1>1, <1>3, <1>4, <1>7 DEF Child
  <1>11. PICK t : t = [s EXCEPT ![n] = val]
    OBVIOUS
  <1>12. /\ t \in Seq(S \cup {val}) /\ Len(t) = len /\ t[n] = val
         /\ \A w : [t EXCEPT ![n] = w] = [s EXCEPT ![n] = w]
    <2>1. s = [i \in 1 .. len |-> s[i]] /\ \A i \in 1 .. len : s[i] \in S
      BY <1>3, <1>4, <1>5
    <2>2. t = [i \in 1 .. len |-> IF i = n THEN val ELSE s[i]]
      BY <1>5, <1>11
    <2>3. t \in [1 .. len -> S \cup {val}]
      BY <2>1, <2>2
    <2>4. t \in Seq(S \cup {val}) /\ Len(t) = len
      BY <1>4, <2>3
    <2>5. t[n] = val
      BY <1>8, <2>2
    <2>6. \A w : [t EXCEPT ![n] = w] = [s EXCEPT ![n] = w]
      BY <2>1, <2>2
    <2> QED
      BY <2>4, <2>5, <2>6
  <1>13. changed = Array(t)
    BY <1>9, <1>11
  <1>14. IsArray(changed) /\ ~IsObject(changed) /\ changed.value = t
    BY <1>13 DEF Array, IsArray, IsObject
  <1>15. Formed(changed)
    BY <1>12, <1>13, <1>14 DEF Formed
  <1>16. HasChild(changed, token)
    BY <1>6, <1>12, <1>14 DEF HasChild
  <1>17. Child(changed, token) = val
    <2>1. Child(changed, token) = t[array_index(token, len - 1) + 1]
      BY <1>12, <1>14, <1>16 DEF Child
    <2> QED
      BY <1>7, <1>12, <2>1
  <1>18. \A w : WithChild(changed, token, w) = WithChild(j, token, w)
    <2> TAKE w
    <2>1. WithChild(changed, token, w) = Array([t EXCEPT ![array_index(token, len - 1) + 1] = w])
      BY <1>12, <1>14 DEF WithChild
    <2> QED
      BY <1>7, <1>9, <1>12, <2>1
  <1>19. WithChild(j, token, Child(j, token)) = j
    <2>1. [s EXCEPT ![n] = s[n]] = s
      BY <1>3, <1>4, <1>5
    <2> QED
      BY <1>1, <1>3, <1>9, <1>10, <2>1
  <1> QED
    BY <1>15, <1>16, <1>17, <1>18, <1>19

(* The child can be exchanged, and exchanged again.                         *)
LEMMA ExchangeChild ==
    ASSUME NEW j, Formed(j), NEW token, HasChild(j, token), NEW val,
           NEW changed, changed = WithChild(j, token, val)
    PROVE  /\ Formed(changed) /\ HasChild(changed, token) /\ Child(changed, token) = val
           /\ \A w : WithChild(changed, token, w) = WithChild(j, token, w)
           /\ WithChild(j, token, Child(j, token)) = j
           /\ changed # Thrown
  <1>1. changed # Thrown
    BY DEF WithChild, SetKey, Object, Array, Thrown
  <1>2. IsObject(j) \/ IsArray(j)
    BY DEF HasChild
  <1>3. CASE IsObject(j)
    BY <1>1, <1>3, ObjectChild
  <1>4. CASE IsArray(j)
    BY <1>1, <1>4, ArrayChild
  <1> QED
    BY <1>2, <1>3, <1>4

(* The operations that diff makes: nothing is added or removed at the root. *)
Additions == {Addition(ptr, val) : ptr \in Pointer \ {<<>>}, val \in Documents}
Replacements == {Replacement(ptr, val) : ptr \in Pointer, val \in Documents}
Removals == {Removal(ptr) : ptr \in Pointer \ {<<>>}}
Operation == Additions \cup Replacements \cup Removals
Script == Seq(Operation)

Raised(token, operation) == [operation EXCEPT !.path = <<token>> \o @]

(* A token in front of a pointer is in front of its parent's pointer too.   *)
LEMMA FrontBelow ==
    ASSUME NEW token \in Key, NEW ptr \in Pointer, ptr # <<>>
    PROVE  /\ <<token>> \o ptr # <<>> /\ Front(ptr) \in Pointer
           /\ Front(<<token>> \o ptr) = <<token>> \o Front(ptr)
           /\ Last(<<token>> \o ptr) = Last(ptr)
  <1>1. PICK len \in Nat : len = Len(ptr)
    BY LongerPointer
  <1>2. len > 0 /\ ptr \in Seq(Key)
    BY <1>1 DEF Pointer
  <1>3. PICK longer \in Pointer : longer = <<token>> \o ptr
    BY LongerPointer
  <1>4. /\ longer \in Seq(Key) /\ Len(longer) = len + 1 /\ longer[1] = token
        /\ \A n \in 1 .. len : longer[n + 1] = ptr[n]
    <2>1. longer \in Seq(Key)
      BY DEF Pointer
    <2>2. /\ Len(<<token>> \o ptr) = Len(ptr) + 1 /\ (<<token>> \o ptr)[1] = token
          /\ \A n \in 1 .. Len(ptr) : (<<token>> \o ptr)[n + 1] = ptr[n]
      BY LongerPointer
    <2> QED
      BY <1>1, <1>3, <2>1, <2>2
  <1>5. Last(longer) = Last(ptr) /\ longer # <<>>
    BY <1>1, <1>2, <1>4 DEF Last
  <1>6. PICK front \in Pointer : front = Front(ptr) /\ Len(front) = len - 1
            /\ \A n \in 1 .. len - 1 : front[n] = ptr[n]
    <2>1. /\ Front(ptr) \in Seq(Key) /\ Len(Front(ptr)) = len - 1
          /\ \A n \in 1 .. len - 1 : Front(ptr)[n] = ptr[n]
      BY <1>1, <1>2 DEF Front
    <2> QED
      BY <2>1 DEF Pointer
  <1>7. /\ Front(longer) \in Seq(Key) /\ Len(Front(longer)) = len
        /\ \A n \in 1 .. len : Front(longer)[n] = longer[n]
    BY <1>1, <1>4 DEF Front
  <1>8. Front(longer) = <<token>> \o front
    <2>1. PICK other \in Seq(Key) : other = <<token>> \o front
      BY <1>6, LongerPointer DEF Pointer
    <2>2. /\ Len(other) = len /\ other[1] = token
          /\ \A n \in 1 .. len - 1 : other[n + 1] = front[n]
      BY <1>2, <1>6, <2>1, LongerPointer
    <2>3. ASSUME NEW n \in 1 .. len PROVE Front(longer)[n] = other[n]
      <3>1. CASE n = 1
        BY <1>4, <1>7, <2>2, <3>1
      <3>2. CASE n # 1
        <4>1. PICK m \in 1 .. len - 1 : n = m + 1
          BY <3>2
        <4>2. longer[m + 1] = ptr[m] /\ front[m] = ptr[m] /\ other[m + 1] = front[m]
          BY <1>4, <1>6, <2>2, <4>1
        <4> QED
          BY <1>7, <4>1, <4>2
      <3> QED
        BY <3>1, <3>2
    <2>4. Front(longer) = other
      BY <1>7, <2>2, <2>3
    <2> QED
      BY <2>1, <2>4
  <1> QED
    BY <1>3, <1>5, <1>6, <1>8

(* An operation is of one of the three kinds.                               *)
LEMMA OperationCases ==
    ASSUME NEW operation \in Operation
    PROVE  \/ \E ptr \in Pointer \ {<<>>}, val \in Documents : operation = Addition(ptr, val)
           \/ \E ptr \in Pointer, val \in Documents : operation = Replacement(ptr, val)
           \/ \E ptr \in Pointer \ {<<>>} : operation = Removal(ptr)
  BY DEF Operation, Additions, Replacements, Removals

(* A token in front keeps the kind and the value of an operation.           *)
LEMMA RaisedOperation ==
    ASSUME NEW token \in Key, NEW ptr \in Pointer, NEW val
    PROVE  /\ Raised(token, Addition(ptr, val)) = Addition(<<token>> \o ptr, val)
           /\ Raised(token, Replacement(ptr, val)) = Replacement(<<token>> \o ptr, val)
           /\ Raised(token, Removal(ptr)) = Removal(<<token>> \o ptr)
  <1>1. PICK longer : longer = <<token>> \o ptr
    OBVIOUS
  <1>2. Raised(token, Addition(ptr, val)) = Addition(longer, val)
    <2>1. PICK r : r = Addition(ptr, val)
      OBVIOUS
    <2>2. r = [op |-> "add", path |-> ptr, value |-> val]
      BY <2>1 DEF Addition
    <2>3. r.path = ptr
      BY <2>2
    <2>4. [r EXCEPT !.path = longer] = [op |-> "add", path |-> longer, value |-> val]
      BY <2>2
    <2>5. Raised(token, r) = [r EXCEPT !.path = longer]
      BY <1>1, <2>3, Zenon DEF Raised
    <2> QED
      BY <2>1, <2>4, <2>5 DEF Addition
  <1>3. Raised(token, Replacement(ptr, val)) = Replacement(longer, val)
    <2>1. PICK r : r = Replacement(ptr, val)
      OBVIOUS
    <2>2. r = [op |-> "replace", path |-> ptr, value |-> val]
      BY <2>1 DEF Replacement
    <2>3. r.path = ptr
      BY <2>2
    <2>4. [r EXCEPT !.path = longer] = [op |-> "replace", path |-> longer, value |-> val]
      BY <2>2
    <2>5. Raised(token, r) = [r EXCEPT !.path = longer]
      BY <1>1, <2>3, Zenon DEF Raised
    <2> QED
      BY <2>1, <2>4, <2>5 DEF Replacement
  <1>4. Raised(token, Removal(ptr)) = Removal(longer)
    <2>1. PICK r : r = Removal(ptr)
      OBVIOUS
    <2>2. r = [op |-> "remove", path |-> ptr]
      BY <2>1 DEF Removal
    <2>3. r.path = ptr
      BY <2>2
    <2>4. [r EXCEPT !.path = longer] = [op |-> "remove", path |-> longer]
      BY <2>2
    <2>5. Raised(token, r) = [r EXCEPT !.path = longer]
      BY <1>1, <2>3, Zenon DEF Raised
    <2> QED
      BY <2>1, <2>4, <2>5 DEF Removal
  <1> QED
    BY <1>1, <1>2, <1>3, <1>4

(* So it leaves an operation that diff makes.                               *)
LEMMA RaisedType ==
    ASSUME NEW token \in Key, NEW operation \in Operation
    PROVE  Raised(token, operation) \in Operation
  <1>1. CASE \E ptr \in Pointer \ {<<>>}, val \in Documents : operation = Addition(ptr, val)
    <2>1. PICK ptr \in Pointer \ {<<>>}, val \in Documents : operation = Addition(ptr, val)
      BY <1>1
    <2>2. PICK longer \in Pointer \ {<<>>} : longer = <<token>> \o ptr
      BY LongerPointer, FrontBelow
    <2>3. Raised(token, operation) = Addition(longer, val)
      BY <2>1, <2>2, RaisedOperation
    <2>4. Addition(longer, val) \in Additions
      <3>1. longer \in Pointer \ {<<>>} /\ val \in Documents
        BY <2>1, <2>2
      <3> QED
        BY <3>1 DEF Additions
    <2> QED
      BY <2>3, <2>4 DEF Operation
  <1>2. CASE \E ptr \in Pointer, val \in Documents : operation = Replacement(ptr, val)
    <2>1. PICK ptr \in Pointer, val \in Documents : operation = Replacement(ptr, val)
      BY <1>2
    <2>2. <<token>> \o ptr \in Pointer
      BY LongerPointer
    <2>3. Raised(token, operation) = Replacement(<<token>> \o ptr, val)
      BY <2>1, RaisedOperation
    <2> QED
      BY <2>2, <2>3 DEF Operation, Replacements
  <1>3. CASE \E ptr \in Pointer \ {<<>>} : operation = Removal(ptr)
    <2>1. PICK ptr \in Pointer \ {<<>>} : operation = Removal(ptr)
      BY <1>3
    <2>2. <<token>> \o ptr \in Pointer \ {<<>>}
      BY LongerPointer, FrontBelow
    <2>3. Raised(token, operation) = Removal(<<token>> \o ptr)
      BY <2>1, RaisedOperation
    <2> QED
      BY <2>2, <2>3 DEF Operation, Removals
  <1> QED
    BY <1>1, <1>2, <1>3, OperationCases

(* What patch does by the kind of the operation.                            *)
LEMMA AppliedCases ==
    ASSUME NEW j, NEW ptr, NEW val
    PROVE  /\ Applied(j, Addition(ptr, val)) = operation_add(j, ptr, val)
           /\ Applied(j, Replacement(ptr, val)) = operation_replace(j, ptr, val)
           /\ Applied(j, Removal(ptr)) = operation_remove(j, ptr)
  BY DEF Applied, Addition, Replacement, Removal

(* What an edit of a parent makes of a document, seen from the child.       *)
LEMMA EditBelow ==
    ASSUME NEW j, NEW token \in Key, NEW ptr \in Pointer, ptr # <<>>, NEW parent,
           Edit(Child(j, token), ptr, parent) # Thrown
    PROVE  Edit(j, <<token>> \o ptr, parent)
               = WithChild(j, token, Edit(Child(j, token), ptr, parent))
  <1>1. parent # Thrown
    BY DEF Edit
  <1>2. /\ Edit(j, <<token>> \o ptr, parent) = With(j, Front(<<token>> \o ptr), parent)
        /\ Edit(Child(j, token), ptr, parent) = With(Child(j, token), Front(ptr), parent)
    BY <1>1 DEF Edit
  <1>3. PICK front \in Pointer : front = Front(ptr) /\ Front(<<token>> \o ptr) = <<token>> \o front
    BY FrontBelow
  <1>4. With(j, <<token>> \o front, parent) = WithChild(j, token, With(Child(j, token), front, parent))
    BY WithBelow
  <1> QED
    BY <1>2, <1>3, <1>4

(* The parent of a longer pointer is the parent in the child.               *)
LEMMA ParentBelow ==
    ASSUME NEW j, NEW token \in Key, NEW ptr \in Pointer, ptr # <<>>
    PROVE  at(j, Front(<<token>> \o ptr)) = at(Child(j, token), Front(ptr))
  <1>1. PICK front \in Pointer : front = Front(ptr) /\ Front(<<token>> \o ptr) = <<token>> \o front
    BY FrontBelow
  <1>2. at(j, <<token>> \o front) = at(Child(j, token), front)
    BY AtBelow
  <1> QED
    BY <1>1, <1>2

(* An operation with a token in front does to the child what it does alone. *)
LEMMA AppliedBelow ==
    ASSUME NEW j, NEW token \in Key, NEW operation \in Operation,
           Applied(Child(j, token), operation) # Thrown
    PROVE  Applied(j, Raised(token, operation))
               = WithChild(j, token, Applied(Child(j, token), operation))
  <1>1. PICK child : child = Child(j, token)
    OBVIOUS
  <1>2. CASE \E ptr \in Pointer \ {<<>>}, val \in Documents : operation = Addition(ptr, val)
    <2>1. PICK ptr \in Pointer \ {<<>>}, val \in Documents : operation = Addition(ptr, val)
      BY <1>2
    <2>2. PICK longer \in Pointer \ {<<>>} : longer = <<token>> \o ptr
      BY LongerPointer, FrontBelow
    <2>3. /\ Applied(child, operation) = operation_add(child, ptr, val)
          /\ Applied(j, Raised(token, operation)) = operation_add(j, longer, val)
      BY <2>1, <2>2, RaisedOperation, AppliedCases
    <2>4. at(j, Front(longer)) = at(child, Front(ptr)) /\ Last(longer) = Last(ptr)
      BY <1>1, <2>2, ParentBelow, FrontBelow
    <2>5. PICK parent : parent = at(child, Front(ptr))
      OBVIOUS
    <2>6. PICK edited : edited = CASE IsObject(parent) -> SetKey(parent, Last(ptr), val)
                                   [] IsArray(parent) -> InsertedAt(parent, Last(ptr), val)
                                   [] OTHER -> Thrown
      OBVIOUS
    <2>7. operation_add(child, ptr, val) = Edit(child, ptr, edited)
      BY <2>1, <2>5, <2>6 DEF operation_add
    <2>8. operation_add(j, longer, val) = Edit(j, longer, edited)
      BY <2>2, <2>4, <2>5, <2>6 DEF operation_add
    <2>9. Edit(j, <<token>> \o ptr, edited) = WithChild(j, token, Edit(child, ptr, edited))
      BY <1>1, <2>3, <2>7, EditBelow
    <2> QED
      BY <1>1, <2>2, <2>3, <2>7, <2>8, <2>9
  <1>3. CASE \E ptr \in Pointer, val \in Documents : operation = Replacement(ptr, val)
    <2>1. PICK ptr \in Pointer, val \in Documents : operation = Replacement(ptr, val)
      BY <1>3
    <2>2. /\ Applied(child, operation) = operation_replace(child, ptr, val)
          /\ Applied(j, Raised(token, operation)) = operation_replace(j, <<token>> \o ptr, val)
      BY <2>1, RaisedOperation, AppliedCases
    <2>3. at(j, <<token>> \o ptr) = at(child, ptr)
      BY <1>1, AtBelow
    <2>4. at(child, ptr) # Thrown /\ operation_replace(child, ptr, val) = With(child, ptr, val)
      BY <1>1, <2>2 DEF operation_replace
    <2>5. operation_replace(j, <<token>> \o ptr, val) = With(j, <<token>> \o ptr, val)
      BY <2>3, <2>4 DEF operation_replace
    <2>6. With(j, <<token>> \o ptr, val) = WithChild(j, token, With(child, ptr, val))
      BY <1>1, WithBelow
    <2> QED
      BY <1>1, <2>2, <2>4, <2>5, <2>6
  <1>4. CASE \E ptr \in Pointer \ {<<>>} : operation = Removal(ptr)
    <2>1. PICK ptr \in Pointer \ {<<>>} : operation = Removal(ptr)
      BY <1>4
    <2>2. PICK longer \in Pointer \ {<<>>} : longer = <<token>> \o ptr
      BY LongerPointer, FrontBelow
    <2>3. /\ Applied(child, operation) = operation_remove(child, ptr)
          /\ Applied(j, Raised(token, operation)) = operation_remove(j, longer)
      BY <2>1, <2>2, RaisedOperation, AppliedCases
    <2>4. at(j, Front(longer)) = at(child, Front(ptr)) /\ Last(longer) = Last(ptr)
      BY <1>1, <2>2, ParentBelow, FrontBelow
    <2>5. PICK parent : parent = at(child, Front(ptr))
      OBVIOUS
    <2>6. PICK edited :
              edited = CASE HasChild(parent, Last(ptr)) /\ IsObject(parent) ->
                                Object([k \in DOMAIN parent.value \ {Last(ptr)} |-> parent.value[k]])
                         [] HasChild(parent, Last(ptr)) /\ IsArray(parent) ->
                                Array(RemoveAt(parent.value,
                                               array_index(Last(ptr), Len(parent.value) - 1) + 1))
                         [] OTHER -> Thrown
      OBVIOUS
    <2>7. operation_remove(child, ptr) = Edit(child, ptr, edited)
      BY <2>5, <2>6, Zenon DEF operation_remove
    <2>8. operation_remove(j, longer) = Edit(j, longer, edited)
      BY <2>4, <2>5, <2>6, Zenon DEF operation_remove
    <2>9. Edit(j, <<token>> \o ptr, edited) = WithChild(j, token, Edit(child, ptr, edited))
      BY <1>1, <2>3, <2>7, EditBelow
    <2> QED
      BY <1>1, <2>2, <2>3, <2>7, <2>8, <2>9
  <1> QED
    BY <1>2, <1>3, <1>4, OperationCases

(* The operations, applied in their order, make one document of another,    *)
(* and none of them throws.                                                 *)
Through(f, ops) ==
    /\ \A n \in 1 .. Len(ops) : f[n] = Applied(f[n - 1], ops[n])
    /\ \A n \in 0 .. Len(ops) : f[n] # Thrown
Carries(j, ops, k) == \E f : Through(f, ops) /\ f[0] = j /\ f[Len(ops)] = k

(* No operation changes nothing.                                            *)
LEMMA CarriesNothing ==
    ASSUME NEW j, NEW k
    PROVE  /\ j # Thrown => Carries(j, <<>>, j) /\ <<>> \in Script
           /\ Carries(j, <<>>, k) => j = k
  <1>1. <<>> \in Script /\ Len(<<>>) = 0
    BY DEF Script
  <1>2. ASSUME j # Thrown PROVE Carries(j, <<>>, j)
    <2> DEFINE f == [n \in 0 .. 0 |-> j]
    <2>1. f[0] = j /\ \A n \in 0 .. 0 : f[n] = j
      OBVIOUS
    <2> HIDE DEF f
    <2>2. Through(f, <<>>)
      BY <1>1, <1>2, <2>1 DEF Through
    <2> QED
      BY <1>1, <2>1, <2>2 DEF Carries
  <1>3. Carries(j, <<>>, k) => j = k
    BY <1>1 DEF Carries
  <1> QED
    BY <1>1, <1>2, <1>3

(* One operation carries to what it makes.                                  *)
LEMMA CarriesOne ==
    ASSUME NEW j, NEW operation \in Operation, j # Thrown, Applied(j, operation) # Thrown
    PROVE  <<operation>> \in Script /\ Carries(j, <<operation>>, Applied(j, operation))
  <1>1. PICK ops \in Script : ops = <<operation>> /\ Len(ops) = 1 /\ ops[1] = operation
    <2>1. <<operation>> \in Seq(Operation) /\ Len(<<operation>>) = 1 /\ <<operation>>[1] = operation
      OBVIOUS
    <2> QED
      BY <2>1 DEF Script
  <1>2. PICK k : k = Applied(j, operation)
    OBVIOUS
  <1> DEFINE f == [n \in 0 .. 1 |-> IF n = 0 THEN j ELSE k]
  <1>3. f[0] = j /\ f[1] = k
    OBVIOUS
  <1> HIDE DEF f
  <1>4. Through(f, ops)
    <2>1. \A n \in 1 .. 1 : n = 1 /\ n - 1 = 0
      OBVIOUS
    <2>2. \A n \in 0 .. 1 : n = 0 \/ n = 1
      OBVIOUS
    <2> QED
      BY <1>1, <1>2, <1>3, <2>1, <2>2 DEF Through
  <1>5. Carries(j, ops, k)
    BY <1>1, <1>3, <1>4 DEF Carries
  <1> QED
    BY <1>1, <1>2, <1>5

(* Two scripts, one after the other.                                        *)
LEMMA CarriesBoth ==
    ASSUME NEW a \in Script, NEW b \in Script, NEW j, NEW k, NEW l,
           Carries(j, a, k), Carries(k, b, l)
    PROVE  a \o b \in Script /\ Carries(j, a \o b, l)
  <1>1. PICK f : Through(f, a) /\ f[0] = j /\ f[Len(a)] = k
    BY DEF Carries
  <1>2. PICK g : Through(g, b) /\ g[0] = k /\ g[Len(b)] = l
    BY DEF Carries
  <1>3. PICK m \in Nat, n \in Nat : m = Len(a) /\ n = Len(b)
    BY DEF Script
  <1>4. PICK ops \in Script : /\ ops = a \o b /\ Len(ops) = m + n
                              /\ \A i \in 1 .. m : ops[i] = a[i]
                              /\ \A i \in 1 .. n : ops[m + i] = b[i]
    <2>1. a \in Seq(Operation) /\ b \in Seq(Operation)
      BY DEF Script
    <2>2. /\ a \o b \in Seq(Operation) /\ Len(a \o b) = m + n
          /\ \A i \in 1 .. m : (a \o b)[i] = a[i]
          /\ \A i \in 1 .. n : (a \o b)[m + i] = b[i]
      BY <1>3, <2>1
    <2> QED
      BY <2>2 DEF Script
  <1> DEFINE h == [i \in 0 .. m + n |-> IF i <= m THEN f[i] ELSE g[i - m]]
  <1>5. \A i \in 0 .. m : h[i] = f[i]
    OBVIOUS
  <1>6. \A i \in 0 .. n : h[m + i] = g[i]
    <2> TAKE i \in 0 .. n
    <2>1. CASE i = 0
      BY <1>1, <1>2, <1>3, <2>1
    <2>2. CASE i # 0
      <3>1. m + i \in 0 .. m + n /\ ~(m + i <= m) /\ (m + i) - m = i
        BY <2>2
      <3> QED
        BY <3>1
    <2> QED
      BY <2>1, <2>2
  <1> HIDE DEF h
  <1>7. ASSUME NEW i \in 1 .. m + n PROVE h[i] = Applied(h[i - 1], ops[i])
    <2>1. CASE i <= m
      <3>1. i \in 1 .. m /\ i \in 0 .. m /\ i - 1 \in 0 .. m
        BY <2>1
      <3> QED
        BY <1>1, <1>3, <1>4, <1>5, <3>1 DEF Through
    <2>2. CASE ~(i <= m)
      <3>1. PICK x \in 1 .. n : i = m + x
        BY <2>2
      <3>2. x \in 0 .. n /\ x - 1 \in 0 .. n /\ i - 1 = m + (x - 1)
        BY <3>1
      <3>3. g[x] = Applied(g[x - 1], b[x])
        BY <1>2, <1>3 DEF Through
      <3>4. h[i] = g[x] /\ h[i - 1] = g[x - 1] /\ ops[i] = b[x]
        BY <1>4, <1>6, <3>1, <3>2
      <3> QED
        BY <3>3, <3>4
    <2> QED
      BY <2>1, <2>2
  <1>8. ASSUME NEW i \in 0 .. m + n PROVE h[i] # Thrown
    <2>1. CASE i <= m
      <3>1. i \in 0 .. m
        BY <2>1
      <3> QED
        BY <1>1, <1>3, <1>5, <3>1 DEF Through
    <2>2. CASE ~(i <= m)
      <3>1. PICK x \in 0 .. n : i = m + x
        BY <2>2
      <3> QED
        BY <1>2, <1>3, <1>6, <3>1 DEF Through
    <2> QED
      BY <2>1, <2>2
  <1>9. Through(h, ops)
    BY <1>4, <1>7, <1>8 DEF Through
  <1>10. h[0] = j /\ h[m + n] = l
    <2>1. 0 \in 0 .. m /\ n \in 0 .. n
      OBVIOUS
    <2> QED
      BY <1>1, <1>2, <1>3, <1>5, <1>6, <2>1
  <1>11. Carries(j, ops, l)
    BY <1>4, <1>9, <1>10 DEF Carries
  <1> QED
    BY <1>4, <1>11

(* The first operation does not throw, and the others carry on from there.  *)
LEMMA CarriesStep ==
    ASSUME NEW ops \in Script, ops # <<>>, NEW j, NEW k, Carries(j, ops, k)
    PROVE  /\ Tail(ops) \in Script /\ Applied(j, Head(ops)) # Thrown
           /\ Carries(Applied(j, Head(ops)), Tail(ops), k)
  <1>1. PICK f : Through(f, ops) /\ f[0] = j /\ f[Len(ops)] = k
    BY DEF Carries
  <1>2. PICK n \in Nat : Len(ops) = n + 1
    <2>1. Len(ops) \in Nat /\ Len(ops) # 0
      BY DEF Script
    <2> QED
      BY <2>1
  <1>3. PICK rest \in Script : rest = Tail(ops) /\ Len(rest) = n /\ \A i \in 1 .. n : rest[i] = ops[i + 1]
    <2>1. /\ Tail(ops) \in Seq(Operation) /\ Len(Tail(ops)) = n
          /\ \A i \in 1 .. n : Tail(ops)[i] = ops[i + 1]
      BY <1>2 DEF Script
    <2> QED
      BY <2>1 DEF Script
  <1>4. Head(ops) = ops[1]
    BY DEF Script
  <1> DEFINE g == [i \in 0 .. n |-> f[i + 1]]
  <1>5. \A i \in 0 .. n : g[i] = f[i + 1]
    OBVIOUS
  <1> HIDE DEF g
  <1>6. \A i \in 1 .. n + 1 : f[i] = Applied(f[i - 1], ops[i])
    BY <1>1, <1>2 DEF Through
  <1>7. \A i \in 0 .. n + 1 : f[i] # Thrown
    BY <1>1, <1>2 DEF Through
  <1>8. ASSUME NEW i \in 1 .. n PROVE g[i] = Applied(g[i - 1], rest[i])
    <2>1. i \in 0 .. n /\ i - 1 \in 0 .. n /\ (i - 1) + 1 = i /\ i + 1 \in 1 .. n + 1 /\ (i + 1) - 1 = i
      OBVIOUS
    <2> QED
      BY <1>3, <1>5, <1>6, <2>1
  <1>9. Through(g, rest)
    BY <1>3, <1>5, <1>7, <1>8 DEF Through
  <1>10. g[0] = Applied(j, Head(ops)) /\ g[n] = k /\ g[0] # Thrown
    <2>1. 0 \in 0 .. n /\ n \in 0 .. n /\ 1 \in 1 .. n + 1 /\ 1 \in 0 .. n + 1 /\ 1 - 1 = 0 /\ 0 + 1 = 1
      OBVIOUS
    <2> QED
      BY <1>1, <1>2, <1>4, <1>5, <1>6, <1>7, <2>1
  <1>11. Carries(Applied(j, Head(ops)), rest, k)
    BY <1>3, <1>9, <1>10 DEF Carries
  <1> QED
    BY <1>3, <1>10, <1>11

(* Operations on a child.                                                   *)
LEMMA BelowType ==
    ASSUME NEW token \in Key, NEW ops \in Script
    PROVE  /\ Below(token, ops) \in Script /\ Len(Below(token, ops)) = Len(ops)
           /\ \A n \in 1 .. Len(ops) : Below(token, ops)[n] = Raised(token, ops[n])
  <1>1. PICK len \in Nat : len = Len(ops) /\ DOMAIN ops = 1 .. len
    BY DEF Script
  <1>2. Below(token, ops) = [n \in 1 .. len |-> Raised(token, ops[n])]
    BY <1>1 DEF Below, Raised
  <1>3. \A n \in 1 .. len : Raised(token, ops[n]) \in Operation
    <2> TAKE n \in 1 .. len
    <2>1. ops[n] \in Operation
      BY <1>1 DEF Script
    <2> QED
      BY <2>1, RaisedType
  <1>4. Below(token, ops) \in [1 .. len -> Operation]
    BY <1>2, <1>3
  <1>5. Below(token, ops) \in Seq(Operation) /\ Len(Below(token, ops)) = len
    <2>1. PICK g \in [1 .. len -> Operation] : g = Below(token, ops)
      BY <1>4
    <2>2. g \in Seq(Operation) /\ Len(g) = len
      BY <1>1
    <2> QED
      BY <2>1, <2>2
  <1>6. \A n \in 1 .. len : Below(token, ops)[n] = Raised(token, ops[n])
    BY <1>2
  <1> QED
    BY <1>1, <1>5, <1>6 DEF Script

(* A script with a token in front does to the child what it does alone.     *)
LEMMA CarriesBelow ==
    ASSUME NEW j, Formed(j), NEW token \in Key, HasChild(j, token), NEW ops \in Script,
           NEW d, Carries(Child(j, token), ops, d)
    PROVE  Carries(j, Below(token, ops), WithChild(j, token, d))
  <1>1. PICK f : Through(f, ops) /\ f[0] = Child(j, token) /\ f[Len(ops)] = d
    BY DEF Carries
  <1>2. PICK len \in Nat : len = Len(ops)
    BY DEF Script
  <1>3. PICK raised \in Script :
            /\ raised = Below(token, ops) /\ Len(raised) = len
            /\ \A n \in 1 .. len : raised[n] = Raised(token, ops[n])
    BY <1>2, BelowType
  <1> DEFINE g == [n \in 0 .. len |-> WithChild(j, token, f[n])]
  <1>4. \A n \in 0 .. len : g[n] = WithChild(j, token, f[n])
    OBVIOUS
  <1> HIDE DEF g
  <1>5. ASSUME NEW n \in 1 .. len PROVE g[n] = Applied(g[n - 1], raised[n])
    <2>1. n \in 0 .. len /\ n - 1 \in 0 .. len
      OBVIOUS
    <2>2. PICK before : before = g[n - 1]
      OBVIOUS
    <2>3. PICK val : val = f[n - 1] /\ before = WithChild(j, token, val)
      BY <1>4, <2>1, <2>2
    <2>4. /\ Formed(before) /\ HasChild(before, token) /\ Child(before, token) = f[n - 1]
          /\ \A w : WithChild(before, token, w) = WithChild(j, token, w)
      <3>1. before = WithChild(j, token, val)
        BY <2>3
      <3>2. /\ Formed(before) /\ HasChild(before, token) /\ Child(before, token) = val
            /\ \A w : WithChild(before, token, w) = WithChild(j, token, w)
        <4>1. Formed(before)
          BY <3>1, ExchangeChild
        <4>2. HasChild(before, token)
          BY <3>1, ExchangeChild
        <4>3. Child(before, token) = val
          BY <3>1, ExchangeChild
        <4>4. \A w : WithChild(before, token, w) = WithChild(j, token, w)
          BY <3>1, ExchangeChild
        <4> QED
          BY <4>1, <4>2, <4>3, <4>4
      <3> QED
        BY <2>3, <3>2
    <2>5. PICK operation \in Operation : operation = ops[n]
      BY <1>2 DEF Script
    <2>6. f[n] = Applied(f[n - 1], operation) /\ f[n] # Thrown
      BY <1>1, <1>2, <2>1, <2>5 DEF Through
    <2>7. Applied(before, Raised(token, operation)) = WithChild(before, token, Applied(Child(before, token), operation))
      BY <2>4, <2>6, AppliedBelow
    <2>8. Applied(before, Raised(token, operation)) = WithChild(j, token, f[n])
      BY <2>4, <2>6, <2>7
    <2> QED
      BY <1>3, <1>4, <2>1, <2>2, <2>5, <2>8
  <1>6. ASSUME NEW n \in 0 .. len PROVE g[n] # Thrown
    <2>1. PICK changed : changed = WithChild(j, token, f[n])
      OBVIOUS
    <2>2. changed # Thrown
      BY <2>1 DEF WithChild, SetKey, Object, Array, Thrown
    <2> QED
      BY <1>4, <2>1, <2>2
  <1>7. Through(g, raised)
    BY <1>3, <1>5, <1>6 DEF Through
  <1>8. g[0] = j /\ g[len] = WithChild(j, token, d)
    <2>1. 0 \in 0 .. len /\ len \in 0 .. len
      OBVIOUS
    <2>2. PICK same : same = WithChild(j, token, Child(j, token))
      OBVIOUS
    <2>3. same = j
      BY <2>2, ExchangeChild
    <2> QED
      BY <1>1, <1>2, <1>4, <2>1, <2>2, <2>3
  <1>9. Carries(j, raised, WithChild(j, token, d))
    BY <1>3, <1>7, <1>8 DEF Carries
  <1> QED
    BY <1>3, <1>9

(* Scripts one behind the other.                                            *)
LEMMA FlattenDef ==
    ASSUME NEW scripts \in Seq(Script), Len(scripts) > 0
    PROVE  \E f : /\ FlattenSeq(scripts) = f[Len(scripts)] /\ f[1] = scripts[1]
                  /\ \A i \in 2 .. Len(scripts) : f[i] = f[i - 1] \o scripts[i]
  <1> DEFINE len == Len(scripts)
             Def(m, g) == g = [i \in 1 .. m |-> IF i = 1 THEN scripts[i] ELSE g[i - 1] \o scripts[i]]
             S == {m \in Nat : \E g : Def(m, g)}
  <1>1. len \in Nat /\ len > 0
    OBVIOUS
  <1>2. 0 \in S
    <2>1. Def(0, [i \in 1 .. 0 |-> scripts[i]])
      OBVIOUS
    <2> HIDE DEF Def
    <2> QED
      BY <2>1
  <1>3. ASSUME NEW m \in 0 .. len - 1, m \in S PROVE m + 1 \in S
    <2>1. PICK g : Def(m, g)
      BY <1>3
    <2> DEFINE h == [i \in 1 .. m + 1 |-> IF i = 1 THEN scripts[i]
                                          ELSE IF i = m + 1 THEN g[m] \o scripts[i] ELSE g[i]]
    <2>2. \A i \in 1 .. m + 1 : h[i] = IF i = 1 THEN scripts[i] ELSE h[i - 1] \o scripts[i]
      <3> TAKE i \in 1 .. m + 1
      <3>1. CASE i = 1
        BY <3>1
      <3>2. CASE i # 1
        <4>1. i - 1 \in 1 .. m /\ i - 1 \in 1 .. m + 1 /\ i - 1 # m + 1
          BY <1>1, <3>2
        <4>2. h[i - 1] = g[i - 1]
          BY <2>1, <4>1
        <4>3. h[i] = g[i - 1] \o scripts[i]
          <5>1. CASE i = m + 1
            <6>1. i - 1 = m
              BY <1>1, <5>1
            <6> QED
              BY <3>2, <5>1, <6>1
          <5>2. CASE i # m + 1
            <6>1. i \in 1 .. m
              BY <1>1, <5>2
            <6> QED
              BY <2>1, <3>2, <5>2, <6>1
          <5> QED
            BY <5>1, <5>2
        <4> QED
          BY <3>2, <4>2, <4>3
      <3> QED
        BY <3>1, <3>2
    <2>3. Def(m + 1, h)
      BY <2>2
    <2> HIDE DEF Def, h
    <2>4. m + 1 \in Nat /\ \E k : Def(m + 1, k)
      BY <1>1, <2>3
    <2> QED
      BY <2>4
  <1>4. len \in S
    <2>1. S \in SUBSET Nat
      OBVIOUS
    <2>2. \A k \in 0 .. len - 1 : k \in S => k + 1 \in S
      BY <1>3
    <2> HIDE DEF S
    <2>3. 0 .. len \subseteq S
      BY <1>1, <1>2, <2>1, <2>2, SetInduction
    <2> QED
      BY <1>1, <2>3
  <1>5. FlattenSeq(scripts) = (CHOOSE g : Def(len, g))[len]
    BY <1>1 DEF FlattenSeq
  <1>6. PICK f : f = CHOOSE g : Def(len, g)
    OBVIOUS
  <1>7. Def(len, f)
    BY <1>4, <1>6
  <1>8. f[1] = scripts[1] /\ \A i \in 2 .. len : f[i] = f[i - 1] \o scripts[i]
    <2>1. f = [i \in 1 .. len |-> IF i = 1 THEN scripts[i] ELSE f[i - 1] \o scripts[i]]
      BY <1>7
    <2>2. ASSUME NEW i \in 1 .. len
          PROVE  f[i] = IF i = 1 THEN scripts[i] ELSE f[i - 1] \o scripts[i]
      BY <2>1
    <2>3. 1 \in 1 .. len
      BY <1>1
    <2>4. \A i \in 2 .. len : i \in 1 .. len /\ i # 1
      BY <1>1
    <2> QED
      BY <2>2, <2>3, <2>4
  <1> HIDE DEF Def
  <1> QED
    BY <1>5, <1>6, <1>8

(* Any number of scripts, one after the other.                              *)
LEMMA CarriesChain ==
    ASSUME NEW scripts \in Seq(Script), NEW M, M[0] # Thrown,
           \A i \in 1 .. Len(scripts) : Carries(M[i - 1], scripts[i], M[i])
    PROVE  /\ FlattenSeq(scripts) \in Script
           /\ Carries(M[0], FlattenSeq(scripts), M[Len(scripts)])
  <1>1. PICK len \in Nat : len = Len(scripts)
    OBVIOUS
  <1>2. CASE len = 0
    <2>1. FlattenSeq(scripts) = <<>>
      <3>1. scripts = <<>> /\ Len(scripts) = 0
        <4>1. scripts \in Seq(Script) /\ Len(scripts) = 0
          BY <1>1, <1>2
        <4> QED
          BY <4>1
      <3>2. FlattenSeq(scripts) = scripts
        BY <3>1, Zenon DEF FlattenSeq
      <3> QED
        BY <3>1, <3>2
    <2> QED
      BY <1>1, <1>2, <2>1, CarriesNothing
  <1>3. CASE len > 0
    <2>1. PICK f : /\ FlattenSeq(scripts) = f[len] /\ f[1] = scripts[1]
                   /\ \A i \in 2 .. len : f[i] = f[i - 1] \o scripts[i]
      BY <1>1, <1>3, FlattenDef
    <2> DEFINE S == {n \in Nat : n < len => f[n + 1] \in Script /\ Carries(M[0], f[n + 1], M[n + 1])}
    <2>2. 0 \in S
      <3>1. 1 \in 1 .. Len(scripts) /\ 1 - 1 = 0 /\ 0 + 1 = 1
        BY <1>1, <1>3
      <3>2. scripts[1] \in Script /\ Carries(M[0], scripts[1], M[1])
        BY <3>1
      <3> QED
        BY <2>1, <3>1, <3>2
    <2>3. ASSUME NEW n \in 0 .. len - 1, n \in S PROVE n + 1 \in S
      <3>1. CASE n + 1 = len
        BY <1>1, <3>1
      <3>2. CASE n + 1 # len
        <4>1. /\ n < len /\ n + 1 \in Nat /\ (n + 1) + 1 \in 2 .. len /\ (n + 1) + 1 \in 1 .. Len(scripts)
              /\ ((n + 1) + 1) - 1 = n + 1
          BY <1>1, <3>2
        <4>2. f[n + 1] \in Script /\ Carries(M[0], f[n + 1], M[n + 1])
          BY <2>3, <4>1
        <4>3. scripts[(n + 1) + 1] \in Script /\ Carries(M[n + 1], scripts[(n + 1) + 1], M[(n + 1) + 1])
          BY <4>1
        <4>4. f[(n + 1) + 1] = f[n + 1] \o scripts[(n + 1) + 1]
          BY <2>1, <4>1
        <4>5. f[(n + 1) + 1] \in Script /\ Carries(M[0], f[(n + 1) + 1], M[(n + 1) + 1])
          BY <4>2, <4>3, <4>4, CarriesBoth
        <4> QED
          BY <4>1, <4>5
      <3> QED
        BY <3>1, <3>2
    <2>4. S \in SUBSET Nat
      OBVIOUS
    <2>5. 0 .. len \subseteq S
      <3> HIDE DEF S
      <3> QED
        BY <2>2, <2>3, <2>4, SetInduction
    <2>6. PICK n \in Nat : n = len - 1 /\ n \in 0 .. len /\ n < len /\ n + 1 = len
      BY <1>3
    <2>7. n \in S
      <3> HIDE DEF S
      <3> QED
        BY <2>5, <2>6
    <2>8. f[len] \in Script /\ Carries(M[0], f[len], M[len])
      BY <2>6, <2>7
    <2> QED
      BY <1>1, <2>1, <2>8
  <1> QED
    BY <1>1, <1>2, <1>3

(* SetToSeq lists a finite set, each element once.                          *)
LEMMA ListOfSet ==
    ASSUME NEW S, IsFiniteSet(S)
    PROVE  \E len \in Nat :
               /\ SetToSeq(S) \in [1 .. len -> S] /\ Len(SetToSeq(S)) = len
               /\ \A m, n \in 1 .. len : SetToSeq(S)[m] = SetToSeq(S)[n] => m = n
               /\ \A x \in S : \E n \in 1 .. len : SetToSeq(S)[n] = x
  <1>1. PICK len \in Nat : len = Cardinality(S)
    BY FS_CardinalityType
  <1>2. PICK f : f \in Bijection(1 .. len, S)
    BY <1>1, FS_CardinalityType DEF ExistsBijection
  <1>3. f \in [1 .. len -> S] /\ IsInjective(f)
    BY <1>2 DEF Bijection, Injection, IsInjective
  <1>4. PICK g : g = SetToSeq(S)
    OBVIOUS
  <1>5. g \in [1 .. len -> S] /\ IsInjective(g)
    BY <1>1, <1>3, <1>4 DEF SetToSeq
  <1>6. \A m, n \in 1 .. len : g[m] = g[n] => m = n
    BY <1>5 DEF IsInjective
  <1>7. g \in Surjection(1 .. len, S)
    <2>1. g \in Injection(1 .. len, S)
      BY <1>5, <1>6 DEF Injection, IsInjective
    <2>2. Cardinality(1 .. len) = len
      BY FS_Interval
    <2> QED
      BY <1>1, <2>1, <2>2, FS_Injection
  <1>8. \A x \in S : \E n \in 1 .. len : g[n] = x
    BY <1>7 DEF Surjection
  <1>9. Len(g) = len
    BY <1>5
  <1> QED
    BY <1>4, <1>5, <1>6, <1>8, <1>9

(* Documents. *)
LEMMA DocumentType ==
    ASSUME NEW j \in Documents
    PROVE  /\ Formed(j) /\ j # Thrown /\ Depth[j] \in Nat /\ j = [type |-> j.type, value |-> j.value]
           /\ IsObject(j) => /\ IsFiniteSet(DOMAIN j.value) /\ DOMAIN j.value \subseteq Key
                             /\ j.value = [k \in DOMAIN j.value |-> j.value[k]]
                             /\ \A k \in DOMAIN j.value :
                                    j.value[k] \in Documents /\ Depth[j.value[k]] < Depth[j]
           /\ IsArray(j) => /\ j.value \in Seq(Documents)
                            /\ \A i \in 1 .. Len(j.value) :
                                   j.value[i] \in Documents /\ Depth[j.value[i]] < Depth[j]
                            /\ \A m \in 0 .. Len(j.value) : Token(m) \in Key
                            /\ \A m, n \in 0 .. Len(j.value) : Token(m) = Token(n) => m = n
  <1>1. /\ j = [type |-> j.type, value |-> j.value] /\ j.type # Thrown.type
        /\ Depth[j] \in Nat
        /\ IsObject(j) =>
              /\ IsFiniteSet(DOMAIN j.value) /\ DOMAIN j.value \subseteq STRING
              /\ j.value = [k \in DOMAIN j.value |-> j.value[k]]
              /\ \A k \in DOMAIN j.value : j.value[k] \in Documents /\ Depth[j.value[k]] < Depth[j]
        /\ IsArray(j) =>
              /\ j.value \in Seq(Documents)
              /\ \A i \in DOMAIN j.value : Depth[j.value[i]] < Depth[j]
              /\ \A m, n \in 0 .. Len(j.value) : Token(m) \in STRING /\ (Token(m) = Token(n) => m = n)
    BY PatchAssumption, Zenon DEF IsDocument
  <1>2. j # Thrown
    BY <1>1
  <1>3. ASSUME IsArray(j)
        PROVE  /\ j.value \in Seq(Documents)
               /\ \A i \in 1 .. Len(j.value) : j.value[i] \in Documents /\ Depth[j.value[i]] < Depth[j]
               /\ \A m \in 0 .. Len(j.value) : Token(m) \in Key
               /\ \A m, n \in 0 .. Len(j.value) : Token(m) = Token(n) => m = n
    <2>1. j.value \in Seq(Documents) /\ \A i \in DOMAIN j.value : Depth[j.value[i]] < Depth[j]
      BY <1>1, <1>3
    <2>2. PICK s \in Seq(Documents) : s = j.value
      BY <2>1
    <2>3. DOMAIN s = 1 .. Len(s) /\ \A i \in 1 .. Len(s) : s[i] \in Documents
      BY <2>2
    <2>4. \A m \in 0 .. Len(j.value) : Token(m) \in Key
      BY <1>1, <1>3, Zenon DEF Key
    <2>5. \A m, n \in 0 .. Len(j.value) : Token(m) = Token(n) => m = n
      BY <1>1, <1>3, Zenon
    <2> QED
      BY <2>1, <2>2, <2>3, <2>4, <2>5
  <1>4. ASSUME IsObject(j)
        PROVE  /\ IsFiniteSet(DOMAIN j.value) /\ DOMAIN j.value \subseteq Key
               /\ j.value = [k \in DOMAIN j.value |-> j.value[k]]
               /\ \A k \in DOMAIN j.value : j.value[k] \in Documents /\ Depth[j.value[k]] < Depth[j]
    BY <1>1, <1>4, Zenon DEF Key
  <1>5. Formed(j)
    <2>1. IsObject(j) => j = Object([k \in DOMAIN j.value |-> j.value[k]])
      BY <1>1, <1>4 DEF Object, IsObject
    <2>2. IsArray(j) => j = Array(j.value)
      BY <1>1 DEF Array, IsArray
    <2> QED
      BY <1>3, <2>1, <2>2 DEF Formed
  <1> QED
    BY <1>1, <1>2, <1>3, <1>4, <1>5

-----------------------------------------------------------------------------
(* A depth is a number.                                                     *)
LEMMA DepthType == \A j \in Documents : Depth[j] \in Nat
  BY DocumentType

(* The recursion of diff.  A call depends on the calls for values that are  *)
(* nested less deep than its source.                                        *)
Agree(f, g, depth) ==
    \A a \in Documents, b \in Documents : Depth[a] < depth => f[<<a, b>>] = g[<<a, b>>]

(* A call of diff asks only for calls on values that are nested less deep.  *)
LEMMA DiffByAgree ==
    ASSUME NEW source \in Documents, NEW target \in Documents, NEW f, NEW g,
           Agree(f, g, Depth[source])
    PROVE  diffBy(f, source, target) = diffBy(g, source, target)
  <1>1. CASE IsArray(source) /\ IsArray(target)
    <2>1. PICK s \in Seq(Documents), t \in Seq(Documents) : s = source.value /\ t = target.value
      BY <1>1, DocumentType
    <2>2. PICK common \in Nat : /\ common = IF Len(s) < Len(t) THEN Len(s) ELSE Len(t)
                                /\ common <= Len(s) /\ common <= Len(t)
      OBVIOUS
    <2>3. \A i \in 1 .. common : f[<<s[i], t[i]>>] = g[<<s[i], t[i]>>]
      <3> TAKE i \in 1 .. common
      <3>1. i \in 1 .. Len(s) /\ i \in 1 .. Len(t)
        BY <2>2
      <3>2. s[i] \in Documents /\ t[i] \in Documents /\ Depth[s[i]] < Depth[source]
        BY <1>1, <2>1, <3>1, DocumentType
      <3> QED
        BY <3>2 DEF Agree
    <2>4. [i \in 1 .. common |-> Below(Token(i - 1), f[<<s[i], t[i]>>])]
              = [i \in 1 .. common |-> Below(Token(i - 1), g[<<s[i], t[i]>>])]
      BY <2>3
    <2>5. \A given : diffArrays(given, s, t)
                         = FlattenSeq([i \in 1 .. common |-> Below(Token(i - 1), given[<<s[i], t[i]>>])])
                               \o RemoveRest(s, common) \o AddRest(t, common)
      BY <2>2, Zenon DEF diffArrays
    <2>6. diffArrays(f, s, t) = diffArrays(g, s, t)
      BY <2>4, <2>5, Zenon
    <2>7. ~IsObject(source)
      BY <1>1 DEF IsArray, IsObject
    <2> QED
      BY <1>1, <2>1, <2>6, <2>7, Zenon DEF diffBy
  <1>2. CASE IsObject(source) /\ IsObject(target)
    <2>1. PICK s, t : s = source.value /\ t = target.value
      OBVIOUS
    <2>2. \A k \in DOMAIN s : k \in DOMAIN t => f[<<s[k], t[k]>>] = g[<<s[k], t[k]>>]
      <3> TAKE k \in DOMAIN s
      <3> HAVE k \in DOMAIN t
      <3>1. s[k] \in Documents /\ t[k] \in Documents /\ Depth[s[k]] < Depth[source]
        BY <1>2, <2>1, DocumentType
      <3> QED
        BY <3>1 DEF Agree
    <2>3. \A k \in DOMAIN s : Old(f, s, t, k) = Old(g, s, t, k)
      BY <2>2 DEF Old
    <2>4. PICK keys : keys = SetToSeq(DOMAIN s)
      OBVIOUS
    <2>5. PICK len \in Nat : keys \in [1 .. len -> DOMAIN s]
      <3>1. IsFiniteSet(DOMAIN s)
        BY <1>2, <2>1, DocumentType
      <3> QED
        BY <2>4, <3>1, ListOfSet
    <2>6. [i \in DOMAIN keys |-> Old(f, s, t, keys[i])] = [i \in DOMAIN keys |-> Old(g, s, t, keys[i])]
      BY <2>3, <2>5
    <2>7. PICK added : added = SetToSeq(DOMAIN t \ DOMAIN s)
      OBVIOUS
    <2>8. \A given : diffObjects(given, s, t)
                         = FlattenSeq([i \in DOMAIN keys |-> Old(given, s, t, keys[i])])
                               \o [i \in DOMAIN added |-> Addition(<<added[i]>>, t[added[i]])]
      BY <2>4, <2>7, Zenon DEF diffObjects
    <2>9. diffObjects(f, s, t) = diffObjects(g, s, t)
      BY <2>6, <2>8, Zenon
    <2>10. ~IsArray(source)
      BY <1>2 DEF IsArray, IsObject
    <2> QED
      BY <1>2, <2>1, <2>9, <2>10, Zenon DEF diffBy
  <1>3. CASE ~(IsArray(source) /\ IsArray(target)) /\ ~(IsObject(source) /\ IsObject(target))
    <2>1. CASE source = target
      BY <1>3, <2>1 DEF diffBy
    <2>2. CASE source # target
      BY <1>3, <2>2 DEF diffBy
    <2> QED
      BY <2>1, <2>2
  <1> QED
    BY <1>1, <1>2, <1>3

(* A function that obeys the equation for sources nested less deep than m.  *)
Upto(m, g) ==
    \A a \in Documents, b \in Documents : Depth[a] < m => g[<<a, b>>] = diffBy(g, a, b)

(* The calls up to every depth have results,                                *)
LEMMA UptoExists ==
    ASSUME NEW m \in Nat
    PROVE  \E g : Upto(m, g)
  <1> DEFINE S == {n \in Nat : \E g : Upto(n, g)}
  <1>1. 0 \in S
    <2>1. Upto(0, <<>>)
      <3>1. \A a \in Documents : ~(Depth[a] < 0)
        BY DepthType
      <3> QED
        BY <3>1 DEF Upto
    <2> QED
      BY <2>1
  <1>2. ASSUME NEW n \in 0 .. m - 1, n \in S PROVE n + 1 \in S
    <2>1. PICK g : Upto(n, g)
      BY <1>2
    <2> DEFINE h == [call \in Documents \X Documents |-> diffBy(g, call[1], call[2])]
    <2>2. \A a \in Documents, b \in Documents : h[<<a, b>>] = diffBy(g, a, b)
      OBVIOUS
    <2> HIDE DEF h
    <2>3. ASSUME NEW a \in Documents, NEW b \in Documents, Depth[a] < n + 1
          PROVE  h[<<a, b>>] = diffBy(h, a, b)
      <3>1. Agree(g, h, Depth[a])
        <4> SUFFICES ASSUME NEW x \in Documents, NEW y \in Documents, Depth[x] < Depth[a]
                     PROVE  g[<<x, y>>] = h[<<x, y>>]
          BY DEF Agree
        <4>1. Depth[x] \in Nat /\ Depth[a] \in Nat
          BY DocumentType
        <4>2. Depth[x] < n
          BY <2>3, <4>1
        <4>3. g[<<x, y>>] = diffBy(g, x, y)
          BY <2>1, <4>2 DEF Upto
        <4> QED
          BY <2>2, <4>3
      <3>2. diffBy(g, a, b) = diffBy(h, a, b)
        BY <3>1, DiffByAgree
      <3> QED
        BY <2>2, <3>2
    <2>4. Upto(n + 1, h)
      BY <2>3 DEF Upto
    <2>5. n + 1 \in Nat /\ \E k : Upto(n + 1, k)
      BY <2>4
    <2> QED
      BY <2>5
  <1>3. S \in SUBSET Nat
    OBVIOUS
  <1>4. m \in S
    <2> HIDE DEF S
    <2>1. 0 .. m \subseteq S
      BY <1>1, <1>2, <1>3, SetInduction
    <2> QED
      BY <2>1
  <1> QED
    BY <1>4

(* and no others for a greater depth.                                       *)
LEMMA UptoUnique ==
    ASSUME NEW m \in Nat, NEW n \in Nat, NEW g, NEW h, Upto(m, g), Upto(n, h), m <= n
    PROVE  Agree(g, h, m)
  <1> DEFINE S == {d \in Nat : d <= m => Agree(g, h, d)}
  <1>1. 0 \in S
    <2>1. Agree(g, h, 0)
      <3>1. \A a \in Documents : ~(Depth[a] < 0)
        BY DepthType
      <3> QED
        BY <3>1 DEF Agree
    <2> QED
      BY <2>1
  <1>2. ASSUME NEW d \in 0 .. m - 1, d \in S PROVE d + 1 \in S
    <2>1. Agree(g, h, d)
      BY <1>2
    <2>2. ASSUME NEW a \in Documents, NEW b \in Documents, Depth[a] < d + 1
          PROVE  g[<<a, b>>] = h[<<a, b>>]
      <3>1. Depth[a] \in Nat /\ Depth[a] < m /\ Depth[a] < n /\ Depth[a] <= d
        <4>1. Depth[a] \in Nat
          BY DepthType
        <4> QED
          BY <2>2, <4>1
      <3>2. Agree(g, h, Depth[a])
        <4> SUFFICES ASSUME NEW x \in Documents, NEW y \in Documents, Depth[x] < Depth[a]
                     PROVE  g[<<x, y>>] = h[<<x, y>>]
          BY DEF Agree
        <4>1. Depth[x] \in Nat
          BY DocumentType
        <4>2. Depth[x] < d
          BY <3>1, <4>1
        <4> QED
          BY <2>1, <4>2 DEF Agree
      <3>3. diffBy(g, a, b) = diffBy(h, a, b)
        BY <3>2, DiffByAgree
      <3>4. g[<<a, b>>] = diffBy(g, a, b)
        BY <3>1 DEF Upto
      <3>5. h[<<a, b>>] = diffBy(h, a, b)
        BY <3>1 DEF Upto
      <3> QED
        BY <3>3, <3>4, <3>5
    <2>3. Agree(g, h, d + 1)
      BY <2>2 DEF Agree
    <2> QED
      BY <2>3
  <1>3. S \in SUBSET Nat
    OBVIOUS
  <1>4. m \in S
    <2> HIDE DEF S
    <2>1. 0 .. m \subseteq S
      BY <1>1, <1>2, <1>3, SetInduction
    <2> QED
      BY <2>1
  <1> QED
    BY <1>4

(* So there is a function that obeys it everywhere, and diff is one.        *)
LEMMA DiffDef ==
    ASSUME NEW source \in Documents, NEW target \in Documents
    PROVE  diff(source, target) = diffBy(diffs, source, target)
  <1> DEFINE Least(m) == CHOOSE g : Upto(m, g)
             all == [call \in Documents \X Documents |->
                        diffBy(Least(Depth[call[1]]), call[1], call[2])]
             Whole(g) == g = [call \in Documents \X Documents |-> diffBy(g, call[1], call[2])]
  <1>1. \A m \in Nat : Upto(m, Least(m))
    BY UptoExists
  <1>2. \A a \in Documents, b \in Documents : all[<<a, b>>] = diffBy(Least(Depth[a]), a, b)
    OBVIOUS
  <1>3. ASSUME NEW a \in Documents, NEW b \in Documents
        PROVE  all[<<a, b>>] = diffBy(all, a, b)
    <2> HIDE DEF all, Least
    <2>1. Agree(Least(Depth[a]), all, Depth[a])
      <3> SUFFICES ASSUME NEW x \in Documents, NEW y \in Documents, Depth[x] < Depth[a]
                   PROVE  Least(Depth[a])[<<x, y>>] = all[<<x, y>>]
        BY DEF Agree
      <3>1. PICK g, h : g = Least(Depth[a]) /\ h = Least(Depth[x])
        OBVIOUS
      <3>2. Depth[x] \in Nat /\ Depth[a] \in Nat /\ Depth[x] <= Depth[a]
        <4>1. Depth[x] \in Nat /\ Depth[a] \in Nat
          BY DepthType
        <4> QED
          BY <4>1
      <3>3. Upto(Depth[a], g) /\ Upto(Depth[x], h)
        BY <1>1, <3>1, <3>2
      <3>4. Agree(h, g, Depth[x])
        BY <3>2, <3>3, UptoUnique
      <3>5. diffBy(h, x, y) = diffBy(g, x, y)
        BY <3>4, DiffByAgree
      <3>6. g[<<x, y>>] = diffBy(g, x, y)
        BY <3>3 DEF Upto
      <3>7. all[<<x, y>>] = diffBy(h, x, y)
        BY <1>2, <3>1
      <3> QED
        BY <3>1, <3>5, <3>6, <3>7
    <2>2. PICK g : g = Least(Depth[a])
      OBVIOUS
    <2>3. diffBy(g, a, b) = diffBy(all, a, b)
      BY <2>1, <2>2, DiffByAgree
    <2> QED
      BY <1>2, <2>2, <2>3
  <1>4. Whole(all)
    <2> DEFINE other == [call \in Documents \X Documents |-> diffBy(all, call[1], call[2])]
    <2>1. \A call \in Documents \X Documents : all[call] = diffBy(all, call[1], call[2])
      <3> HIDE DEF all
      <3> TAKE call \in Documents \X Documents
      <3>1. PICK a \in Documents, b \in Documents : call = <<a, b>>
        OBVIOUS
      <3>2. all[<<a, b>>] = diffBy(all, a, b)
        BY <1>3
      <3>3. call[1] = a /\ call[2] = b
        BY <3>1
      <3> QED
        BY <3>1, <3>2, <3>3
    <2>2. all = [call \in Documents \X Documents |-> all[call]]
      OBVIOUS
    <2> HIDE DEF all
    <2> QED
      BY <2>1, <2>2
  <1>5. diffs = CHOOSE g : Whole(g)
    BY DEF diffs
  <1>6. Whole(diffs)
    <2> HIDE DEF all, Whole
    <2> QED
      BY <1>4, <1>5
  <1>7. diffs[<<source, target>>] = diffBy(diffs, source, target)
    <2>1. PICK g : g = diffs
      OBVIOUS
    <2>2. g = [call \in Documents \X Documents |-> diffBy(g, call[1], call[2])]
      BY <1>6, <2>1
    <2> QED
      BY <2>1, <2>2
  <1> QED
    BY <1>7 DEF diff

-----------------------------------------------------------------------------
(* Operations on a child of the document itself.                            *)
LEMMA OneToken ==
    ASSUME NEW token \in Key
    PROVE  /\ <<token>> \in Pointer \ {<<>>} /\ Front(<<token>>) = <<>> /\ Last(<<token>>) = token
  <1>1. PICK ptr \in Seq(Key) : ptr = <<token>> /\ Len(ptr) = 1 /\ ptr[1] = token
    <2>1. <<token>> \in Seq(Key) /\ Len(<<token>>) = 1 /\ <<token>>[1] = token
      OBVIOUS
    <2> QED
      BY <2>1
  <1>2. ptr # <<>> /\ Last(ptr) = token
    BY <1>1 DEF Last
  <1>3. Front(ptr) = <<>>
    BY <1>1 DEF Front
  <1> QED
    BY <1>1, <1>2, <1>3 DEF Pointer

(* An edit of the root is the edited root.                                  *)
LEMMA EditHere ==
    ASSUME NEW j, NEW token \in Key, NEW parent
    PROVE  Edit(j, <<token>>, parent) = parent
  <1>1. PICK ptr : ptr = <<token>> /\ Front(ptr) = <<>>
    BY OneToken
  <1>2. With(j, <<>>, parent) = parent
    BY AtHere
  <1>3. Edit(j, ptr, parent) = parent
    BY <1>1, <1>2 DEF Edit
  <1> QED
    BY <1>1, <1>3

(* The parent of a child of the root is the root.                           *)
LEMMA ParentHere ==
    ASSUME NEW j, NEW token \in Key
    PROVE  at(j, Front(<<token>>)) = j /\ Last(<<token>>) = token
  BY OneToken, AtHere

(* An addition of one token sets the key,                                   *)
LEMMA AddKey ==
    ASSUME NEW j, IsObject(j), NEW token \in Key, NEW val \in Documents
    PROVE  /\ Addition(<<token>>, val) \in Operation
           /\ Applied(j, Addition(<<token>>, val)) = SetKey(j, token, val)
  <1>1. PICK ptr \in Pointer \ {<<>>} : ptr = <<token>>
    BY OneToken
  <1>2. at(j, Front(ptr)) = j /\ Last(ptr) = token
    BY <1>1, ParentHere
  <1>3. operation_add(j, ptr, val) = Edit(j, ptr, SetKey(j, token, val))
    <2>1. ~IsArray(j)
      BY DEF IsObject, IsArray
    <2> QED
      BY <1>2, <2>1, Zenon DEF operation_add
  <1>4. Edit(j, ptr, SetKey(j, token, val)) = SetKey(j, token, val)
    BY <1>1, EditHere
  <1>5. Applied(j, Addition(ptr, val)) = operation_add(j, ptr, val)
    BY AppliedCases
  <1>6. Addition(ptr, val) \in Operation
    BY DEF Operation, Additions
  <1> QED
    BY <1>1, <1>3, <1>4, <1>5, <1>6

(* and a removal takes it away.                                             *)
LEMMA RemoveKey ==
    ASSUME NEW j, IsObject(j), NEW token \in Key, token \in DOMAIN j.value
    PROVE  /\ Removal(<<token>>) \in Operation
           /\ Applied(j, Removal(<<token>>))
                  = Object([k \in DOMAIN j.value \ {token} |-> j.value[k]])
  <1>1. PICK ptr \in Pointer \ {<<>>} : ptr = <<token>>
    BY OneToken
  <1>2. at(j, Front(ptr)) = j /\ Last(ptr) = token
    BY <1>1, ParentHere
  <1>3. HasChild(j, token) /\ ~IsArray(j)
    BY DEF HasChild, IsObject, IsArray
  <1>4. PICK left : left = Object([k \in DOMAIN j.value \ {token} |-> j.value[k]])
    OBVIOUS
  <1>5. operation_remove(j, ptr) = Edit(j, ptr, left)
    BY <1>2, <1>3, <1>4, Zenon DEF operation_remove
  <1>6. Edit(j, ptr, left) = left
    BY <1>1, EditHere
  <1>7. Applied(j, Removal(ptr)) = operation_remove(j, ptr)
    BY AppliedCases
  <1>8. Removal(ptr) \in Operation
    BY DEF Operation, Removals
  <1> QED
    BY <1>1, <1>4, <1>5, <1>6, <1>7, <1>8

(* Indexes. *)
LEMMA IndexOf ==
    ASSUME NEW n \in Nat, NEW last \in Nat, n <= last,
           \A i \in 0 .. last : Token(i) = Token(n) => i = n
    PROVE  IsIndex(Token(n), last) /\ array_index(Token(n), last) = n
  <1>1. n \in 0 .. last
    OBVIOUS
  <1>2. IsIndex(Token(n), last)
    BY <1>1 DEF IsIndex
  <1>3. PICK i : i = array_index(Token(n), last)
    OBVIOUS
  <1>4. i \in 0 .. last /\ Token(n) = Token(i)
    BY <1>2, <1>3, IndexType
  <1> QED
    BY <1>2, <1>3, <1>4

(* The last element goes, or a new one comes behind it.                     *)
LEMMA RemoveLast ==
    ASSUME NEW S, NEW s \in Seq(S), NEW n \in Nat, Len(s) = n + 1, Token(n) \in Key,
           \A i \in 0 .. n : Token(i) = Token(n) => i = n
    PROVE  /\ Removal(<<Token(n)>>) \in Operation
           /\ Applied(Array(s), Removal(<<Token(n)>>)) = Array(SubSeq(s, 1, n))
  <1>1. PICK token \in Key : token = Token(n)
    OBVIOUS
  <1>2. PICK ptr \in Pointer \ {<<>>} : ptr = <<token>>
    BY OneToken
  <1>3. PICK j : j = Array(s)
    OBVIOUS
  <1>4. IsArray(j) /\ ~IsObject(j) /\ j.value = s
    BY <1>3 DEF Array, IsArray, IsObject
  <1>5. at(j, Front(ptr)) = j /\ Last(ptr) = token
    BY <1>2, ParentHere
  <1>6. Len(s) - 1 = n
    OBVIOUS
  <1>7. IsIndex(token, Len(s) - 1) /\ array_index(token, Len(s) - 1) = n
    BY <1>1, <1>6, IndexOf
  <1>8. HasChild(j, token)
    BY <1>4, <1>7 DEF HasChild
  <1>9. RemoveAt(s, n + 1) = SubSeq(s, 1, n)
    <2>1. SubSeq(s, (n + 1) + 1, Len(s)) = <<>>
      OBVIOUS
    <2>2. SubSeq(s, 1, n) \in Seq(S)
      <3>1. n \in 1 - 1 .. Len(s)
        OBVIOUS
      <3> QED
        BY <3>1, SubSeqProperties
    <2>3. SubSeq(s, 1, n) \o <<>> = SubSeq(s, 1, n)
      BY <2>2, ConcatEmptySeq
    <2>4. (n + 1) - 1 = n
      OBVIOUS
    <2> QED
      BY <2>1, <2>2, <2>3, <2>4 DEF RemoveAt
  <1>10. PICK left : left = Array(RemoveAt(s, n + 1))
    OBVIOUS
  <1>11. operation_remove(j, ptr) = Edit(j, ptr, left)
    <2>1. left = Array(RemoveAt(j.value, array_index(Last(ptr), Len(j.value) - 1) + 1))
      BY <1>4, <1>5, <1>7, <1>10
    <2> QED
      BY <1>4, <1>5, <1>8, <2>1, Zenon DEF operation_remove
  <1>12. Edit(j, ptr, left) = left
    BY <1>2, EditHere
  <1>13. Applied(j, Removal(ptr)) = operation_remove(j, ptr)
    BY AppliedCases
  <1>14. Removal(ptr) \in Operation
    BY DEF Operation, Removals
  <1> QED
    BY <1>1, <1>2, <1>3, <1>9, <1>10, <1>11, <1>12, <1>13, <1>14

(* An addition at the length of an array comes behind its last element.     *)
LEMMA AddLast ==
    ASSUME NEW S, NEW s \in Seq(S), NEW n \in Nat, Len(s) = n, Token(n) \in Key,
           \A i \in 0 .. n : Token(i) = Token(n) => i = n, NEW val \in Documents
    PROVE  /\ Addition(<<Token(n)>>, val) \in Operation
           /\ Applied(Array(s), Addition(<<Token(n)>>, val)) = Array(Append(s, val))
  <1>1. PICK token \in Key : token = Token(n)
    OBVIOUS
  <1>2. PICK ptr \in Pointer \ {<<>>} : ptr = <<token>>
    BY OneToken
  <1>3. PICK j : j = Array(s)
    OBVIOUS
  <1>4. IsArray(j) /\ ~IsObject(j) /\ j.value = s
    BY <1>3 DEF Array, IsArray, IsObject
  <1>5. at(j, Front(ptr)) = j /\ Last(ptr) = token
    BY <1>2, ParentHere
  <1>6. IsIndex(token, Len(s)) /\ array_index(token, Len(s)) = n
    BY <1>1, IndexOf
  <1>7. InsertAt(s, n + 1, val) = Append(s, val)
    <2>1. SubSeq(s, n + 1, Len(s)) = <<>> /\ SubSeq(s, 1, n) = s
      OBVIOUS
    <2>2. (n + 1) - 1 = n
      OBVIOUS
    <2>3. s \in Seq(S \cup {val}) /\ <<val>> \in Seq(S \cup {val})
      OBVIOUS
    <2>4. s \o <<val>> \o <<>> = Append(s, val)
      BY <2>3
    <2> QED
      BY <2>1, <2>2, <2>4 DEF InsertAt
  <1>8. InsertedAt(j, token, val) = Array(Append(s, val))
    BY <1>4, <1>6, <1>7 DEF InsertedAt
  <1>9. operation_add(j, ptr, val) = Edit(j, ptr, InsertedAt(j, token, val))
    BY <1>4, <1>5, Zenon DEF operation_add
  <1>10. Edit(j, ptr, InsertedAt(j, token, val)) = InsertedAt(j, token, val)
    BY <1>2, EditHere
  <1>11. Applied(j, Addition(ptr, val)) = operation_add(j, ptr, val)
    BY AppliedCases
  <1>12. Addition(ptr, val) \in Operation
    BY DEF Operation, Additions
  <1> QED
    BY <1>1, <1>2, <1>3, <1>8, <1>9, <1>10, <1>11, <1>12


(* The delta of two documents is a script that makes one of the other.      *)
Turns(source, target) ==
    diff(source, target) \in Script /\ Carries(source, diff(source, target), target)

-----------------------------------------------------------------------------
(* Objects.  On the way from x to the object of target: the keys of done    *)
(* have what target has for them.                                           *)
Kept(x, target, done) == {k \in DOMAIN x.value : k \in done => k \in DOMAIN target}
Merged(x, target, done) ==
    Object([k \in Kept(x, target, done) |-> IF k \in done THEN target[k] ELSE x.value[k]])

(* What an object is made of.                                               *)
LEMMA ObjectFields ==
    ASSUME NEW f, f = [k \in DOMAIN f |-> f[k]], NEW j, j = Object(f)
    PROVE  /\ IsObject(j) /\ ~IsArray(j) /\ Formed(j) /\ j # Thrown /\ j.value = f
           /\ \A token \in DOMAIN f : HasChild(j, token) /\ Child(j, token) = f[token]
  <1>1. IsObject(j) /\ ~IsArray(j) /\ j.value = f
    BY DEF Object, IsObject, IsArray
  <1>2. j # Thrown
    BY <1>1 DEF Thrown, IsObject
  <1>3. Formed(j)
    BY <1>1 DEF Formed
  <1>4. ASSUME NEW token \in DOMAIN f PROVE HasChild(j, token) /\ Child(j, token) = f[token]
    BY <1>1 DEF HasChild, Child
  <1> QED
    BY <1>1, <1>2, <1>3, <1>4

(* What the objects on the way are made of.                                 *)
LEMMA MergedFields ==
    ASSUME NEW x, NEW target, NEW done, NEW j, j = Merged(x, target, done)
    PROVE  /\ IsObject(j) /\ ~IsArray(j) /\ Formed(j) /\ j # Thrown
           /\ j.value = [k \in Kept(x, target, done) |-> IF k \in done THEN target[k] ELSE x.value[k]]
           /\ \A token \in Kept(x, target, done) :
                  /\ HasChild(j, token)
                  /\ Child(j, token) = IF token \in done THEN target[token] ELSE x.value[token]
  <1>1. PICK f : f = [k \in Kept(x, target, done) |-> IF k \in done THEN target[k] ELSE x.value[k]]
    OBVIOUS
  <1>2. f = [k \in DOMAIN f |-> f[k]] /\ DOMAIN f = Kept(x, target, done)
    BY <1>1
  <1>3. j = Object(f)
    BY <1>1 DEF Merged
  <1>4. /\ IsObject(j) /\ ~IsArray(j) /\ Formed(j) /\ j # Thrown /\ j.value = f
        /\ \A token \in DOMAIN f : HasChild(j, token) /\ Child(j, token) = f[token]
    BY <1>2, <1>3, ObjectFields
  <1> QED
    BY <1>1, <1>2, <1>4

(* The operations of one key of the source.                                 *)
LEMMA KeyTurns ==
    ASSUME NEW x, NEW s, NEW t, NEW done, NEW key \in Key, key \notin done,
           key \in DOMAIN x.value, x.value[key] = s[key],
           key \in DOMAIN t => Turns(s[key], t[key])
    PROVE  /\ Old(diffs, s, t, key) \in Script
           /\ Carries(Merged(x, t, done), Old(diffs, s, t, key), Merged(x, t, done \cup {key}))
  <1>1. PICK before : before = Merged(x, t, done)
    OBVIOUS
  <1>2. PICK after : after = Merged(x, t, done \cup {key})
    OBVIOUS
  <1>3. key \in Kept(x, t, done)
    BY DEF Kept
  <1>4. /\ IsObject(before) /\ ~IsArray(before) /\ Formed(before) /\ before # Thrown
        /\ before.value = [k \in Kept(x, t, done) |-> IF k \in done THEN t[k] ELSE x.value[k]]
        /\ HasChild(before, key) /\ Child(before, key) = s[key]
    BY <1>1, <1>3, MergedFields
  <1>5. CASE key \in DOMAIN t
    <2>1. PICK ops \in Script : ops = diff(s[key], t[key]) /\ Carries(s[key], ops, t[key])
      BY <1>5 DEF Turns
    <2>2. Old(diffs, s, t, key) = Below(key, ops)
      BY <1>5, <2>1 DEF Old, diff
    <2>3. Below(key, ops) \in Script
      BY BelowType
    <2>4. Carries(before, Below(key, ops), WithChild(before, key, t[key]))
      BY <1>4, <2>1, CarriesBelow
    <2>5. WithChild(before, key, t[key]) = after
      <3>1. DOMAIN before.value \cup {key} = Kept(x, t, done \cup {key})
        BY <1>3, <1>4, <1>5 DEF Kept
      <3>2. [k \in DOMAIN before.value \cup {key} |-> IF k = key THEN t[key] ELSE before.value[k]]
                = [k \in Kept(x, t, done \cup {key}) |->
                      IF k \in done \cup {key} THEN t[k] ELSE x.value[k]]
        BY <1>4, <3>1
      <3> QED
        BY <1>2, <1>4, <3>2 DEF WithChild, SetKey, Merged
    <2> QED
      BY <1>1, <1>2, <2>2, <2>3, <2>4, <2>5
  <1>6. CASE key \notin DOMAIN t
    <2>1. PICK operation : operation = Removal(<<key>>)
      OBVIOUS
    <2>2. Old(diffs, s, t, key) = <<operation>>
      BY <1>6, <2>1 DEF Old
    <2>3. key \in DOMAIN before.value
      BY <1>3, <1>4
    <2>4. /\ operation \in Operation
          /\ Applied(before, operation) = Object([k \in DOMAIN before.value \ {key} |-> before.value[k]])
      BY <1>4, <2>1, <2>3, RemoveKey
    <2>5. Object([k \in DOMAIN before.value \ {key} |-> before.value[k]]) = after
      <3>1. DOMAIN before.value \ {key} = Kept(x, t, done \cup {key})
        BY <1>4, <1>6 DEF Kept
      <3>2. [k \in DOMAIN before.value \ {key} |-> before.value[k]]
                = [k \in Kept(x, t, done \cup {key}) |->
                      IF k \in done \cup {key} THEN t[k] ELSE x.value[k]]
        BY <1>4, <3>1
      <3> QED
        BY <1>2, <3>2 DEF Merged
    <2>6. after # Thrown
      BY <1>2, MergedFields
    <2>7. <<operation>> \in Script /\ Carries(before, <<operation>>, after)
      BY <1>4, <2>4, <2>5, <2>6, CarriesOne
    <2> QED
      BY <1>1, <1>2, <2>2, <2>7
  <1> QED
    BY <1>5, <1>6

(* All of them, in some order. *)
LEMMA KeysTurn ==
    ASSUME NEW x, IsObject(x), Formed(x), NEW s, IsFiniteSet(DOMAIN s), DOMAIN s \subseteq Key, NEW t,
           \A k \in DOMAIN s : k \in DOMAIN x.value /\ x.value[k] = s[k],
           \A k \in DOMAIN s : k \in DOMAIN t => Turns(s[k], t[k])
    PROVE  LET keys == SetToSeq(DOMAIN s)
               ops == FlattenSeq([i \in DOMAIN keys |-> Old(diffs, s, t, keys[i])])
           IN ops \in Script /\ Carries(x, ops, Merged(x, t, DOMAIN s))
  <1>1. PICK keys : keys = SetToSeq(DOMAIN s)
    OBVIOUS
  <1>2. PICK len \in Nat : /\ keys \in [1 .. len -> DOMAIN s] /\ Len(keys) = len
                           /\ \A m, n \in 1 .. len : keys[m] = keys[n] => m = n
                           /\ \A k \in DOMAIN s : \E n \in 1 .. len : keys[n] = k
    BY <1>1, ListOfSet
  <1>3. PICK scripts : scripts = [i \in 1 .. len |-> Old(diffs, s, t, keys[i])]
    OBVIOUS
  <1> DEFINE Done(n) == {keys[i] : i \in 1 .. n}
             M == [n \in 0 .. len |-> Merged(x, t, Done(n))]
  <1>4. ASSUME NEW i \in 1 .. len
        PROVE  scripts[i] \in Script /\ Carries(M[i - 1], scripts[i], M[i])
    <2>1. PICK key \in DOMAIN s : key = keys[i]
      BY <1>2
    <2>2. key \notin Done(i - 1)
      <3> SUFFICES ASSUME NEW n \in 1 .. i - 1, keys[n] = key PROVE FALSE
        OBVIOUS
      <3>1. n \in 1 .. len /\ n # i
        OBVIOUS
      <3> QED
        BY <1>2, <2>1, <3>1
    <2>3. Done(i) = Done(i - 1) \cup {key}
      <3>1. \A n : n \in 1 .. i <=> n \in 1 .. i - 1 \/ n = i
        OBVIOUS
      <3> QED
        BY <2>1, <3>1
    <2>4. M[i - 1] = Merged(x, t, Done(i - 1)) /\ M[i] = Merged(x, t, Done(i))
      <3>1. i \in 0 .. len /\ i - 1 \in 0 .. len
        OBVIOUS
      <3> QED
        BY <3>1
    <2>5. PICK done : done = Done(i - 1)
      OBVIOUS
    <2> HIDE DEF Done, M
    <2>6. key \in Key /\ key \in DOMAIN x.value /\ x.value[key] = s[key]
          /\ (key \in DOMAIN t => Turns(s[key], t[key]))
      OBVIOUS
    <2>7. /\ Old(diffs, s, t, key) \in Script
          /\ Carries(Merged(x, t, done), Old(diffs, s, t, key), Merged(x, t, done \cup {key}))
      BY <2>2, <2>5, <2>6, KeyTurns
    <2>8. scripts[i] = Old(diffs, s, t, key)
      BY <1>3, <2>1
    <2> QED
      BY <2>3, <2>4, <2>5, <2>7, <2>8
  <1>5. scripts \in Seq(Script) /\ Len(scripts) = len
    <2>1. scripts \in [1 .. len -> Script]
      BY <1>3, <1>4
    <2> QED
      BY <2>1
  <1>6. M[0] = x
    <2>1. M[0] = Merged(x, t, {})
      <3>1. 0 \in 0 .. len /\ Done(0) = {}
        OBVIOUS
      <3> QED
        BY <3>1
    <2>2. Kept(x, t, {}) = DOMAIN x.value
      BY DEF Kept
    <2>3. Merged(x, t, {}) = Object([k \in DOMAIN x.value |-> x.value[k]])
      BY <2>2 DEF Merged
    <2> QED
      BY <2>1, <2>3 DEF Formed
  <1>7. M[len] = Merged(x, t, DOMAIN s)
    <2>1. \A n \in 1 .. len : keys[n] \in DOMAIN s
      BY <1>2
    <2>2. ASSUME NEW k PROVE k \in Done(len) <=> k \in DOMAIN s
      <3>1. k \in Done(len) <=> \E n \in 1 .. len : keys[n] = k
        OBVIOUS
      <3> QED
        BY <1>2, <2>1, <3>1
    <2>3. len \in 0 .. len
      OBVIOUS
    <2>4. Done(len) = DOMAIN s
      BY <2>2
    <2> QED
      BY <2>3, <2>4
  <1>8. x # Thrown
    BY DEF IsObject, Thrown
  <1>9. /\ FlattenSeq(scripts) \in Script
        /\ Carries(M[0], FlattenSeq(scripts), M[len])
    <2> HIDE DEF M
    <2> QED
      BY <1>4, <1>5, <1>6, <1>8, CarriesChain
  <1>10. DOMAIN keys = 1 .. len
    BY <1>2
  <1>11. FlattenSeq(scripts) = FlattenSeq([i \in DOMAIN keys |-> Old(diffs, s, t, keys[i])])
    BY <1>3, <1>10
  <1> HIDE DEF M
  <1> QED
    BY <1>1, <1>6, <1>7, <1>9, <1>11

(* The keys that only the target has.                                       *)
Added(keys, t) == [i \in DOMAIN keys |-> Addition(<<keys[i]>>, t[keys[i]])]
Overlaid(x, t, all) == Object([k \in DOMAIN x.value \cup all |-> IF k \in all THEN t[k] ELSE x.value[k]])

(* The additions of keys, in any order, set all of them.                    *)
LEMMA KeysAdded ==
    ASSUME NEW x, IsObject(x), Formed(x), NEW t,
           NEW len \in Nat, NEW keys \in [1 .. len -> DOMAIN t], DOMAIN t \subseteq Key,
           \A k \in DOMAIN t : t[k] \in Documents,
           NEW all, all = {keys[i] : i \in 1 .. len}
    PROVE  Added(keys, t) \in Script /\ Carries(x, Added(keys, t), Overlaid(x, t, all))
  <1> DEFINE Done(n) == {keys[i] : i \in 1 .. n}
             Some(n) == [k \in DOMAIN x.value \cup Done(n) |-> IF k \in Done(n) THEN t[k] ELSE x.value[k]]
             f == [n \in 0 .. len |-> Object(Some(n))]
  <1>1. PICK ops : ops = Added(keys, t)
    OBVIOUS
  <1>2. ops = [i \in 1 .. len |-> Addition(<<keys[i]>>, t[keys[i]])]
    BY <1>1 DEF Added
  <1>3. ASSUME NEW i \in 1 .. len
        PROVE  ops[i] \in Operation /\ f[i] = Applied(f[i - 1], ops[i])
    <2>1. PICK key \in DOMAIN t : key = keys[i]
      OBVIOUS
    <2>2. PICK val \in Documents : val = t[key]
      OBVIOUS
    <2>3. PICK before : before = f[i - 1]
      OBVIOUS
    <2>4. before = Object(Some(i - 1)) /\ f[i] = Object(Some(i))
      <3>1. i \in 0 .. len /\ i - 1 \in 0 .. len
        OBVIOUS
      <3> QED
        BY <2>3, <3>1
    <2>5. PICK done : done = Done(i - 1)
      OBVIOUS
    <2>6. Done(i) = done \cup {key}
      <3>1. \A n : n \in 1 .. i <=> n \in 1 .. i - 1 \/ n = i
        OBVIOUS
      <3> QED
        BY <2>1, <2>5, <3>1
    <2>7. PICK old : old = [k \in DOMAIN x.value \cup done |-> IF k \in done THEN t[k] ELSE x.value[k]]
      OBVIOUS
    <2>8. before = Object(old) /\ old = [k \in DOMAIN old |-> old[k]]
      BY <2>4, <2>5, <2>7
    <2>9. IsObject(before) /\ before.value = old
      BY <2>8, ObjectFields
    <2>10. SetKey(before, key, val) = Object([k \in DOMAIN x.value \cup (done \cup {key}) |->
                                                 IF k \in done \cup {key} THEN t[k] ELSE x.value[k]])
      <3>1. DOMAIN old \cup {key} = DOMAIN x.value \cup (done \cup {key})
        BY <2>7
      <3>2. [k \in DOMAIN old \cup {key} |-> IF k = key THEN val ELSE old[k]]
                = [k \in DOMAIN x.value \cup (done \cup {key}) |->
                      IF k \in done \cup {key} THEN t[k] ELSE x.value[k]]
        BY <2>2, <2>7, <3>1
      <3> QED
        BY <2>9, <3>2 DEF SetKey
    <2>11. ops[i] = Addition(<<key>>, val)
      BY <1>2, <2>1, <2>2
    <2>12. key \in Key
      OBVIOUS
    <2> HIDE DEF Done, f
    <2>13. /\ Addition(<<key>>, val) \in Operation
           /\ Applied(before, Addition(<<key>>, val)) = SetKey(before, key, val)
      BY <2>9, <2>12, AddKey
    <2> QED
      BY <2>3, <2>4, <2>6, <2>10, <2>11, <2>13
  <1>4. ops \in Script /\ Len(ops) = len
    <2>1. ops \in [1 .. len -> Operation]
      BY <1>2, <1>3
    <2>2. ops \in Seq(Operation) /\ Len(ops) = len
      BY <2>1
    <2> QED
      BY <2>2 DEF Script
  <1>5. f[0] = x
    <2>1. 0 \in 0 .. len /\ Done(0) = {}
      OBVIOUS
    <2>2. f[0] = Object([k \in DOMAIN x.value \cup {} |-> IF k \in {} THEN t[k] ELSE x.value[k]])
      BY <2>1
    <2>3. f[0] = Object([k \in DOMAIN x.value |-> x.value[k]])
      BY <2>2
    <2> QED
      BY <2>3 DEF Formed
  <1>6. ASSUME NEW n \in 0 .. len PROVE f[n] # Thrown
    <2>1. f[n] = Object(Some(n))
      OBVIOUS
    <2> QED
      BY <2>1 DEF Object, Thrown
  <1>7. f[len] = Object(Some(len))
    OBVIOUS
  <1>8. Object(Some(len)) = Overlaid(x, t, all)
    BY DEF Overlaid
  <1>9. Through(f, ops)
    <2> HIDE DEF f
    <2> QED
      BY <1>3, <1>4, <1>6 DEF Through
  <1>10. Carries(x, ops, Object(Some(len)))
    <2> HIDE DEF f
    <2> QED
      BY <1>4, <1>5, <1>7, <1>9 DEF Carries
  <1> HIDE DEF f, Some
  <1> QED
    BY <1>1, <1>4, <1>8, <1>10

(* The delta of two objects turns one into the other, and every object too  *)
(* that has more keys of the target, which it sets again.                   *)
LEMMA ObjectTurns ==
    ASSUME NEW source \in Documents, NEW target \in Documents, source # target,
           IsObject(source), IsObject(target),
           \A k \in DOMAIN source.value :
               k \in DOMAIN target.value => Turns(source.value[k], target.value[k]),
           NEW x, IsObject(x), Formed(x),
           \A k \in DOMAIN source.value : k \in DOMAIN x.value /\ x.value[k] = source.value[k],
           \A k \in DOMAIN x.value : k \in DOMAIN source.value \/ k \in DOMAIN target.value
    PROVE  diff(source, target) \in Script /\ Carries(x, diff(source, target), target)
  <1>1. PICK s : s = source.value
    OBVIOUS
  <1>2. PICK t : t = target.value
    OBVIOUS
  <1>3. IsFiniteSet(DOMAIN s) /\ DOMAIN s \subseteq Key
    BY <1>1, DocumentType
  <1>4. /\ IsFiniteSet(DOMAIN t) /\ DOMAIN t \subseteq Key /\ t = [k \in DOMAIN t |-> t[k]]
        /\ \A k \in DOMAIN t : t[k] \in Documents
        /\ target = [type |-> target.type, value |-> target.value]
    BY <1>2, DocumentType
  <1>5. PICK new : new = DOMAIN t \ DOMAIN s
    OBVIOUS
  <1>6. PICK added : added = SetToSeq(new)
    OBVIOUS
  <1>7. IsFiniteSet(new)
    BY <1>4, <1>5, FS_Difference
  <1>8. PICK len \in Nat : /\ added \in [1 .. len -> new]
                           /\ \A k \in new : \E n \in 1 .. len : added[n] = k
    BY <1>6, <1>7, ListOfSet
  <1>9. PICK first : first = LET keys == SetToSeq(DOMAIN s)
                             IN FlattenSeq([i \in DOMAIN keys |-> Old(diffs, s, t, keys[i])])
    OBVIOUS
  <1>10. PICK second : second = Added(added, t)
    OBVIOUS
  <1>11. diff(source, target) = first \o second
    <2>1. diffBy(diffs, source, target) = diffObjects(diffs, s, t)
      <3>1. ~IsArray(source)
        BY DEF IsObject, IsArray
      <3> QED
        BY <1>1, <1>2, <3>1, Zenon DEF diffBy
    <2>2. diffObjects(diffs, s, t) = first \o second
      BY <1>5, <1>6, <1>9, <1>10 DEF diffObjects, Added
    <2> QED
      BY <2>1, <2>2, DiffDef
  <1>12. PICK middle : middle = Merged(x, t, DOMAIN s)
    OBVIOUS
  <1>13. first \in Script /\ Carries(x, first, middle)
    BY <1>1, <1>2, <1>3, <1>9, <1>12, KeysTurn
  <1>14. /\ IsObject(middle) /\ Formed(middle)
         /\ middle.value = [k \in Kept(x, t, DOMAIN s) |-> IF k \in DOMAIN s THEN t[k] ELSE x.value[k]]
    BY <1>12, MergedFields
  <1>15. PICK all : all = {added[i] : i \in 1 .. len}
    OBVIOUS
  <1>16. PICK after : after = [k \in DOMAIN middle.value \cup all |->
                                  IF k \in all THEN t[k] ELSE middle.value[k]]
    OBVIOUS
  <1>17. second \in Script /\ Carries(middle, second, Overlaid(middle, t, all))
    <2>1. added \in [1 .. len -> DOMAIN t]
      BY <1>5, <1>8
    <2>2. DOMAIN t \subseteq Key /\ \A k \in DOMAIN t : t[k] \in Documents
      BY <1>4
    <2>3. IsObject(middle) /\ Formed(middle)
      BY <1>14
    <2> QED
      BY <1>10, <1>15, <2>1, <2>2, <2>3, KeysAdded
  <1>18. all = new
    <2>1. \A n \in 1 .. len : added[n] \in new
      BY <1>8
    <2> QED
      BY <1>8, <1>15, <2>1
  <1>19. DOMAIN middle.value \cup all = DOMAIN t
    BY <1>1, <1>2, <1>5, <1>14, <1>18 DEF Kept
  <1>20. after = t
    <2>1. ASSUME NEW k \in DOMAIN t, k \notin all PROVE middle.value[k] = t[k]
      <3>1. k \in DOMAIN s /\ k \in Kept(x, t, DOMAIN s)
        BY <1>1, <1>5, <1>18, <2>1 DEF Kept
      <3> QED
        BY <1>14, <3>1
    <2> QED
      BY <1>4, <1>16, <1>19, <2>1
  <1>21. Object(t) = target
    BY <1>2, <1>4 DEF Object, IsObject
  <1>22. Carries(middle, second, target)
    BY <1>16, <1>17, <1>20, <1>21 DEF Overlaid
  <1> QED
    BY <1>11, <1>13, <1>17, <1>22, CarriesBoth

-----------------------------------------------------------------------------
(* Arrays.                                                                  *)
LEMMA PrefixStep ==
    ASSUME NEW S, NEW s \in Seq(S)
    PROVE  /\ SubSeq(s, 1, Len(s)) = s
           /\ \A n \in 0 .. Len(s) : SubSeq(s, 1, n) \in Seq(S) /\ Len(SubSeq(s, 1, n)) = n
           /\ \A n \in 0 .. Len(s) - 1 :
                  /\ SubSeq(SubSeq(s, 1, n + 1), 1, n) = SubSeq(s, 1, n)
                  /\ Append(SubSeq(s, 1, n), s[n + 1]) = SubSeq(s, 1, n + 1)
  <1>1. ASSUME NEW n \in 0 .. Len(s)
        PROVE  /\ SubSeq(s, 1, n) \in Seq(S) /\ Len(SubSeq(s, 1, n)) = n
               /\ \A i \in 1 .. n : SubSeq(s, 1, n)[i] = s[i]
    <2>1. \A i \in 1 .. n : s[i] \in S /\ 1 + i - 1 = i
      OBVIOUS
    <2>2. 1 .. n - 1 + 1 = 1 .. n /\ (IF 1 <= n THEN n - 1 + 1 ELSE 0) = n
      OBVIOUS
    <2> QED
      BY <2>1, <2>2, SubSeqProperties
  <1>2. SubSeq(s, 1, Len(s)) = s
    <2>1. PICK whole \in Seq(S) : /\ whole = SubSeq(s, 1, Len(s)) /\ Len(whole) = Len(s)
                                  /\ \A i \in 1 .. Len(s) : whole[i] = s[i]
      BY <1>1
    <2>2. whole = s
      BY <2>1
    <2> QED
      BY <2>1, <2>2
  <1>3. ASSUME NEW n \in 0 .. Len(s) - 1
        PROVE  /\ SubSeq(SubSeq(s, 1, n + 1), 1, n) = SubSeq(s, 1, n)
               /\ Append(SubSeq(s, 1, n), s[n + 1]) = SubSeq(s, 1, n + 1)
    <2>1. n \in 0 .. Len(s) /\ n + 1 \in 0 .. Len(s) /\ n \in 0 .. n + 1
      OBVIOUS
    <2>2. PICK short \in Seq(S) : /\ short = SubSeq(s, 1, n) /\ Len(short) = n
                                  /\ \A i \in 1 .. n : short[i] = s[i]
      BY <1>1, <2>1
    <2>3. PICK long \in Seq(S) : /\ long = SubSeq(s, 1, n + 1) /\ Len(long) = n + 1
                                 /\ \A i \in 1 .. n + 1 : long[i] = s[i]
      BY <1>1, <2>1
    <2>4. /\ SubSeq(long, 1, n) \in Seq(S) /\ Len(SubSeq(long, 1, n)) = n
          /\ \A i \in 1 .. n : SubSeq(long, 1, n)[i] = long[i]
      <3>1. \A i \in 1 .. n : long[i] \in S /\ 1 + i - 1 = i
        BY <2>3
      <3>2. 1 .. n - 1 + 1 = 1 .. n /\ (IF 1 <= n THEN n - 1 + 1 ELSE 0) = n
        OBVIOUS
      <3> QED
        BY <3>1, <3>2, SubSeqProperties
    <2>5. SubSeq(long, 1, n) = short
      BY <2>2, <2>3, <2>4
    <2>6. s[n + 1] \in S
      BY <2>1
    <2>7. Append(short, s[n + 1]) = long
      BY <2>2, <2>3, <2>6
    <2> QED
      BY <2>2, <2>3, <2>5, <2>7
  <1> QED
    BY <1>1, <1>2, <1>3

(* The first n elements of another array in place of those of this one.     *)
Started(s, t, n) == [i \in 1 .. Len(s) |-> IF i <= n THEN t[i] ELSE s[i]]

(* The operations of one index of both.                                     *)
LEMMA IndexTurns ==
    ASSUME NEW s \in Seq(Documents), NEW t \in Seq(Documents),
           NEW n \in 1 .. Len(s), n <= Len(t), Turns(s[n], t[n]), Token(n - 1) \in Key,
           \A i \in 0 .. Len(s) - 1 : Token(i) = Token(n - 1) => i = n - 1,
           NEW ops, ops = Below(Token(n - 1), diffs[<<s[n], t[n]>>])
    PROVE  ops \in Script /\ Carries(Array(Started(s, t, n - 1)), ops, Array(Started(s, t, n)))
  <1>1. PICK before : before = Array(Started(s, t, n - 1))
    OBVIOUS
  <1>2. PICK elements : elements = Started(s, t, n - 1)
    OBVIOUS
  <1>3. PICK token \in Key : token = Token(n - 1)
    OBVIOUS
  <1>4. PICK script \in Script : script = diff(s[n], t[n]) /\ Carries(s[n], script, t[n])
    BY DEF Turns
  <1>5. ops = Below(token, script)
    BY <1>3, <1>4 DEF diff
  <1>6. /\ elements \in Seq(Documents) /\ Len(elements) = Len(s) /\ elements[n] = s[n]
    <2>1. ASSUME NEW i \in 1 .. Len(s) PROVE elements[i] \in Documents
      <3>1. s[i] \in Documents /\ (i <= n - 1 => t[i] \in Documents)
        OBVIOUS
      <3>2. elements[i] = IF i <= n - 1 THEN t[i] ELSE s[i]
        BY <1>2 DEF Started
      <3> QED
        BY <3>1, <3>2
    <2>2. elements \in [1 .. Len(s) -> Documents]
      BY <1>2, <2>1 DEF Started
    <2>3. elements[n] = s[n]
      BY <1>2 DEF Started
    <2> QED
      BY <2>2, <2>3
  <1>7. /\ IsArray(before) /\ ~IsObject(before) /\ before.value = elements /\ before = Array(elements)
    BY <1>1, <1>2 DEF Array, IsArray, IsObject
  <1>8. Formed(before)
    BY <1>6, <1>7 DEF Formed
  <1>9. n - 1 \in Nat /\ Len(s) - 1 \in Nat /\ n - 1 <= Len(s) - 1 /\ (n - 1) + 1 = n
    OBVIOUS
  <1>10. IsIndex(token, Len(s) - 1) /\ array_index(token, Len(s) - 1) = n - 1
    BY <1>3, <1>9, IndexOf
  <1>11. HasChild(before, token) /\ Child(before, token) = s[n]
    <2>1. HasChild(before, token)
      BY <1>6, <1>7, <1>10 DEF HasChild
    <2> QED
      BY <1>6, <1>7, <1>9, <1>10, <2>1 DEF Child
  <1>12. WithChild(before, token, t[n]) = Array(Started(s, t, n))
    <2>1. WithChild(before, token, t[n]) = Array([elements EXCEPT ![n] = t[n]])
      BY <1>6, <1>7, <1>9, <1>10 DEF WithChild
    <2>2. PICK changed : changed = [elements EXCEPT ![n] = t[n]]
      OBVIOUS
    <2>3. PICK started : started = Started(s, t, n)
      OBVIOUS
    <2>4. DOMAIN elements = 1 .. Len(s)
      BY <1>6
    <2>5. changed = [i \in 1 .. Len(s) |-> changed[i]] /\ started = [i \in 1 .. Len(s) |-> started[i]]
      BY <2>2, <2>3, <2>4 DEF Started
    <2>6. ASSUME NEW i \in 1 .. Len(s) PROVE changed[i] = started[i]
      <3>1. elements[i] = IF i <= n - 1 THEN t[i] ELSE s[i]
        BY <1>2 DEF Started
      <3>2. started[i] = IF i <= n THEN t[i] ELSE s[i]
        BY <2>3 DEF Started
      <3>3. changed[i] = IF i = n THEN t[n] ELSE elements[i]
        BY <2>2, <2>4
      <3>4. i \in Int /\ n \in Int
        OBVIOUS
      <3> QED
        BY <3>1, <3>2, <3>3, <3>4
    <2>7. changed = started
      BY <2>5, <2>6
    <2> QED
      BY <2>1, <2>2, <2>3, <2>7
  <1>13. /\ Below(token, script) \in Script
         /\ Carries(before, Below(token, script), WithChild(before, token, t[n]))
    BY <1>4, <1>8, <1>11, CarriesBelow, BelowType
  <1> QED
    BY <1>1, <1>5, <1>12, <1>13

(* The indexes of both, one after the other.                                *)
LEMMA IndexesTurn ==
    ASSUME NEW s \in Seq(Documents), NEW t \in Seq(Documents),
           NEW common \in 0 .. Len(s), common <= Len(t),
           \A n \in 1 .. common : Turns(s[n], t[n]),
           \A i \in 0 .. Len(s) : Token(i) \in Key,
           \A m, n \in 0 .. Len(s) : Token(m) = Token(n) => m = n,
           NEW scripts,
           scripts = [i \in 1 .. common |-> Below(Token(i - 1), diffs[<<s[i], t[i]>>])]
    PROVE  /\ FlattenSeq(scripts) \in Script
           /\ Carries(Array(s), FlattenSeq(scripts), Array(Started(s, t, common)))
  <1> DEFINE M == [n \in 0 .. common |-> Array(Started(s, t, n))]
  <1>1. ASSUME NEW i \in 1 .. common
        PROVE  scripts[i] \in Script /\ Carries(M[i - 1], scripts[i], M[i])
    <2>1. M[i - 1] = Array(Started(s, t, i - 1)) /\ M[i] = Array(Started(s, t, i))
      <3>1. i \in 0 .. common /\ i - 1 \in 0 .. common
        OBVIOUS
      <3> QED
        BY <3>1
    <2> HIDE DEF M
    <2>2. PICK ops : ops = Below(Token(i - 1), diffs[<<s[i], t[i]>>])
      OBVIOUS
    <2>3. scripts[i] = ops
      BY <2>2
    <2>4. i \in 1 .. Len(s) /\ i <= Len(t) /\ i - 1 \in 0 .. Len(s)
      OBVIOUS
    <2>5. \A n \in 0 .. Len(s) - 1 : Token(n) = Token(i - 1) => n = i - 1
      BY <2>4
    <2>6. ops \in Script /\ Carries(Array(Started(s, t, i - 1)), ops, Array(Started(s, t, i)))
      BY <2>2, <2>4, <2>5, IndexTurns
    <2> QED
      BY <2>1, <2>3, <2>6
  <1>2. scripts \in Seq(Script) /\ Len(scripts) = common
    <2>1. scripts \in [1 .. common -> Script]
      BY <1>1
    <2> QED
      BY <2>1
  <1>3. M[0] = Array(s) /\ M[common] = Array(Started(s, t, common))
    <2>1. 0 \in 0 .. common /\ common \in 0 .. common
      OBVIOUS
    <2>2. Started(s, t, 0) = s
      BY DEF Started
    <2> QED
      BY <2>1, <2>2
  <1> HIDE DEF M
  <1>4. M[0] # Thrown
    BY <1>3 DEF Array, Thrown
  <1> QED
    BY <1>1, <1>2, <1>3, <1>4, CarriesChain

(* The elements behind the first ones, taken away from the end.             *)
LEMMA RestRemoved ==
    ASSUME NEW s \in Seq(Documents), NEW n \in 0 .. Len(s),
           \A i \in 0 .. Len(s) : Token(i) \in Key,
           \A i, k \in 0 .. Len(s) : Token(i) = Token(k) => i = k,
           NEW source, Len(source) = Len(s)
    PROVE  /\ RemoveRest(source, n) \in Script
           /\ Carries(Array(s), RemoveRest(source, n), Array(SubSeq(s, 1, n)))
  <1>1. PICK ops : ops = RemoveRest(source, n)
    OBVIOUS
  <1>2. PICK len \in Nat : len = Len(s) - n
    OBVIOUS
  <1> DEFINE f == [i \in 0 .. len |-> Array(SubSeq(s, 1, Len(s) - i))]
  <1>3. ASSUME NEW i \in 1 .. len
        PROVE  ops[i] \in Operation /\ f[i] = Applied(f[i - 1], ops[i])
    <2>1. PICK last \in Nat : last = Len(s) - i
      BY <1>2
    <2>2. ops[i] = Removal(<<Token(last)>>)
      BY <1>1, <1>2, <2>1 DEF RemoveRest
    <2>3. f[i - 1] = Array(SubSeq(s, 1, last + 1)) /\ f[i] = Array(SubSeq(s, 1, last))
      <3>1. i \in 0 .. len /\ i - 1 \in 0 .. len /\ Len(s) - (i - 1) = last + 1
        BY <2>1
      <3> QED
        BY <2>1, <3>1
    <2> HIDE DEF f
    <2>4. last \in 0 .. Len(s) - 1 /\ last + 1 \in 0 .. Len(s)
      BY <1>2, <2>1
    <2>5. SubSeq(SubSeq(s, 1, last + 1), 1, last) = SubSeq(s, 1, last)
      BY <2>4, PrefixStep
    <2>6. PICK longer \in Seq(Documents) : longer = SubSeq(s, 1, last + 1) /\ Len(longer) = last + 1
      BY <2>4, PrefixStep
    <2>7. SubSeq(longer, 1, last) = SubSeq(s, 1, last)
      BY <2>5, <2>6
    <2>8. Token(last) \in Key /\ \A k \in 0 .. last : Token(k) = Token(last) => k = last
      BY <2>4
    <2>9. /\ Removal(<<Token(last)>>) \in Operation
          /\ Applied(Array(longer), Removal(<<Token(last)>>)) = Array(SubSeq(longer, 1, last))
      BY <2>6, <2>8, RemoveLast
    <2> QED
      BY <2>2, <2>3, <2>6, <2>7, <2>9
  <1>4. ops \in Script /\ Len(ops) = len
    <2>1. ops = [i \in 1 .. len |-> Removal(<<Token(Len(source) - i)>>)]
      BY <1>1, <1>2 DEF RemoveRest
    <2>2. ops \in [1 .. len -> Operation]
      BY <1>3, <2>1
    <2>3. ops \in Seq(Operation) /\ Len(ops) = len
      BY <2>2
    <2> QED
      BY <2>3 DEF Script
  <1>5. f[0] = Array(s) /\ f[len] = Array(SubSeq(s, 1, n))
    <2>1. 0 \in 0 .. len /\ len \in 0 .. len /\ Len(s) - 0 = Len(s) /\ Len(s) - len = n
      BY <1>2
    <2> QED
      BY <2>1, PrefixStep
  <1>6. ASSUME NEW i \in 0 .. len PROVE f[i] # Thrown
    <2>1. f[i] = Array(SubSeq(s, 1, Len(s) - i))
      OBVIOUS
    <2> QED
      BY <2>1 DEF Array, Thrown
  <1> HIDE DEF f
  <1>7. Through(f, ops)
    BY <1>3, <1>4, <1>6 DEF Through
  <1> QED
    BY <1>1, <1>4, <1>5, <1>7 DEF Carries

(* Elements added at the end. *)
LEMMA RestAdded ==
    ASSUME NEW t \in Seq(Documents), NEW n \in 0 .. Len(t),
           \A i \in 0 .. Len(t) : Token(i) \in Key,
           \A i, k \in 0 .. Len(t) : Token(i) = Token(k) => i = k
    PROVE  /\ AddRest(t, n) \in Script
           /\ Carries(Array(SubSeq(t, 1, n)), AddRest(t, n), Array(t))
  <1>1. PICK ops : ops = AddRest(t, n)
    OBVIOUS
  <1>2. PICK len \in Nat : len = Len(t) - n
    OBVIOUS
  <1> DEFINE f == [i \in 0 .. len |-> Array(SubSeq(t, 1, n + i))]
  <1>3. ASSUME NEW i \in 1 .. len
        PROVE  ops[i] \in Operation /\ f[i] = Applied(f[i - 1], ops[i])
    <2>1. PICK last \in Nat : last = n + i - 1
      OBVIOUS
    <2>2. PICK val \in Documents : val = t[last + 1]
      BY <1>2, <2>1
    <2>3. ops[i] = Addition(<<Token(last)>>, val)
      <3>1. n + i = last + 1
        BY <2>1
      <3> QED
        BY <1>1, <1>2, <2>1, <2>2, <3>1 DEF AddRest
    <2>4. f[i - 1] = Array(SubSeq(t, 1, last)) /\ f[i] = Array(SubSeq(t, 1, last + 1))
      <3>1. i \in 0 .. len /\ i - 1 \in 0 .. len /\ n + (i - 1) = last /\ n + i = last + 1
        BY <2>1
      <3> QED
        BY <3>1
    <2> HIDE DEF f
    <2>5. last \in 0 .. Len(t) - 1 /\ last \in 0 .. Len(t)
      BY <1>2, <2>1
    <2>6. SubSeq(t, 1, last) \in Seq(Documents) /\ Len(SubSeq(t, 1, last)) = last
      BY <2>5, PrefixStep
    <2>7. PICK shorter \in Seq(Documents) : shorter = SubSeq(t, 1, last) /\ Len(shorter) = last
      BY <2>6
    <2>8. Append(shorter, val) = SubSeq(t, 1, last + 1)
      BY <2>2, <2>5, <2>7, PrefixStep
    <2>9. Token(last) \in Key /\ \A k \in 0 .. last : Token(k) = Token(last) => k = last
      BY <2>5
    <2>10. /\ Addition(<<Token(last)>>, val) \in Operation
          /\ Applied(Array(shorter), Addition(<<Token(last)>>, val)) = Array(Append(shorter, val))
      BY <2>7, <2>9, AddLast
    <2> QED
      BY <2>3, <2>4, <2>7, <2>8, <2>10
  <1>4. ops \in Script /\ Len(ops) = len
    <2>1. ops = [i \in 1 .. len |-> Addition(<<Token(n + i - 1)>>, t[n + i])]
      BY <1>1, <1>2 DEF AddRest
    <2>2. ops \in [1 .. len -> Operation]
      BY <1>3, <2>1
    <2>3. ops \in Seq(Operation) /\ Len(ops) = len
      BY <2>2
    <2> QED
      BY <2>3 DEF Script
  <1>5. f[0] = Array(SubSeq(t, 1, n)) /\ f[len] = Array(t)
    <2>1. 0 \in 0 .. len /\ len \in 0 .. len /\ n + 0 = n /\ n + len = Len(t)
      BY <1>2
    <2> QED
      BY <2>1, PrefixStep
  <1>6. ASSUME NEW i \in 0 .. len PROVE f[i] # Thrown
    <2>1. f[i] = Array(SubSeq(t, 1, n + i))
      OBVIOUS
    <2> QED
      BY <2>1 DEF Array, Thrown
  <1> HIDE DEF f
  <1>7. Through(f, ops)
    BY <1>3, <1>4, <1>6 DEF Through
  <1> QED
    BY <1>1, <1>4, <1>5, <1>7 DEF Carries

(* The delta of two arrays turns one into the other.                        *)
LEMMA ArrayTurns ==
    ASSUME NEW source \in Documents, NEW target \in Documents, source # target,
           IsArray(source), IsArray(target),
           \A x, y \in Documents : Depth[x] < Depth[source] => Turns(x, y)
    PROVE  Turns(source, target)
  <1>1. PICK s \in Seq(Documents) : s = source.value
    BY DocumentType
  <1>2. PICK t \in Seq(Documents) : t = target.value
    BY DocumentType
  <1>3. /\ \A i \in 1 .. Len(s) : s[i] \in Documents /\ Depth[s[i]] < Depth[source]
        /\ \A i \in 0 .. Len(s) : Token(i) \in Key
        /\ \A m, n \in 0 .. Len(s) : Token(m) = Token(n) => m = n
        /\ source = [type |-> source.type, value |-> source.value]
    BY <1>1, DocumentType
  <1>4. /\ \A i \in 1 .. Len(t) : t[i] \in Documents
        /\ \A i \in 0 .. Len(t) : Token(i) \in Key
        /\ \A m, n \in 0 .. Len(t) : Token(m) = Token(n) => m = n
        /\ target = [type |-> target.type, value |-> target.value]
    BY <1>2, DocumentType
  <1>5. PICK common : common = IF Len(s) < Len(t) THEN Len(s) ELSE Len(t)
    OBVIOUS
  <1>6. common \in 0 .. Len(s) /\ common \in 0 .. Len(t) /\ common <= Len(t)
    BY <1>5
  <1>7. PICK scripts : scripts = [i \in 1 .. common |-> Below(Token(i - 1), diffs[<<s[i], t[i]>>])]
    OBVIOUS
  <1>8. PICK both, removed, added : /\ both = FlattenSeq(scripts)
                                    /\ removed = RemoveRest(s, common)
                                    /\ added = AddRest(t, common)
    OBVIOUS
  <1>9. diff(source, target) = (both \o removed) \o added
    <2>1. diffBy(diffs, source, target) = diffArrays(diffs, s, t)
      <3>1. ~IsObject(source)
        BY DEF IsObject, IsArray
      <3>2. diffBy(diffs, source, target) = diffArrays(diffs, source.value, target.value)
        BY <3>1, Zenon DEF diffBy
      <3> QED
        BY <1>1, <1>2, <3>2
    <2>2. diffArrays(diffs, s, t) = (both \o removed) \o added
      BY <1>5, <1>7, <1>8 DEF diffArrays
    <2> QED
      BY <2>1, <2>2, DiffDef
  <1>10. PICK middle : middle = Started(s, t, common)
    OBVIOUS
  <1>11. both \in Script /\ Carries(Array(s), both, Array(middle))
    <2>1. \A n \in 1 .. common : Turns(s[n], t[n])
      <3> TAKE n \in 1 .. common
      <3>1. n \in 1 .. Len(s) /\ n \in 1 .. Len(t)
        BY <1>6
      <3> QED
        BY <1>3, <1>4, <3>1
    <2> QED
      BY <1>3, <1>6, <1>7, <1>8, <1>10, <2>1, IndexesTurn
  <1>12. middle \in Seq(Documents) /\ Len(middle) = Len(s)
    <2>1. ASSUME NEW i \in 1 .. Len(s) PROVE middle[i] \in Documents
      <3>1. s[i] \in Documents /\ (i <= common => t[i] \in Documents)
        BY <1>6
      <3>2. middle[i] = IF i <= common THEN t[i] ELSE s[i]
        BY <1>10 DEF Started
      <3> QED
        BY <3>1, <3>2
    <2>2. middle \in [1 .. Len(s) -> Documents]
      BY <1>10, <2>1 DEF Started
    <2> QED
      BY <2>2
  <1>13. SubSeq(middle, 1, common) = SubSeq(t, 1, common)
    <2>1. \A i \in 1 .. common : /\ middle[i] = t[i] /\ middle[i] \in Documents
                                 /\ t[i] \in Documents /\ 1 + i - 1 = i
      BY <1>4, <1>6, <1>10 DEF Started
    <2>2. 1 .. common - 1 + 1 = 1 .. common /\ (IF 1 <= common THEN common - 1 + 1 ELSE 0) = common
      BY <1>6
    <2>3. 1 \in Int /\ common \in Int
      BY <1>6
    <2>4. /\ SubSeq(middle, 1, common) \in Seq(Documents) /\ Len(SubSeq(middle, 1, common)) = common
          /\ \A i \in 1 .. common : SubSeq(middle, 1, common)[i] = middle[i]
      BY <2>1, <2>2, <2>3, SubSeqProperties
    <2>5. /\ SubSeq(t, 1, common) \in Seq(Documents) /\ Len(SubSeq(t, 1, common)) = common
          /\ \A i \in 1 .. common : SubSeq(t, 1, common)[i] = t[i]
      BY <2>1, <2>2, <2>3, SubSeqProperties
    <2> QED
      BY <2>1, <2>4, <2>5
  <1>14. PICK k : k = Array(SubSeq(t, 1, common))
    OBVIOUS
  <1>15. removed \in Script /\ Carries(Array(middle), removed, k)
    <2>1. common \in 0 .. Len(middle)
      BY <1>6, <1>12
    <2> QED
      BY <1>3, <1>8, <1>12, <1>13, <1>14, <2>1, RestRemoved
  <1>16. added \in Script /\ Carries(k, added, Array(t))
    BY <1>4, <1>6, <1>8, <1>14, RestAdded
  <1>17. both \o removed \in Script /\ Carries(Array(s), both \o removed, k)
    BY <1>11, <1>15, CarriesBoth
  <1>18. (both \o removed) \o added \in Script /\ Carries(Array(s), (both \o removed) \o added, Array(t))
    BY <1>16, <1>17, CarriesBoth
  <1>19. Array(s) = source /\ Array(t) = target
    BY <1>1, <1>2, <1>3, <1>4 DEF Array, IsArray
  <1> QED
    BY <1>9, <1>18, <1>19 DEF Turns

(* If the deltas of values that are nested less deep are right, so is this  *)
(* one.                                                                     *)
LEMMA DocumentTurns ==
    ASSUME NEW source \in Documents, NEW target \in Documents,
           \A x, y \in Documents : Depth[x] < Depth[source] => Turns(x, y)
    PROVE  Turns(source, target)
  <1>1. source # Thrown /\ Formed(source)
    BY DocumentType
  <1>2. CASE source = target
    <2>1. diff(source, target) = <<>>
      <3>1. diffBy(diffs, source, target) = <<>>
        BY <1>2, Zenon DEF diffBy
      <3> QED
        BY <3>1, DiffDef
    <2> QED
      BY <1>1, <1>2, <2>1, CarriesNothing DEF Turns
  <1>3. CASE source # target /\ IsArray(source) /\ IsArray(target)
    BY <1>3, ArrayTurns
  <1>4. CASE source # target /\ IsObject(source) /\ IsObject(target)
    <2>1. \A k \in DOMAIN source.value :
              k \in DOMAIN target.value => Turns(source.value[k], target.value[k])
      <3> SUFFICES ASSUME NEW k \in DOMAIN source.value, k \in DOMAIN target.value
                   PROVE  Turns(source.value[k], target.value[k])
        OBVIOUS
      <3>1. source.value[k] \in Documents /\ Depth[source.value[k]] < Depth[source]
        BY <1>4, DocumentType
      <3>2. target.value[k] \in Documents
        BY <1>4, DocumentType
      <3> QED
        BY <3>1, <3>2
    <2> QED
      BY <1>1, <1>4, <2>1, ObjectTurns DEF Turns
  <1>5. CASE /\ source # target /\ ~(IsArray(source) /\ IsArray(target))
             /\ ~(IsObject(source) /\ IsObject(target))
    <2>1. PICK operation : operation = Replacement(<<>>, target)
      OBVIOUS
    <2>2. diff(source, target) = <<operation>>
      <3>1. diffBy(diffs, source, target) = <<Replacement(<<>>, target)>>
        BY <1>5, Zenon DEF diffBy
      <3> QED
        BY <2>1, <3>1, DiffDef
    <2>3. /\ at(source, <<>>) = source /\ With(source, <<>>, target) = target /\ <<>> \in Pointer
      BY AtHere
    <2>4. operation \in Operation
      BY <2>1, <2>3 DEF Operation, Replacements
    <2>5. Applied(source, operation) = target
      <3>1. operation_replace(source, <<>>, target) = target
        BY <1>1, <2>3 DEF operation_replace
      <3> QED
        BY <2>1, <3>1, AppliedCases
    <2>6. target # Thrown
      BY DocumentType
    <2>7. <<operation>> \in Script /\ Carries(source, <<operation>>, target)
      BY <1>1, <2>4, <2>5, <2>6, CarriesOne
    <2> QED
      BY <2>2, <2>7 DEF Turns
  <1> QED
    BY <1>2, <1>3, <1>4, <1>5

(* source.patch(diff(source, target)) == target, for all documents, as the  *)
(* comment on diff has it: no operation throws, and the last one leaves     *)
(* the target.                                                              *)
THEOREM Patches == \A source, target \in Documents : Turns(source, target)
  <1> SUFFICES ASSUME NEW source \in Documents, NEW target \in Documents
               PROVE  Turns(source, target)
    OBVIOUS
  <1> DEFINE S == {d \in Nat : \A x, y \in Documents : Depth[x] < d => Turns(x, y)}
  <1>1. \A x \in Documents : Depth[x] \in Nat
    BY DepthType
  <1>2. PICK n \in Nat : n = Depth[source] + 1
    BY <1>1
  <1>3. 0 \in S
    BY <1>1
  <1>4. ASSUME NEW d \in 0 .. n - 1, d \in S PROVE d + 1 \in S
    <2>1. ASSUME NEW x \in Documents, NEW y \in Documents, Depth[x] < d + 1 PROVE Turns(x, y)
      <3>1. Depth[x] <= d
        BY <1>1, <2>1
      <3>2. \A v, w \in Documents : Depth[v] < Depth[x] => Turns(v, w)
        BY <1>1, <1>4, <3>1
      <3> QED
        BY <3>2, DocumentTurns
    <2> QED
      BY <2>1
  <1>5. 0 .. n \subseteq S
    <2> HIDE DEF S
    <2>1. S \in SUBSET Nat
      BY DEF S
    <2> QED
      BY <1>3, <1>4, <2>1, SetInduction
  <1>6. n \in S /\ Depth[source] < n
    BY <1>1, <1>2, <1>5
  <1> QED
    BY <1>6

-----------------------------------------------------------------------------
(* What is left of the delta makes what was sent of the receiver's copy.    *)
DeltaInv ==
    /\ previousState \in States /\ current \in States /\ result # Thrown
    /\ todo \in Script /\ Carries(result, todo, sentState)

(* What a stamped state is made of.                                         *)
LEMMA StampedFields ==
    ASSUME NEW s \in States, NEW stamp, NEW j, j = Stamped(s, stamp)
    PROVE  /\ IsObject(j) /\ Formed(j) /\ j # Thrown
           /\ DOMAIN j.value = DOMAIN s.value \cup DOMAIN stamp
           /\ \A k \in DOMAIN s.value : k \notin DOMAIN stamp => j.value[k] = s.value[k]
  <1>1. PICK f : f = [k \in DOMAIN s.value \cup DOMAIN stamp |->
                         IF k \in DOMAIN stamp THEN stamp[k] ELSE s.value[k]]
    OBVIOUS
  <1>2. f = [k \in DOMAIN f |-> f[k]] /\ j = Object(f)
    BY <1>1 DEF Stamped
  <1>3. IsObject(j) /\ Formed(j) /\ j # Thrown /\ j.value = f
    BY <1>2, ObjectFields
  <1> QED
    BY <1>1, <1>3

(* The delta of two states does so at the start, although the receiver's    *)
(* copy may have a time and a round trip that the sender's state has not.   *)
LEMMA DeltaInit == PatchInit => DeltaInv
  <1> SUFFICES ASSUME PatchInit PROVE DeltaInv
    OBVIOUS
  <1>1. PICK source \in Documents : source = previousState
    BY PatchAssumption DEF PatchInit
  <1>2. PICK target \in Documents : target = sentState
    BY PatchAssumption DEF PatchInit, sentState
  <1>3. /\ previousState \in States /\ current \in States
        /\ todo = diff(source, target)
        /\ result = source \/ result = Stamped(source, Unkept)
    BY <1>1, <1>2 DEF PatchInit
  <1>4. IsObject(source) /\ DOMAIN source.value \cap DOMAIN Unkept = {} /\ Formed(source) /\ source # Thrown
    BY <1>1, <1>3, PatchAssumption, DocumentType
  <1>5. IsObject(target) /\ DOMAIN target.value = DOMAIN current.value \cup DOMAIN Unkept
    <2>1. DOMAIN NewStamp = DOMAIN Unkept
      BY DEF NewStamp
    <2> QED
      BY <1>2, <1>3, <2>1, StampedFields DEF sentState
  <1>6. diff(source, target) \in Script /\ Carries(source, diff(source, target), target)
    BY Patches DEF Turns
  <1>7. CASE result = source
    BY <1>2, <1>3, <1>4, <1>6, <1>7 DEF DeltaInv
  <1>8. CASE result = Stamped(source, Unkept)
    <2>1. PICK x : x = Stamped(source, Unkept)
      OBVIOUS
    <2>2. /\ IsObject(x) /\ Formed(x) /\ x # Thrown
          /\ DOMAIN x.value = DOMAIN source.value \cup DOMAIN Unkept
          /\ \A k \in DOMAIN source.value : k \notin DOMAIN Unkept => x.value[k] = source.value[k]
      BY <1>1, <1>3, <2>1, StampedFields
    <2>3. \A k \in DOMAIN source.value : k \in DOMAIN x.value /\ x.value[k] = source.value[k]
      BY <1>4, <2>2
    <2>4. \A k \in DOMAIN x.value : k \in DOMAIN source.value \/ k \in DOMAIN target.value
      BY <1>5, <2>2
    <2>5. CASE source # target
      <3>1. \A k \in DOMAIN source.value :
                k \in DOMAIN target.value => Turns(source.value[k], target.value[k])
        BY <1>4, <1>5, DocumentType, Patches
      <3>2. Carries(x, diff(source, target), target)
        BY <1>4, <1>5, <2>2, <2>3, <2>4, <2>5, <3>1, ObjectTurns
      <3> QED
        BY <1>2, <1>3, <1>6, <1>8, <2>1, <2>2, <3>2 DEF DeltaInv
    <2>6. CASE source = target
      <3>1. DOMAIN x.value = DOMAIN source.value
        BY <1>4, <1>5, <2>2, <2>6
      <3>2. x = source
        <4>1. x = Object([k \in DOMAIN x.value |-> x.value[k]])
          BY <2>2 DEF Formed
        <4>2. source = Object([k \in DOMAIN source.value |-> source.value[k]])
          BY <1>4 DEF Formed
        <4>3. [k \in DOMAIN x.value |-> x.value[k]] = [k \in DOMAIN source.value |-> source.value[k]]
          BY <2>3, <3>1
        <4> QED
          BY <4>1, <4>2, <4>3
      <3> QED
        BY <1>7, <1>8, <2>1, <3>2
    <2> QED
      BY <2>5, <2>6
  <1> QED
    BY <1>3, <1>7, <1>8

(* Every turn of patch's loop keeps it.                                     *)
LEMMA DeltaStep == DeltaInv /\ [PatchNext]_patchVars => DeltaInv'
  <1> SUFFICES ASSUME DeltaInv, [PatchNext]_patchVars PROVE DeltaInv'
    OBVIOUS
  <1>1. CASE Apply
    <2>1. /\ todo # <<>> /\ result' = Applied(result, Head(todo)) /\ todo' = Tail(todo)
          /\ previousState' = previousState /\ current' = current
      BY <1>1 DEF Apply
    <2>2. PICK k : k = sentState
      OBVIOUS
    <2>3. sentState' = k
      BY <2>1, <2>2 DEF sentState
    <2>4. todo \in Script /\ Carries(result, todo, k)
      BY <2>2 DEF DeltaInv
    <2>5. /\ Tail(todo) \in Script /\ Applied(result, Head(todo)) # Thrown
          /\ Carries(Applied(result, Head(todo)), Tail(todo), k)
      BY <2>1, <2>4, CarriesStep
    <2>6. todo' \in Script /\ result' # Thrown /\ Carries(result', todo', sentState')
      BY <2>1, <2>3, <2>5
    <2> QED
      BY <2>1, <2>6 DEF DeltaInv
  <1>2. CASE UNCHANGED patchVars
    BY <1>2 DEF DeltaInv, patchVars, sentState
  <1> QED
    BY <1>1, <1>2 DEF PatchNext

(* A script that is left over is for what was sent; an empty one is for     *)
(* equal states only.                                                       *)
LEMMA DeltaHolds == DeltaInv => DeltaCarries
  <1> SUFFICES ASSUME DeltaInv PROVE DeltaCarries
    OBVIOUS
  <1>1. result # Thrown /\ Carries(result, todo, sentState)
    BY DEF DeltaInv
  <1>2. todo = <<>> => result = sentState
    <2> SUFFICES ASSUME todo = <<>> PROVE result = sentState
      OBVIOUS
    <2>1. PICK k : k = sentState
      OBVIOUS
    <2>2. Carries(result, <<>>, k)
      BY <1>1, <2>1
    <2> QED
      BY <2>1, <2>2, CarriesNothing
  <1>3. PICK source \in Documents, target \in Documents : source = previousState /\ target = current
    BY PatchAssumption DEF DeltaInv
  <1>4. diff(source, target) = <<>> => source = target
    <2>1. Carries(source, diff(source, target), target)
      BY Patches DEF Turns
    <2> SUFFICES ASSUME diff(source, target) = <<>> PROVE source = target
      OBVIOUS
    <2>2. Carries(source, <<>>, target)
      BY <2>1
    <2> QED
      BY <2>2, CarriesNothing
  <1>5. source = target => diff(source, target) = <<>>
    <2> SUFFICES ASSUME source = target PROVE diff(source, target) = <<>>
      OBVIOUS
    <2>1. diffBy(diffs, source, target) = <<>>
      BY Zenon DEF diffBy
    <2> QED
      BY <2>1, DiffDef
  <1> QED
    BY <1>1, <1>2, <1>3, <1>4, <1>5 DEF DeltaCarries

(* Every patch that a receiver applies ends with the state that was sent,   *)
(* and a delta is empty only between equal states: for every set of         *)
(* states, of any nesting and any size, and every stamp.                    *)
THEOREM Delta == PatchSpec => []DeltaCarries
  BY DeltaInit, DeltaStep, DeltaHolds, PTL DEF PatchSpec

=============================================================================
