--------------------------- MODULE VideoTcpProofs ---------------------------
(***************************************************************************)
(* Theorems about VideoTcp, for headers, frames and segments of every      *)
(* size, any TimeoutLimit, any number of connections and every break,      *)
(* restart, slip and pause.  StreamInv says what is on its way on every    *)
(* connection: units that follow each other, up to the one the camera      *)
(* thread sends next, of which the viewer knows its place.  CauseInv says  *)
(* what makes the viewer leave a connection that works.                    *)
(***************************************************************************)
EXTENDS VideoTcp, SequenceTheorems, TLAPS

(* The unit d places further on in the frames sent one after the other, for *)
(* d up to a frame.                                                         *)
Plus(u, d) == IF u[2] + d < FrameLen THEN <<u[1], u[2] + d>> ELSE <<1 - u[1], u[2] + d - FrameLen>>

(* The units of s follow each other, and u follows them when there is more  *)
(* to come.                                                                 *)
Run(s, more, u) ==
    /\ \A j, k \in 1 .. Len(s) : j <= k /\ k - j <= FrameLen => s[k] = Plus(s[j], k - j)
    /\ more => \A j \in 1 .. Len(s) : Len(s) + 1 - j <= FrameLen => u = Plus(s[j], Len(s) + 1 - j)

(* v is the first of s, or of what comes when s is empty. *)
First(s, more, u, v) ==
    \/ s # <<>> /\ v = s[1]
    \/ s = <<>> /\ more /\ v = u

-----------------------------------------------------------------------------
(* Arithmetic. *)

LEMMA Division ==
    ASSUME NEW S \in Nat \ {0}, NEW x \in Nat
    PROVE  /\ x = S * (x \div S) + (x % S)
           /\ x % S \in 0 .. S - 1
           /\ x \div S \in Nat
  BY SMT

LEMMA Remainder ==
    ASSUME NEW S \in Nat \ {0}, NEW q \in Int, NEW r \in 0 .. S - 1
    PROVE  (S * q + r) % S = r
  BY SMT

LEMMA IntDivision ==
    ASSUME NEW S \in Nat \ {0}, NEW x \in Int
    PROVE  /\ x = S * (x \div S) + (x % S)
           /\ x % S \in 0 .. S - 1
           /\ x \div S \in Int
  BY SMT

LEMMA Multiples ==
    \A S \in Nat \ {0} : \A x, y \in Int :
        x % S = 0 /\ y % S = 0 => (x + y) % S = 0 /\ (x - y) % S = 0
  <1> SUFFICES ASSUME NEW S \in Nat \ {0}, NEW x \in Int, NEW y \in Int, x % S = 0, y % S = 0
               PROVE  (x + y) % S = 0 /\ (x - y) % S = 0
    OBVIOUS
  <1> DEFINE a == x \div S
             b == y \div S
  <1>1. x = S * a /\ y = S * b /\ a \in Int /\ b \in Int
    BY IntDivision
  <1> HIDE DEF a, b
  <1>2. x + y = S * (a + b) + 0 /\ x - y = S * (a - b) + 0 /\ a + b \in Int /\ a - b \in Int
    BY <1>1, SMT
  <1>3. 0 \in 0 .. S - 1
    OBVIOUS
  <1> QED BY <1>2, <1>3, Remainder

(* x is as far from a multiple as its remainder. *)
LEMMA Remains ==
    ASSUME NEW S \in Nat \ {0}, NEW x \in Int
    PROVE  x % S \in 0 .. S - 1 /\ (x - (x % S)) % S = 0
  <1> DEFINE a == x \div S
             r == x % S
  <1>1. x = S * a + r /\ a \in Int /\ r \in 0 .. S - 1
    BY IntDivision
  <1> HIDE DEF a, r
  <1>2. x - r = S * a + 0 /\ 0 \in 0 .. S - 1
    BY <1>1, SMT
  <1>3. (x - r) % S = 0
    BY <1>1, <1>2, Remainder
  <1> QED BY <1>1, <1>3 DEF r

LEMMA SmallMultiple ==
    ASSUME NEW S \in Nat \ {0}, NEW x \in 0 .. S - 1
    PROVE  x % S = x
  BY SMT

(* A multiple below a multiple leaves room for a whole one. *)
LEMMA Room ==
    ASSUME NEW S \in Nat \ {0}, NEW x \in Nat, NEW y \in Nat, x % S = 0, y % S = 0, x < y
    PROVE  x + S <= y
  <1>1. (y - x) % S = 0
    <2>1. x \in Int /\ y \in Int
      OBVIOUS
    <2> QED BY <2>1, Multiples, Zenon
  <1>2. CASE y - x < S
    <2>1. (y - x) % S = y - x
      BY <1>2, SmallMultiple
    <2> QED BY <1>1, <2>1
  <1> QED BY <1>2

(* The frame is cut into headers and into segments, and the last segment is past its end. *)
LEMMA Sizes ==
    /\ HeaderLen \in Nat \ {0} /\ DataLen \in Nat \ {0} /\ FrameLen \in Nat /\ FrameLen = HeaderLen + DataLen
    /\ segmentsize \in Nat \ {0} /\ numsegments \in Nat
    /\ FrameLen % HeaderLen = 0
    /\ segmentsize * numsegments > FrameLen
  <1>1. /\ HeaderLen \in Nat \ {0} /\ DataLen \in Nat \ {0} /\ Segments \in Nat \ {0}
        /\ DataLen % HeaderLen = 0 /\ segmentsize > 0
    BY VideoAssumption
  <1>2. FrameLen \in Nat /\ FrameLen = HeaderLen + DataLen
    BY <1>1 DEF FrameLen
  <1>3. segmentsize \in Nat \ {0}
    <2>1. segmentsize \in Nat
      BY <1>1, <1>2, Division, Zenon DEF segmentsize
    <2> QED BY <1>1, <2>1
  <1>4. FrameLen % HeaderLen = 0
    <2>1. HeaderLen % HeaderLen = 0
      <3>1. HeaderLen = HeaderLen * 1 + 0 /\ 0 \in 0 .. HeaderLen - 1 /\ 1 \in Int
        BY <1>1
      <3> QED BY <1>1, <3>1, Remainder
    <2>2. HeaderLen \in Int /\ DataLen \in Int
      BY <1>1
    <2> QED BY <1>1, <1>2, <2>1, <2>2, Multiples, Zenon
  <1>5. /\ FrameLen = segmentsize * (FrameLen \div segmentsize) + (FrameLen % segmentsize)
        /\ FrameLen % segmentsize < segmentsize /\ FrameLen % segmentsize \in Nat
        /\ FrameLen \div segmentsize \in Nat
    <2>1. /\ FrameLen = segmentsize * (FrameLen \div segmentsize) + (FrameLen % segmentsize)
          /\ FrameLen % segmentsize \in 0 .. segmentsize - 1
          /\ FrameLen \div segmentsize \in Nat
      BY <1>2, <1>3, Division, Zenon
    <2>2. \A r \in 0 .. segmentsize - 1 : r < segmentsize /\ r \in Nat
      BY <1>3
    <2> QED BY <2>1, <2>2, Zenon
  <1> DEFINE q == FrameLen \div segmentsize
             r == FrameLen % segmentsize
  <1>6. numsegments = q + 1
    BY DEF numsegments
  <1>7. segmentsize * (q + 1) > FrameLen
    <2> HIDE DEF q, r
    <2>1. FrameLen = segmentsize * q + r /\ r < segmentsize /\ q \in Nat /\ r \in Nat
      BY <1>5 DEF q, r
    <2> QED BY <2>1, <1>3, <1>2, SMT
  <1> QED BY <1>1, <1>2, <1>3, <1>4, <1>5, <1>6, <1>7

(* Where a segment begins, and where the next one does. *)
LEMMA SegmentPlace ==
    ASSUME NEW i \in Nat
    PROVE  /\ segmentsize * i \in Nat /\ segmentsize * (i + 1) = segmentsize * i + segmentsize
           /\ (segmentsize * i) % HeaderLen = 0
           /\ i < numsegments => segmentsize * i <= FrameLen
  <1>1. /\ segmentsize * i \in Nat /\ segmentsize * (i + 1) = segmentsize * i + segmentsize
    BY Sizes, SMT
  <1>2. (segmentsize * i) % HeaderLen = 0
    <2> DEFINE a == segmentsize \div HeaderLen
    <2>1. segmentsize = HeaderLen * a /\ a \in Nat
      BY Sizes, VideoAssumption, Division
    <2> HIDE DEF a
    <2>2. segmentsize * i = HeaderLen * (a * i) + 0 /\ a * i \in Int
      BY <2>1, Sizes, SMT
    <2>3. 0 \in 0 .. HeaderLen - 1
      BY Sizes
    <2> QED BY <2>2, <2>3, Sizes, Remainder
  <1>3. ASSUME i < numsegments PROVE segmentsize * i <= FrameLen
    <2> DEFINE q == FrameLen \div segmentsize
               r == FrameLen % segmentsize
    <2>1. FrameLen = segmentsize * q + r /\ r \in Nat /\ q \in Nat
      <3>1. FrameLen \in Nat /\ segmentsize \in Nat \ {0}
        BY Sizes
      <3>2. FrameLen = segmentsize * q + r /\ r \in 0 .. segmentsize - 1 /\ q \in Nat
        BY <3>1, Division, Zenon
      <3> HIDE DEF q, r
      <3> QED BY <3>1, <3>2
    <2>2. i <= q
      BY <1>3, <2>1 DEF numsegments
    <2> HIDE DEF q, r
    <2>3. segmentsize * i <= segmentsize * q
      BY <2>1, <2>2, Sizes, SMT
    <2> QED BY <2>1, <2>3, <1>1, Sizes
  <1> QED BY <1>1, <1>2, <1>3

-----------------------------------------------------------------------------
(* Units and runs of them. *)

LEMMA PlusType ==
    ASSUME NEW u \in Units, NEW d \in 0 .. FrameLen
    PROVE  Plus(u, d) \in Units /\ (d = 0 => Plus(u, d) = u)
  <1>1. u = <<u[1], u[2]>> /\ u[1] \in 0 .. 1 /\ u[2] \in 0 .. FrameLen - 1 /\ FrameLen \in Nat
    BY Sizes DEF Units
  <1>2. CASE u[2] + d < FrameLen
    <2>1. Plus(u, d) = <<u[1], u[2] + d>> /\ u[2] + d \in 0 .. FrameLen - 1
      BY <1>1, <1>2 DEF Plus
    <2>2. d = 0 => u[2] + d = u[2]
      BY <1>1
    <2> QED BY <1>1, <2>1, <2>2 DEF Units
  <1>3. CASE ~(u[2] + d < FrameLen)
    <2>1. Plus(u, d) = <<1 - u[1], u[2] + d - FrameLen>> /\ u[2] + d - FrameLen \in 0 .. FrameLen - 1
          /\ 1 - u[1] \in 0 .. 1 /\ d # 0
      BY <1>1, <1>3 DEF Plus
    <2> QED BY <2>1 DEF Units
  <1> QED BY <1>2, <1>3

LEMMA PlusPlus ==
    ASSUME NEW u \in Units, NEW d \in Nat, NEW e \in Nat, d + e <= FrameLen
    PROVE  Plus(Plus(u, d), e) = Plus(u, d + e)
  <1>1. u = <<u[1], u[2]>> /\ u[1] \in 0 .. 1 /\ u[2] \in 0 .. FrameLen - 1 /\ FrameLen \in Nat
    BY Sizes DEF Units
  <1>2. CASE u[2] + d < FrameLen
    <2>1. Plus(u, d) = <<u[1], u[2] + d>>
      BY <1>2 DEF Plus
    <2>2. (u[2] + d) + e = u[2] + (d + e) /\ (u[2] + d) + e - FrameLen = u[2] + (d + e) - FrameLen
      BY <1>1
    <2>3. Plus(u, d)[1] = u[1] /\ Plus(u, d)[2] = u[2] + d
      BY <2>1
    <2>4. Plus(Plus(u, d), e) = IF (u[2] + d) + e < FrameLen THEN <<u[1], (u[2] + d) + e>>
                                ELSE <<1 - u[1], (u[2] + d) + e - FrameLen>>
      BY <2>3 DEF Plus
    <2> QED BY <2>2, <2>4 DEF Plus
  <1>3. CASE ~(u[2] + d < FrameLen)
    <2>1. Plus(u, d) = <<1 - u[1], u[2] + d - FrameLen>>
      BY <1>3 DEF Plus
    <2>2. (u[2] + d - FrameLen) + e < FrameLen /\ ~(u[2] + (d + e) < FrameLen)
          /\ (u[2] + d - FrameLen) + e = u[2] + (d + e) - FrameLen
      BY <1>1, <1>3
    <2>3. Plus(u, d)[1] = 1 - u[1] /\ Plus(u, d)[2] = u[2] + d - FrameLen
      BY <2>1
    <2>4. ~(u[2] + d < FrameLen)
      BY <1>3
    <2>5. u[2] + d + e - FrameLen < FrameLen
      BY <1>1
    <2>6. Plus(Plus(u, d), e) = <<1 - u[1], u[2] + d - FrameLen + e>>
      BY <2>2, <2>3 DEF Plus
    <2>7. Plus(u, d + e) = <<1 - u[1], u[2] + (d + e) - FrameLen>>
      BY <2>2 DEF Plus
    <2> QED BY <2>2, <2>6, <2>7
  <1> QED BY <1>2, <1>3

(* Alignment: with the remainder of what was thrown away, nothing is lost. *)
LEMMA StaysAligned ==
    ASSUME NEW u \in Units, NEW sk \in Nat, NEW n \in 0 .. HeaderLen, (u[2] - sk) % HeaderLen = 0
    PROVE  (Plus(u, n)[2] - ((sk + n) % HeaderLen)) % HeaderLen = 0
  <1>1. u[1] \in 0 .. 1 /\ u[2] \in 0 .. FrameLen - 1 /\ FrameLen \in Nat /\ HeaderLen \in Nat \ {0}
        /\ n <= FrameLen
    BY Sizes DEF Units
  <1> DEFINE r == (sk + n) % HeaderLen
  <1>2. r \in 0 .. HeaderLen - 1 /\ ((sk + n) - r) % HeaderLen = 0
    <2>1. sk + n \in Int
      BY <1>1
    <2> QED BY <2>1, <1>1, Remains, Zenon
  <1>3. r \in Int
    BY <1>1, <1>2
  <1> HIDE DEF r
  <1>4. (u[2] + n - r) % HeaderLen = 0
    <2>1. u[2] - sk \in Int /\ (sk + n) - r \in Int
      BY <1>1, <1>3
    <2>2. ((u[2] - sk) + ((sk + n) - r)) % HeaderLen = 0
      BY <2>1, <1>1, <1>2, Multiples, Zenon
    <2>3. (u[2] - sk) + ((sk + n) - r) = u[2] + n - r
      BY <1>1, <1>3
    <2> QED BY <2>2, <2>3
  <1>5. (u[2] + n - FrameLen - r) % HeaderLen = 0
    <2>1. u[2] + n - r \in Int /\ FrameLen \in Int
      BY <1>1, <1>3
    <2>2. ((u[2] + n - r) - FrameLen) % HeaderLen = 0
      BY <2>1, <1>1, <1>4, Sizes, Multiples, Zenon
    <2>3. (u[2] + n - r) - FrameLen = u[2] + n - FrameLen - r
      BY <1>1, <1>3
    <2> QED BY <2>2, <2>3
  <1>6. Plus(u, n)[2] = u[2] + n \/ Plus(u, n)[2] = u[2] + n - FrameLen
    BY DEF Plus
  <1>7. (Plus(u, n)[2] - r) % HeaderLen = 0
    <2>1. CASE Plus(u, n)[2] = u[2] + n
      <3>1. Plus(u, n)[2] - r = u[2] + n - r
        BY <2>1, <1>1, <1>3
      <3> QED BY <3>1, <1>4, Zenon
    <2>2. CASE Plus(u, n)[2] = u[2] + n - FrameLen
      <3>1. Plus(u, n)[2] - r = u[2] + n - FrameLen - r
        BY <2>2, <1>1, <1>3
      <3> QED BY <3>1, <1>5, Zenon
    <2> QED BY <1>6, <2>1, <2>2
  <1> QED BY <1>7 DEF r

(* The first unit of a run and the others. *)
LEMMA RunFirst ==
    ASSUME NEW s \in Seq(Units), NEW more \in BOOLEAN, NEW u, Run(s, more, u), NEW v, First(s, more, u, v)
    PROVE  /\ \A k \in 1 .. Len(s) : k <= FrameLen + 1 => s[k] = Plus(v, k - 1)
           /\ more /\ Len(s) <= FrameLen /\ s # <<>> => u = Plus(v, Len(s))
  <1>1. CASE s = <<>>
    BY <1>1
  <1>2. CASE s # <<>>
    <2>1. Len(s) \in Nat /\ 1 \in 1 .. Len(s) /\ v = s[1] /\ FrameLen \in Nat
      BY <1>2, Sizes DEF First
    <2>2. ASSUME NEW k \in 1 .. Len(s), k <= FrameLen + 1 PROVE s[k] = Plus(v, k - 1)
      BY <2>1, <2>2 DEF Run
    <2>3. ASSUME more, Len(s) <= FrameLen PROVE u = Plus(v, Len(s))
      <3>1. Len(s) + 1 - 1 = Len(s)
        BY <2>1
      <3>2. u = Plus(s[1], Len(s) + 1 - 1)
        BY <2>1, <2>3, <3>1 DEF Run
      <3> QED BY <2>1, <3>1, <3>2
    <2> QED BY <2>2, <2>3
  <1> QED BY <1>1, <1>2

(* Taking n units from the front. *)
LEMMA RunTaken ==
    ASSUME NEW s \in Seq(Units), NEW more \in BOOLEAN, NEW u \in Units, Run(s, more, u),
           NEW n \in 0 .. Len(s)
    PROVE  LET t == SubSeq(s, n + 1, Len(s)) IN
           /\ t \in Seq(Units) /\ Len(t) = Len(s) - n /\ (t = <<>> <=> Len(s) = n)
           /\ Run(t, more, u)
           /\ \A w : \A v \in Units : n <= FrameLen /\ First(s, more, u, v) /\ First(t, more, u, w) => w = Plus(v, n)
           /\ \A w : First(t, more, u, w) => \E v \in Units : First(s, more, u, v)
  <1> DEFINE t == SubSeq(s, n + 1, Len(s))
  <1>1. Len(s) \in Nat /\ n \in Nat /\ n <= Len(s) /\ FrameLen \in Nat
    BY Sizes
  <1>2. t \in Seq(Units) /\ Len(t) = Len(s) - n /\ \A k \in 1 .. Len(t) : t[k] = s[n + k]
    <2>1. \A k \in n + 1 .. Len(s) : s[k] \in Units
      BY <1>1
    <2>2. n + 1 \in Int /\ Len(s) \in Int
      BY <1>1
    <2>3. /\ t \in Seq(Units)
          /\ Len(t) = IF n + 1 <= Len(s) THEN Len(s) - (n + 1) + 1 ELSE 0
          /\ \A k \in 1 .. Len(s) - (n + 1) + 1 : t[k] = s[(n + 1) + k - 1]
      BY <2>1, <2>2, SubSeqProperties
    <2>4. Len(t) = Len(s) - n
      BY <2>3, <1>1
    <2>5. ASSUME NEW k \in 1 .. Len(t) PROVE t[k] = s[n + k]
      <3>1. k \in 1 .. Len(s) - (n + 1) + 1 /\ (n + 1) + k - 1 = n + k
        BY <2>4, <1>1
      <3> QED BY <3>1, <2>3
    <2> QED BY <2>3, <2>4, <2>5
  <1> HIDE DEF t
  <1>3. t = <<>> <=> Len(s) = n
    BY <1>1, <1>2, EmptySeq
  <1>4. Run(t, more, u)
    <2>1. ASSUME NEW j \in 1 .. Len(t), NEW k \in 1 .. Len(t), j <= k, k - j <= FrameLen
          PROVE  t[k] = Plus(t[j], k - j)
      <3>1. n + j \in 1 .. Len(s) /\ n + k \in 1 .. Len(s) /\ n + j <= n + k
            /\ (n + k) - (n + j) = k - j
        BY <1>1, <1>2, <2>1
      <3>2. s[n + k] = Plus(s[n + j], (n + k) - (n + j))
        BY <3>1, <2>1 DEF Run
      <3> QED BY <3>1, <3>2, <1>2
    <2>2. ASSUME more, NEW j \in 1 .. Len(t), Len(t) + 1 - j <= FrameLen
          PROVE  u = Plus(t[j], Len(t) + 1 - j)
      <3>1. n + j \in 1 .. Len(s) /\ Len(s) + 1 - (n + j) = Len(t) + 1 - j
        BY <1>1, <1>2
      <3>2. u = Plus(s[n + j], Len(s) + 1 - (n + j))
        BY <3>1, <2>2 DEF Run
      <3> QED BY <3>1, <3>2, <1>2
    <2> QED BY <2>1, <2>2 DEF Run
  <1>5. ASSUME NEW v \in Units, NEW w, n <= FrameLen, First(s, more, u, v), First(t, more, u, w)
        PROVE  w = Plus(v, n)
    <2>1. CASE t # <<>>
      <3>1. w = t[1] /\ Len(t) >= 1 /\ n + 1 \in 1 .. Len(s) /\ 1 \in 1 .. Len(t)
        BY <2>1, <1>5, <1>1, <1>2, <1>3 DEF First
      <3>2. s[n + 1] = Plus(v, (n + 1) - 1)
        <4>1. n + 1 <= FrameLen + 1
          BY <1>5, <1>1
        <4>2. \A k \in 1 .. Len(s) : k <= FrameLen + 1 => s[k] = Plus(v, k - 1)
          BY <1>5, RunFirst
        <4> QED BY <4>1, <4>2, <3>1
      <3>3. (n + 1) - 1 = n
        BY <1>1
      <3> QED BY <3>1, <3>2, <3>3, <1>2
    <2>2. CASE t = <<>>
      <3>1. more /\ w = u /\ Len(s) = n
        BY <2>2, <1>5, <1>3 DEF First
      <3>2. CASE s = <<>>
        <4>1. v = u /\ n = 0 /\ Plus(v, 0) = v
          BY <3>1, <3>2, <1>5, <1>1, PlusType DEF First
        <4> QED BY <4>1, <3>1
      <3>3. CASE s # <<>>
        <4>1. Len(s) <= FrameLen /\ n = Len(s)
          BY <3>1, <1>5
        <4>2. u = Plus(v, Len(s))
          BY <3>1, <3>3, <4>1, <1>5, RunFirst
        <4> QED BY <3>1, <4>1, <4>2
      <3> QED BY <3>2, <3>3
    <2> QED BY <2>1, <2>2
  <1>6. ASSUME NEW w, First(t, more, u, w) PROVE \E v \in Units : First(s, more, u, v)
    <2>1. CASE s = <<>>
      <3>1. t = <<>>
        BY <2>1, <1>1, <1>3
      <3> QED BY <3>1, <2>1, <1>6 DEF First
    <2>2. CASE s # <<>>
      <3>1. s[1] \in Units
        BY <2>2, <1>1
      <3> QED BY <3>1, <2>2 DEF First
    <2> QED BY <2>1, <2>2
  <1> QED BY <1>2, <1>3, <1>4, <1>5, <1>6 DEF t

(* Cutting the back, with nothing more to come. *)
LEMMA RunCut ==
    ASSUME NEW s \in Seq(Units), NEW more \in BOOLEAN, NEW u, Run(s, more, u), NEW n \in 0 .. Len(s)
    PROVE  LET t == SubSeq(s, 1, n) IN
           /\ t \in Seq(Units)
           /\ \A w : Run(t, FALSE, w)
           /\ \A v, w : First(t, FALSE, w, v) => First(s, more, u, v)
           /\ s = <<>> => t = <<>>
  <1> DEFINE t == SubSeq(s, 1, n)
  <1>1. Len(s) \in Nat /\ n \in Nat /\ n <= Len(s) /\ FrameLen \in Nat
    BY Sizes
  <1>2. t \in Seq(Units) /\ Len(t) = n /\ \A k \in 1 .. Len(t) : t[k] = s[k]
    <2>1. \A k \in 1 .. n : s[k] \in Units
      BY <1>1
    <2>2. n \in Int /\ 1 \in Int
      BY <1>1
    <2>3. /\ t \in Seq(Units)
          /\ Len(t) = IF 1 <= n THEN n - 1 + 1 ELSE 0
          /\ \A k \in 1 .. n - 1 + 1 : t[k] = s[1 + k - 1]
      BY <2>1, <2>2, SubSeqProperties
    <2>4. Len(t) = n
      BY <2>3, <1>1
    <2>5. ASSUME NEW k \in 1 .. Len(t) PROVE t[k] = s[k]
      <3>1. k \in 1 .. n - 1 + 1 /\ 1 + k - 1 = k
        BY <2>4, <1>1
      <3> QED BY <3>1, <2>3
    <2> QED BY <2>3, <2>4, <2>5
  <1> HIDE DEF t
  <1>3. t = <<>> <=> n = 0
    BY <1>1, <1>2, EmptySeq
  <1>4. ASSUME NEW j \in 1 .. Len(t), NEW k \in 1 .. Len(t), j <= k, k - j <= FrameLen
        PROVE  t[k] = Plus(t[j], k - j)
    <2>1. j \in 1 .. Len(s) /\ k \in 1 .. Len(s)
      BY <1>1, <1>2
    <2> QED BY <2>1, <1>2, <1>4 DEF Run
  <1>5. ASSUME NEW v, NEW w, First(t, FALSE, w, v) PROVE First(s, more, u, v)
    <2>1. t # <<>> /\ v = t[1] /\ n # 0
      BY <1>5, <1>3 DEF First
    <2>2. 1 \in 1 .. Len(t) /\ s # <<>>
      BY <2>1, <1>1, <1>2
    <2> QED BY <2>1, <2>2, <1>2 DEF First
  <1>6. s = <<>> => t = <<>>
    BY <1>1, <1>3
  <1> QED BY <1>2, <1>4, <1>5, <1>6 DEF t, Run

-----------------------------------------------------------------------------
(* The unit that segment i of frame f begins with, or that follows frame f. *)
Start(f, i) == IF segmentsize * i < FrameLen THEN <<f, segmentsize * i>> ELSE <<1 - f, 0>>

LEMMA StartType ==
    ASSUME NEW f \in 0 .. 1, NEW i \in Nat
    PROVE  Start(f, i) \in Units /\ Start(f, i)[2] % HeaderLen = 0
  <1>1. segmentsize * i \in Nat /\ (segmentsize * i) % HeaderLen = 0 /\ FrameLen \in Nat /\ FrameLen > 0
    <2>1. FrameLen \in Nat /\ FrameLen > 0
      BY Sizes
    <2>2. segmentsize * i \in Nat /\ (segmentsize * i) % HeaderLen = 0
      BY SegmentPlace, Zenon
    <2> QED BY <2>1, <2>2
  <1>2. 0 % HeaderLen = 0
    BY Sizes, SmallMultiple
  <1> QED BY <1>1, <1>2 DEF Start, Units

(* Between two frames. *)
LEMMA StartNext ==
    ASSUME NEW f \in 0 .. 1
    PROVE  Start(f, numsegments) = Start(1 - f, 0)
  <1>1. ~(segmentsize * numsegments < FrameLen) /\ segmentsize * 0 = 0 /\ FrameLen > 0
    <2>1. segmentsize * 0 = 0 /\ FrameLen > 0
      BY Sizes
    <2>2. segmentsize * numsegments \in Nat
      BY Sizes, SegmentPlace
    <2> QED BY <2>1, <2>2, Sizes
  <1> QED BY <1>1 DEF Start

(* Segment i goes from its start to the start of the next one. *)
LEMMA SegmentIs ==
    ASSUME NEW f \in 0 .. 1, NEW i \in Nat, i < numsegments
    PROVE  LET g == Segment(f, i) IN
           /\ g \in Seq(Units) /\ Len(g) <= FrameLen
           /\ \A k \in 1 .. Len(g) : g[k] = Plus(Start(f, i), k - 1)
           /\ Start(f, i + 1) = Plus(Start(f, i), Len(g))
  <1> DEFINE g == Segment(f, i)
             p == segmentsize * i
             len == IF segmentsize < FrameLen - p THEN segmentsize ELSE FrameLen - p
  <1>1. p \in Nat /\ p <= FrameLen /\ segmentsize * (i + 1) = p + segmentsize
        /\ FrameLen \in Nat /\ segmentsize \in Nat \ {0} /\ FrameLen > 0
    BY SegmentPlace, Sizes
  <1>2. g = [k \in 1 .. len |-> <<f, p + k - 1>>]
    BY DEF Segment
  <1>3. Start(f, i) = IF p < FrameLen THEN <<f, p>> ELSE <<1 - f, 0>>
    BY DEF Start
  <1>4. Start(f, i + 1) = IF p + segmentsize < FrameLen THEN <<f, p + segmentsize>> ELSE <<1 - f, 0>>
    BY <1>1 DEF Start
  <1> HIDE DEF p, g
  <1>5. len \in Nat /\ len <= FrameLen
    BY <1>1
  <1>6. \A k \in 1 .. len : <<f, p + k - 1>> \in Units
    BY <1>1 DEF Units
  <1>7. g \in Seq(Units) /\ Len(g) = len /\ \A k \in 1 .. len : g[k] = <<f, p + k - 1>>
    <2> HIDE DEF len
    <2>1. g \in Seq(Units)
      BY <1>2, <1>5, <1>6, IsASeq
    <2> QED BY <2>1, <1>2, <1>5
  <1>8. ASSUME NEW k \in 1 .. len PROVE <<f, p + k - 1>> = Plus(Start(f, i), k - 1)
    <2>1. p < FrameLen /\ p + (k - 1) < FrameLen /\ p + (k - 1) = p + k - 1
      BY <1>1
    <2>2. Start(f, i) = <<f, p>>
      BY <2>1, <1>3
    <2> QED BY <2>1, <2>2 DEF Plus
  <1>9. Start(f, i + 1) = Plus(Start(f, i), len)
    <2>1. CASE p < FrameLen /\ p + segmentsize < FrameLen
      <3>1. len = segmentsize /\ Start(f, i) = <<f, p>> /\ Start(f, i + 1) = <<f, p + segmentsize>>
        BY <2>1, <1>1, <1>3, <1>4
      <3> QED BY <3>1, <2>1 DEF Plus
    <2>2. CASE p < FrameLen /\ ~(p + segmentsize < FrameLen)
      <3>1. len = FrameLen - p /\ Start(f, i) = <<f, p>> /\ Start(f, i + 1) = <<1 - f, 0>>
        BY <2>2, <1>1, <1>3, <1>4
      <3>2. ~(p + len < FrameLen) /\ p + len - FrameLen = 0
        BY <3>1, <1>1
      <3> QED BY <3>1, <3>2 DEF Plus
    <2>3. CASE ~(p < FrameLen)
      <3>1. len = 0 /\ Start(f, i) = <<1 - f, 0>> /\ Start(f, i + 1) = <<1 - f, 0>>
        BY <2>3, <1>1, <1>3, <1>4
      <3>2. 0 + len < FrameLen /\ 0 + len = 0
        BY <3>1, <1>1
      <3> QED BY <3>1, <3>2 DEF Plus
    <2> QED BY <2>1, <2>2, <2>3
  <1> QED BY <1>5, <1>7, <1>8, <1>9 DEF g

(* Adding a segment to a run that waits for it. *)
LEMMA RunGrown ==
    ASSUME NEW s \in Seq(Units), NEW f \in 0 .. 1, NEW i \in Nat, i < numsegments,
           Run(s, TRUE, Start(f, i))
    PROVE  LET t == s \o Segment(f, i) IN
           /\ t \in Seq(Units)
           /\ Run(t, TRUE, Start(f, i + 1))
           /\ \A v : First(t, TRUE, Start(f, i + 1), v) => First(s, TRUE, Start(f, i), v)
  <1> DEFINE g == Segment(f, i)
             t == s \o g
             u == Start(f, i)
             n == Len(s)
  <1>1. /\ g \in Seq(Units) /\ Len(g) \in Nat /\ Len(g) <= FrameLen
        /\ \A k \in 1 .. Len(g) : g[k] = Plus(u, k - 1)
        /\ Start(f, i + 1) = Plus(u, Len(g))
    BY SegmentIs
  <1>2. u \in Units /\ n \in Nat /\ FrameLen \in Nat
    BY StartType, Sizes
  <1> HIDE DEF g
  <1>3. /\ t \in Seq(Units) /\ Len(t) = n + Len(g)
        /\ \A k \in 1 .. Len(t) : t[k] = IF k <= n THEN s[k] ELSE g[k - n]
    BY <1>1, <1>2, ConcatProperties
  <1> HIDE DEF t, u, n
  <1>4. \A j, k \in 1 .. n : j <= k /\ k - j <= FrameLen => s[k] = Plus(s[j], k - j)
    BY DEF Run, n
  <1>5. \A j \in 1 .. n : n + 1 - j <= FrameLen => u = Plus(s[j], n + 1 - j)
    BY DEF Run, n, u
  <1>6. \A j \in 1 .. n : s[j] \in Units
    BY DEF n
  <1>7. ASSUME NEW j \in 1 .. n, NEW d \in Nat, (n + 1 - j) + d <= FrameLen
        PROVE  Plus(u, d) = Plus(s[j], (n + 1 - j) + d)
    <2>1. n + 1 - j \in Nat /\ n + 1 - j <= FrameLen
      BY <1>2, <1>7
    <2>2. u = Plus(s[j], n + 1 - j)
      BY <2>1, <1>5
    <2>3. s[j] \in Units
      BY <1>6
    <2> QED BY <2>1, <2>2, <2>3, <1>7, PlusPlus
  <1>8. ASSUME NEW j \in 1 .. Len(t), NEW k \in 1 .. Len(t), j <= k, k - j <= FrameLen
        PROVE  t[k] = Plus(t[j], k - j)
    <2>1. CASE k <= n
      <3>1. j \in 1 .. n /\ k \in 1 .. n
        BY <2>1, <1>8, <1>2, <1>3
      <3> QED BY <3>1, <2>1, <1>3, <1>4, <1>8
    <2>2. CASE j <= n /\ k > n
      <3>1. j \in 1 .. n /\ k - n \in 1 .. Len(g) /\ (k - n) - 1 \in Nat
            /\ (n + 1 - j) + ((k - n) - 1) = k - j
        BY <2>2, <1>8, <1>2, <1>3, <1>1
      <3>2. t[k] = Plus(u, (k - n) - 1) /\ t[j] = s[j]
        BY <3>1, <2>2, <1>1, <1>2, <1>3
      <3>3. Plus(u, (k - n) - 1) = Plus(s[j], (n + 1 - j) + ((k - n) - 1))
        BY <3>1, <1>7, <1>8
      <3> QED BY <3>1, <3>2, <3>3
    <2>3. CASE j > n
      <3>1. j - n \in 1 .. Len(g) /\ k - n \in 1 .. Len(g) /\ k > n /\ ~(j <= n) /\ ~(k <= n)
        BY <2>3, <1>8, <1>2, <1>3, <1>1
      <3>2. t[j] = Plus(u, (j - n) - 1) /\ t[k] = Plus(u, (k - n) - 1)
        BY <3>1, <1>1, <1>3
      <3>3. (j - n) - 1 \in Nat /\ k - j \in Nat /\ ((j - n) - 1) + (k - j) = (k - n) - 1
            /\ ((j - n) - 1) + (k - j) <= FrameLen
        BY <3>1, <1>8, <1>1, <1>2
      <3>4. Plus(Plus(u, (j - n) - 1), k - j) = Plus(u, ((j - n) - 1) + (k - j))
        BY <3>3, <1>2, PlusPlus
      <3> QED BY <3>2, <3>3, <3>4
    <2> QED BY <2>1, <2>2, <2>3, <1>2, <1>3
  <1>9. ASSUME NEW j \in 1 .. Len(t), Len(t) + 1 - j <= FrameLen
        PROVE  Start(f, i + 1) = Plus(t[j], Len(t) + 1 - j)
    <2>1. CASE j <= n
      <3>1. j \in 1 .. n /\ (n + 1 - j) + Len(g) = Len(t) + 1 - j
        BY <2>1, <1>1, <1>2, <1>3
      <3>2. Plus(u, Len(g)) = Plus(s[j], (n + 1 - j) + Len(g))
        BY <3>1, <1>1, <1>7, <1>9
      <3> QED BY <2>1, <3>1, <3>2, <1>1, <1>3
    <2>2. CASE j > n
      <3>1. j - n \in 1 .. Len(g) /\ ~(j <= n)
        BY <2>2, <1>1, <1>2, <1>3
      <3>2. t[j] = Plus(u, (j - n) - 1)
        BY <3>1, <1>1, <1>3
      <3>3. (j - n) - 1 \in Nat /\ Len(t) + 1 - j \in Nat /\ ((j - n) - 1) + (Len(t) + 1 - j) = Len(g)
        BY <3>1, <1>1, <1>2, <1>3
      <3>4. Plus(Plus(u, (j - n) - 1), Len(t) + 1 - j) = Plus(u, ((j - n) - 1) + (Len(t) + 1 - j))
        BY <3>3, <1>1, <1>2, PlusPlus
      <3> QED BY <3>2, <3>3, <3>4, <1>1
    <2> QED BY <2>1, <2>2, <1>2, <1>3
  <1>10. ASSUME NEW v, First(t, TRUE, Start(f, i + 1), v) PROVE First(s, TRUE, u, v)
    <2>1. CASE s # <<>>
      <3>1. n >= 1 /\ t # <<>> /\ 1 \in 1 .. Len(t)
        BY <2>1, <1>1, <1>2, <1>3, EmptySeq DEF n
      <3> QED BY <2>1, <3>1, <1>3, <1>10 DEF First
    <2>2. CASE s = <<>> /\ Len(g) > 0
      <3>1. n = 0 /\ t # <<>> /\ 1 \in 1 .. Len(t) /\ 1 - n = 1 /\ ~(1 <= n) /\ 1 \in 1 .. Len(g) /\ 1 - 1 = 0
        BY <2>2, <1>1, <1>2, <1>3, EmptySeq DEF n
      <3>2. v = g[1] /\ g[1] = Plus(u, 0)
        BY <3>1, <1>1, <1>3, <1>10 DEF First
      <3>3. v = u
        BY <3>2, <1>2, PlusType
      <3> QED BY <2>2, <3>3 DEF First
    <2>3. CASE s = <<>> /\ Len(g) = 0
      <3>1. t = <<>> /\ Start(f, i + 1) = u
        <4>1. n = 0 /\ Len(t) = 0
          BY <2>3, <1>1, <1>3 DEF n
        <4>2. Plus(u, 0) = u
          BY <1>2, PlusType
        <4> QED BY <4>1, <4>2, <2>3, <1>1, <1>3, EmptySeq
      <3> QED BY <2>3, <3>1, <1>10 DEF First
    <2>4. Len(g) > 0 \/ Len(g) = 0
      BY <1>1
    <2> QED BY <2>1, <2>2, <2>3, <2>4, Zenon
  <1>11. Run(t, TRUE, Start(f, i + 1))
    BY <1>8, <1>9 DEF Run
  <1> QED BY <1>3, <1>10, <1>11 DEF t, u, g

(* The state of a connection, what is on its way, and whether the camera    *)
(* thread adds to it, beginning with Upcoming.                              *)
State(c) == conns[c].state
Stream(c) == conns[c].stream
Live(c) == srv.pc = "sending" /\ srv.client = c /\ State(c) = "up"
Upcoming == Start(srv.frame, srv.i)
Comes(c, v) == First(Stream(c), Live(c), Upcoming, v)

Types ==
    /\ conns \in [ConnIds -> [state : ConnStates, stream : Seq(Units)]]
    /\ queue \in Seq(ConnIds)
    /\ srv \in [pc : {"accepting", "sending", "done"}, client : {0} \cup ConnIds,
                frame : 0 .. 1, i : 0 .. numsegments]
    /\ running \in BOOLEAN
    /\ viewer \in [pc : {"connecting", "header", "first", "rest"}, conn : {0} \cup ConnIds,
                   got : Seq(Units), waitingOnRestOfFrame : 0 .. DataLen,
                   previousDataRemaining : 0 .. DataLen, timeoutCounter : 0 .. TimeoutLimit]
    /\ past \in [skew : 0 .. HeaderLen - 1, later : BOOLEAN, pairs : 0 .. TimeoutLimit + 1]

(* A connection that waits for accept is fresh, and one that works waits or  *)
(* is the camera thread's, while that thread lives.                          *)
QueueInv ==
    /\ \A j, k \in 1 .. Len(queue) : queue[j] = queue[k] => j = k
    /\ \A k \in 1 .. Len(queue), c \in ConnIds : c = queue[k] =>
           /\ State(c) # "none" /\ Stream(c) = <<>>
           /\ ~(srv.pc = "sending" /\ srv.client = c)
           /\ viewer.conn = c => viewer.pc = "header" /\ past.skew = 0
    /\ \A c \in ConnIds :
           /\ State(c) = "none" => viewer.conn # c /\ Stream(c) = <<>>
                                   /\ ~(srv.pc = "sending" /\ srv.client = c)
           /\ State(c) = "up" => \/ \E k \in 1 .. Len(queue) : c = queue[k]
                                 \/ srv.pc = "done"
                                 \/ srv.pc = "sending" /\ srv.client = c
    /\ srv.pc = "sending" => srv.client # 0
    /\ viewer.pc = "connecting" <=> viewer.conn = 0

(* What is on its way on a connection follows from unit to unit, up to what  *)
(* the camera thread sends next.                                             *)
RunInv == \A c \in ConnIds : Run(Stream(c), Live(c), Upcoming)

Part(got, f) == \A k \in 1 .. Len(got) : got[k] = <<f, HeaderLen + k - 1>>

(* The viewer knows its place: the next unit is a header's, but for the skew, *)
(* or the one after those it has of the frame.                                *)
StepInv ==
    \A c \in ConnIds : viewer.conn = c =>
        /\ viewer.pc = "header" => \A v \in Units : Comes(c, v) => (v[2] - past.skew) % HeaderLen = 0
        /\ viewer.pc \in {"first", "rest"} =>
               /\ past.skew = 0
               /\ \E f \in 0 .. 1 :
                      /\ Part(viewer.got, f)
                      /\ \A v \in Units : Comes(c, v) => v = <<f, HeaderLen + Len(viewer.got)>>

GotInv ==
    /\ viewer.pc = "first" => viewer.got = <<>>
    /\ viewer.pc = "rest" => /\ viewer.waitingOnRestOfFrame = DataLen - Len(viewer.got)
                             /\ viewer.waitingOnRestOfFrame > 0

StreamInv == Types /\ QueueInv /\ RunInv /\ StepInv /\ GotInv /\ DrawnWhole

-----------------------------------------------------------------------------
LEMMA NoConnZero == 0 \notin ConnIds
  BY VideoAssumption DEF ConnIds

LEMMA ConnTypes ==
    ASSUME Types, NEW c \in ConnIds
    PROVE  State(c) \in ConnStates /\ Stream(c) \in Seq(Units) /\ Live(c) \in BOOLEAN
           /\ Upcoming \in Units
  <1>1. conns[c] \in [state : ConnStates, stream : Seq(Units)]
    BY DEF Types
  <1>2. Live(c) \in BOOLEAN
    BY DEF Live
  <1>3. srv.frame \in 0 .. 1 /\ srv.i \in Nat
    BY Sizes DEF Types
  <1>4. Upcoming \in Units
    BY <1>3, StartType DEF Upcoming
  <1> QED BY <1>1, <1>2, <1>4 DEF State, Stream

LEMMA ComesUnit ==
    ASSUME Types, NEW c \in ConnIds, NEW v, Comes(c, v)
    PROVE  v \in Units
  <1>1. Stream(c) \in Seq(Units) /\ Upcoming \in Units
    BY ConnTypes
  <1>2. Stream(c) # <<>> => Stream(c)[1] \in Units
    BY <1>1
  <1> QED BY <1>1, <1>2 DEF Comes, First

(* A connection that nothing happens to, and one that is cut. *)
LEMMA Untouched ==
    ASSUME Types, RunInv, NEW c \in ConnIds, Stream(c)' = Stream(c),
           Live(c)' => Live(c) /\ Upcoming' = Upcoming
    PROVE  Run(Stream(c), Live(c), Upcoming)' /\ \A v : Comes(c, v)' => Comes(c, v)
  BY DEF RunInv, Run, Comes, First

LEMMA Shortened ==
    ASSUME Types, RunInv, NEW c \in ConnIds, ~Live(c)',
           NEW n \in 0 .. Len(Stream(c)), Stream(c)' = SubSeq(Stream(c), 1, n)
    PROVE  Run(Stream(c), Live(c), Upcoming)' /\ \A v : Comes(c, v)' => Comes(c, v)
  <1>1. Stream(c) \in Seq(Units) /\ Live(c) \in BOOLEAN
    BY ConnTypes
  <1>2. Run(Stream(c), Live(c), Upcoming)
    BY DEF RunInv
  <1> DEFINE t == SubSeq(Stream(c), 1, n)
  <1>3. Run(t, FALSE, Upcoming)
        /\ \A v, w : First(t, FALSE, w, v) => First(Stream(c), Live(c), Upcoming, v)
    BY <1>1, <1>2, RunCut
  <1> HIDE DEF t
  <1>4. Stream(c)' = t
    BY DEF t
  <1> QED BY <1>3, <1>4 DEF Comes, First, Run

(* A viewer that nothing happens to keeps its place. *)
LEMMA PlaceKept ==
    ASSUME StepInv, GotInv, viewer' = viewer, past' = past,
           \A c \in ConnIds, v \in Units : Comes(c, v)' => Comes(c, v)
    PROVE  StepInv' /\ GotInv'
  <1>1. GotInv'
    BY DEF GotInv
  <1>2. ASSUME NEW c \in ConnIds, viewer.conn = c, viewer.pc = "header",
               NEW v \in Units, Comes(c, v)'
        PROVE  (v[2] - past.skew) % HeaderLen = 0
    BY <1>2 DEF StepInv
  <1>3. ASSUME NEW c \in ConnIds, viewer.conn = c, viewer.pc \in {"first", "rest"}
        PROVE  /\ past.skew = 0
               /\ \E f \in 0 .. 1 :
                      /\ Part(viewer.got, f)
                      /\ \A v \in Units : Comes(c, v)' => v = <<f, HeaderLen + Len(viewer.got)>>
    BY <1>3 DEF StepInv
  <1>4. StepInv'
    BY <1>2, <1>3 DEF StepInv
  <1> QED BY <1>1, <1>4

-----------------------------------------------------------------------------
LEMMA StreamInitial == Init => StreamInv
  <1> SUFFICES ASSUME Init PROVE StreamInv
    OBVIOUS
  <1>1. Types
    <2>1. <<>> \in Seq(Units) /\ <<>> \in Seq(ConnIds) /\ 0 \in 0 .. numsegments /\ 0 \in 0 .. DataLen
          /\ 0 \in 0 .. HeaderLen - 1 /\ 0 \in 0 .. TimeoutLimit /\ 0 \in 0 .. TimeoutLimit + 1
          /\ 0 \in {0} \cup ConnIds /\ 0 \in 0 .. 1
      BY Sizes, VideoAssumption
    <2> QED BY <2>1 DEF Init, Types, Camera, Connecting, ConnStates
  <1>2. \A c \in ConnIds : State(c) = "none" /\ Stream(c) = <<>> /\ ~Live(c)
    BY DEF Init, State, Stream, Live
  <1>3. queue = <<>> /\ Len(queue) = 0 /\ viewer.conn = 0 /\ viewer.pc = "connecting"
        /\ srv.pc = "accepting" /\ shown = <<>>
    BY DEF Init, Camera, Connecting
  <1>4. QueueInv
    BY <1>2, <1>3, NoConnZero DEF QueueInv
  <1>5. RunInv
    BY <1>2 DEF RunInv, Run
  <1>6. StepInv /\ GotInv /\ DrawnWhole
    BY <1>3, NoConnZero DEF StepInv, GotInv, DrawnWhole
  <1> QED BY <1>1, <1>4, <1>5, <1>6 DEF StreamInv

-----------------------------------------------------------------------------
(* The camera thread. *)

LEMMA SrvFields ==
    ASSUME Types
    PROVE  /\ srv.pc \in {"accepting", "sending", "done"} /\ srv.client \in {0} \cup ConnIds
           /\ srv.frame \in 0 .. 1 /\ srv.i \in Nat /\ srv.i <= numsegments
           /\ Len(queue) \in Nat /\ \A k \in 1 .. Len(queue) : queue[k] \in ConnIds
  <1>1. srv.i \in Nat /\ srv.i <= numsegments
    BY Sizes DEF Types
  <1> QED BY <1>1 DEF Types

LEMMA AcceptKeeps == StreamInv /\ Accept => StreamInv'
  <1> SUFFICES ASSUME StreamInv, Accept PROVE StreamInv'
    OBVIOUS
  <1>1. /\ Types /\ QueueInv /\ RunInv /\ StepInv /\ GotInv /\ DrawnWhole
        /\ conns' = conns /\ viewer' = viewer /\ past' = past /\ shown' = shown /\ running' = running
        /\ queue # <<>> /\ queue' = Tail(queue) /\ srv.pc = "accepting"
        /\ srv' = [srv EXCEPT !.pc = "sending", !.client = Head(queue)]
    BY DEF StreamInv, Accept
  <1>2. PICK h \in ConnIds :
        /\ h = queue[1] /\ Len(queue) \in Nat /\ Len(queue) > 0 /\ Head(queue) = h
        /\ queue' \in Seq(ConnIds) /\ Len(queue') = Len(queue) - 1
        /\ \A k \in 1 .. Len(queue') : queue'[k] = queue[k + 1]
    <2>1. queue \in Seq(ConnIds)
      BY <1>1 DEF Types
    <2>2. queue[1] \in ConnIds /\ Len(queue) \in Nat /\ Len(queue) > 0 /\ Head(queue) = queue[1]
      BY <1>1, <2>1
    <2> QED BY <1>1, <2>1, <2>2
  <1>3. /\ srv'.pc = "sending" /\ srv'.client = h /\ srv'.frame = srv.frame /\ srv'.i = srv.i
        /\ Types'
    BY <1>1, <1>2 DEF Types
  <1>4. /\ \A c \in ConnIds : State(c)' = State(c) /\ Stream(c)' = Stream(c)
        /\ Upcoming' = Upcoming
    BY <1>1, <1>3 DEF State, Stream, Upcoming
  <1>5. State(h) # "none" /\ Stream(h) = <<>> /\ (viewer.conn = h => viewer.pc = "header" /\ past.skew = 0)
    <2>1. 1 \in 1 .. Len(queue)
      BY <1>2
    <2> QED BY <1>1, <1>2, <2>1 DEF QueueInv
  <1>6. QueueInv'
    <2>1. ASSUME NEW j \in 1 .. Len(queue'), NEW k \in 1 .. Len(queue'), queue'[j] = queue'[k]
          PROVE  j = k
      <3>1. j + 1 \in 1 .. Len(queue) /\ k + 1 \in 1 .. Len(queue) /\ queue[j + 1] = queue[k + 1]
        BY <2>1, <1>2
      <3>2. j + 1 = k + 1
        BY <3>1, <1>1 DEF QueueInv
      <3> QED BY <3>2
    <2>2. ASSUME NEW k \in 1 .. Len(queue'), NEW c \in ConnIds, c = queue'[k]
          PROVE  /\ State(c) # "none" /\ Stream(c) = <<>> /\ c # h
                 /\ viewer.conn = c => viewer.pc = "header" /\ past.skew = 0
      <3>1. k + 1 \in 1 .. Len(queue) /\ c = queue[k + 1] /\ 1 \in 1 .. Len(queue) /\ k + 1 # 1
        BY <2>2, <1>2
      <3>2. queue[k + 1] # queue[1]
        BY <3>1, <1>1 DEF QueueInv
      <3> QED BY <3>1, <3>2, <1>1, <1>2 DEF QueueInv
    <2>3. ASSUME NEW c \in ConnIds, State(c) = "up"
          PROVE  c = h \/ \E k \in 1 .. Len(queue') : c = queue'[k]
      <3>1. PICK k \in 1 .. Len(queue) : c = queue[k]
        BY <2>3, <1>1 DEF QueueInv
      <3>2. CASE k = 1
        BY <3>1, <3>2, <1>2
      <3>3. CASE k # 1
        <4>1. k - 1 \in 1 .. Len(queue') /\ (k - 1) + 1 = k
          BY <3>1, <3>3, <1>2
        <4> QED BY <4>1, <3>1, <1>2
      <3> QED BY <3>2, <3>3
    <2>4. \A c \in ConnIds : State(c) = "none" => viewer.conn # c /\ Stream(c) = <<>> /\ c # h
      BY <1>1, <1>5 DEF QueueInv
    <2>5. h # 0 /\ (viewer.pc = "connecting" <=> viewer.conn = 0)
      BY <1>1, <1>2, NoConnZero DEF QueueInv
    <2> QED BY <1>1, <1>3, <1>4, <2>1, <2>2, <2>3, <2>4, <2>5 DEF QueueInv
  <1>7. RunInv'
    <2>1. ASSUME NEW c \in ConnIds PROVE Run(Stream(c), Live(c), Upcoming)'
      <3>1. CASE c = h
        <4>1. Stream(c)' = <<>>
          BY <3>1, <1>4, <1>5
        <4> QED BY <4>1 DEF Run
      <3>2. CASE c # h
        <4>1. ~Live(c)'
          BY <3>2, <1>3 DEF Live
        <4> QED BY <4>1, <1>1, <1>4, Untouched
      <3> QED BY <3>1, <3>2
    <2> QED BY <2>1 DEF RunInv
  <1>8. GotInv' /\ DrawnWhole'
    BY <1>1 DEF GotInv, DrawnWhole
  <1>9. StepInv'
    <2>1. CASE viewer.conn = h
      <3>1. ASSUME NEW v \in Units, Comes(h, v)' PROVE (v[2] - past.skew) % HeaderLen = 0
        <4>1. v = Upcoming
          BY <3>1, <1>4, <1>5 DEF Comes, First
        <4>2. v[2] % HeaderLen = 0
          BY <4>1, <1>1, SrvFields, StartType DEF Upcoming
        <4>3. past.skew = 0 /\ v[2] - 0 = v[2]
          BY <2>1, <1>5, Sizes DEF Units
        <4> QED BY <4>2, <4>3
      <3>2. viewer'.conn = h /\ viewer'.pc = "header" /\ past' = past
        BY <2>1, <1>1, <1>5
      <3> QED BY <3>1, <3>2 DEF StepInv
    <2>2. CASE viewer.conn # h
      <3>1. ASSUME NEW c \in ConnIds, c # h PROVE \A v : Comes(c, v)' => Comes(c, v)
        <4>1. ~Live(c)'
          BY <3>1, <1>3 DEF Live
        <4> QED BY <4>1, <1>1, <1>4, Untouched
      <3>2. ASSUME NEW c \in ConnIds, viewer.conn = c, viewer.pc = "header",
                   NEW v \in Units, Comes(c, v)'
            PROVE  (v[2] - past.skew) % HeaderLen = 0
        BY <3>1, <3>2, <2>2, <1>1 DEF StepInv
      <3>3. ASSUME NEW c \in ConnIds, viewer.conn = c, viewer.pc \in {"first", "rest"}
            PROVE  /\ past.skew = 0
                   /\ \E f \in 0 .. 1 :
                          /\ Part(viewer.got, f)
                          /\ \A v \in Units : Comes(c, v)' => v = <<f, HeaderLen + Len(viewer.got)>>
        BY <3>1, <3>3, <2>2, <1>1 DEF StepInv
      <3> QED BY <3>2, <3>3, <1>1 DEF StepInv
    <2> QED BY <2>1, <2>2
  <1> QED BY <1>3, <1>6, <1>7, <1>8, <1>9 DEF StreamInv

LEMMA SendSegmentKeeps == StreamInv /\ SendSegment => StreamInv'
  <1> SUFFICES ASSUME StreamInv, SendSegment PROVE StreamInv'
    OBVIOUS
  <1>1. /\ Types /\ QueueInv /\ RunInv /\ StepInv /\ GotInv /\ DrawnWhole
        /\ queue' = queue /\ viewer' = viewer /\ past' = past /\ shown' = shown /\ running' = running
        /\ srv.pc = "sending" /\ srv.i < numsegments /\ srv' = [srv EXCEPT !.i = @ + 1]
    BY DEF StreamInv, SendSegment
  <1>0. PICK c \in ConnIds, g \in Seq(Units) : c = srv.client /\ g = Segment(srv.frame, srv.i)
    <2>1. srv.client \in ConnIds /\ srv.frame \in 0 .. 1 /\ srv.i \in Nat
      BY <1>1, SrvFields DEF QueueInv
    <2>2. Segment(srv.frame, srv.i) \in Seq(Units)
      BY <1>1, <2>1, SegmentIs
    <2> QED BY <2>1, <2>2
  <1>2. \/ /\ conns[c].state = "up"
           /\ conns' = [conns EXCEPT ![c].stream = @ \o g]
        \/ /\ conns[c].state = "silent" /\ conns' = conns
        \/ /\ conns[c].state = "left"
           /\ conns' = [conns EXCEPT ![c].state = IF g = <<>> THEN "left" ELSE "piped"]
    BY <1>0 DEF SendSegment
  <1>3. c \in ConnIds /\ srv.frame \in 0 .. 1 /\ srv.i \in Nat
    BY <1>1, SrvFields
  <1>4. Stream(c) \in Seq(Units) /\ Stream(c) \o g \in Seq(Units)
    BY <1>1, ConnTypes, ConcatProperties
  <1>5. /\ srv'.pc = srv.pc /\ srv'.client = c /\ srv'.frame = srv.frame /\ srv'.i = srv.i + 1
        /\ srv' \in [pc : {"accepting", "sending", "done"}, client : {0} \cup ConnIds,
                     frame : 0 .. 1, i : 0 .. numsegments]
    <2>1. srv \in [pc : {"accepting", "sending", "done"}, client : {0} \cup ConnIds,
                  frame : 0 .. 1, i : 0 .. numsegments]
      BY <1>1 DEF Types
    <2>2. srv.i + 1 \in 0 .. numsegments
      BY <1>1, <1>3, Sizes
    <2> QED BY <1>0, <1>1, <2>1, <2>2
  <1>6. Types'
    <2>1. conns' \in [ConnIds -> [state : ConnStates, stream : Seq(Units)]]
      <3>1. conns \in [ConnIds -> [state : ConnStates, stream : Seq(Units)]]
        BY <1>1 DEF Types
      <3>2. CASE conns' = [conns EXCEPT ![c].stream = @ \o g]
        BY <3>1, <3>2, <1>3, <1>4 DEF Stream
      <3>3. CASE conns' = [conns EXCEPT ![c].state = IF g = <<>> THEN "left" ELSE "piped"]
        BY <3>1, <3>3, <1>3 DEF ConnStates
      <3> QED BY <3>1, <3>2, <3>3, <1>2
    <2> QED BY <2>1, <1>1, <1>5 DEF Types
  <1>7. /\ \A d \in ConnIds : d # c => State(d)' = State(d) /\ Stream(d)' = Stream(d)
        /\ \/ State(c) = "up" /\ State(c)' = "up" /\ Stream(c)' = Stream(c) \o g
           \/ State(c) \in {"silent", "left"} /\ State(c)' \in {"silent", "left", "piped"}
              /\ Stream(c)' = Stream(c)
    <2>1. conns \in [ConnIds -> [state : ConnStates, stream : Seq(Units)]]
      BY <1>1 DEF Types
    <2> QED BY <2>1, <1>2, <1>3 DEF State, Stream
  <1>8. QueueInv'
    <2>1. \A k \in 1 .. Len(queue), d \in ConnIds : d = queue[k] => d # c
      BY <1>0, <1>1 DEF QueueInv
    <2>2. \A d \in ConnIds : State(d)' = "up" <=> State(d) = "up"
      BY <1>7
    <2>3. \A d \in ConnIds : State(d)' = "none" => State(d) = "none" /\ d # c
      BY <1>7
    <2> QED BY <2>1, <2>2, <2>3, <1>1, <1>5, <1>7 DEF QueueInv
  <1>9. ASSUME NEW d \in ConnIds
        PROVE  Run(Stream(d), Live(d), Upcoming)' /\ \A v : Comes(d, v)' => Comes(d, v)
    <2>1. CASE d = c /\ State(c) = "up"
      <3>1. Live(d) /\ Live(d)' /\ Stream(d)' = Stream(d) \o g
        BY <2>1, <1>1, <1>5, <1>7 DEF Live
      <3>2. Upcoming = Start(srv.frame, srv.i) /\ Upcoming' = Start(srv.frame, srv.i + 1)
        BY <1>5 DEF Upcoming
      <3>3. Run(Stream(d), TRUE, Start(srv.frame, srv.i))
        BY <3>1, <3>2, <1>1 DEF RunInv
      <3>4. Stream(d) \in Seq(Units)
        BY <1>1, ConnTypes
      <3> DEFINE t == Stream(d) \o Segment(srv.frame, srv.i)
                 x == Start(srv.frame, srv.i)
                 y == Start(srv.frame, srv.i + 1)
      <3>5. Run(t, TRUE, y) /\ \A v : First(t, TRUE, y, v) => First(Stream(d), TRUE, x, v)
        BY <3>3, <3>4, <1>1, <1>3, RunGrown
      <3>6. Stream(d)' = t /\ Upcoming' = y /\ Upcoming = x
        BY <3>1, <3>2, <1>0
      <3> HIDE DEF t, x, y
      <3> QED BY <3>1, <3>5, <3>6 DEF Comes
    <2>2. CASE d = c /\ State(c) # "up"
      <3>1. Stream(d)' = Stream(d) /\ ~Live(d)'
        BY <2>2, <1>7 DEF Live
      <3> QED BY <3>1, <1>1, Untouched
    <2>3. CASE d # c
      <3>1. Stream(d)' = Stream(d) /\ ~Live(d)'
        BY <2>3, <1>5, <1>7 DEF Live
      <3> QED BY <3>1, <1>1, Untouched
    <2> QED BY <2>1, <2>2, <2>3
  <1>10. RunInv'
    BY <1>9 DEF RunInv
  <1>11. StepInv' /\ GotInv'
    BY <1>1, <1>9, PlaceKept
  <1> QED BY <1>1, <1>6, <1>8, <1>10, <1>11 DEF StreamInv, DrawnWhole

(* Connections that lose what they have from some place on, and that nobody adds to, or keep it. *)
LEMMA Losing ==
    ASSUME Types, RunInv,
           \A c \in ConnIds :
               \/ Stream(c)' = Stream(c) /\ (Live(c)' => Live(c) /\ Upcoming' = Upcoming)
               \/ ~Live(c)' /\ \E n \in 0 .. Len(Stream(c)) : Stream(c)' = SubSeq(Stream(c), 1, n)
    PROVE  RunInv' /\ \A c \in ConnIds : \A v : Comes(c, v)' => Comes(c, v)
  <1>1. ASSUME NEW c \in ConnIds
        PROVE  Run(Stream(c), Live(c), Upcoming)' /\ \A v : Comes(c, v)' => Comes(c, v)
    <2>1. CASE Stream(c)' = Stream(c) /\ (Live(c)' => Live(c) /\ Upcoming' = Upcoming)
      BY <2>1, Untouched
    <2>2. CASE ~Live(c)' /\ \E n \in 0 .. Len(Stream(c)) : Stream(c)' = SubSeq(Stream(c), 1, n)
      BY <2>2, Shortened
    <2> QED BY <2>1, <2>2
  <1> QED BY <1>1 DEF RunInv

LEMMA PrefixType ==
    ASSUME NEW s \in Seq(Units), NEW n \in 0 .. Len(s)
    PROVE  SubSeq(s, 1, n) \in Seq(Units) /\ (s = <<>> => SubSeq(s, 1, n) = <<>>)
  <1>1. \A k \in 1 .. n : s[k] \in Units
    OBVIOUS
  <1>2. SubSeq(s, 1, n) \in Seq(Units)
    BY <1>1, SubSeqProperties
  <1>3. s = <<>> => n < 1
    OBVIOUS
  <1>4. n < 1 => SubSeq(s, 1, n) = <<>>
    BY SubSeqEmpty
  <1> QED BY <1>2, <1>3, <1>4

LEMMA BrokenIs ==
    ASSUME Types, NEW c \in ConnIds, NEW s \in ConnStates, NEW n \in 0 .. Len(Stream(c))
    PROVE  /\ Broken(c, s, n) \in [state : ConnStates, stream : Seq(Units)]
           /\ State(c) = "up" => Broken(c, s, n).state = s /\ Broken(c, s, n).stream = SubSeq(Stream(c), 1, n)
           /\ State(c) # "up" => Broken(c, s, n).state = State(c) /\ Broken(c, s, n).stream = Stream(c)
  <1>1. Stream(c) \in Seq(Units) /\ conns[c] \in [state : ConnStates, stream : Seq(Units)]
    BY ConnTypes DEF Types
  <1>2. SubSeq(Stream(c), 1, n) \in Seq(Units)
    BY <1>1, PrefixType
  <1> QED BY <1>1, <1>2 DEF Broken, State, Stream

LEMMA SendFailsKeeps == StreamInv /\ SendFails => StreamInv'
  <1> SUFFICES ASSUME StreamInv, SendFails PROVE StreamInv'
    OBVIOUS
  <1>1. /\ Types /\ QueueInv /\ RunInv /\ StepInv /\ GotInv /\ DrawnWhole
        /\ queue' = <<>> /\ viewer' = viewer /\ past' = past /\ shown' = shown
        /\ running' = (running /\ conns[srv.client].state # "piped")
        /\ srv.pc = "sending" /\ srv.i < numsegments
        /\ srv' = [srv EXCEPT !.pc = "accepting", !.client = 0, !.i = @ + 1]
        /\ conns[srv.client].state # "up" /\ conns' = Unbound
    BY DEF StreamInv, SendFails
  <1>2. ASSUME NEW c \in ConnIds
        PROVE  /\ conns'[c] \in [state : ConnStates, stream : Seq(Units)]
               /\ Stream(c)' = Stream(c) /\ ~Live(c)' /\ State(c)' # "up"
               /\ State(c)' = "none" => State(c) = "none"
    <2>1. c \in ToSet(queue) => \E k \in 1 .. Len(queue) : c = queue[k]
      <3>1. DOMAIN queue = 1 .. Len(queue)
        BY <1>1 DEF Types
      <3> QED BY <3>1 DEF ToSet
    <2>2. conns'[c] = IF State(c) = "up" /\ c \in ToSet(queue)
                      THEN [state |-> "reset", stream |-> <<>>] ELSE conns[c]
      BY <1>1 DEF Unbound, State
    <2>3. conns[c] \in [state : ConnStates, stream : Seq(Units)] /\ <<>> \in Seq(Units)
      BY <1>1 DEF Types
    <2>4. ~Live(c)'
      BY <1>1 DEF Live
    <2>5. CASE State(c) = "up" /\ c \in ToSet(queue)
      <3>1. Stream(c) = <<>>
        BY <2>1, <2>5, <1>1 DEF QueueInv
      <3> QED BY <3>1, <2>2, <2>4, <2>5 DEF State, Stream, ConnStates
    <2>6. CASE ~(State(c) = "up" /\ c \in ToSet(queue))
      <3>1. State(c) # "up"
        <4>1. SUFFICES ASSUME State(c) = "up" PROVE FALSE
          OBVIOUS
        <4>2. PICK k \in 1 .. Len(queue) : c = queue[k]
          BY <4>1, <1>1 DEF QueueInv, State
        <4>3. c \in ToSet(queue)
          BY <4>2, <1>1 DEF ToSet, Types
        <4> QED BY <4>1, <4>3, <2>6
      <3> QED BY <3>1, <2>2, <2>3, <2>4, <2>6 DEF State, Stream
    <2> QED BY <2>5, <2>6
  <1>3. srv' \in [pc : {"accepting", "sending", "done"}, client : {0} \cup ConnIds,
                  frame : 0 .. 1, i : 0 .. numsegments] /\ srv'.pc = "accepting"
    <2>1. srv \in [pc : {"accepting", "sending", "done"}, client : {0} \cup ConnIds,
                  frame : 0 .. 1, i : 0 .. numsegments]
      BY <1>1 DEF Types
    <2>2. srv.i + 1 \in 0 .. numsegments
      BY <2>1, <1>1, SrvFields, Sizes
    <2> QED BY <1>1, <2>1, <2>2
  <1>4. Types'
    <2>1. DOMAIN conns' = ConnIds /\ conns' = [c \in ConnIds |-> conns'[c]]
      BY <1>1 DEF Unbound
    <2>2. conns' \in [ConnIds -> [state : ConnStates, stream : Seq(Units)]]
      BY <2>1, <1>2
    <2> QED BY <2>2, <1>1, <1>3 DEF Types
  <1>5. QueueInv'
    <2>1. Len(queue') = 0
      BY <1>1
    <2>2. \A c \in ConnIds : State(c)' = "none" => viewer.conn # c /\ Stream(c)' = <<>>
      BY <1>1, <1>2 DEF QueueInv
    <2> QED BY <2>1, <2>2, <1>1, <1>2, <1>3 DEF QueueInv
  <1>6. RunInv' /\ \A c \in ConnIds : \A v : Comes(c, v)' => Comes(c, v)
    BY <1>1, <1>2, Losing
  <1>7. StepInv' /\ GotInv'
    BY <1>1, <1>6, PlaceKept
  <1> QED BY <1>1, <1>4, <1>5, <1>6, <1>7 DEF StreamInv, DrawnWhole

LEMMA EndFrameKeeps == StreamInv /\ EndFrame => StreamInv'
  <1> SUFFICES ASSUME StreamInv, EndFrame PROVE StreamInv'
    OBVIOUS
  <1>1. /\ Types /\ QueueInv /\ RunInv /\ StepInv /\ GotInv /\ DrawnWhole
        /\ UNCHANGED <<conns, queue, running, viewer, shown, past>>
        /\ srv.pc = "sending" /\ srv.i = numsegments
        /\ srv' = IF running THEN [srv EXCEPT !.frame = 1 - @, !.i = 0] ELSE [srv EXCEPT !.pc = "done"]
    BY DEF StreamInv, EndFrame
  <1>2. srv \in [pc : {"accepting", "sending", "done"}, client : {0} \cup ConnIds,
                 frame : 0 .. 1, i : 0 .. numsegments] /\ 0 \in 0 .. numsegments
        /\ 1 - srv.frame \in 0 .. 1
    BY <1>1, SrvFields, Sizes DEF Types
  <1>3. srv' \in [pc : {"accepting", "sending", "done"}, client : {0} \cup ConnIds,
                  frame : 0 .. 1, i : 0 .. numsegments] /\ srv'.client = srv.client
        /\ \/ srv'.pc = "done"
           \/ srv'.pc = "sending" /\ srv'.frame = 1 - srv.frame /\ srv'.i = 0
    BY <1>1, <1>2
  <1>4. Types'
    BY <1>1, <1>3 DEF Types
  <1>5. \A c \in ConnIds : State(c)' = State(c) /\ Stream(c)' = Stream(c)
    BY <1>1 DEF State, Stream
  <1>6. QueueInv'
    BY <1>1, <1>3, <1>5 DEF QueueInv
  <1>7. ASSUME NEW c \in ConnIds, Live(c)' PROVE Live(c) /\ Upcoming' = Upcoming
    <2>1. srv'.pc = "sending" /\ Live(c)
      BY <1>1, <1>3, <1>5, <1>7 DEF Live
    <2>2. Start(srv.frame, numsegments) = Start(1 - srv.frame, 0)
      BY <1>1, SrvFields, StartNext
    <2> QED BY <2>1, <2>2, <1>1, <1>3 DEF Upcoming
  <1>8. RunInv' /\ \A c \in ConnIds : \A v : Comes(c, v)' => Comes(c, v)
    BY <1>1, <1>5, <1>7, Losing
  <1>9. StepInv' /\ GotInv'
    BY <1>1, <1>8, PlaceKept
  <1> QED BY <1>1, <1>4, <1>6, <1>8, <1>9 DEF StreamInv, DrawnWhole

-----------------------------------------------------------------------------
(* The rest of the world. *)

LEMMA BreakKeeps == StreamInv /\ Break => StreamInv'
  <1> SUFFICES ASSUME StreamInv, Break PROVE StreamInv'
    OBVIOUS
  <1>1. /\ Types /\ QueueInv /\ RunInv /\ StepInv /\ GotInv /\ DrawnWhole
        /\ UNCHANGED <<queue, srv, running, viewer, shown, past>>
    BY DEF StreamInv, Break
  <1>a. PICK b \in ConnIds, s \in {"silent", "reset"} : \E n \in 0 .. Len(conns[b].stream) :
            conns[b].state = "up" /\ conns' = [conns EXCEPT ![b] = Broken(b, s, n)]
    BY DEF Break
  <1>2. PICK n \in 0 .. Len(conns[b].stream) :
            conns[b].state = "up" /\ conns' = [conns EXCEPT ![b] = Broken(b, s, n)]
    BY <1>a
  <1>3. /\ s \in ConnStates /\ n \in 0 .. Len(Stream(b)) /\ State(b) = "up"
        /\ conns \in [ConnIds -> [state : ConnStates, stream : Seq(Units)]]
    BY <1>1, <1>2 DEF ConnStates, Stream, State, Types
  <1>4. /\ Broken(b, s, n) \in [state : ConnStates, stream : Seq(Units)]
        /\ Broken(b, s, n).state = s /\ Broken(b, s, n).stream = SubSeq(Stream(b), 1, n)
    BY <1>1, <1>3, BrokenIs
  <1>5. /\ Types'
        /\ \A c \in ConnIds : c # b => State(c)' = State(c) /\ Stream(c)' = Stream(c)
        /\ State(b)' = s /\ Stream(b)' = SubSeq(Stream(b), 1, n)
    <2>1. conns' \in [ConnIds -> [state : ConnStates, stream : Seq(Units)]]
      BY <1>2, <1>3, <1>4
    <2>2. conns'[b] = Broken(b, s, n) /\ \A c \in ConnIds : c # b => conns'[c] = conns[c]
      BY <1>2, <1>3
    <2> QED BY <2>1, <2>2, <1>1, <1>4 DEF Types, State, Stream
  <1>6. \A c \in ConnIds : Stream(c) = <<>> => Stream(c)' = <<>>
    <2>1. Stream(b) = <<>> => SubSeq(Stream(b), 1, n) = <<>>
      BY <1>1, <1>3, ConnTypes, PrefixType
    <2> QED BY <2>1, <1>5
  <1>7. QueueInv'
    <2>1. \A c \in ConnIds : /\ State(c)' = "none" <=> State(c) = "none"
                             /\ State(c)' = "up" => State(c) = "up"
      BY <1>2, <1>3, <1>5
    <2> QED BY <2>1, <1>1, <1>6 DEF QueueInv
  <1>8. RunInv' /\ \A c \in ConnIds : \A v : Comes(c, v)' => Comes(c, v)
    <2>1. ASSUME NEW c \in ConnIds, c # b
          PROVE  Stream(c)' = Stream(c) /\ (Live(c)' => Live(c) /\ Upcoming' = Upcoming)
      BY <2>1, <1>1, <1>5 DEF Live, Upcoming
    <2>2. ~Live(b)'
      BY <1>2, <1>5 DEF Live
    <2> QED BY <2>1, <2>2, <1>1, <1>3, <1>5, Losing
  <1>9. StepInv' /\ GotInv'
    BY <1>1, <1>8, PlaceKept
  <1> QED BY <1>1, <1>5, <1>7, <1>8, <1>9 DEF StreamInv, DrawnWhole

(* All connections that work break. *)
LEMMA AllBroken ==
    ASSUME Types, QueueInv, NEW s \in [ConnIds -> ConnStates], NEW n \in [ConnIds -> Nat],
           \A c \in ConnIds : n[c] <= Len(Stream(c)) /\ s[c] \notin {"up", "none"},
           conns' = [c \in ConnIds |-> Broken(c, s[c], n[c])]
    PROVE  /\ conns' \in [ConnIds -> [state : ConnStates, stream : Seq(Units)]]
           /\ \A c \in ConnIds :
                  /\ State(c)' # "up" /\ ~Live(c)'
                  /\ State(c)' = "none" <=> State(c) = "none"
                  /\ State(c) # "up" => State(c)' = State(c) /\ Stream(c)' = Stream(c)
                  /\ State(c) = "up" => Stream(c)' = SubSeq(Stream(c), 1, n[c]) /\ State(c)' = s[c]
                  /\ n[c] \in 0 .. Len(Stream(c))
                  /\ Stream(c) = <<>> => Stream(c)' = <<>>
  <1>1. ASSUME NEW c \in ConnIds
        PROVE  /\ conns'[c] \in [state : ConnStates, stream : Seq(Units)]
               /\ State(c)' # "up" /\ ~Live(c)'
               /\ State(c)' = "none" <=> State(c) = "none"
               /\ State(c) # "up" => State(c)' = State(c) /\ Stream(c)' = Stream(c)
               /\ State(c) = "up" => Stream(c)' = SubSeq(Stream(c), 1, n[c]) /\ State(c)' = s[c]
               /\ n[c] \in 0 .. Len(Stream(c))
               /\ Stream(c) = <<>> => Stream(c)' = <<>>
    <2>1. n[c] \in 0 .. Len(Stream(c)) /\ s[c] \in ConnStates /\ Stream(c) \in Seq(Units)
      <3>1. Stream(c) \in Seq(Units) /\ n[c] \in Nat
        BY ConnTypes
      <3> QED BY <3>1
    <2>2. conns'[c] = Broken(c, s[c], n[c])
      OBVIOUS
    <2>3. /\ Broken(c, s[c], n[c]) \in [state : ConnStates, stream : Seq(Units)]
          /\ State(c) = "up" => Broken(c, s[c], n[c]).state = s[c]
                                /\ Broken(c, s[c], n[c]).stream = SubSeq(Stream(c), 1, n[c])
          /\ State(c) # "up" => Broken(c, s[c], n[c]).state = State(c)
                                /\ Broken(c, s[c], n[c]).stream = Stream(c)
      BY <2>1, BrokenIs
    <2>4. /\ State(c) = "up" => State(c)' = s[c] /\ Stream(c)' = SubSeq(Stream(c), 1, n[c])
          /\ State(c) # "up" => State(c)' = State(c) /\ Stream(c)' = Stream(c)
      BY <2>2, <2>3 DEF State, Stream
    <2>5. Stream(c) = <<>> => SubSeq(Stream(c), 1, n[c]) = <<>>
      BY <2>1, PrefixType
    <2>6. State(c)' # "up" /\ (State(c)' = "none" <=> State(c) = "none")
      BY <2>4
    <2> QED BY <2>1, <2>2, <2>3, <2>4, <2>5, <2>6 DEF Live
  <1>2. conns' \in [ConnIds -> [state : ConnStates, stream : Seq(Units)]]
    BY <1>1
  <1> QED BY <1>1, <1>2

LEMMA OnboardRestartsKeeps == StreamInv /\ OnboardRestarts => StreamInv'
  <1> SUFFICES ASSUME StreamInv, OnboardRestarts PROVE StreamInv'
    OBVIOUS
  <1>1. /\ Types /\ QueueInv /\ RunInv /\ StepInv /\ GotInv /\ DrawnWhole
        /\ UNCHANGED <<viewer, shown, past>>
        /\ queue' = <<>> /\ srv' = Camera /\ running' = TRUE
    BY DEF StreamInv, OnboardRestarts
  <1>2. PICK s \in {"silent", "closed", "reset"}, m \in 0 .. Window :
            conns' = [c \in ConnIds |-> Broken(c, s, AtMost(m, Len(conns[c].stream)))]
    BY DEF OnboardRestarts
  <1> DEFINE ss == [c \in ConnIds |-> s]
             n == [c \in ConnIds |-> AtMost(m, Len(conns[c].stream))]
  <1>3. /\ ss \in [ConnIds -> ConnStates] /\ n \in [ConnIds -> Nat]
        /\ \A c \in ConnIds : n[c] <= Len(Stream(c)) /\ ss[c] \notin {"up", "none"}
        /\ conns' = [c \in ConnIds |-> Broken(c, ss[c], n[c])]
    <2>1. s \in ConnStates /\ s \notin {"up", "none"} /\ m \in Nat
      BY VideoAssumption DEF ConnStates
    <2>2. ASSUME NEW c \in ConnIds
          PROVE  AtMost(m, Len(conns[c].stream)) \in Nat
                 /\ AtMost(m, Len(conns[c].stream)) <= Len(Stream(c))
      <3>1. Len(conns[c].stream) \in Nat
        BY <1>1, ConnTypes DEF Stream
      <3> QED BY <3>1, <2>1 DEF AtMost, Stream
    <2> QED BY <2>1, <2>2, <1>2
  <1> HIDE DEF ss, n
  <1>4. PICK sk \in [ConnIds -> ConnStates], nk \in [ConnIds -> Nat] :
            /\ \A c \in ConnIds : nk[c] <= Len(Stream(c)) /\ sk[c] \notin {"up", "none"}
            /\ conns' = [c \in ConnIds |-> Broken(c, sk[c], nk[c])]
    BY <1>3
  <1>5. /\ conns' \in [ConnIds -> [state : ConnStates, stream : Seq(Units)]]
        /\ \A c \in ConnIds :
               /\ State(c)' # "up" /\ ~Live(c)'
               /\ State(c)' = "none" <=> State(c) = "none"
               /\ Stream(c) = <<>> => Stream(c)' = <<>>
               /\ Stream(c)' = Stream(c) \/ \E j \in 0 .. Len(Stream(c)) : Stream(c)' = SubSeq(Stream(c), 1, j)
    BY <1>1, <1>4, AllBroken
  <1>6. Types'
    <2>1. <<>> \in Seq(ConnIds) /\ 0 \in 0 .. numsegments /\ 0 \in {0} \cup ConnIds /\ 0 \in 0 .. 1
      BY Sizes
    <2> QED BY <2>1, <1>1, <1>5 DEF Types, Camera
  <1>7. QueueInv'
    <2>1. Len(queue') = 0 /\ srv'.pc = "accepting"
      BY <1>1 DEF Camera
    <2> QED BY <2>1, <1>1, <1>5 DEF QueueInv
  <1>8. RunInv' /\ \A c \in ConnIds : \A v : Comes(c, v)' => Comes(c, v)
    BY <1>1, <1>5, Losing
  <1>9. StepInv' /\ GotInv'
    BY <1>1, <1>8, PlaceKept
  <1> QED BY <1>1, <1>6, <1>7, <1>8, <1>9 DEF StreamInv, DrawnWhole

LEMMA ViewerRestartsKeeps == StreamInv /\ ViewerRestarts => StreamInv'
  <1> SUFFICES ASSUME StreamInv, ViewerRestarts PROVE StreamInv'
    OBVIOUS
  <1>1. /\ Types /\ QueueInv /\ RunInv /\ StepInv /\ GotInv /\ DrawnWhole
        /\ UNCHANGED <<queue, srv, running, shown>>
        /\ viewer' = Connecting /\ past' = [past EXCEPT !.pairs = 0]
        /\ conns' = [c \in ConnIds |->
                        Broken(c, IF conns[c].stream = <<>> THEN "left" ELSE "reset", 0)]
    BY DEF StreamInv, ViewerRestarts
  <1> DEFINE s == [c \in ConnIds |-> IF conns[c].stream = <<>> THEN "left" ELSE "reset"]
             n == [c \in ConnIds |-> 0]
  <1>3. /\ s \in [ConnIds -> ConnStates] /\ n \in [ConnIds -> Nat]
        /\ \A c \in ConnIds : n[c] <= Len(Stream(c)) /\ s[c] \notin {"up", "none"}
        /\ conns' = [c \in ConnIds |-> Broken(c, s[c], n[c])]
    <2>1. \A c \in ConnIds : 0 <= Len(Stream(c))
      BY <1>1, ConnTypes
    <2> QED BY <2>1, <1>1 DEF ConnStates
  <1> HIDE DEF s, n
  <1>4. PICK sk \in [ConnIds -> ConnStates], nk \in [ConnIds -> Nat] :
            /\ \A c \in ConnIds : nk[c] <= Len(Stream(c)) /\ sk[c] \notin {"up", "none"}
            /\ conns' = [c \in ConnIds |-> Broken(c, sk[c], nk[c])]
    BY <1>3
  <1>5. /\ conns' \in [ConnIds -> [state : ConnStates, stream : Seq(Units)]]
        /\ \A c \in ConnIds :
               /\ State(c)' # "up" /\ ~Live(c)'
               /\ State(c)' = "none" <=> State(c) = "none"
               /\ Stream(c) = <<>> => Stream(c)' = <<>>
               /\ Stream(c)' = Stream(c) \/ \E j \in 0 .. Len(Stream(c)) : Stream(c)' = SubSeq(Stream(c), 1, j)
    BY <1>1, <1>4, AllBroken
  <1>6. viewer'.conn = 0 /\ viewer'.pc = "connecting" /\ 0 \notin ConnIds
    BY <1>1, NoConnZero DEF Connecting
  <1>7. Types'
    <2>1. <<>> \in Seq(Units) /\ 0 \in 0 .. DataLen /\ 0 \in {0} \cup ConnIds /\ 0 \in 0 .. TimeoutLimit
          /\ 0 \in 0 .. TimeoutLimit + 1
      BY Sizes, VideoAssumption
    <2> QED BY <2>1, <1>1, <1>5 DEF Types, Connecting
  <1>8. QueueInv'
    <2>1. \A c \in ConnIds : viewer'.conn # c
      BY <1>6
    <2> QED BY <2>1, <1>1, <1>5, <1>6 DEF QueueInv
  <1>9. RunInv'
    BY <1>1, <1>5, Losing
  <1>10. StepInv' /\ GotInv'
    BY <1>6 DEF StepInv, GotInv
  <1> QED BY <1>1, <1>7, <1>8, <1>9, <1>10 DEF StreamInv, DrawnWhole

-----------------------------------------------------------------------------
(* The viewer. *)

LEMMA ViewerFields ==
    ASSUME Types
    PROVE  /\ viewer.pc \in {"connecting", "header", "first", "rest"}
           /\ viewer.conn \in {0} \cup ConnIds /\ viewer.got \in Seq(Units)
           /\ viewer.waitingOnRestOfFrame \in 0 .. DataLen
           /\ viewer.previousDataRemaining \in 0 .. DataLen
           /\ viewer.timeoutCounter \in 0 .. TimeoutLimit
           /\ past.skew \in 0 .. HeaderLen - 1 /\ past.later \in BOOLEAN
           /\ past.pairs \in 0 .. TimeoutLimit + 1
  BY DEF Types

(* What a read does to the connection. *)
LEMMA ReadTakes ==
    ASSUME Types, RunInv, NEW b \in ConnIds, viewer.conn = b,
           NEW n \in 0 .. Len(Stream(b)), Taken(n), UNCHANGED <<queue, srv, running>>
    PROVE  /\ conns' \in [ConnIds -> [state : ConnStates, stream : Seq(Units)]]
           /\ \A c \in ConnIds : /\ State(c)' = State(c) /\ (Live(c)' <=> Live(c))
                                 /\ Stream(c) = <<>> => Stream(c)' = <<>>
                                 /\ c # b => Stream(c)' = Stream(c)
           /\ Upcoming' = Upcoming
           /\ RunInv'
           /\ n <= FrameLen => \A w : \A v \in Units : Comes(b, v) /\ Comes(b, w)' => w = Plus(v, n)
           /\ \A w : Comes(b, w)' => \E v \in Units : Comes(b, v)
  <1> DEFINE t == SubSeq(Stream(b), n + 1, Len(Stream(b)))
  <1>1. Stream(b) \in Seq(Units) /\ Live(b) \in BOOLEAN /\ Upcoming \in Units
        /\ conns \in [ConnIds -> [state : ConnStates, stream : Seq(Units)]]
    BY ConnTypes DEF Types
  <1>2. Run(Stream(b), Live(b), Upcoming)
    BY DEF RunInv
  <1>3. /\ t \in Seq(Units) /\ Len(t) = Len(Stream(b)) - n /\ (t = <<>> <=> Len(Stream(b)) = n)
        /\ Run(t, Live(b), Upcoming)
        /\ \A w : \A v \in Units : n <= FrameLen /\ First(Stream(b), Live(b), Upcoming, v)
                                            /\ First(t, Live(b), Upcoming, w) => w = Plus(v, n)
        /\ \A w : First(t, Live(b), Upcoming, w) => \E v \in Units : First(Stream(b), Live(b), Upcoming, v)
    BY <1>1, <1>2, RunTaken
  <1>4. PICK u \in Seq(Units) : u = t
    BY <1>3
  <1>5. conns' = [conns EXCEPT ![b].stream = u]
    BY <1>4 DEF Taken, Stream
  <1> HIDE DEF t
  <1>6. /\ conns' \in [ConnIds -> [state : ConnStates, stream : Seq(Units)]]
        /\ Stream(b)' = u /\ State(b)' = State(b)
        /\ \A c \in ConnIds : c # b => State(c)' = State(c) /\ Stream(c)' = Stream(c)
    BY <1>1, <1>5 DEF State, Stream
  <1>7. Stream(b) = <<>> => u = <<>>
    <2>1. Stream(b) = <<>> => Len(Stream(b)) = 0 /\ n = 0
      BY <1>1
    <2> QED BY <2>1, <1>3, <1>4
  <1>8. \A c \in ConnIds : State(c)' = State(c) /\ (Stream(c) = <<>> => Stream(c)' = <<>>)
    BY <1>6, <1>7
  <1>9. (\A c \in ConnIds : Live(c)' <=> Live(c)) /\ Upcoming' = Upcoming
    BY <1>8 DEF Live, Upcoming
  <1>10. \A c \in ConnIds : Live(c)' = Live(c)
    BY <1>9 DEF Live
  <1>11. RunInv'
    <2>1. ASSUME NEW c \in ConnIds PROVE Run(Stream(c), Live(c), Upcoming)'
      <3>1. CASE c = b
        BY <3>1, <1>3, <1>4, <1>6, <1>9 DEF Run
      <3>2. CASE c # b
        BY <3>2, <1>6, <1>9, Untouched
      <3> QED BY <3>1, <3>2
    <2> QED BY <2>1 DEF RunInv
  <1>12. \A w : Comes(b, w)' <=> First(t, Live(b), Upcoming, w)
    BY <1>4, <1>6, <1>9 DEF Comes, First
  <1> QED BY <1>3, <1>6, <1>8, <1>9, <1>11, <1>12 DEF Comes

(* The viewer's steps leave the queue alone. *)
LEMMA QueueViewer ==
    ASSUME QueueInv, UNCHANGED <<queue, srv>>,
           \A c \in ConnIds : State(c)' = State(c) /\ (Stream(c) = <<>> => Stream(c)' = <<>>),
           viewer'.conn = viewer.conn \/ viewer'.conn = 0,
           viewer'.pc = "connecting" <=> viewer'.conn = 0,
           \A k \in 1 .. Len(queue) : queue[k] # viewer.conn
    PROVE  QueueInv'
  <1>1. \A c \in ConnIds : viewer'.conn = c => viewer.conn = c
    BY NoConnZero
  <1> QED BY <1>1 DEF QueueInv

LEMMA NotQueued ==
    ASSUME QueueInv, NEW b \in ConnIds, viewer.conn = b, Stream(b) # <<>> \/ viewer.pc # "header"
    PROVE  \A k \in 1 .. Len(queue) : queue[k] # viewer.conn
  BY DEF QueueInv

LEMMA ConnectKeeps == StreamInv /\ Connect => StreamInv'
  <1> SUFFICES ASSUME StreamInv, Connect PROVE StreamInv'
    OBVIOUS
  <1>1. /\ Types /\ QueueInv /\ RunInv /\ StepInv /\ GotInv /\ DrawnWhole
        /\ UNCHANGED <<srv, running, shown>> /\ past' = [past EXCEPT !.skew = 0]
        /\ viewer.pc = "connecting"
    BY DEF StreamInv, Connect
  <1>2. PICK b \in ConnIds :
            /\ conns[b].state = "none" /\ conns' = [conns EXCEPT ![b].state = "up"]
            /\ queue' = Append(queue, b)
            /\ viewer' = [Connecting EXCEPT !.pc = "header", !.conn = b]
    BY DEF Connect
  <1>3. /\ viewer'.pc = "header" /\ viewer'.conn = b /\ viewer'.got = <<>> /\ past'.skew = 0
        /\ State(b) = "none" /\ Stream(b) = <<>> /\ b # 0 /\ ~(srv.pc = "sending" /\ srv.client = b)
    BY <1>1, <1>2, NoConnZero DEF Connecting, QueueInv, State, Types
  <1>4. /\ conns' \in [ConnIds -> [state : ConnStates, stream : Seq(Units)]]
        /\ State(b)' = "up" /\ Stream(b)' = <<>>
        /\ \A c \in ConnIds : Stream(c)' = Stream(c) /\ (c # b => State(c)' = State(c))
    <2>1. conns \in [ConnIds -> [state : ConnStates, stream : Seq(Units)]]
      BY <1>1 DEF Types
    <2> QED BY <2>1, <1>2, <1>3 DEF State, Stream, ConnStates
  <1>5. /\ queue' \in Seq(ConnIds) /\ Len(queue) \in Nat /\ Len(queue') = Len(queue) + 1
        /\ \A k \in 1 .. Len(queue) : queue'[k] = queue[k]
        /\ queue'[Len(queue) + 1] = b
    <2>1. queue \in Seq(ConnIds)
      BY <1>1 DEF Types
    <2> QED BY <2>1, <1>2
  <1>6. Types'
    <2>1. /\ <<>> \in Seq(Units) /\ 0 \in 0 .. DataLen /\ 0 \in 0 .. TimeoutLimit
          /\ 0 \in 0 .. HeaderLen - 1
      BY Sizes, VideoAssumption
    <2> QED BY <2>1, <1>1, <1>2, <1>4, <1>5 DEF Types, Connecting
  <1>7. QueueInv'
    <2>0. \A k \in 1 .. Len(queue) : queue[k] # b
      BY <1>1, <1>3 DEF QueueInv
    <2>1. ASSUME NEW j \in 1 .. Len(queue'), NEW k \in 1 .. Len(queue'), queue'[j] = queue'[k]
          PROVE  j = k
      <3>1. (j \in 1 .. Len(queue) \/ j = Len(queue) + 1) /\ (k \in 1 .. Len(queue) \/ k = Len(queue) + 1)
        BY <1>5
      <3> QED BY <3>1, <2>0, <2>1, <1>1, <1>5 DEF QueueInv
    <2>2. ASSUME NEW k \in 1 .. Len(queue'), NEW c \in ConnIds, c = queue'[k]
          PROVE  /\ State(c)' # "none" /\ Stream(c)' = <<>>
                 /\ ~(srv'.pc = "sending" /\ srv'.client = c)
                 /\ viewer'.conn = c => viewer'.pc = "header" /\ past'.skew = 0
      <3>1. k \in 1 .. Len(queue) \/ k = Len(queue) + 1
        BY <1>5
      <3>2. CASE k = Len(queue) + 1
        BY <3>2, <2>2, <1>1, <1>3, <1>4, <1>5
      <3>3. CASE k \in 1 .. Len(queue)
        <4>1. c = queue[k] /\ c # b
          BY <3>3, <2>0, <2>2, <1>5
        <4> QED BY <4>1, <3>3, <1>1, <1>3, <1>4 DEF QueueInv
      <3> QED BY <3>1, <3>2, <3>3
    <2>3. ASSUME NEW c \in ConnIds, State(c)' = "none"
          PROVE  viewer'.conn # c /\ Stream(c)' = <<>> /\ ~(srv'.pc = "sending" /\ srv'.client = c)
      <3>1. c # b /\ State(c) = "none"
        BY <2>3, <1>4
      <3> QED BY <3>1, <1>1, <1>3, <1>4 DEF QueueInv
    <2>4. ASSUME NEW c \in ConnIds, State(c)' = "up"
          PROVE  \/ \E k \in 1 .. Len(queue') : c = queue'[k]
                 \/ srv'.pc = "done"
                 \/ srv'.pc = "sending" /\ srv'.client = c
      <3>1. CASE c = b
        <4>1. Len(queue) + 1 \in 1 .. Len(queue')
          BY <1>5
        <4> QED BY <4>1, <3>1, <1>5
      <3>2. CASE c # b
        <4>1. \/ \E k \in 1 .. Len(queue) : c = queue[k]
              \/ srv.pc = "done"
              \/ srv.pc = "sending" /\ srv.client = c
          BY <3>2, <2>4, <1>1, <1>4 DEF QueueInv
        <4>2. \A k \in 1 .. Len(queue) : k \in 1 .. Len(queue') /\ queue'[k] = queue[k]
          BY <1>5
        <4> QED BY <4>1, <4>2, <1>1
      <3> QED BY <3>1, <3>2
    <2>5. srv'.pc = "sending" => srv'.client # 0
      BY <1>1 DEF QueueInv
    <2> QED BY <2>1, <2>2, <2>3, <2>4, <2>5, <1>3 DEF QueueInv
  <1>8. RunInv'
    <2>1. ASSUME NEW c \in ConnIds, c # b PROVE Live(c)' => Live(c) /\ Upcoming' = Upcoming
      BY <2>1, <1>1, <1>4 DEF Live, Upcoming
    <2>2. ~Live(b)'
      BY <1>1, <1>3 DEF Live
    <2> QED BY <2>1, <2>2, <1>1, <1>4, Losing
  <1>9. StepInv'
    <2>1. \A v : ~Comes(b, v)'
      <3>1. ~Live(b)' /\ Stream(b)' = <<>>
        BY <1>1, <1>3, <1>4 DEF Live
      <3> QED BY <3>1 DEF Comes, First
    <2> QED BY <2>1, <1>3 DEF StepInv
  <1>10. GotInv' /\ DrawnWhole'
    BY <1>1, <1>3 DEF GotInv, DrawnWhole
  <1> QED BY <1>6, <1>7, <1>8, <1>9, <1>10 DEF StreamInv

LEMMA ReadHeaderKeeps == StreamInv /\ ReadHeader => StreamInv'
  <1> SUFFICES ASSUME StreamInv, ReadHeader PROVE StreamInv'
    OBVIOUS
  <1>1. /\ Types /\ QueueInv /\ RunInv /\ StepInv /\ GotInv /\ DrawnWhole
        /\ UNCHANGED <<queue, srv, running, shown>> /\ viewer.pc = "header"
    BY DEF StreamInv, ReadHeader
  <1>2. PICK b \in ConnIds : b = viewer.conn
    BY <1>1, ViewerFields DEF QueueInv
  <1>3. PICK n \in 1 .. AtMost(HeaderLen, Len(stream)) :
            /\ Taken(n)
            /\ \/ /\ IsHeader(SubSeq(stream, 1, n))
                  /\ viewer' = [viewer EXCEPT !.pc = "first", !.got = <<>>] /\ past' = past
               \/ /\ past' = [past EXCEPT !.skew = (@ + n) % HeaderLen]
                  /\ viewer' = viewer
    BY DEF ReadHeader
  <1>4. stream = Stream(b) /\ Stream(b) \in Seq(Units)
    BY <1>1, <1>2, ConnTypes DEF stream, Stream
  <1>5. n \in 0 .. Len(Stream(b)) /\ n \in 0 .. HeaderLen /\ n >= 1 /\ n <= FrameLen /\ n \in Nat
        /\ Len(Stream(b)) \in Nat /\ Stream(b) # <<>>
    <2>1. Len(Stream(b)) \in Nat /\ HeaderLen \in Nat /\ HeaderLen <= FrameLen /\ FrameLen \in Nat
      BY <1>4, Sizes
    <2>2. n >= 1 /\ n <= HeaderLen /\ n <= Len(Stream(b)) /\ n \in Nat
      BY <2>1, <1>3, <1>4 DEF AtMost
    <2>3. Stream(b) # <<>>
      BY <2>1, <2>2
    <2> QED BY <2>1, <2>2, <2>3
  <1>6. /\ conns' \in [ConnIds -> [state : ConnStates, stream : Seq(Units)]]
        /\ \A c \in ConnIds : State(c)' = State(c) /\ (Stream(c) = <<>> => Stream(c)' = <<>>)
        /\ RunInv'
        /\ \A w : \A v \in Units : Comes(b, v) /\ Comes(b, w)' => w = Plus(v, n)
        /\ \A w : Comes(b, w)' => \E v \in Units : Comes(b, v)
    BY <1>1, <1>2, <1>3, <1>5, ReadTakes
  <1>7. \A k \in 1 .. Len(queue) : queue[k] # viewer.conn
    BY <1>1, <1>2, <1>5, NotQueued
  <1>8. viewer'.conn = viewer.conn /\ viewer'.pc \in {"header", "first"} /\ viewer.conn # 0
    BY <1>1, <1>2, <1>3, NoConnZero DEF Types
  <1>9. QueueInv'
    BY <1>1, <1>6, <1>7, <1>8, QueueViewer
  <1>10. Types'
    <2>1. (past.skew + n) % HeaderLen \in 0 .. HeaderLen - 1
      <3>1. past.skew + n \in Int /\ HeaderLen \in Nat \ {0}
        BY <1>1, <1>5, ViewerFields, Sizes
      <3> QED BY <3>1, Remains, Zenon
    <2>2. past' \in [skew : 0 .. HeaderLen - 1, later : BOOLEAN, pairs : 0 .. TimeoutLimit + 1]
      BY <2>1, <1>1, <1>3 DEF Types
    <2>3. viewer' \in [pc : {"connecting", "header", "first", "rest"}, conn : {0} \cup ConnIds,
                   got : Seq(Units), waitingOnRestOfFrame : 0 .. DataLen,
                   previousDataRemaining : 0 .. DataLen, timeoutCounter : 0 .. TimeoutLimit]
      <3>1. viewer \in [pc : {"connecting", "header", "first", "rest"}, conn : {0} \cup ConnIds,
                   got : Seq(Units), waitingOnRestOfFrame : 0 .. DataLen,
                   previousDataRemaining : 0 .. DataLen, timeoutCounter : 0 .. TimeoutLimit]
        BY <1>1 DEF Types
      <3>2. viewer' = viewer \/ viewer' = [viewer EXCEPT !.pc = "first", !.got = <<>>]
        BY <1>3
      <3>3. <<>> \in Seq(Units)
        OBVIOUS
      <3> QED BY <3>1, <3>2, <3>3
    <2> QED BY <2>2, <2>3, <1>1, <1>6 DEF Types
  <1>11. \A v \in Units : Comes(b, v) => (v[2] - past.skew) % HeaderLen = 0
    BY <1>1, <1>2 DEF StepInv
  <1>12. CASE IsHeader(SubSeq(stream, 1, n)) /\ viewer' = [viewer EXCEPT !.pc = "first", !.got = <<>>]
              /\ past' = past
    <2>1. PICK f \in 0 .. 1 : SubSeq(Stream(b), 1, n) = Header(f)
      BY <1>4, <1>12 DEF IsHeader
    <2>2. n = HeaderLen /\ Stream(b)[1] = <<f, 0>>
      <3>1. \A i \in 1 .. n : Stream(b)[i] \in Units
        BY <1>4, <1>5
      <3>2. /\ Len(SubSeq(Stream(b), 1, n)) = IF 1 <= n THEN n - 1 + 1 ELSE 0
            /\ \A i \in 1 .. n - 1 + 1 : SubSeq(Stream(b), 1, n)[i] = Stream(b)[1 + i - 1]
        BY <3>1, <1>5, SubSeqProperties
      <3>3. Len(Header(f)) = HeaderLen /\ Header(f)[1] = <<f, 0>>
        BY Sizes DEF Header
      <3>4. 1 \in 1 .. n - 1 + 1 /\ 1 + 1 - 1 = 1 /\ n - 1 + 1 = n /\ 1 <= n
        BY <1>5
      <3>5. SubSeq(Stream(b), 1, n)[1] = Stream(b)[1] /\ Len(SubSeq(Stream(b), 1, n)) = n
        BY <3>2, <3>4
      <3> QED BY <3>3, <3>5, <2>1
    <2>3. <<f, 0>> \in Units /\ Comes(b, <<f, 0>>)
      <3>1. <<f, 0>> \in Units
        BY Sizes DEF Units
      <3> QED BY <3>1, <2>2, <1>5 DEF Comes, First
    <2>4. past.skew = 0
      <3>1. (0 - past.skew) % HeaderLen = 0
        <4>1. (<<f, 0>>[2] - past.skew) % HeaderLen = 0
          BY <2>3, <1>11
        <4> QED BY <4>1
      <3>2. past.skew \in 0 .. HeaderLen - 1 /\ HeaderLen \in Nat \ {0}
        BY <1>1, ViewerFields, Sizes
      <3>3. (0 - (0 - past.skew)) % HeaderLen = 0
        <4>1. 0 % HeaderLen = 0 /\ 0 \in Int /\ 0 - past.skew \in Int
          BY <3>2, SmallMultiple
        <4> QED BY <4>1, <3>1, <3>2, Multiples, Zenon
      <3>4. 0 - (0 - past.skew) = past.skew
        BY <3>2
      <3> QED BY <3>2, <3>3, <3>4, SmallMultiple
    <2>5. \A w : Comes(b, w)' => w = <<f, HeaderLen>>
      <3>1. Plus(<<f, 0>>, HeaderLen) = <<f, HeaderLen>>
        BY Sizes DEF Plus
      <3> QED BY <3>1, <2>2, <2>3, <1>6
    <2>6. viewer'.pc = "first" /\ viewer'.got = <<>> /\ viewer'.conn = b /\ past'.skew = 0
      BY <1>1, <1>2, <1>12, <2>4 DEF Types
    <2>7. Part(<<>>, f) /\ HeaderLen + Len(<<>>) = HeaderLen
      BY Sizes DEF Part
    <2>8. StepInv'
      BY <2>5, <2>6, <2>7 DEF StepInv
    <2>9. GotInv' /\ DrawnWhole'
      BY <2>6, <1>1 DEF GotInv, DrawnWhole
    <2> QED BY <2>8, <2>9, <1>6, <1>9, <1>10 DEF StreamInv
  <1>13. CASE past' = [past EXCEPT !.skew = (@ + n) % HeaderLen] /\ viewer' = viewer
    <2>1. past'.skew = (past.skew + n) % HeaderLen /\ past.skew \in Nat
      BY <1>1, <1>13, ViewerFields DEF Types
    <2>2. ASSUME NEW w \in Units, Comes(b, w)' PROVE (w[2] - past'.skew) % HeaderLen = 0
      <3>1. PICK v \in Units : Comes(b, v)
        BY <2>2, <1>6
      <3>2. w = Plus(v, n) /\ (v[2] - past.skew) % HeaderLen = 0
        BY <3>1, <2>2, <1>6, <1>11
      <3> QED BY <3>2, <2>1, <1>5, StaysAligned
    <2>3. StepInv'
      BY <2>2, <1>1, <1>2, <1>13 DEF StepInv
    <2>4. GotInv' /\ DrawnWhole'
      BY <1>13, <1>1 DEF GotInv, DrawnWhole
    <2> QED BY <2>3, <2>4, <1>6, <1>9, <1>10 DEF StreamInv
  <1> QED BY <1>3, <1>12, <1>13

(* Once n more units of pixels have come, r are missing from g: the viewer    *)
(* goes on with the frame, or draws it.                                      *)
AddsPixels(b, n, r, g) ==
    /\ viewer.conn = b /\ viewer.pc \in {"first", "rest"}
    /\ n <= DataLen - Len(viewer.got) /\ n <= Len(Stream(b))
    /\ Taken(n) /\ UNCHANGED <<queue, srv, running>> /\ past'.skew = past.skew
    /\ r = DataLen - Len(viewer.got) - n
    /\ g = viewer.got \o SubSeq(Stream(b), 1, n)
    /\ viewer'.conn = b /\ viewer'.waitingOnRestOfFrame = r
    /\ IF r = 0 THEN viewer'.pc = "header" /\ viewer'.got = <<>> /\ shown' = g
                ELSE viewer'.pc = "rest" /\ viewer'.got = g /\ shown' = shown

LEMMA PixelsRead ==
    ASSUME StreamInv, NEW b \in ConnIds, NEW n \in Nat, NEW remaining, NEW got,
           AddsPixels(b, n, remaining, got)
    PROVE  /\ conns' \in [ConnIds -> [state : ConnStates, stream : Seq(Units)]]
           /\ viewer'.got \in Seq(Units) /\ remaining \in 0 .. DataLen
           /\ QueueInv' /\ RunInv' /\ StepInv' /\ GotInv' /\ DrawnWhole'
  <1>a. Types /\ QueueInv /\ RunInv /\ StepInv /\ GotInv /\ DrawnWhole
    BY DEF StreamInv
  <1>b. /\ viewer.conn = b /\ viewer.pc \in {"first", "rest"}
        /\ n <= DataLen - Len(viewer.got) /\ n <= Len(Stream(b))
        /\ Taken(n) /\ UNCHANGED <<queue, srv, running>> /\ past'.skew = past.skew
        /\ viewer'.conn = b /\ viewer'.waitingOnRestOfFrame = remaining
    BY DEF AddsPixels
  <1>c. remaining = DataLen - Len(viewer.got) - n
    BY DEF AddsPixels
  <1>d. got = viewer.got \o SubSeq(Stream(b), 1, n)
    BY DEF AddsPixels
  <1>e. remaining = 0 => viewer'.pc = "header" /\ viewer'.got = <<>> /\ shown' = got
    BY DEF AddsPixels
  <1>f. remaining # 0 => viewer'.pc = "rest" /\ viewer'.got = got /\ shown' = shown
    BY DEF AddsPixels
  <1>1. /\ Stream(b) \in Seq(Units) /\ Len(Stream(b)) \in Nat /\ viewer.got \in Seq(Units)
        /\ Len(viewer.got) \in Nat /\ n \in 0 .. Len(Stream(b)) /\ FrameLen = HeaderLen + DataLen
        /\ HeaderLen \in Nat \ {0} /\ DataLen \in Nat \ {0} /\ n <= FrameLen /\ FrameLen \in Nat
    <2>1. Stream(b) \in Seq(Units) /\ Len(Stream(b)) \in Nat /\ viewer.got \in Seq(Units)
          /\ Len(viewer.got) \in Nat
      BY <1>a, ConnTypes, ViewerFields
    <2>2. FrameLen = HeaderLen + DataLen /\ HeaderLen \in Nat \ {0} /\ DataLen \in Nat \ {0} /\ FrameLen \in Nat
      BY Sizes
    <2> QED BY <2>1, <2>2, <1>b
  <1>2. /\ conns' \in [ConnIds -> [state : ConnStates, stream : Seq(Units)]]
        /\ \A c \in ConnIds : State(c)' = State(c) /\ (Stream(c) = <<>> => Stream(c)' = <<>>)
        /\ RunInv'
        /\ \A w : \A v \in Units : Comes(b, v) /\ Comes(b, w)' => w = Plus(v, n)
        /\ \A w : Comes(b, w)' => \E v \in Units : Comes(b, v)
    BY <1>a, <1>b, <1>1, ReadTakes
  <1>3. QueueInv'
    <2>1. \A k \in 1 .. Len(queue) : queue[k] # viewer.conn
      BY <1>a, <1>b, NotQueued
    <2>2. viewer'.pc # "connecting" /\ viewer'.conn # 0
      BY <1>b, <1>e, <1>f, NoConnZero
    <2> QED BY <2>1, <2>2, <1>a, <1>b, <1>2, QueueViewer
  <1>4. PICK f \in 0 .. 1 : Part(viewer.got, f)
               /\ \A v \in Units : Comes(b, v) => v = <<f, HeaderLen + Len(viewer.got)>>
    BY <1>a, <1>b DEF StepInv
  <1>5. past.skew = 0
    BY <1>a, <1>b DEF StepInv
  <1> DEFINE m == SubSeq(Stream(b), 1, n)
  <1>6. m \in Seq(Units) /\ Len(m) = n /\ \A i \in 1 .. n : m[i] = Stream(b)[i]
    <2>1. \A i \in 1 .. n : Stream(b)[i] \in Units
      BY <1>1
    <2>2. /\ m \in Seq(Units)
          /\ Len(m) = IF 1 <= n THEN n - 1 + 1 ELSE 0
          /\ \A i \in 1 .. n - 1 + 1 : m[i] = Stream(b)[1 + i - 1]
      BY <2>1, SubSeqProperties
    <2>3. Len(m) = n
      BY <2>2
    <2>4. ASSUME NEW i \in 1 .. n PROVE m[i] = Stream(b)[i]
      <3>1. i \in 1 .. n - 1 + 1 /\ 1 + i - 1 = i
        OBVIOUS
      <3> QED BY <3>1, <2>2
    <2> QED BY <2>2, <2>3, <2>4
  <1> HIDE DEF m
  <1>7. got = viewer.got \o m
    BY <1>d DEF m
  <1>8. got \in Seq(Units) /\ Len(got) = Len(viewer.got) + n
        /\ \A k \in 1 .. Len(got) : got[k] = IF k <= Len(viewer.got) THEN viewer.got[k]
                                             ELSE m[k - Len(viewer.got)]
    <2>1. /\ viewer.got \o m \in Seq(Units) /\ Len(viewer.got \o m) = Len(viewer.got) + Len(m)
          /\ \A k \in 1 .. Len(viewer.got) + Len(m) :
                 (viewer.got \o m)[k] = IF k <= Len(viewer.got) THEN viewer.got[k]
                                        ELSE m[k - Len(viewer.got)]
      BY <1>1, <1>6, ConcatProperties
    <2> QED BY <2>1, <1>6, <1>7
  <1>g. Len(got) = Len(viewer.got) + n /\ Len(got) \in Nat
    BY <1>1, <1>8
  <1>9. ASSUME NEW i \in 1 .. n PROVE Stream(b)[i] = <<f, HeaderLen + Len(viewer.got) + i - 1>>
    <2>1. i \in 1 .. Len(Stream(b)) /\ Stream(b) # <<>> /\ 1 \in 1 .. Len(Stream(b)) /\ i <= FrameLen + 1
      BY <1>1
    <2>2. Stream(b)[1] \in Units /\ Comes(b, Stream(b)[1])
      BY <2>1, <1>1 DEF Comes, First
    <2>3. Stream(b)[1] = <<f, HeaderLen + Len(viewer.got)>>
      BY <2>2, <1>4
    <2>4. Run(Stream(b), Live(b), Upcoming) /\ Live(b) \in BOOLEAN
      BY <1>a, ConnTypes DEF RunInv
    <2>5. \A v : First(Stream(b), Live(b), Upcoming, v) =>
              \A k \in 1 .. Len(Stream(b)) : k <= FrameLen + 1 => Stream(b)[k] = Plus(v, k - 1)
      BY <2>4, <1>1, RunFirst
    <2>6. Stream(b)[i] = Plus(Stream(b)[1], i - 1)
      BY <2>1, <2>2, <2>5 DEF Comes
    <2>7. HeaderLen + Len(viewer.got) + (i - 1) < FrameLen
          /\ HeaderLen + Len(viewer.got) + (i - 1) = HeaderLen + Len(viewer.got) + i - 1
      BY <1>1, <1>b
    <2> QED BY <2>3, <2>6, <2>7 DEF Plus
  <1>10. Part(got, f)
    <2>1. ASSUME NEW k \in 1 .. Len(got) PROVE got[k] = <<f, HeaderLen + k - 1>>
      <3>1. CASE k <= Len(viewer.got)
        <4>1. k \in 1 .. Len(viewer.got)
          BY <3>1, <1>1, <1>8
        <4> QED BY <4>1, <3>1, <1>4, <1>8 DEF Part
      <3>2. CASE k > Len(viewer.got)
        <4>1. k - Len(viewer.got) \in 1 .. n /\ ~(k <= Len(viewer.got))
              /\ HeaderLen + Len(viewer.got) + (k - Len(viewer.got)) - 1 = HeaderLen + k - 1
          <5>1. Len(viewer.got) \in Nat /\ HeaderLen \in Nat /\ k \in Nat /\ k <= Len(viewer.got) + n
            BY <1>1, <1>g
          <5>2. k - Len(viewer.got) \in 1 .. n
            BY <5>1, <3>2
          <5>3. \A h, l \in Nat : h + l + (k - l) - 1 = h + k - 1
            BY <5>1
          <5>4. HeaderLen + Len(viewer.got) + (k - Len(viewer.got)) - 1 = HeaderLen + k - 1
            BY <5>1, <5>3, Zenon
          <5>5. ~(k <= Len(viewer.got))
            BY <5>1, <3>2
          <5> QED BY <5>2, <5>4, <5>5
        <4>2. got[k] = Stream(b)[k - Len(viewer.got)]
          BY <4>1, <1>6, <1>8
        <4>3. Stream(b)[k - Len(viewer.got)] = <<f, HeaderLen + Len(viewer.got) + (k - Len(viewer.got)) - 1>>
          BY <4>1, <1>9
        <4> QED BY <4>1, <4>2, <4>3
      <3> QED BY <3>1, <3>2, <1>1, <1>8
    <2> QED BY <2>1 DEF Part
  <1>11. remaining \in 0 .. DataLen /\ remaining = DataLen - Len(got)
    BY <1>1, <1>b, <1>c, <1>8
  <1>12. \A w : Comes(b, w)' => w = Plus(<<f, HeaderLen + Len(viewer.got)>>, n)
    BY <1>2, <1>4
  <1>13. CASE remaining = 0
    <2>1. viewer'.pc = "header" /\ shown' = got /\ Len(got) = DataLen
      BY <1>13, <1>e, <1>8, <1>11, <1>1
    <2>2. got = Pixels(f)
      <3>1. Pixels(f) = [k \in 1 .. DataLen |-> <<f, HeaderLen + k - 1>>]
        BY DEF Pixels
      <3>2. got = [k \in 1 .. DataLen |-> got[k]]
        BY <2>1, <1>8
      <3>3. \A k \in 1 .. DataLen : got[k] = <<f, HeaderLen + k - 1>>
        BY <2>1, <1>10 DEF Part
      <3> QED BY <3>1, <3>2, <3>3
    <2>3. DrawnWhole'
      BY <2>1, <2>2 DEF DrawnWhole
    <2>4. Plus(<<f, HeaderLen + Len(viewer.got)>>, n) = <<1 - f, 0>>
      <3>1. ~(HeaderLen + Len(viewer.got) + n < FrameLen) /\ HeaderLen + Len(viewer.got) + n - FrameLen = 0
        BY <1>13, <1>c, <1>1
      <3> QED BY <3>1 DEF Plus
    <2>5. ASSUME NEW w \in Units, Comes(b, w)' PROVE (w[2] - past'.skew) % HeaderLen = 0
      <3>1. w[2] = 0
        BY <2>4, <2>5, <1>12
      <3>2. w[2] - past'.skew = 0
        BY <3>1, <1>b, <1>5
      <3>3. 0 % HeaderLen = 0
        BY <1>1, SmallMultiple
      <3> QED BY <3>2, <3>3
    <2>6. StepInv'
      BY <2>1, <2>5, <1>b DEF StepInv
    <2>7. GotInv' /\ viewer'.got \in Seq(Units)
      <3>1. viewer'.pc = "header" /\ viewer'.got = <<>>
        BY <1>13, <1>e
      <3>2. <<>> \in Seq(Units)
        OBVIOUS
      <3>3. GotInv'
        BY <3>1 DEF GotInv
      <3> QED BY <3>1, <3>2, <3>3
    <2> QED BY <2>3, <2>6, <2>7, <1>2, <1>3, <1>11
  <1>14. CASE remaining # 0
    <2>1. viewer'.pc = "rest" /\ viewer'.got = got /\ shown' = shown /\ remaining > 0
      BY <1>14, <1>f, <1>11
    <2>2. Plus(<<f, HeaderLen + Len(viewer.got)>>, n) = <<f, HeaderLen + Len(got)>>
      <3>1. HeaderLen + Len(viewer.got) + n < FrameLen /\ HeaderLen + Len(viewer.got) + n = HeaderLen + Len(got)
        BY <2>1, <1>c, <1>1, <1>g
      <3> QED BY <3>1 DEF Plus
    <2>3. StepInv'
      BY <2>1, <2>2, <1>b, <1>5, <1>10, <1>12 DEF StepInv
    <2>4. GotInv' /\ DrawnWhole'
      BY <2>1, <1>a, <1>b, <1>11 DEF GotInv, DrawnWhole
    <2> QED BY <2>1, <2>3, <2>4, <1>2, <1>3, <1>8, <1>11
  <1> QED BY <1>13, <1>14

LEMMA ReadFirstKeeps == StreamInv /\ ReadFirst => StreamInv'
  <1> SUFFICES ASSUME StreamInv, ReadFirst PROVE StreamInv'
    OBVIOUS
  <1>1. /\ Types /\ QueueInv /\ RunInv /\ StepInv /\ GotInv /\ DrawnWhole
        /\ UNCHANGED <<queue, srv, running>> /\ viewer.pc = "first"
        /\ past' = [past EXCEPT !.later = FALSE]
    BY DEF StreamInv, ReadFirst
  <1>2. PICK b \in ConnIds : b = viewer.conn
    BY <1>1, ViewerFields DEF QueueInv
  <1>3. PICK n \in 0 .. AtMost(DataLen, Len(stream)) :
            Taken(n) /\ Progress(viewer, SubSeq(stream, 1, n), DataLen - n)
    BY <1>1 DEF ReadFirst
  <1>4. stream = Stream(b) /\ Stream(b) \in Seq(Units) /\ Len(Stream(b)) \in Nat
        /\ viewer.got = <<>> /\ Len(viewer.got) = 0
    BY <1>1, <1>2, ConnTypes DEF stream, Stream, GotInv
  <1>5. n \in Nat /\ n <= DataLen - Len(viewer.got) /\ n <= Len(Stream(b)) /\ DataLen \in Nat
    BY <1>3, <1>4, Sizes DEF AtMost
  <1> DEFINE remaining == DataLen - n
             m == SubSeq(Stream(b), 1, n)
             got == viewer.got \o m
  <1>6. remaining = DataLen - Len(viewer.got) - n /\ got = m
    <2>1. m \in Seq(Units)
      BY <1>4, <1>5, PrefixType
    <2>2. <<>> \o m = m
      BY <2>1, ConcatEmptySeq
    <2> QED BY <2>2, <1>4, <1>5
  <1>7. viewer' = [viewer EXCEPT !.pc = IF remaining = 0 THEN "header" ELSE "rest",
                                 !.got = IF remaining = 0 THEN <<>> ELSE got,
                                 !.waitingOnRestOfFrame = remaining]
        /\ shown' = IF remaining = 0 THEN got ELSE shown
    BY <1>3, <1>4, <1>6 DEF Progress
  <1>8. PICK r, g : r = remaining /\ g = got
    OBVIOUS
  <1>9. r = DataLen - Len(viewer.got) - n /\ g = viewer.got \o SubSeq(Stream(b), 1, n)
    BY <1>6, <1>8
  <1>10. viewer' = [viewer EXCEPT !.pc = IF r = 0 THEN "header" ELSE "rest",
                                  !.got = IF r = 0 THEN <<>> ELSE g,
                                  !.waitingOnRestOfFrame = r]
         /\ shown' = IF r = 0 THEN g ELSE shown
    BY <1>7, <1>8
  <1> HIDE DEF remaining, m, got
  <1>11. viewer'.conn = b /\ AddsPixels(b, n, r, g)
    BY <1>1, <1>2, <1>3, <1>5, <1>9, <1>10 DEF Types, AddsPixels
  <1>12. /\ conns' \in [ConnIds -> [state : ConnStates, stream : Seq(Units)]]
         /\ viewer'.got \in Seq(Units) /\ r \in 0 .. DataLen
         /\ QueueInv' /\ RunInv' /\ StepInv' /\ GotInv' /\ DrawnWhole'
    BY <1>5, <1>11, PixelsRead
  <1>13. Types'
    BY <1>1, <1>10, <1>11, <1>12 DEF Types
  <1> QED BY <1>12, <1>13 DEF StreamInv

LEMMA FirstTimesOutKeeps == StreamInv /\ FirstTimesOut => StreamInv'
  <1> SUFFICES ASSUME StreamInv, FirstTimesOut PROVE StreamInv'
    OBVIOUS
  <1>1. /\ Types /\ QueueInv /\ RunInv /\ StepInv /\ GotInv /\ DrawnWhole
        /\ UNCHANGED <<conns, queue, srv, running, shown, past>> /\ viewer.pc = "first"
        /\ viewer' = [viewer EXCEPT !.pc = "header"]
    BY DEF StreamInv, FirstTimesOut
  <1>2. PICK b \in ConnIds : b = viewer.conn
    BY <1>1, ViewerFields DEF QueueInv
  <1>3. viewer'.conn = b /\ viewer'.pc = "header" /\ viewer.conn # 0 /\ Types'
    BY <1>1, <1>2, NoConnZero DEF Types
  <1>4. /\ \A c \in ConnIds : State(c)' = State(c) /\ Stream(c)' = Stream(c) /\ (Live(c)' => Live(c))
        /\ Upcoming' = Upcoming
    BY <1>1 DEF State, Stream, Live, Upcoming
  <1>5. RunInv' /\ \A c \in ConnIds : \A v : Comes(c, v)' => Comes(c, v)
    BY <1>1, <1>4, Losing
  <1>6. QueueInv'
    <2>1. \A k \in 1 .. Len(queue) : queue[k] # viewer.conn
      BY <1>1, <1>2, NotQueued
    <2> QED BY <2>1, <1>1, <1>2, <1>3, <1>4, QueueViewer
  <1>7. StepInv'
    <2>1. ASSUME NEW v \in Units, Comes(b, v)' PROVE (v[2] - past.skew) % HeaderLen = 0
      <3>1. past.skew = 0 /\ v[2] = HeaderLen
        <4>1. Comes(b, v) /\ Len(viewer.got) = 0
          BY <2>1, <1>1, <1>5 DEF GotInv
        <4>2. past.skew = 0 /\ \E f \in 0 .. 1 : v = <<f, HeaderLen + Len(viewer.got)>>
          BY <4>1, <1>1, <1>2 DEF StepInv
        <4> QED BY <4>1, <4>2, Sizes
      <3>2. HeaderLen % HeaderLen = 0
        <4>1. HeaderLen = HeaderLen * 1 + 0 /\ 0 \in 0 .. HeaderLen - 1 /\ 1 \in Int /\ HeaderLen \in Nat \ {0}
          BY Sizes
        <4> QED BY <4>1, Remainder
      <3>3. v[2] - past.skew = HeaderLen
        BY <3>1, Sizes
      <3> QED BY <3>2, <3>3
    <2> QED BY <2>1, <1>1, <1>3 DEF StepInv
  <1>8. GotInv' /\ DrawnWhole'
    BY <1>1, <1>3 DEF GotInv, DrawnWhole
  <1> QED BY <1>3, <1>5, <1>6, <1>7, <1>8 DEF StreamInv

(* The viewer gives its connection up, with or without a last read. *)
LEMMA GivesUp ==
    ASSUME Types, QueueInv, RunInv, viewer.pc \in {"first", "rest"}, NEW b \in ConnIds, b = viewer.conn,
           viewer' = Connecting, UNCHANGED <<queue, srv, running>>, shown' = shown, DrawnWhole,
           conns' \in [ConnIds -> [state : ConnStates, stream : Seq(Units)]],
           past' \in [skew : 0 .. HeaderLen - 1, later : BOOLEAN, pairs : 0 .. TimeoutLimit + 1],
           \A c \in ConnIds : State(c)' = State(c) /\ (Stream(c) = <<>> => Stream(c)' = <<>>),
           RunInv'
    PROVE  StreamInv'
  <1>1. viewer'.conn = 0 /\ viewer'.pc = "connecting" /\ 0 \notin ConnIds
    BY NoConnZero DEF Connecting
  <1>2. Types'
    <2>1. <<>> \in Seq(Units) /\ 0 \in 0 .. DataLen /\ 0 \in {0} \cup ConnIds /\ 0 \in 0 .. TimeoutLimit
      BY Sizes, VideoAssumption
    <2> QED BY <2>1 DEF Types, Connecting
  <1>3. QueueInv'
    <2>1. \A k \in 1 .. Len(queue) : queue[k] # viewer.conn
      BY NotQueued
    <2> QED BY <2>1, <1>1, QueueViewer
  <1>4. StepInv' /\ GotInv' /\ DrawnWhole'
    BY <1>1 DEF StepInv, GotInv, DrawnWhole
  <1> QED BY <1>2, <1>3, <1>4 DEF StreamInv

LEMMA ReadFailsKeeps == StreamInv /\ ReadFails => StreamInv'
  <1> SUFFICES ASSUME StreamInv, ReadFails PROVE StreamInv'
    OBVIOUS
  <1>1. /\ Types /\ QueueInv /\ RunInv /\ StepInv /\ GotInv /\ DrawnWhole
        /\ UNCHANGED <<conns, queue, srv, running, shown, past>> /\ viewer.pc \in {"first", "rest"}
        /\ viewer' = Connecting
    BY DEF StreamInv, ReadFails
  <1>2. PICK b \in ConnIds : b = viewer.conn
    BY <1>1, ViewerFields DEF QueueInv
  <1>3. /\ \A c \in ConnIds : State(c)' = State(c) /\ Stream(c)' = Stream(c) /\ (Live(c)' => Live(c))
        /\ Upcoming' = Upcoming
    BY <1>1 DEF State, Stream, Live, Upcoming
  <1>4. RunInv'
    BY <1>1, <1>3, Losing
  <1>5. /\ conns' \in [ConnIds -> [state : ConnStates, stream : Seq(Units)]]
        /\ past' \in [skew : 0 .. HeaderLen - 1, later : BOOLEAN, pairs : 0 .. TimeoutLimit + 1]
    BY <1>1 DEF Types
  <1> QED BY <1>1, <1>2, <1>3, <1>4, <1>5, GivesUp

LEMMA ReadRestKeeps == StreamInv /\ ReadRest => StreamInv'
  <1> SUFFICES ASSUME StreamInv, ReadRest PROVE StreamInv'
    OBVIOUS
  <1>1. /\ Types /\ QueueInv /\ RunInv /\ StepInv /\ GotInv /\ DrawnWhole
        /\ UNCHANGED <<queue, srv, running>> /\ viewer.pc = "rest"
    BY DEF StreamInv, ReadRest
  <1>2. PICK b \in ConnIds : b = viewer.conn
    BY <1>1, ViewerFields DEF QueueInv
  <1>3. PICK n, timeouts, pairs :
            LET remaining == viewer.waitingOnRestOfFrame - n IN
            /\ n \in 0 .. AtMost(viewer.waitingOnRestOfFrame, Len(stream))
            /\ timeouts = IF Lapses(remaining) THEN viewer.timeoutCounter + 1 ELSE 0
            /\ pairs = IF n > 0 /\ remaining = 0 /\ ~past.later
                       THEN AtMost(past.pairs + 1, TimeoutLimit + 1) ELSE 0
            /\ Taken(n)
            /\ past' = [past EXCEPT !.later = TRUE, !.pairs = pairs]
            /\ \/ timeouts > TimeoutLimit /\ viewer' = Connecting /\ shown' = shown
               \/ /\ timeouts <= TimeoutLimit
                  /\ Progress([viewer EXCEPT !.previousDataRemaining = remaining,
                                             !.timeoutCounter = timeouts],
                              viewer.got \o SubSeq(stream, 1, n), remaining)
    BY <1>1 DEF ReadRest
  <1>4. stream = Stream(b) /\ Stream(b) \in Seq(Units) /\ Len(Stream(b)) \in Nat
        /\ viewer.got \in Seq(Units) /\ Len(viewer.got) \in Nat
        /\ viewer.waitingOnRestOfFrame = DataLen - Len(viewer.got)
        /\ viewer.waitingOnRestOfFrame \in 0 .. DataLen
        /\ DataLen \in Nat
    BY <1>1, <1>2, ConnTypes, ViewerFields, Sizes DEF stream, Stream, GotInv
  <1>5. n \in Nat /\ n <= DataLen - Len(viewer.got) /\ n <= Len(Stream(b))
    BY <1>3, <1>4 DEF AtMost
  <1>6. /\ timeouts \in Nat
        /\ past' \in [skew : 0 .. HeaderLen - 1, later : BOOLEAN, pairs : 0 .. TimeoutLimit + 1]
        /\ past'.skew = past.skew
    <2>1. timeouts \in Nat
      <3>1. timeouts = viewer.timeoutCounter + 1 \/ timeouts = 0
        BY <1>3
      <3>2. viewer.timeoutCounter \in Nat
        BY <1>1, ViewerFields, VideoAssumption
      <3> QED BY <3>1, <3>2
    <2>2. AtMost(past.pairs + 1, TimeoutLimit + 1) \in 0 .. TimeoutLimit + 1 /\ 0 \in 0 .. TimeoutLimit + 1
      BY <1>1, ViewerFields, VideoAssumption DEF AtMost
    <2>3. pairs \in 0 .. TimeoutLimit + 1
      BY <2>2, <1>3
    <2> QED BY <2>1, <2>3, <1>1, <1>3 DEF Types
  <1>7. PICK r, g : /\ r = DataLen - Len(viewer.got) - n
                    /\ r = viewer.waitingOnRestOfFrame - n
                    /\ g = viewer.got \o SubSeq(Stream(b), 1, n)
    BY <1>4
  <1>8. CASE viewer' = Connecting /\ shown' = shown
    <2>1. /\ conns' \in [ConnIds -> [state : ConnStates, stream : Seq(Units)]]
          /\ \A c \in ConnIds : State(c)' = State(c) /\ (Stream(c) = <<>> => Stream(c)' = <<>>)
          /\ RunInv'
      <3>1. n \in 0 .. Len(Stream(b))
        BY <1>5, <1>4
      <3> QED BY <3>1, <1>1, <1>2, <1>3, ReadTakes
    <2> QED BY <2>1, <1>1, <1>2, <1>6, <1>8, GivesUp
  <1>9. CASE /\ timeouts <= TimeoutLimit
             /\ Progress([viewer EXCEPT !.previousDataRemaining = r, !.timeoutCounter = timeouts], g, r)
    <2>1. viewer' = [viewer EXCEPT !.previousDataRemaining = r, !.timeoutCounter = timeouts,
                                   !.pc = IF r = 0 THEN "header" ELSE "rest",
                                   !.got = IF r = 0 THEN <<>> ELSE g,
                                   !.waitingOnRestOfFrame = r]
          /\ shown' = IF r = 0 THEN g ELSE shown
      BY <1>9 DEF Progress
    <2>2. viewer'.conn = b /\ AddsPixels(b, n, r, g)
      BY <2>1, <1>1, <1>2, <1>3, <1>5, <1>6, <1>7 DEF Types, AddsPixels
    <2>3. /\ conns' \in [ConnIds -> [state : ConnStates, stream : Seq(Units)]]
          /\ viewer'.got \in Seq(Units) /\ r \in 0 .. DataLen
          /\ QueueInv' /\ RunInv' /\ StepInv' /\ GotInv' /\ DrawnWhole'
      BY <2>2, <1>5, PixelsRead
    <2>4. timeouts \in 0 .. TimeoutLimit
      BY <1>6, <1>9, VideoAssumption
    <2>5. Types'
      BY <2>1, <2>2, <2>3, <2>4, <1>1, <1>6 DEF Types
    <2> QED BY <2>3, <2>5 DEF StreamInv
  <1> QED BY <1>3, <1>4, <1>7, <1>8, <1>9

-----------------------------------------------------------------------------
LEMMA StreamStep == StreamInv /\ [Next]_vars => StreamInv'
  <1> SUFFICES ASSUME StreamInv, [Next]_vars PROVE StreamInv'
    OBVIOUS
  <1>1. CASE CameraThread
    BY <1>1, AcceptKeeps, SendSegmentKeeps, SendFailsKeeps, EndFrameKeeps DEF CameraThread
  <1>2. CASE Viewer
    BY <1>2, ConnectKeeps, ReadHeaderKeeps, ReadFirstKeeps, FirstTimesOutKeeps, ReadFailsKeeps,
       ReadRestKeeps DEF Viewer
  <1>3. CASE Environment
    BY <1>3, BreakKeeps, OnboardRestartsKeeps, ViewerRestartsKeeps DEF Environment
  <1>4. CASE UNCHANGED vars
    <2>1. /\ Types /\ QueueInv /\ RunInv /\ StepInv /\ GotInv /\ DrawnWhole
          /\ UNCHANGED <<conns, queue, srv, running, viewer, shown, past, env>>
      BY <1>4 DEF vars, StreamInv
    <2>2. \A c \in ConnIds : State(c)' = State(c) /\ Stream(c)' = Stream(c) /\ (Live(c)' => Live(c))
      BY <2>1 DEF State, Stream, Live
    <2>3. Types' /\ QueueInv' /\ DrawnWhole' /\ Upcoming' = Upcoming
      BY <2>1, <2>2 DEF Types, QueueInv, DrawnWhole, Upcoming
    <2>4. RunInv' /\ \A c \in ConnIds : \A v : Comes(c, v)' => Comes(c, v)
      BY <2>1, <2>2, <2>3, Losing
    <2>5. StepInv' /\ GotInv'
      BY <2>1, <2>4, PlaceKept
    <2> QED BY <2>3, <2>4, <2>5 DEF StreamInv
  <1> QED BY <1>1, <1>2, <1>3, <1>4 DEF Next

(* The inductive invariant of the streams holds. *)
THEOREM Streams == Spec => []StreamInv
  <1> QED BY StreamInitial, StreamStep, PTL DEF Spec

(* DrawnWhole: what the viewer draws is one frame as cameraThread of the    *)
(* onboard program sent it, whatever broke in between.                       *)
THEOREM Whole == Spec => []DrawnWhole
  <1>1. StreamInv => DrawnWhole
    BY DEF StreamInv
  <1> QED BY <1>1, Streams, PTL

(* InStep: the viewer's cameraThread, when it looks for a header, is in step *)
(* with the frames but for the units that short reads made it throw away.    *)
THEOREM Steps == Spec => []InStep
  <1>1. StreamInv => InStep
    <2> SUFFICES ASSUME StreamInv, viewer.pc = "header", stream # <<>>
                 PROVE  (stream[1][2] - past.skew) % HeaderLen = 0
      BY DEF InStep
    <2>1. Types /\ QueueInv /\ StepInv
      BY DEF StreamInv
    <2>2. PICK b \in ConnIds : b = viewer.conn
      BY <2>1, ViewerFields DEF QueueInv
    <2>3. stream = Stream(b) /\ Stream(b) \in Seq(Units) /\ Stream(b) # <<>>
      BY <2>1, <2>2, ConnTypes DEF stream, Stream
    <2>4. Stream(b)[1] \in Units /\ Comes(b, Stream(b)[1])
      BY <2>3 DEF Comes, First
    <2> QED BY <2>1, <2>2, <2>3, <2>4 DEF StepInv
  <1> QED BY <1>1, Streams, PTL

-----------------------------------------------------------------------------
(* Why the viewer leaves a connection that works.                            *)

(* A connection that works and that the viewer does not read is the camera   *)
(* thread's, was left after frames of two reads, and nothing comes on the    *)
(* viewer's new one.                                                         *)
LeftInv ==
    srv.pc # "done" => \A c \in ConnIds : State(c) = "up" =>
        \/ viewer.conn = c
        \/ /\ srv.pc = "sending" /\ srv.client = c
           /\ past.pairs > TimeoutLimit
           /\ viewer.pc \in {"connecting", "header"}
           /\ \A d \in ConnIds : viewer.conn = d => Stream(d) = <<>>

(* On a connection that the camera thread has not closed only a second read  *)
(* that completes its frame counts as a timeout.                             *)
CountInv ==
    \A d \in ConnIds : viewer.conn = d /\ State(d) # "closed" =>
        /\ viewer.timeoutCounter <= past.pairs
        /\ viewer.pc = "rest" =>
               viewer.previousDataRemaining = IF past.later THEN viewer.waitingOnRestOfFrame ELSE 0
        /\ viewer.pc \in {"header", "first"} => viewer.previousDataRemaining = 0

CauseInv == LeftInv /\ CountInv

LEMMA CauseInitial == Init => CauseInv
  <1> SUFFICES ASSUME Init PROVE CauseInv
    OBVIOUS
  <1>1. viewer.conn = 0 /\ \A c \in ConnIds : State(c) = "none"
    BY DEF Init, Connecting, State
  <1> QED BY <1>1, NoConnZero DEF CauseInv, LeftInv, CountInv

(* The camera thread changes no connection that works but by what it sends to its client. *)
LEMMA CameraKeepsCause ==
    ASSUME CauseInv, UNCHANGED <<viewer, past>>,
           \A c \in ConnIds : /\ State(c)' = "up" => State(c) = "up"
                              /\ State(c)' = "closed" <=> State(c) = "closed"
                              /\ srv.client # c => (Stream(c) = <<>> => Stream(c)' = <<>>),
           \/ srv.pc = "sending" /\ srv'.client = srv.client /\ srv'.pc \in {"sending", "done"}
           \/ srv.pc = "sending" /\ State(srv.client) # "up"
           \/ srv.pc = "accepting"
    PROVE  CauseInv'
  <1>1. CountInv'
    BY DEF CauseInv, CountInv
  <1>2. ASSUME srv'.pc # "done", NEW c \in ConnIds, State(c)' = "up", viewer.conn # c
        PROVE  /\ srv'.pc = "sending" /\ srv'.client = c
               /\ past.pairs > TimeoutLimit
               /\ viewer.pc \in {"connecting", "header"}
               /\ \A d \in ConnIds : viewer.conn = d => Stream(d)' = <<>>
    <2>1. State(c) = "up" /\ srv.pc # "done"
      BY <1>2
    <2>2. /\ srv.pc = "sending" /\ srv.client = c
          /\ past.pairs > TimeoutLimit
          /\ viewer.pc \in {"connecting", "header"}
          /\ \A d \in ConnIds : viewer.conn = d => Stream(d) = <<>>
      BY <2>1, <1>2 DEF CauseInv, LeftInv
    <2>3. srv'.pc = "sending" /\ srv'.client = c
      BY <1>2, <2>1, <2>2
    <2>4. \A d \in ConnIds : viewer.conn = d => srv.client # d
      BY <1>2, <2>2
    <2> QED BY <2>2, <2>3, <2>4
  <1>3. LeftInv'
    BY <1>2 DEF LeftInv
  <1> QED BY <1>1, <1>3 DEF CauseInv

LEMMA AcceptCause == StreamInv /\ CauseInv /\ Accept => CauseInv'
  <1> SUFFICES ASSUME StreamInv, CauseInv, Accept PROVE CauseInv'
    OBVIOUS
  <1>1. conns' = conns /\ viewer' = viewer /\ past' = past /\ srv.pc = "accepting"
    BY DEF Accept
  <1>2. \A c \in ConnIds : State(c)' = State(c) /\ Stream(c)' = Stream(c)
    BY <1>1 DEF State, Stream
  <1> QED BY <1>1, <1>2, CameraKeepsCause

LEMMA SendSegmentCause == StreamInv /\ CauseInv /\ SendSegment => CauseInv'
  <1> SUFFICES ASSUME StreamInv, CauseInv, SendSegment PROVE CauseInv'
    OBVIOUS
  <1>1. /\ Types /\ QueueInv /\ viewer' = viewer /\ past' = past /\ srv.pc = "sending"
        /\ srv' = [srv EXCEPT !.i = @ + 1]
    BY DEF StreamInv, SendSegment
  <1>0. PICK c, g : c \in ConnIds /\ c = srv.client /\ g = Segment(srv.frame, srv.i)
    BY <1>1, SrvFields DEF QueueInv
  <1>2. \/ /\ conns[c].state = "up"
           /\ conns' = [conns EXCEPT ![c].stream = @ \o g]
        \/ /\ conns[c].state = "silent" /\ conns' = conns
        \/ /\ conns[c].state = "left"
           /\ conns' = [conns EXCEPT ![c].state = IF g = <<>> THEN "left" ELSE "piped"]
    BY <1>0 DEF SendSegment
  <1>3. srv'.pc = "sending" /\ srv'.client = srv.client
    BY <1>1 DEF Types
  <1>4. /\ \A d \in ConnIds : d # c => State(d)' = State(d) /\ Stream(d)' = Stream(d)
        /\ \/ State(c) = "up" /\ State(c)' = "up"
           \/ State(c) \in {"silent", "left"} /\ State(c)' \in {"silent", "left", "piped"}
    <2>1. conns \in [ConnIds -> [state : ConnStates, stream : Seq(Units)]]
      BY <1>1 DEF Types
    <2> QED BY <2>1, <1>2 DEF State, Stream
  <1>5. \A d \in ConnIds : /\ State(d)' = "up" => State(d) = "up"
                           /\ State(d)' = "closed" <=> State(d) = "closed"
                           /\ srv.client # d => (Stream(d) = <<>> => Stream(d)' = <<>>)
    BY <1>0, <1>4
  <1> QED BY <1>1, <1>3, <1>5, CameraKeepsCause

LEMMA SendFailsCause == StreamInv /\ CauseInv /\ SendFails => CauseInv'
  <1> SUFFICES ASSUME StreamInv, CauseInv, SendFails PROVE CauseInv'
    OBVIOUS
  <1>1. /\ Types /\ viewer' = viewer /\ past' = past /\ srv.pc = "sending"
        /\ conns[srv.client].state # "up" /\ conns' = Unbound
    BY DEF StreamInv, SendFails
  <1>2. ASSUME NEW c \in ConnIds
        PROVE  /\ State(c)' = "up" => State(c) = "up"
               /\ State(c)' = "closed" <=> State(c) = "closed"
               /\ Stream(c) = <<>> => Stream(c)' = <<>>
    <2>1. conns'[c] = IF State(c) = "up" /\ c \in ToSet(queue)
                      THEN [state |-> "reset", stream |-> <<>>] ELSE conns[c]
      BY <1>1 DEF Unbound, State
    <2> QED BY <2>1 DEF State, Stream
  <1>3. State(srv.client) # "up"
    BY <1>1 DEF State
  <1> QED BY <1>1, <1>2, <1>3, CameraKeepsCause

LEMMA EndFrameCause == StreamInv /\ CauseInv /\ EndFrame => CauseInv'
  <1> SUFFICES ASSUME StreamInv, CauseInv, EndFrame PROVE CauseInv'
    OBVIOUS
  <1>1. /\ Types /\ UNCHANGED <<conns, viewer, past>> /\ srv.pc = "sending"
        /\ srv' = IF running THEN [srv EXCEPT !.frame = 1 - @, !.i = 0] ELSE [srv EXCEPT !.pc = "done"]
    BY DEF StreamInv, EndFrame
  <1>2. srv'.client = srv.client /\ srv'.pc \in {"sending", "done"}
    BY <1>1 DEF Types
  <1>3. \A c \in ConnIds : State(c)' = State(c) /\ Stream(c)' = Stream(c)
    BY <1>1 DEF State, Stream
  <1> QED BY <1>1, <1>2, <1>3, CameraKeepsCause

(* A broken connection works no more, and only a restart closes it. *)
LEMMA BrokenCause ==
    ASSUME CauseInv, UNCHANGED <<srv, viewer, past>>, NEW b \in ConnIds, State(b)' \notin {"up", "closed"},
           State(b) = "up", Stream(b) = <<>> => Stream(b)' = <<>>,
           \A c \in ConnIds : c # b => State(c)' = State(c) /\ Stream(c)' = Stream(c)
    PROVE  CauseInv'
  BY DEF CauseInv, LeftInv, CountInv

LEMMA BreakCause == StreamInv /\ CauseInv /\ Break => CauseInv'
  <1> SUFFICES ASSUME StreamInv, CauseInv, Break PROVE CauseInv'
    OBVIOUS
  <1>1. Types /\ UNCHANGED <<srv, viewer, past>>
    BY DEF StreamInv, Break
  <1>a. PICK b \in ConnIds, s \in {"silent", "reset"} : \E n \in 0 .. Len(conns[b].stream) :
            conns[b].state = "up" /\ conns' = [conns EXCEPT ![b] = Broken(b, s, n)]
    BY DEF Break
  <1>2. PICK n \in 0 .. Len(conns[b].stream) :
            conns[b].state = "up" /\ conns' = [conns EXCEPT ![b] = Broken(b, s, n)]
    BY <1>a
  <1>3. /\ s \in ConnStates /\ n \in 0 .. Len(Stream(b)) /\ State(b) = "up"
        /\ conns \in [ConnIds -> [state : ConnStates, stream : Seq(Units)]]
    BY <1>1, <1>2 DEF ConnStates, Stream, State, Types
  <1>4. Broken(b, s, n).state = s /\ Broken(b, s, n).stream = SubSeq(Stream(b), 1, n)
    BY <1>1, <1>3, BrokenIs
  <1>5. conns'[b] = Broken(b, s, n) /\ \A c \in ConnIds : c # b => conns'[c] = conns[c]
    BY <1>2, <1>3
  <1>6. Stream(b) = <<>> => SubSeq(Stream(b), 1, n) = <<>>
    BY <1>1, <1>3, ConnTypes, PrefixType
  <1>7. /\ State(b)' = s /\ Stream(b)' = SubSeq(Stream(b), 1, n)
        /\ \A c \in ConnIds : c # b => State(c)' = State(c) /\ Stream(c)' = Stream(c)
    BY <1>4, <1>5 DEF State, Stream
  <1> QED BY <1>1, <1>3, <1>6, <1>7, BrokenCause

LEMMA OnboardRestartsCause == StreamInv /\ CauseInv /\ OnboardRestarts => CauseInv'
  <1> SUFFICES ASSUME StreamInv, CauseInv, OnboardRestarts PROVE CauseInv'
    OBVIOUS
  <1>1. Types /\ QueueInv /\ UNCHANGED <<viewer, past>>
    BY DEF StreamInv, OnboardRestarts
  <1>2. PICK s \in {"silent", "closed", "reset"}, m \in 0 .. Window :
            conns' = [c \in ConnIds |-> Broken(c, s, AtMost(m, Len(conns[c].stream)))]
    BY DEF OnboardRestarts
  <1>3. ASSUME NEW c \in ConnIds
        PROVE  State(c)' # "up" /\ (State(c) = "closed" => State(c)' = "closed")
    <2>1. conns'[c] = Broken(c, s, AtMost(m, Len(conns[c].stream)))
      BY <1>2
    <2> QED BY <2>1 DEF Broken, State
  <1>4. LeftInv'
    BY <1>3 DEF LeftInv
  <1>5. CountInv'
    BY <1>1, <1>3 DEF CauseInv, CountInv
  <1> QED BY <1>4, <1>5 DEF CauseInv

LEMMA ViewerRestartsCause == StreamInv /\ CauseInv /\ ViewerRestarts => CauseInv'
  <1> SUFFICES ASSUME ViewerRestarts PROVE CauseInv'
    OBVIOUS
  <1>1. viewer'.conn = 0
    BY DEF ViewerRestarts, Connecting
  <1>2. ASSUME NEW c \in ConnIds PROVE State(c)' # "up"
    <2>1. conns'[c] = Broken(c, IF conns[c].stream = <<>> THEN "left" ELSE "reset", 0)
      BY DEF ViewerRestarts
    <2> QED BY <2>1 DEF Broken, State
  <1> QED BY <1>1, <1>2, NoConnZero DEF CauseInv, LeftInv, CountInv

LEMMA ConnectCause == StreamInv /\ CauseInv /\ Connect => CauseInv'
  <1> SUFFICES ASSUME StreamInv, CauseInv, Connect PROVE CauseInv'
    OBVIOUS
  <1>1. /\ Types /\ QueueInv /\ srv' = srv /\ past' = [past EXCEPT !.skew = 0]
        /\ viewer.pc = "connecting"
    BY DEF StreamInv, Connect
  <1>2. PICK b \in ConnIds :
            /\ conns[b].state = "none" /\ conns' = [conns EXCEPT ![b].state = "up"]
            /\ viewer' = [Connecting EXCEPT !.pc = "header", !.conn = b]
    BY DEF Connect
  <1>3. /\ viewer'.pc = "header" /\ viewer'.conn = b /\ viewer'.previousDataRemaining = 0
        /\ viewer'.timeoutCounter = 0 /\ past'.pairs = past.pairs /\ past.pairs >= 0
        /\ viewer.conn = 0 /\ Stream(b) = <<>>
    <2>1. past.pairs \in 0 .. TimeoutLimit + 1
      BY <1>1, ViewerFields
    <2>2. past.pairs >= 0
      BY <2>1, VideoAssumption
    <2>3. past'.pairs = past.pairs
      BY <1>1 DEF Types
    <2> QED BY <2>2, <2>3, <1>1, <1>2 DEF Connecting, QueueInv, State
  <1>4. /\ State(b)' = "up" /\ Stream(b)' = <<>>
        /\ \A c \in ConnIds : c # b => State(c)' = State(c)
    <2>1. conns \in [ConnIds -> [state : ConnStates, stream : Seq(Units)]]
      BY <1>1 DEF Types
    <2> QED BY <2>1, <1>2, <1>3 DEF State, Stream, ConnStates
  <1>5. LeftInv'
    <2>1. ASSUME srv.pc # "done", NEW c \in ConnIds, State(c)' = "up", c # b
          PROVE  srv.pc = "sending" /\ srv.client = c /\ past.pairs > TimeoutLimit
      <3>1. State(c) = "up" /\ viewer.conn # c
        BY <2>1, <1>3, <1>4, NoConnZero
      <3> QED BY <3>1, <2>1, <1>1 DEF CauseInv, LeftInv
    <2> QED BY <2>1, <1>1, <1>3, <1>4 DEF LeftInv
  <1>6. CountInv'
    BY <1>3 DEF CountInv
  <1> QED BY <1>5, <1>6 DEF CauseInv

(* What a read leaves of the other connections. *)
LEMMA ReadLeaves ==
    ASSUME Types, NEW b \in ConnIds, viewer.conn = b, NEW n, Taken(n)
    PROVE  \A c \in ConnIds : /\ State(c)' = State(c)
                              /\ c # b => Stream(c)' = Stream(c)
  <1>1. conns \in [ConnIds -> [state : ConnStates, stream : Seq(Units)]]
    BY DEF Types
  <1>2. conns' = [conns EXCEPT ![b].stream = SubSeq(@, n + 1, Len(@))]
    BY DEF Taken
  <1> QED BY <1>1, <1>2 DEF State, Stream

LEMMA ReadHeaderCause == StreamInv /\ CauseInv /\ ReadHeader => CauseInv'
  <1> SUFFICES ASSUME StreamInv, CauseInv, ReadHeader PROVE CauseInv'
    OBVIOUS
  <1>1. Types /\ QueueInv /\ srv' = srv /\ viewer.pc = "header"
    BY DEF StreamInv, ReadHeader
  <1>2. PICK b \in ConnIds : b = viewer.conn
    BY <1>1, ViewerFields DEF QueueInv
  <1>3. PICK n \in 1 .. AtMost(HeaderLen, Len(stream)) :
            /\ Taken(n)
            /\ \/ /\ viewer' = [viewer EXCEPT !.pc = "first", !.got = <<>>] /\ past' = past
               \/ /\ past' = [past EXCEPT !.skew = (@ + n) % HeaderLen]
                  /\ viewer' = viewer
    BY DEF ReadHeader
  <1>4. Stream(b) # <<>>
    <2>1. stream = Stream(b) /\ Len(Stream(b)) \in Nat /\ HeaderLen \in Nat
      BY <1>1, <1>2, ConnTypes, Sizes DEF stream, Stream
    <2>2. Len(Stream(b)) >= 1
      BY <2>1, <1>3 DEF AtMost
    <2> QED BY <2>2
  <1>5. \A c \in ConnIds : State(c)' = State(c)
    BY <1>1, <1>2, <1>3, ReadLeaves
  <1>6. /\ viewer'.conn = b /\ viewer'.pc \in {"header", "first"}
        /\ viewer'.timeoutCounter = viewer.timeoutCounter
        /\ viewer'.previousDataRemaining = viewer.previousDataRemaining
        /\ past'.pairs = past.pairs
    BY <1>1, <1>2, <1>3 DEF Types
  <1>7. LeftInv'
    <2>1. ASSUME srv.pc # "done", NEW c \in ConnIds, State(c) = "up" PROVE c = b
      BY <2>1, <1>2, <1>4 DEF CauseInv, LeftInv
    <2> QED BY <2>1, <1>1, <1>5, <1>6 DEF LeftInv
  <1>8. CountInv'
    <2>1. State(b) # "closed" => viewer.timeoutCounter <= past.pairs /\ viewer.previousDataRemaining = 0
      BY <1>1, <1>2 DEF CauseInv, CountInv
    <2> QED BY <2>1, <1>5, <1>6 DEF CountInv
  <1> QED BY <1>7, <1>8 DEF CauseInv

LEMMA ReadFirstCause == StreamInv /\ CauseInv /\ ReadFirst => CauseInv'
  <1> SUFFICES ASSUME StreamInv, CauseInv, ReadFirst PROVE CauseInv'
    OBVIOUS
  <1>1. Types /\ QueueInv /\ srv' = srv /\ viewer.pc = "first" /\ past' = [past EXCEPT !.later = FALSE]
    BY DEF StreamInv, ReadFirst
  <1>2. PICK b \in ConnIds : b = viewer.conn
    BY <1>1, ViewerFields DEF QueueInv
  <1>3. PICK n \in 0 .. AtMost(DataLen, Len(stream)) :
            Taken(n) /\ Progress(viewer, SubSeq(stream, 1, n), DataLen - n)
    BY <1>1 DEF ReadFirst
  <1>4. \A c \in ConnIds : State(c)' = State(c)
    BY <1>1, <1>2, <1>3, ReadLeaves
  <1>5. /\ viewer'.conn = b /\ viewer'.pc \in {"header", "rest"}
        /\ viewer'.timeoutCounter = viewer.timeoutCounter
        /\ viewer'.previousDataRemaining = viewer.previousDataRemaining
        /\ past'.pairs = past.pairs /\ past'.later = FALSE
    BY <1>1, <1>2, <1>3 DEF Types, Progress
  <1>6. LeftInv'
    <2>1. ASSUME srv.pc # "done", NEW c \in ConnIds, State(c) = "up" PROVE c = b
      BY <2>1, <1>1, <1>2 DEF CauseInv, LeftInv
    <2> QED BY <2>1, <1>1, <1>4, <1>5 DEF LeftInv
  <1>7. CountInv'
    <2>1. State(b) # "closed" => viewer.timeoutCounter <= past.pairs /\ viewer.previousDataRemaining = 0
      BY <1>1, <1>2 DEF CauseInv, CountInv
    <2> QED BY <2>1, <1>4, <1>5 DEF CountInv
  <1> QED BY <1>6, <1>7 DEF CauseInv

LEMMA FirstTimesOutCause == StreamInv /\ CauseInv /\ FirstTimesOut => CauseInv'
  <1> SUFFICES ASSUME StreamInv, CauseInv, FirstTimesOut PROVE CauseInv'
    OBVIOUS
  <1>1. /\ Types /\ UNCHANGED <<conns, srv, past>> /\ viewer.pc = "first"
        /\ viewer' = [viewer EXCEPT !.pc = "header"]
    BY DEF StreamInv, FirstTimesOut
  <1>2. /\ viewer'.conn = viewer.conn /\ viewer'.pc = "header"
        /\ viewer'.timeoutCounter = viewer.timeoutCounter
        /\ viewer'.previousDataRemaining = viewer.previousDataRemaining
    BY <1>1 DEF Types
  <1>3. \A c \in ConnIds : State(c)' = State(c)
    BY <1>1 DEF State
  <1>4. LeftInv'
    BY <1>1, <1>2, <1>3 DEF CauseInv, LeftInv
  <1>5. CountInv'
    BY <1>1, <1>2, <1>3 DEF CauseInv, CountInv
  <1> QED BY <1>4, <1>5 DEF CauseInv

LEMMA ReadFailsCause == StreamInv /\ CauseInv /\ ReadFails => CauseInv'
  <1> SUFFICES ASSUME StreamInv, CauseInv, ReadFails PROVE CauseInv'
    OBVIOUS
  <1>1. /\ Types /\ QueueInv /\ UNCHANGED <<conns, srv, past>> /\ viewer.pc \in {"first", "rest"}
        /\ viewer' = Connecting /\ connState = "reset"
    BY DEF StreamInv, ReadFails
  <1>2. PICK b \in ConnIds : b = viewer.conn
    BY <1>1, ViewerFields DEF QueueInv
  <1>3. State(b) = "reset" /\ viewer'.conn = 0
    BY <1>1, <1>2 DEF State, connState, Connecting
  <1>4. \A c \in ConnIds : State(c)' = State(c)
    BY <1>1 DEF State
  <1>5. LeftInv'
    <2>1. ASSUME srv.pc # "done", NEW c \in ConnIds, State(c) = "up" PROVE FALSE
      BY <2>1, <1>1, <1>2, <1>3 DEF CauseInv, LeftInv
    <2> QED BY <2>1, <1>1, <1>4 DEF LeftInv
  <1>6. CountInv'
    BY <1>3, NoConnZero DEF CountInv
  <1> QED BY <1>5, <1>6 DEF CauseInv

(* A read that gains something lapses only when it is the second one and     *)
(* completes the frame; with TimeoutLimit such frames before it the viewer   *)
(* leaves a connection that works.                                           *)
LEMMA ReadRestCause == StreamInv /\ CauseInv /\ ReadRest => CauseInv'
  <1> SUFFICES ASSUME StreamInv, CauseInv, ReadRest PROVE CauseInv'
    OBVIOUS
  <1>1. Types /\ QueueInv /\ srv' = srv /\ viewer.pc = "rest" /\ GotInv
    BY DEF StreamInv, ReadRest
  <1>2. PICK b \in ConnIds : b = viewer.conn
    BY <1>1, ViewerFields DEF QueueInv
  <1>3. PICK n, remaining, timeouts, pairs :
            /\ n \in 0 .. AtMost(viewer.waitingOnRestOfFrame, Len(stream))
            /\ remaining = viewer.waitingOnRestOfFrame - n
            /\ timeouts = IF Lapses(remaining) THEN viewer.timeoutCounter + 1 ELSE 0
            /\ pairs = IF n > 0 /\ remaining = 0 /\ ~past.later
                       THEN AtMost(past.pairs + 1, TimeoutLimit + 1) ELSE 0
            /\ n = 0 => connState = "closed"
            /\ Taken(n)
            /\ past' = [past EXCEPT !.later = TRUE, !.pairs = pairs]
            /\ \/ timeouts > TimeoutLimit /\ viewer' = Connecting
               \/ /\ timeouts <= TimeoutLimit
                  /\ Progress([viewer EXCEPT !.previousDataRemaining = remaining,
                                             !.timeoutCounter = timeouts],
                              viewer.got \o SubSeq(stream, 1, n), remaining)
    BY <1>1 DEF ReadRest
  <1>4. \A c \in ConnIds : State(c)' = State(c)
    BY <1>1, <1>2, <1>3, ReadLeaves
  <1>5. /\ n \in Nat /\ viewer.waitingOnRestOfFrame \in Nat /\ viewer.timeoutCounter \in Nat
        /\ past.pairs \in Nat /\ TimeoutLimit \in Nat /\ viewer.timeoutCounter <= TimeoutLimit
        /\ State(b) # "closed" => n > 0
    <2>1. viewer.waitingOnRestOfFrame \in 0 .. DataLen /\ viewer.timeoutCounter \in 0 .. TimeoutLimit
          /\ past.pairs \in 0 .. TimeoutLimit + 1 /\ TimeoutLimit \in Nat /\ DataLen \in Nat
      BY <1>1, ViewerFields, VideoAssumption
    <2>2. Len(stream) \in Nat
      BY <1>1, <1>2, ConnTypes DEF stream, Stream
    <2>3. n \in Nat
      BY <2>1, <2>2, <1>3 DEF AtMost
    <2>4. connState = State(b)
      BY <1>2 DEF connState, State
    <2> QED BY <2>1, <2>3, <2>4, <1>3
  <1>6. past'.later = TRUE /\ past'.pairs = pairs
    BY <1>1, <1>3 DEF Types
  <1>7. ASSUME srv.pc # "done", NEW c \in ConnIds, State(c) = "up"
        PROVE  c = b /\ srv.pc = "sending" /\ srv.client = b
    <2>1. c = b
      BY <1>7, <1>1, <1>2 DEF CauseInv, LeftInv
    <2>2. \A k \in 1 .. Len(queue) : queue[k] # b
      BY <1>1, <1>2, NotQueued
    <2> QED BY <1>7, <2>1, <2>2, <1>1 DEF QueueInv
  <1>8. State(b) # "closed" =>
            /\ viewer.timeoutCounter <= past.pairs
            /\ viewer.previousDataRemaining = IF past.later THEN viewer.waitingOnRestOfFrame ELSE 0
    BY <1>1, <1>2 DEF CauseInv, CountInv
  <1>9. ASSUME State(b) # "closed", Lapses(remaining)
        PROVE  timeouts = viewer.timeoutCounter + 1 /\ pairs = AtMost(past.pairs + 1, TimeoutLimit + 1)
    <2>1. remaining = viewer.previousDataRemaining
      BY <1>9 DEF Lapses
    <2>2. ~past.later /\ remaining = 0 /\ n > 0
      BY <2>1, <1>3, <1>5, <1>8, <1>9
    <2> QED BY <2>2, <1>3, <1>9
  <1>10. State(b) # "closed" /\ timeouts > TimeoutLimit => pairs > TimeoutLimit
    <2> SUFFICES ASSUME State(b) # "closed", timeouts > TimeoutLimit PROVE pairs > TimeoutLimit
      OBVIOUS
    <2>1. Lapses(remaining)
      BY <1>3, <1>5
    <2>2. timeouts = viewer.timeoutCounter + 1 /\ pairs = AtMost(past.pairs + 1, TimeoutLimit + 1)
      BY <2>1, <1>9
    <2> QED BY <2>2, <1>5, <1>8 DEF AtMost
  <1>11. State(b) # "closed" /\ timeouts <= TimeoutLimit => timeouts <= pairs
    <2> SUFFICES ASSUME State(b) # "closed", timeouts <= TimeoutLimit PROVE timeouts <= pairs
      OBVIOUS
    <2>1. CASE Lapses(remaining)
      <3>1. timeouts = viewer.timeoutCounter + 1 /\ pairs = AtMost(past.pairs + 1, TimeoutLimit + 1)
        BY <2>1, <1>9
      <3> QED BY <3>1, <1>5, <1>8 DEF AtMost
    <2>2. CASE ~Lapses(remaining)
      <3>1. timeouts = 0 /\ pairs >= 0
        BY <2>2, <1>3, <1>5 DEF AtMost
      <3> QED BY <3>1
    <2> QED BY <2>1, <2>2
  <1>12. CASE timeouts > TimeoutLimit /\ viewer' = Connecting
    <2>1. viewer'.conn = 0 /\ viewer'.pc = "connecting"
      BY <1>12 DEF Connecting
    <2>2. CountInv'
      BY <2>1, NoConnZero DEF CountInv
    <2>3. LeftInv'
      <3>1. ASSUME srv.pc # "done", NEW c \in ConnIds, State(c) = "up"
            PROVE  srv.pc = "sending" /\ srv.client = c /\ pairs > TimeoutLimit
        BY <3>1, <1>7, <1>10, <1>12
      <3> QED BY <3>1, <2>1, <1>1, <1>4, <1>6, NoConnZero DEF LeftInv
    <2> QED BY <2>2, <2>3 DEF CauseInv
  <1>13. CASE /\ timeouts <= TimeoutLimit
              /\ Progress([viewer EXCEPT !.previousDataRemaining = remaining, !.timeoutCounter = timeouts],
                          viewer.got \o SubSeq(stream, 1, n), remaining)
    <2>1. /\ viewer'.conn = b /\ viewer'.timeoutCounter = timeouts
          /\ viewer'.previousDataRemaining = remaining /\ viewer'.waitingOnRestOfFrame = remaining
          /\ viewer'.pc = IF remaining = 0 THEN "header" ELSE "rest"
      BY <1>1, <1>2, <1>13 DEF Progress, Types
    <2>2. CountInv'
      BY <2>1, <1>4, <1>6, <1>11, <1>13 DEF CountInv
    <2>3. LeftInv'
      BY <2>1, <1>1, <1>4, <1>7 DEF LeftInv
    <2> QED BY <2>2, <2>3 DEF CauseInv
  <1> QED BY <1>3, <1>12, <1>13

LEMMA CauseStep == StreamInv /\ CauseInv /\ [Next]_vars => CauseInv'
  <1> SUFFICES ASSUME StreamInv, CauseInv, [Next]_vars PROVE CauseInv'
    OBVIOUS
  <1>1. CASE CameraThread
    BY <1>1, AcceptCause, SendSegmentCause, SendFailsCause, EndFrameCause DEF CameraThread
  <1>2. CASE Viewer
    BY <1>2, ConnectCause, ReadHeaderCause, ReadFirstCause, FirstTimesOutCause, ReadFailsCause,
       ReadRestCause DEF Viewer
  <1>3. CASE Environment
    BY <1>3, BreakCause, OnboardRestartsCause, ViewerRestartsCause DEF Environment
  <1>4. CASE UNCHANGED vars
    <2>1. UNCHANGED <<conns, queue, srv, running, viewer, shown, past, env>>
      BY <1>4 DEF vars
    <2>2. \A c \in ConnIds : State(c)' = State(c) /\ Stream(c)' = Stream(c)
      BY <2>1 DEF State, Stream
    <2> QED BY <2>1, <2>2 DEF CauseInv, LeftInv, CountInv
  <1> QED BY <1>1, <1>2, <1>3, <1>4 DEF Next

(* Both invariants hold together. *)
THEOREM Causes == Spec => [](StreamInv /\ CauseInv)
  <1>1. Init => StreamInv /\ CauseInv
    BY StreamInitial, CauseInitial
  <1>2. StreamInv /\ CauseInv /\ [Next]_vars => (StreamInv /\ CauseInv)'
    BY StreamStep, CauseStep
  <1> QED BY <1>1, <1>2, PTL DEF Spec

(* GivesUpForCause: the camera thread fills a connection that the viewer has *)
(* left only after more than TIMEOUT_LIMIT frames took two reads, and none   *)
(* between them took more.                                                   *)
THEOREM LeavesForCause == Spec => []GivesUpForCause
  <1>1. StreamInv /\ CauseInv => GivesUpForCause
    <2> SUFFICES ASSUME StreamInv, CauseInv, srv.pc = "sending", conns[srv.client].state = "up",
                        viewer.conn # srv.client
                 PROVE  past.pairs > TimeoutLimit
      BY DEF GivesUpForCause
    <2>1. srv.client \in ConnIds
      BY SrvFields DEF StreamInv, QueueInv
    <2> QED BY <2>1 DEF CauseInv, LeftInv, State
  <1> QED BY <1>1, Causes, PTL

=============================================================================
