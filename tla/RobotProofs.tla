----------------------------- MODULE RobotProofs -----------------------------
(***************************************************************************)
(* Theorems about the robot's boards: the vertical motor for every set of  *)
(* speeds; the settings of the IMU board for every contents of the flash   *)
(* that earlier users left and every number of restarts; its lines for     *)
(* every choice of settings; its log for every size of a buffer that takes *)
(* a line, and of a file that takes the buffer.                            *)
(***************************************************************************)
EXTENDS VerticalMotor, ImuFirmware, SequenceTheorems, NaturalsInduction, WellFoundedInduction,
        TLAPS

-----------------------------------------------------------------------------
(* The vertical motor. *)

(* The facts about signs that the steps below rest on. *)
LEMMA Signs ==
    ASSUME NEW n \in Int
    PROVE  /\ signum(n) \in {-1, 0, 1}
           /\ n > 0 <=> signum(n) = 1
           /\ n < 0 <=> signum(n) = -1
           /\ n = 0 <=> signum(n) = 0
  BY DEF signum

(* What the byte stores: -1 becomes 255, whose negation is no sign. *)
LEMMA StoredSigns ==
    /\ StoredSign(-1) = 255 /\ StoredSign(0) = 0 /\ StoredSign(1) = 1
    /\ \A d \in {-1, 0, 1} : signum(d) = d
  <1>1. \A d \in {-1, 0, 1} : signum(d) = d
    BY DEF signum
  <1>2. StoredSign(-1) = 255
    BY DEF StoredSign, signum
  <1>3. StoredSign(0) = 0
    BY DEF StoredSign, signum
  <1>4. StoredSign(1) = 1
    BY DEF StoredSign, signum
  <1> QED BY <1>1, <1>2, <1>3, <1>4

(* The pins start at zero and the first direction is a stop. *)
LEMMA Initial == Init => IInv
  <1> SUFFICES ASSUME Init PROVE IInv
    OBVIOUS
  <1>1. TypeOK
    <2>1. 0 \in -255 .. 255 /\ 0 \in 0 .. 255 /\ 2 \in 0 .. 2
      OBVIOUS
    <2> QED BY <2>1 DEF Init, TypeOK
  <1>2. verticalMotorSign = StoredSign(direction)
    BY StoredSigns DEF Init
  <1> QED BY <1>1, <1>2 DEF Init, IInv, StopStops

(* A write keeps the invariant, whichever direction it is in. *)
LEMMA Write == IInv /\ verticalMotorWrite => IInv'
  <1> SUFFICES ASSUME IInv, verticalMotorWrite PROVE IInv'
    OBVIOUS
  <1>1. /\ v \in Int /\ v \in -255 .. 255 /\ v' = v
        /\ direction \in {-1, 0, 1} /\ lastRun \in {-1, 0, 1}
        /\ verticalMotorSign = StoredSign(direction)
    BY DEF IInv, TypeOK, verticalMotorWrite
  <1>2. Zeroes(v) <=> \/ v < 0 /\ direction = 1
                      \/ v = 0 /\ direction = 0
    <2>1. CASE direction = 1
      BY <1>1, <2>1, Signs, StoredSigns DEF Zeroes
    <2>2. CASE direction = 0
      BY <1>1, <2>2, Signs, StoredSigns DEF Zeroes
    <2>3. CASE direction = -1
      BY <1>1, <2>3, Signs, StoredSigns DEF Zeroes
    <2> QED BY <1>1, <2>1, <2>2, <2>3
  <1>3. /\ direction' = signum(v) /\ direction' \in {-1, 0, 1}
        /\ verticalMotorSign' = StoredSign(direction')
    <2>1. direction' = signum(v) /\ verticalMotorSign' = StoredSign(v)
      BY DEF verticalMotorWrite, Remember
    <2>2. StoredSign(v) = StoredSign(signum(v))
      BY <1>1, Signs, StoredSigns DEF StoredSign
    <2> QED BY <1>1, <2>1, <2>2, Signs
  <1>4. verticalMotorSign' \in {0, 1, 255}
    BY <1>3, StoredSigns
  <1>5. stops' \in 0 .. 2 /\ lastRun' \in {-1, 0, 1} /\ careless' \in BOOLEAN
    <2>1. stops' \in 0 .. 2
      BY DEF verticalMotorWrite, Remember
    <2>2. lastRun' \in {-1, 0, 1}
      BY <1>1, Signs DEF verticalMotorWrite, Remember
    <2>3. careless' \in BOOLEAN
      BY DEF verticalMotorWrite, Remember
    <2> QED BY <2>1, <2>2, <2>3
  <1>6. /\ v > 0 => pin1' = v /\ pin2' = pin2
        /\ v = 0 /\ direction = 0 => pin1' = 0 /\ pin2' = 0
        /\ v = 0 /\ direction # 0 => pin1' = pin1 /\ pin2' = 0
        /\ v < 0 /\ direction = 1 => pin1' = 0 /\ pin2' = -v
        /\ v < 0 /\ direction # 1 => pin1' = pin1 /\ pin2' = -v
        /\ pin1 \in 0 .. 255 /\ pin2 \in 0 .. 255
    <2>1. /\ v > 0 => pin1' = v
          /\ v <= 0 => pin2' = -v
          /\ v <= 0 /\ Zeroes(v) => pin1' = 0
          /\ v <= 0 /\ ~Zeroes(v) => pin1' = pin1
          /\ v > 0 /\ ~Zeroes(v) => pin2' = pin2
      <3>1. /\ pin1' = IF v > 0 THEN v ELSE IF Zeroes(v) THEN 0 ELSE pin1
            /\ pin2' = IF v <= 0 THEN -v ELSE IF Zeroes(v) THEN 0 ELSE pin2
        BY Zenon DEF verticalMotorWrite
      <3>2. v > 0 <=> ~(v <= 0)
        BY <1>1
      <3> QED BY <3>1, <3>2, Zenon
    <2>2. v <= 0 /\ v >= 0 => -v = 0
      BY <1>1
    <2>3. pin1 \in 0 .. 255 /\ pin2 \in 0 .. 255
      BY DEF IInv, TypeOK
    <2> QED BY <1>1, <1>2, <2>1, <2>2, <2>3
  <1>7. TypeOK'
    <2>1. pin1' \in 0 .. 255 /\ pin2' \in 0 .. 255
      BY <1>1, <1>6
    <2> QED BY <1>1, <1>3, <1>4, <1>5, <2>1 DEF TypeOK
  <1>8. /\ stops' = IF v # 0 THEN 0 ELSE IF direction = 0 THEN 2 ELSE 1
        /\ lastRun' = IF v = 0 /\ direction = 0 THEN 0
                      ELSE IF v = 0 THEN lastRun ELSE signum(v)
    BY DEF verticalMotorWrite, Remember
  <1>9. (stops' = 0 <=> direction' # 0) /\ (direction' # 0 => lastRun' = direction')
    BY <1>1, <1>3, <1>8, Signs
  <1>10. StopStops'
    BY <1>1, <1>6, <1>8 DEF StopStops
  <1>11. ASSUME ~careless'
         PROVE  /\ direction' = 1 => pin2' = 0
                /\ direction' = -1 => pin1' = 0
                /\ direction' = 0 => pin2' = 0 /\ (pin1' > 0 => lastRun' = 1)
    <2>1. \/ v = 0 /\ direction = 0
          \/ ~careless /\ ~NeedsCare(v)
      BY <1>11 DEF verticalMotorWrite, Remember
    <2>2. CASE v = 0 /\ direction = 0
      <3>1. pin1' = 0 /\ pin2' = 0
        BY <1>6, <2>2
      <3>2. direction' = 0
        BY <1>3, <2>2, Signs
      <3> QED BY <3>1, <3>2
    <2>3. CASE ~careless /\ ~NeedsCare(v) /\ ~(v = 0 /\ direction = 0)
      <3>1. /\ direction = 1 => pin2 = 0 /\ lastRun = 1
            /\ direction = -1 => pin1 = 0
            /\ direction = 0 => pin2 = 0 /\ (pin1 > 0 => lastRun = 1)
        BY <2>3 DEF IInv
      <3>2. CASE v > 0
        BY <1>1, <1>3, <1>6, <2>3, <3>1, <3>2, Signs DEF NeedsCare
      <3>3. CASE v < 0
        BY <1>1, <1>3, <1>6, <2>3, <3>1, <3>3, Signs DEF NeedsCare
      <3>4. CASE v = 0
        BY <1>1, <1>3, <1>6, <1>8, <2>3, <3>1, <3>4, Signs
      <3> QED BY <1>1, <3>2, <3>3, <3>4
    <2> QED BY <2>1, <2>2, <2>3
  <1> QED BY <1>3, <1>7, <1>9, <1>10, <1>11 DEF IInv

(* The invariant holds in every state: receiving changes the speed only.    *)
THEOREM Invariance == Spec => []IInv
  <1>1. IInv /\ [Next]_vars => IInv'
    <2> SUFFICES ASSUME IInv, [Next]_vars PROVE IInv'
      OBVIOUS
    <2>1. CASE Receive
      <3>1. v' \in -255 .. 255
        BY <2>1, MotorAssumption DEF Receive
      <3> QED BY <2>1, <3>1 DEF Receive, IInv, TypeOK, StopStops
    <2>2. CASE verticalMotorWrite
      BY <2>2, Write
    <2>3. CASE UNCHANGED vars
      BY <2>3 DEF vars, IInv, TypeOK, StopStops
    <2> QED BY <2>1, <2>2, <2>3 DEF Next
  <1> QED BY Initial, <1>1, PTL DEF Spec

(* With no reversal that needs care since the last two stops, the bridge is *)
(* never driven from both sides.                                            *)
THEOREM Care == Spec => []SafeWithCare
  <1>1. IInv => SafeWithCare
    BY DEF IInv, TypeOK, SafeWithCare, BothDriven
  <1> QED BY <1>1, Invariance, PTL

(* Two stops in a row stop the motor. *)
THEOREM Stopping == Spec => []StopStops
  <1>1. IInv => StopStops
    BY DEF IInv
  <1> QED BY <1>1, Invariance, PTL

-----------------------------------------------------------------------------
(* The settings of the IMU board. *)

(* The settings still to be written, and the flash, agree with the RAM but  *)
(* for those.                                                               *)
WrittenBut(todo) == \A s \in Setting : s \in ToSet(todo) \/ flash.values[s] = settings[s]

SettingsType ==
    /\ IsSettings(settings) /\ IsSettings(chosen) /\ IsSettings(flash.values)
    /\ flash = [firstRun |-> flash.firstRun, values |-> flash.values]
    /\ flash.firstRun \in BOOLEAN
    /\ unwritten \in Seq(Setting)
    /\ pc \in {"off", "programming", "starting", "running", "storing"}

(* The inductive invariant: what the flash has of the user's choice, at     *)
(* every point where the board can lose its power.                          *)
SettingsInv ==
    /\ SettingsType
    /\ IF flash.firstRun THEN flash.values = chosen ELSE chosen = Defaults
    /\ pc = "off" => settings = Defaults
    /\ pc = "programming" => settings = Defaults /\ ~flash.firstRun /\ WrittenBut(unwritten)
    /\ pc \in {"starting", "running"} => flash.firstRun /\ settings = chosen
    /\ pc = "storing" => flash.firstRun /\ unwritten # <<>> /\ WrittenBut(<<Head(unwritten)>>)

-----------------------------------------------------------------------------
LEMMA OrderOfSettings == Order \in Seq(Setting) /\ Setting = ToSet(Order)
  <1>1. Order \in Seq({"sd", "serial", "time", "calc", "accel", "gyro", "compass", "quat",
                       "euler", "heading", "accelFSR", "gyroFSR", "rate"})
    BY DEF Order
  <1>2. \A i \in 1 .. Len(Order) : Order[i] \in Setting
    BY DEF Setting, ToSet
  <1> QED
    BY <1>1, <1>2 DEF Setting

LEMMA DefaultsAreSettings == IsSettings(Defaults) /\ IsSettings(Blank)
  BY DEF IsSettings, Defaults, Blank

(* What a sequence holds is its head and what its tail holds.               *)
LEMMA HeadOrTail ==
    ASSUME NEW S, NEW todo \in Seq(S), todo # <<>>
    PROVE  /\ Head(todo) \in S /\ Tail(todo) \in Seq(S)
           /\ ToSet(todo) = {Head(todo)} \cup ToSet(Tail(todo))
  <1>1. /\ Head(todo) = todo[1] /\ Len(todo) \in Nat \ {0}
        /\ Tail(todo) \in Seq(S) /\ Len(Tail(todo)) = Len(todo) - 1
        /\ \A i \in 1 .. Len(todo) - 1 : Tail(todo)[i] = todo[i + 1]
    OBVIOUS
  <1>2. DOMAIN todo = 1 .. Len(todo) /\ DOMAIN Tail(todo) = 1 .. Len(todo) - 1
    BY <1>1
  <1>3. \A i \in 1 .. Len(todo) : i = 1 \/ i - 1 \in 1 .. Len(todo) - 1
    BY <1>1
  <1>4. \A i \in 1 .. Len(todo) - 1 : i + 1 \in 1 .. Len(todo)
    BY <1>1
  <1>5. ASSUME NEW x \in ToSet(todo) PROVE x \in {Head(todo)} \cup ToSet(Tail(todo))
    <2>1. PICK i \in 1 .. Len(todo) : x = todo[i]
      BY <1>2 DEF ToSet
    <2>2. CASE i = 1
      BY <1>1, <2>1, <2>2
    <2>3. CASE i # 1
      <3>1. i - 1 \in 1 .. Len(todo) - 1 /\ Tail(todo)[i - 1] = todo[i]
        BY <1>1, <1>3, <2>3
      <3> QED
        BY <1>2, <2>1, <3>1 DEF ToSet
    <2> QED
      BY <2>2, <2>3
  <1>6. ASSUME NEW x \in {Head(todo)} \cup ToSet(Tail(todo)) PROVE x \in ToSet(todo)
    <2>1. CASE x = Head(todo)
      BY <1>1, <1>2, <2>1 DEF ToSet
    <2>2. CASE x \in ToSet(Tail(todo))
      <3>1. PICK i \in 1 .. Len(todo) - 1 : x = Tail(todo)[i]
        BY <1>2, <2>2 DEF ToSet
      <3> QED
        BY <1>1, <1>2, <1>4, <3>1 DEF ToSet
    <2> QED
      BY <2>1, <2>2, <1>6
  <1> QED
    BY <1>1, <1>5, <1>6

(* A write makes one setting of the flash the one in RAM.                   *)
LEMMA OneWrite ==
    ASSUME SettingsType, unwritten # <<>>
    PROVE  LET f == WriteFirst(flash, unwritten) IN
           /\ f = [firstRun |-> f.firstRun, values |-> f.values] /\ f.firstRun = flash.firstRun
           /\ IsSettings(f.values)
           /\ \A s \in Setting :
                  f.values[s] = IF s = Head(unwritten) THEN settings[s] ELSE flash.values[s]
  <1> DEFINE x == Head(unwritten)
  <1>1. x \in Setting
    BY HeadOrTail DEF SettingsType
  <1>2. DOMAIN flash.values = Setting
    BY DEF SettingsType, IsSettings
  <1> DEFINE values == [flash.values EXCEPT ![x] = settings[x]]
  <1>3. values = [s \in Setting |-> IF s = x THEN settings[x] ELSE flash.values[s]]
    BY <1>2
  <1>4. WriteFirst(flash, unwritten) = [firstRun |-> flash.firstRun, values |-> values]
    BY DEF WriteFirst, SettingsType
  <1> QED
    BY <1>1, <1>3, <1>4 DEF IsSettings

-----------------------------------------------------------------------------
LEMMA SettingsInitial == ImuInit => SettingsInv
  <1> SUFFICES ASSUME ImuInit PROVE SettingsInv
    OBVIOUS
  <1>1. pc = "off" /\ settings = Defaults /\ unwritten = <<>>
    BY DEF ImuInit
  <1>2. CASE flash = [firstRun |-> FALSE, values |-> Blank] /\ chosen = Defaults
    BY <1>1, <1>2, DefaultsAreSettings DEF SettingsInv, SettingsType
  <1>3. CASE \E kept \in Configured : flash = [firstRun |-> TRUE, values |-> kept] /\ chosen = kept
    <2>1. PICK kept \in Configured : flash = [firstRun |-> TRUE, values |-> kept] /\ chosen = kept
      BY <1>3
    <2>2. IsSettings(kept)
      BY ImuAssumption
    <2> QED
      BY <1>1, <2>1, <2>2, DefaultsAreSettings DEF SettingsInv, SettingsType
  <1> QED
    BY <1>2, <1>3 DEF ImuInit

LEMMA PowerUpKeeps == SettingsInv /\ PowerUp => SettingsInv'
  BY OrderOfSettings DEF SettingsInv, SettingsType, PowerUp, WrittenBut

LEMMA WriteDefaultsKeeps == SettingsInv /\ WriteDefaults => SettingsInv'
  <1> SUFFICES ASSUME SettingsInv, WriteDefaults PROVE SettingsInv'
    OBVIOUS
  <1>1. pc = "programming" /\ UNCHANGED <<settings, chosen>>
    BY DEF WriteDefaults
  <1>2. CASE unwritten # <<>>
    <2>1. /\ flash' = WriteFirst(flash, unwritten) /\ unwritten' = Tail(unwritten) /\ pc' = pc
      BY <1>2 DEF WriteDefaults
    <2>2. /\ unwritten' \in Seq(Setting)
          /\ ToSet(unwritten) = {Head(unwritten)} \cup ToSet(unwritten')
      BY <1>2, <2>1, HeadOrTail DEF SettingsInv, SettingsType
    <2>3. /\ flash' = [firstRun |-> flash'.firstRun, values |-> flash'.values]
          /\ flash'.firstRun = flash.firstRun
          /\ IsSettings(flash'.values)
          /\ \A s \in Setting :
                 flash'.values[s] = IF s = Head(unwritten) THEN settings[s] ELSE flash.values[s]
      BY <1>2, <2>1, OneWrite DEF SettingsInv
    <2> QED
      BY <1>1, <2>1, <2>2, <2>3 DEF SettingsInv, SettingsType, WrittenBut
  <1>3. CASE unwritten = <<>>
    <2>1. flash' = [flash EXCEPT !.firstRun = TRUE] /\ pc' = "starting" /\ UNCHANGED unwritten
      BY <1>3 DEF WriteDefaults
    <2>2. flash' = [firstRun |-> TRUE, values |-> flash.values]
      BY <2>1 DEF SettingsInv, SettingsType
    <2>3. \A s \in Setting : flash.values[s] = settings[s]
      BY <1>1, <1>3 DEF SettingsInv, WrittenBut, ToSet
    <2>4. flash.values = settings
      BY <2>3 DEF SettingsInv, SettingsType, IsSettings
    <2> QED
      BY <1>1, <2>1, <2>2, <2>4 DEF SettingsInv, SettingsType
  <1> QED
    BY <1>2, <1>3

LEMMA CharacterKeeps ==
    ASSUME NEW s \in Setting, SettingsInv, parseSerialInput(s) PROVE SettingsInv'
  <1>1. /\ pc = "running" /\ pc' = "storing" /\ unwritten' = <<s>>
        /\ UNCHANGED <<flash, chosen>>
        /\ settings' = [settings EXCEPT ![s] = Changed(s, @)]
    BY DEF parseSerialInput
  <1>2. settings' = [t \in Setting |-> IF t = s THEN Changed(s, settings[s]) ELSE settings[t]]
    BY <1>1 DEF SettingsInv, SettingsType, IsSettings
  <1>3. IsSettings(settings')
    BY <1>2 DEF IsSettings
  <1>4. /\ unwritten' \in Seq(Setting) /\ unwritten' # <<>> /\ Head(unwritten') = s
        /\ s \in ToSet(<<s>>)
    BY <1>1 DEF ToSet
  <1>5. WrittenBut(<<s>>)'
    BY <1>1, <1>2, <1>4 DEF SettingsInv, WrittenBut
  <1> QED
    BY <1>1, <1>3, <1>4, <1>5 DEF SettingsInv, SettingsType

LEMMA StoreKeeps == SettingsInv /\ Store => SettingsInv'
  <1> SUFFICES ASSUME SettingsInv, Store PROVE SettingsInv'
    OBVIOUS
  <1>1. /\ pc = "storing" /\ pc' = "running" /\ unwritten' = <<>> /\ chosen' = settings
        /\ UNCHANGED settings /\ flash' = WriteFirst(flash, unwritten)
    BY DEF Store
  <1>2. unwritten # <<>> /\ flash.firstRun /\ WrittenBut(<<Head(unwritten)>>)
    BY <1>1 DEF SettingsInv
  <1>3. /\ flash' = [firstRun |-> flash'.firstRun, values |-> flash'.values]
        /\ flash'.firstRun = flash.firstRun
        /\ IsSettings(flash'.values)
        /\ \A s \in Setting :
               flash'.values[s] = IF s = Head(unwritten) THEN settings[s] ELSE flash.values[s]
    BY <1>1, <1>2, OneWrite DEF SettingsInv
  <1>4. \A s \in Setting : s = Head(unwritten) \/ flash.values[s] = settings[s]
    BY <1>2 DEF WrittenBut, ToSet
  <1>5. flash'.values = settings
    BY <1>3, <1>4 DEF SettingsInv, SettingsType, IsSettings
  <1> QED
    BY <1>1, <1>2, <1>3, <1>5 DEF SettingsInv, SettingsType

LEMMA ImuRestartKeeps == SettingsInv /\ Restart => SettingsInv'
  BY DefaultsAreSettings DEF SettingsInv, SettingsType, Restart

LEMMA ImuOthersKeep ==
    SettingsInv /\ (Start \/ logIMUData \/ RobotRestarts \/ UNCHANGED imuVars) => SettingsInv'
  BY DEF SettingsInv, SettingsType, WrittenBut, Start, logIMUData, RobotRestarts, imuVars

(* At every point the flash has the user's settings, or the board is on its *)
(* first run.                                                               *)
THEOREM SettingsInvariance == ImuSpec => []SettingsInv
  <1>1. SettingsInv /\ [ImuNext]_imuVars => SettingsInv'
    BY PowerUpKeeps, WriteDefaultsKeeps, CharacterKeeps, StoreKeeps, ImuRestartKeeps,
       ImuOthersKeep DEF ImuNext
  <1> QED
    BY SettingsInitial, <1>1, PTL DEF ImuSpec

(* The board runs with the settings that the user has chosen, whenever it   *)
(* was restarted, in the middle of its first run or of a change too.        *)
THEOREM Survival == ImuSpec => []SettingsSurvive
  <1>1. SettingsInv => SettingsSurvive
    BY DEF SettingsInv, SettingsSurvive
  <1> QED
    BY SettingsInvariance, <1>1, PTL

-----------------------------------------------------------------------------
(* The lines of the IMU board, and what the onboard program reads of them.  *)
ByName(last) ==
    \A i \in DOMAIN Readings(last) :
        "time" \notin ToSet(last) => Readings(last)[i] = Names[i]

(* The inductive invariant: the line received last is read by name, and a   *)
(* board that runs has seen every setting that leaves its lines empty.      *)
NamesInv ==
    /\ ByName(robot.last) /\ (~robot.runs => bare)
    /\ DOMAIN robot = {"runs", "first", "last"}
    /\ pc # "off" => (EmptyLine(settings) => bare)

Words == {"time", "ax", "ay", "az", "gx", "gy", "gz", "mx", "my", "mz",
          "qw", "qx", "qy", "qz", "ep", "er", "ey", "ch"}

LEMMA GroupLines ==
    ASSUME NEW s
    PROVE  /\ Logs(s, "time") = <<"time">> \/ Logs(s, "time") = <<>>
           /\ Logs(s, "accel") = <<"ax", "ay", "az">> \/ Logs(s, "accel") = <<>>
           /\ Logs(s, "gyro") = <<"gx", "gy", "gz">> \/ Logs(s, "gyro") = <<>>
           /\ Logs(s, "compass") = <<"mx", "my", "mz">> \/ Logs(s, "compass") = <<>>
           /\ Logs(s, "quat") = <<"qw", "qx", "qy", "qz">> \/ Logs(s, "quat") = <<>>
           /\ Logs(s, "euler") = <<"ep", "er", "ey">> \/ Logs(s, "euler") = <<>>
           /\ Logs(s, "heading") = <<"ch">> \/ Logs(s, "heading") = <<>>
  BY DEF Logs, Fields

(* The length of what follows each other.                                   *)
LEMMA Two ==
    ASSUME NEW S, NEW s \in Seq(S), NEW t \in Seq(S)
    PROVE  \E u \in Seq(S) : u = s \o t /\ Len(u) = Len(s) + Len(t)
  <1>1. s \o t \in Seq(S) /\ Len(s \o t) = Len(s) + Len(t)
    OBVIOUS
  <1> QED
    BY <1>1

LEMMA Six ==
    ASSUME NEW S, NEW b \in Seq(S), NEW c \in Seq(S), NEW d \in Seq(S),
           NEW e \in Seq(S), NEW f \in Seq(S), NEW g \in Seq(S)
    PROVE  /\ b \o c \o d \o e \o f \o g \in Seq(S)
           /\ Len(b \o c \o d \o e \o f \o g)
                  = Len(b) + Len(c) + Len(d) + Len(e) + Len(f) + Len(g)
  <1>0. /\ Len(b) \in Nat /\ Len(c) \in Nat /\ Len(d) \in Nat
        /\ Len(e) \in Nat /\ Len(f) \in Nat /\ Len(g) \in Nat
    OBVIOUS
  <1>1. PICK p \in Seq(S) : p = b \o c /\ Len(p) = Len(b) + Len(c)
    BY Two
  <1>2. PICK q \in Seq(S) : q = p \o d /\ Len(q) = Len(p) + Len(d)
    BY Two
  <1>3. PICK r \in Seq(S) : r = q \o e /\ Len(r) = Len(q) + Len(e)
    BY Two
  <1>4. PICK t \in Seq(S) : t = r \o f /\ Len(t) = Len(r) + Len(f)
    BY Two
  <1>5. PICK u \in Seq(S) : u = t \o g /\ Len(u) = Len(t) + Len(g)
    BY Two
  <1>6. u = b \o c \o d \o e \o f \o g
    BY <1>1, <1>2, <1>3, <1>4, <1>5
  <1>7. Len(u) = Len(b) + Len(c) + Len(d) + Len(e) + Len(f) + Len(g)
    BY <1>0, <1>1, <1>2, <1>3, <1>4, <1>5
  <1> QED
    BY <1>6, <1>7

LEMMA Lengths ==
    ASSUME NEW S, NEW x \in S, NEW y \in S, NEW z \in S, NEW w \in S
    PROVE  /\ <<>> \in Seq(S) /\ Len(<<>>) = 0
           /\ <<x>> \in Seq(S) /\ Len(<<x>>) = 1
           /\ <<x, y, z>> \in Seq(S) /\ Len(<<x, y, z>>) = 3
           /\ <<x, y, z, w>> \in Seq(S) /\ Len(<<x, y, z, w>>) = 4
  BY EmptySeq

(* What the groups add to a line, and what all of them add to it.           *)
LEMMA GroupLengths ==
    ASSUME NEW s
    PROVE  /\ Logs(s, "time") \in Seq(Words) /\ Len(Logs(s, "time")) \in {0, 1}
           /\ Logs(s, "accel") \in Seq(Words) /\ Len(Logs(s, "accel")) \in {0, 3}
           /\ Logs(s, "gyro") \in Seq(Words) /\ Len(Logs(s, "gyro")) \in {0, 3}
           /\ Logs(s, "compass") \in Seq(Words) /\ Len(Logs(s, "compass")) \in {0, 3}
           /\ Logs(s, "quat") \in Seq(Words) /\ Len(Logs(s, "quat")) \in {0, 4}
           /\ Logs(s, "euler") \in Seq(Words) /\ Len(Logs(s, "euler")) \in {0, 3}
           /\ Logs(s, "heading") \in Seq(Words) /\ Len(Logs(s, "heading")) \in {0, 1}
  <1>1. /\ <<>> \in Seq(Words) /\ Len(<<>>) = 0
        /\ <<"time">> \in Seq(Words) /\ Len(<<"time">>) = 1
        /\ <<"ch">> \in Seq(Words) /\ Len(<<"ch">>) = 1
    BY Lengths, "time" \in Words, "ch" \in Words DEF Words
  <1>2. <<"ax", "ay", "az">> \in Seq(Words) /\ Len(<<"ax", "ay", "az">>) = 3
    BY Lengths, "ax" \in Words, "ay" \in Words, "az" \in Words DEF Words
  <1>3. <<"gx", "gy", "gz">> \in Seq(Words) /\ Len(<<"gx", "gy", "gz">>) = 3
    BY Lengths, "gx" \in Words, "gy" \in Words, "gz" \in Words DEF Words
  <1>4. <<"mx", "my", "mz">> \in Seq(Words) /\ Len(<<"mx", "my", "mz">>) = 3
    BY Lengths, "mx" \in Words, "my" \in Words, "mz" \in Words DEF Words
  <1>5. <<"qw", "qx", "qy", "qz">> \in Seq(Words) /\ Len(<<"qw", "qx", "qy", "qz">>) = 4
    BY Lengths, "qw" \in Words, "qx" \in Words, "qy" \in Words, "qz" \in Words DEF Words
  <1>6. <<"ep", "er", "ey">> \in Seq(Words) /\ Len(<<"ep", "er", "ey">>) = 3
    BY Lengths, "ep" \in Words, "er" \in Words, "ey" \in Words DEF Words
  <1>7. Logs(s, "time") \in Seq(Words) /\ Len(Logs(s, "time")) \in {0, 1}
    BY <1>1, GroupLines
  <1>8. Logs(s, "accel") \in Seq(Words) /\ Len(Logs(s, "accel")) \in {0, 3}
    BY <1>1, <1>2, GroupLines
  <1>9. Logs(s, "gyro") \in Seq(Words) /\ Len(Logs(s, "gyro")) \in {0, 3}
    BY <1>1, <1>3, GroupLines
  <1>10. Logs(s, "compass") \in Seq(Words) /\ Len(Logs(s, "compass")) \in {0, 3}
    BY <1>1, <1>4, GroupLines
  <1>11. Logs(s, "quat") \in Seq(Words) /\ Len(Logs(s, "quat")) \in {0, 4}
    BY <1>1, <1>5, GroupLines
  <1>12. Logs(s, "euler") \in Seq(Words) /\ Len(Logs(s, "euler")) \in {0, 3}
    BY <1>1, <1>6, GroupLines
  <1>13. Logs(s, "heading") \in Seq(Words) /\ Len(Logs(s, "heading")) \in {0, 1}
    BY <1>1, GroupLines
  <1> QED
    BY <1>7, <1>8, <1>9, <1>10, <1>11, <1>12, <1>13

LEMMA SumOfGroups ==
    \A b, c, d, f \in 0 .. 3 : \A e \in 0 .. 4 : \A g \in 0 .. 1 :
        LET sum == b + c + d + e + f + g IN
        /\ sum <= 17
        /\ sum = 17 => b # 0 /\ c # 0 /\ d # 0 /\ e # 0 /\ f # 0 /\ g # 0
  OBVIOUS

LEMMA LineProperties ==
    ASSUME NEW s
    PROVE  \E a \in Seq(Words), r \in Seq(Words) :
               /\ a = Logs(s, "time") /\ Line(s) = a \o r
               /\ Len(a) <= 1 /\ Len(r) <= 17 /\ (Len(r) = 17 => r = Names)
  <1>0. PICK a, b, c, d, e, f, g :
          /\ a = Logs(s, "time") /\ b = Logs(s, "accel") /\ c = Logs(s, "gyro")
          /\ d = Logs(s, "compass") /\ e = Logs(s, "quat") /\ f = Logs(s, "euler")
          /\ g = Logs(s, "heading")
    OBVIOUS
  <1>1. /\ a \in Seq(Words) /\ b \in Seq(Words) /\ c \in Seq(Words) /\ d \in Seq(Words)
        /\ e \in Seq(Words) /\ f \in Seq(Words) /\ g \in Seq(Words)
    BY <1>0, GroupLengths
  <1>2. /\ Len(a) \in {0, 1} /\ Len(b) \in {0, 3} /\ Len(c) \in {0, 3} /\ Len(d) \in {0, 3}
        /\ Len(e) \in {0, 4} /\ Len(f) \in {0, 3} /\ Len(g) \in {0, 1}
    BY <1>0, GroupLengths
  <1>3. /\ Len(a) \in 0 .. 1 /\ Len(b) \in 0 .. 3 /\ Len(c) \in 0 .. 3 /\ Len(d) \in 0 .. 3
        /\ Len(e) \in 0 .. 4 /\ Len(f) \in 0 .. 3 /\ Len(g) \in 0 .. 1
    BY <1>2
  <1>4. PICK r \in Seq(Words) :
            /\ r = b \o c \o d \o e \o f \o g
            /\ Len(r) = Len(b) + Len(c) + Len(d) + Len(e) + Len(f) + Len(g)
    <2>1. /\ b \o c \o d \o e \o f \o g \in Seq(Words)
          /\ Len(b \o c \o d \o e \o f \o g)
                 = Len(b) + Len(c) + Len(d) + Len(e) + Len(f) + Len(g)
      BY <1>1, Six
    <2> QED
      BY <2>1
  <1>5. Line(s) = a \o r
    BY <1>0, <1>4 DEF Line
  <1>a. PICK lb \in 0 .. 3, lc \in 0 .. 3, ld \in 0 .. 3, le \in 0 .. 4, lf \in 0 .. 3, lg \in 0 .. 1 :
            /\ lb = Len(b) /\ lc = Len(c) /\ ld = Len(d)
            /\ le = Len(e) /\ lf = Len(f) /\ lg = Len(g)
    BY <1>3
  <1>b. PICK n : n = lb + lc + ld + le + lf + lg /\ n = Len(r)
    BY <1>4, <1>a
  <1>c. n <= 17 /\ (n = 17 => lb # 0 /\ lc # 0 /\ ld # 0 /\ le # 0 /\ lf # 0 /\ lg # 0)
    BY <1>b, SumOfGroups
  <1>6. Len(a) <= 1 /\ Len(r) <= 17
    <2>1. PICK la \in 0 .. 1 : la = Len(a)
      BY <1>3
    <2>2. la <= 1
      OBVIOUS
    <2> QED
      BY <1>b, <1>c, <2>1, <2>2
  <1>7. ASSUME Len(r) = 17 PROVE r = Names
    <2>1. /\ Len(b) # 0 /\ Len(c) # 0 /\ Len(d) # 0 /\ Len(e) # 0 /\ Len(f) # 0 /\ Len(g) # 0
      BY <1>7, <1>a, <1>b, <1>c
    <2>2. /\ b # <<>> /\ c # <<>> /\ d # <<>> /\ e # <<>> /\ f # <<>> /\ g # <<>>
      <3>1. Len(<<>>) = 0
        OBVIOUS
      <3> QED
        BY <2>1, <3>1
    <2>3. /\ b = <<"ax", "ay", "az">> /\ c = <<"gx", "gy", "gz">> /\ d = <<"mx", "my", "mz">>
          /\ e = <<"qw", "qx", "qy", "qz">> /\ f = <<"ep", "er", "ey">> /\ g = <<"ch">>
      BY <1>0, <2>2, GroupLines
    <2> QED
      BY <1>4, <2>3 DEF Names
  <1> QED
    BY <1>0, <1>1, <1>5, <1>6, <1>7

LEMMA NamesLength == Names \in Seq(Words) /\ Len(Names) = 17
  <1>1. /\ <<"ax", "ay", "az">> \in Seq(Words) /\ Len(<<"ax", "ay", "az">>) = 3
        /\ <<"ch">> \in Seq(Words) /\ Len(<<"ch">>) = 1
    BY Lengths, "ax" \in Words, "ay" \in Words, "az" \in Words, "ch" \in Words DEF Words
  <1>2. <<"gx", "gy", "gz">> \in Seq(Words) /\ Len(<<"gx", "gy", "gz">>) = 3
    BY Lengths, "gx" \in Words, "gy" \in Words, "gz" \in Words DEF Words
  <1>3. <<"mx", "my", "mz">> \in Seq(Words) /\ Len(<<"mx", "my", "mz">>) = 3
    BY Lengths, "mx" \in Words, "my" \in Words, "mz" \in Words DEF Words
  <1>4. <<"qw", "qx", "qy", "qz">> \in Seq(Words) /\ Len(<<"qw", "qx", "qy", "qz">>) = 4
    BY Lengths, "qw" \in Words, "qx" \in Words, "qy" \in Words, "qz" \in Words DEF Words
  <1>5. <<"ep", "er", "ey">> \in Seq(Words) /\ Len(<<"ep", "er", "ey">>) = 3
    BY Lengths, "ep" \in Words, "er" \in Words, "ey" \in Words DEF Words
  <1>6. PICK b, c, d, e, f, g :
          /\ b = <<"ax", "ay", "az">> /\ c = <<"gx", "gy", "gz">> /\ d = <<"mx", "my", "mz">>
          /\ e = <<"qw", "qx", "qy", "qz">> /\ f = <<"ep", "er", "ey">> /\ g = <<"ch">>
    OBVIOUS
  <1>7. /\ b \in Seq(Words) /\ c \in Seq(Words) /\ d \in Seq(Words)
        /\ e \in Seq(Words) /\ f \in Seq(Words) /\ g \in Seq(Words)
    BY <1>1, <1>2, <1>3, <1>4, <1>5, <1>6
  <1>10. /\ Len(b) = 3 /\ Len(c) = 3 /\ Len(d) = 3 /\ Len(e) = 4 /\ Len(f) = 3 /\ Len(g) = 1
    BY <1>1, <1>2, <1>3, <1>4, <1>5, <1>6
  <1>8. Names = b \o c \o d \o e \o f \o g
    BY <1>6 DEF Names
  <1>9. /\ b \o c \o d \o e \o f \o g \in Seq(Words)
        /\ Len(b \o c \o d \o e \o f \o g)
               = Len(b) + Len(c) + Len(d) + Len(e) + Len(f) + Len(g)
    BY <1>7, Six
  <1> QED
    BY <1>8, <1>9, <1>10

LEMMA LineLength ==
    ASSUME NEW s
    PROVE  Len(Line(s)) \in 0 .. LongestLine
  <1>1. PICK a \in Seq(Words), r \in Seq(Words) :
            Line(s) = a \o r /\ Len(a) <= 1 /\ Len(r) <= 17
    BY LineProperties
  <1>2. PICK m \in Nat, n \in Nat : m = Len(a) /\ n = Len(r) /\ Len(a \o r) = m + n
    OBVIOUS
  <1>3. m <= 1 /\ n <= 17
    BY <1>1, <1>2
  <1>4. m + n \in 0 .. 18
    BY <1>3
  <1>5. Len(Line(s)) = m + n
    BY <1>1, <1>2
  <1> QED
    BY <1>4, <1>5 DEF LongestLine

LEMMA LinesByName ==
    ASSUME NEW s
    PROVE  ByName(Line(s))
  <1>1. PICK a \in Seq(Words), r \in Seq(Words) :
            /\ a = Logs(s, "time") /\ Line(s) = a \o r
            /\ Len(a) <= 1 /\ Len(r) <= 17 /\ (Len(r) = 17 => r = Names)
    BY LineProperties
  <1>2. PICK l \in Seq(Words) : l = Line(s) /\ Len(l) = Len(a) + Len(r)
    <2>1. PICK u \in Seq(Words) : u = a \o r /\ Len(u) = Len(a) + Len(r)
      BY Two
    <2> QED
      BY <1>1, <2>1
  <1>3. Len(Names) = 17 /\ Names \in Seq(Words)
    BY NamesLength
  <1>4. CASE a = <<"time">>
    <2>1. "time" \in Words
      BY DEF Words
    <2>2. <<"time">> \in Seq(Words) /\ Len(<<"time">>) = 1 /\ <<"time">>[1] = "time"
      BY <2>1
    <2>3. l[1] = "time" /\ 1 \in 1 .. Len(l)
      BY <1>1, <1>2, <1>4, <2>2
    <2>4. "time" \in ToSet(l)
      BY <2>3 DEF ToSet
    <2> QED
      BY <1>2, <2>4 DEF ByName
  <1>5. CASE a = <<>>
    <2>1. l = r
      BY <1>1, <1>2, <1>5, ConcatEmptySeq
    <2>2. CASE Len(l) >= 17
      <3>0. Len(r) = 17
        <4>1. PICK n \in Nat : n = Len(r)
          OBVIOUS
        <4>2. n <= 17 /\ n >= 17
          BY <1>1, <2>1, <2>2, <4>1
        <4>3. n = 17
          BY <4>2
        <4> QED
          BY <4>1, <4>3
      <3>1. l = Names
        BY <1>1, <2>1, <3>0
      <3>5. Len(l) = 17
        BY <1>3, <3>1
      <3>2. Readings(l) = SubSeq(l, 1, 17) /\ Len(l) = 17
        BY <1>3, <3>5 DEF Readings
      <3>3. \A i \in 1 .. 17 : SubSeq(l, 1, 17)[i] = l[i]
        BY <3>2
      <3>4. DOMAIN SubSeq(l, 1, 17) = 1 .. 17
        BY <3>2
      <3> QED
        BY <1>2, <3>1, <3>2, <3>3, <3>4 DEF ByName
    <2>3. CASE ~(Len(l) >= 17)
      <3>1. Readings(l) = <<>>
        BY <1>3, <2>3 DEF Readings
      <3>2. DOMAIN Readings(l) = {}
        BY <3>1
      <3> QED
        BY <1>2, <3>2 DEF ByName
    <2> QED
      BY <2>2, <2>3
  <1> QED
    BY <1>1, <1>4, <1>5, GroupLines

(* The steps.                                                               *)
LEMMA NamesInitial == ImuInit => NamesInv
  <1>1. Readings(<<>>) = <<>>
    <2>1. Len(<<>>) = 0 /\ Len(Names) = 17
      BY NamesLength
    <2> QED
      BY <2>1 DEF Readings
  <1>2. ByName(<<>>)
    BY <1>1 DEF ByName
  <1> QED
    BY <1>2 DEF ImuInit, NamesInv, RobotStarted

LEMMA LineReceived ==
    ASSUME NamesInv, pc = "running",
           robot' \in {robot, IF robot.runs THEN serialReceiveMessage(robot, Line(settings))
                             ELSE robot}
    PROVE  /\ ByName(robot'.last) /\ (~robot'.runs => bare)
           /\ DOMAIN robot' = {"runs", "first", "last"}
  <1>1. CASE robot' = robot
    BY <1>1 DEF NamesInv
  <1>2. CASE robot' # robot /\ Line(settings) # <<>>
    <2>1. robot' = [robot EXCEPT !.first = "i", !.last = Line(settings)]
      BY <1>2 DEF serialReceiveMessage
    <2>2. robot'.last = Line(settings) /\ robot'.runs = robot.runs
          /\ DOMAIN robot' = DOMAIN robot
      BY <2>1 DEF NamesInv
    <2> QED
      BY <2>2, LinesByName DEF NamesInv
  <1>3. CASE robot' # robot /\ Line(settings) = <<>>
    <2>1. robot' = [robot EXCEPT !.runs = FALSE]
      BY <1>3 DEF serialReceiveMessage
    <2>2. robot'.last = robot.last /\ DOMAIN robot' = DOMAIN robot
      BY <2>1 DEF NamesInv
    <2>3. bare
      BY <1>3 DEF NamesInv, EmptyLine
    <2> QED
      BY <2>2, <2>3 DEF NamesInv
  <1> QED
    BY <1>1, <1>2, <1>3

LEMMA NamesStep == NamesInv /\ [ImuNext]_imuVars => NamesInv'
  <1> SUFFICES ASSUME NamesInv, [ImuNext]_imuVars PROVE NamesInv'
    OBVIOUS
  <1>1. CASE PowerUp
    BY <1>1 DEF PowerUp, NamesInv, ByName, EmptyLine
  <1>2. CASE WriteDefaults
    <2>1. UNCHANGED <<settings, robot, bare>> /\ (pc' # "off" => pc # "off")
      BY <1>2 DEF WriteDefaults
    <2> QED
      BY <2>1 DEF NamesInv, ByName, EmptyLine
  <1>3. CASE Start
    BY <1>3 DEF Start, NamesInv, ByName, EmptyLine
  <1>4. CASE Store
    BY <1>4 DEF Store, NamesInv, ByName, EmptyLine
  <1>5. CASE logIMUData
    <2>1. UNCHANGED <<pc, settings, bare>>
      BY <1>5 DEF logIMUData
    <2>2. /\ ByName(robot'.last) /\ (~robot'.runs => bare)
          /\ DOMAIN robot' = {"runs", "first", "last"}
      BY <1>5, LineReceived DEF logIMUData
    <2> QED
      BY <2>1, <2>2 DEF NamesInv, EmptyLine
  <1>6. CASE \E s \in Setting : parseSerialInput(s)
    BY <1>6 DEF parseSerialInput, NamesInv, ByName, EmptyLine
  <1>7. CASE Restart
    BY <1>7 DEF Restart, NamesInv, ByName
  <1>8. CASE RobotRestarts
    <2>1. robot' = RobotStarted /\ UNCHANGED <<pc, settings, bare>>
      BY <1>8 DEF RobotRestarts
    <2>2. Readings(<<>>) = <<>>
      <3>1. Len(<<>>) = 0 /\ Len(Names) = 17
        BY NamesLength
      <3> QED
        BY <3>1 DEF Readings
    <2>3. ByName(<<>>)
      BY <2>2 DEF ByName
    <2> QED
      BY <2>1, <2>3 DEF NamesInv, EmptyLine, RobotStarted
  <1>9. CASE UNCHANGED imuVars
    BY <1>9 DEF imuVars, NamesInv, ByName, EmptyLine
  <1> QED
    BY <1>1, <1>2, <1>3, <1>4, <1>5, <1>6, <1>7, <1>8, <1>9 DEF ImuNext

(* Whatever the settings of the board, and whoever restarts: no reading is  *)
(* taken for another one unless time is logged, and only a board with every *)
(* group off ends the onboard program.                                      *)
THEOREM ReadsByName == ImuSpec => []ReadByName
  <1>1. NamesInv => ReadByName
    BY DEF NamesInv, ReadByName, ByName
  <1> QED
    BY NamesInitial, NamesStep, <1>1, PTL DEF ImuSpec

-----------------------------------------------------------------------------
(* The log of the IMU board. *)

LEMMA LeastElement ==
    ASSUME NEW T \in SUBSET Nat, T # {}
    PROVE  \E x \in T : \A y \in T : ~(y < x)
  <1> DEFINE R == OpToRel(<, Nat)
  <1>1. R = {ss \in Nat \X Nat : ss[1] < ss[2]}
    BY DEF OpToRel
  <1>2. IsWellFoundedOn(R, Nat)
    BY NatLessThanWellFounded
  <1>3. \E x \in T : \A y \in T : ~(<<y, x>> \in R)
    <2> HIDE DEF R
    <2> QED
      BY <1>2, WFMin
  <1> QED
    BY <1>1, <1>3

LEMMA SetInduction ==
    ASSUME NEW n \in Nat, NEW S \in SUBSET Nat, 0 \in S,
           \A k \in 0 .. n - 1 : k \in S => k + 1 \in S
    PROVE  0 .. n \subseteq S
  <1> SUFFICES ASSUME NEW m \in 0 .. n, m \notin S PROVE FALSE
    OBVIOUS
  <1> DEFINE T == {k \in 0 .. n : k \notin S}
  <1>1. T \in SUBSET Nat /\ T # {}
    OBVIOUS
  <1>2. PICK x \in T : \A y \in T : ~(y < x)
    BY <1>1, LeastElement
  <1>3. x # 0 /\ x \in 0 .. n
    OBVIOUS
  <1>4. x - 1 \in 0 .. n - 1 /\ x - 1 < x
    BY <1>3
  <1>5. x - 1 \in S
    BY <1>2, <1>4
  <1> QED
    BY <1>4, <1>5

-----------------------------------------------------------------------------
(* The log.  A line in it is its number and its size.                       *)
Entries == [line : Nat, size : Nat]
Texts == Seq(Entries)

LEMMA TextType ==
    ASSUME NEW text \in Texts
    PROVE  /\ Len(text) \in Nat /\ DOMAIN text = 1 .. Len(text)
           /\ \A i \in 1 .. Len(text) :
                  text[i] \in Entries /\ text[i].size \in Nat /\ text[i].line \in Nat
  <1>1. \A i \in 1 .. Len(text) : text[i] \in Entries
    BY DEF Texts
  <1>2. \A e \in Entries : e.size \in Nat /\ e.line \in Nat
    BY DEF Entries
  <1>3. Len(text) \in Nat /\ DOMAIN text = 1 .. Len(text)
    BY DEF Texts
  <1> QED
    BY <1>1, <1>2, <1>3

(* The sizes of texts.                                                      *)
LEMMA SizesDef ==
    ASSUME NEW text \in Texts
    PROVE  /\ Sizes(text)[0] = 0
           /\ \A i \in 1 .. Len(text) : Sizes(text)[i] = Sizes(text)[i - 1] + text[i].size
           /\ \A i \in 0 .. Len(text) : Sizes(text)[i] \in Nat
  <1> DEFINE n == Len(text)
             Def(m, g) == g = [i \in 0 .. m |-> IF i = 0 THEN 0 ELSE g[i - 1] + text[i].size]
             S == {m \in Nat : \E g : Def(m, g)}
  <1>1. n \in Nat /\ \A i \in 1 .. n : text[i].size \in Nat
    BY TextType
  <1>2. 0 \in S
    <2>1. Def(0, [i \in 0 .. 0 |-> 0])
      OBVIOUS
    <2> QED
      BY <2>1
  <1>3. ASSUME NEW m \in 0 .. n - 1, m \in S PROVE m + 1 \in S
    <2>1. PICK g : Def(m, g)
      BY <1>3
    <2> DEFINE h == [i \in 0 .. m + 1 |-> IF i = m + 1 THEN g[m] + text[i].size ELSE g[i]]
    <2>2. \A i \in 0 .. m + 1 : h[i] = IF i = 0 THEN 0 ELSE h[i - 1] + text[i].size
      BY <1>1, <2>1
    <2>3. Def(m + 1, h)
      BY <2>2
    <2> HIDE DEF Def, h
    <2>4. m + 1 \in Nat /\ \E k : Def(m + 1, k)
      BY <1>1, <2>3
    <2> QED
      BY <2>4
  <1>4. n \in S
    <2>1. S \in SUBSET Nat
      OBVIOUS
    <2>2. \A k \in 0 .. n - 1 : k \in S => k + 1 \in S
      BY <1>3
    <2> HIDE DEF S
    <2>3. 0 .. n \subseteq S
      BY <1>1, <1>2, <2>1, <2>2, SetInduction
    <2> QED
      BY <1>1, <2>3
  <1>5. Sizes(text) = CHOOSE g : Def(n, g)
    BY DEF Sizes
  <1>6. Def(n, Sizes(text))
    BY <1>4, <1>5
  <1> DEFINE T == {i \in Nat : i <= n => Sizes(text)[i] \in Nat}
  <1>7. Sizes(text)[0] = 0 /\ \A i \in 1 .. n : Sizes(text)[i] = Sizes(text)[i - 1] + text[i].size
    BY <1>1, <1>6
  <1>8. 0 .. n \subseteq T
    <2>1. 0 \in T
      BY <1>7
    <2>2. ASSUME NEW k \in 0 .. n - 1, k \in T PROVE k + 1 \in T
      <3>1. k \in Nat /\ k <= n /\ k + 1 \in 1 .. n /\ (k + 1) - 1 = k
        BY <1>1
      <3>2. Sizes(text)[k + 1] = Sizes(text)[k] + text[k + 1].size
        BY <1>7, <3>1
      <3>3. Sizes(text)[k] \in Nat /\ text[k + 1].size \in Nat
        BY <1>1, <2>2, <3>1
      <3> QED
        BY <3>1, <3>2, <3>3
    <2>3. T \in SUBSET Nat
      OBVIOUS
    <2> HIDE DEF T
    <2> QED
      BY <1>1, <2>1, <2>2, <2>3, SetInduction
  <1> QED
    BY <1>1, <1>7, <1>8

LEMMA SizeOfType ==
    ASSUME NEW text \in Texts
    PROVE  SizeOf(text) \in Nat
  <1>1. Len(text) \in 0 .. Len(text)
    BY DEF Texts
  <1> QED
    BY <1>1, SizesDef DEF SizeOf

LEMMA SizeOfBoth ==
    ASSUME NEW s \in Texts, NEW t \in Texts
    PROVE  s \o t \in Texts /\ SizeOf(s \o t) = SizeOf(s) + SizeOf(t)
  <1>1. PICK u \in Texts : u = s \o t
    <2>1. s \o t \in Texts
      BY ConcatProperties DEF Texts
    <2> QED
      BY <2>1
  <1>2. PICK m \in Nat, n \in Nat : m = Len(s) /\ n = Len(t)
    BY TextType
  <1>3. /\ Len(u) = m + n
        /\ \A i \in 1 .. m : u[i] = s[i]
        /\ \A i \in 1 .. n : u[m + i] = t[i]
    BY <1>1, <1>2 DEF Texts
  <1> DEFINE S == {i \in Nat : i <= m => Sizes(u)[i] = Sizes(s)[i]}
             T == {i \in Nat : i <= n => Sizes(u)[m + i] = SizeOf(s) + Sizes(t)[i]}
  <1>4. m \in S
    <2>1. 0 \in S
      BY SizesDef
    <2>2. ASSUME NEW k \in 0 .. m - 1, k \in S PROVE k + 1 \in S
      <3>1. k \in Nat /\ k <= m /\ k + 1 \in 1 .. m /\ k + 1 \in 1 .. m + n /\ (k + 1) - 1 = k
        OBVIOUS
      <3>2. Sizes(u)[k + 1] = Sizes(u)[k] + u[k + 1].size
        <4>1. \A i \in 1 .. Len(u) : Sizes(u)[i] = Sizes(u)[i - 1] + u[i].size
          BY SizesDef
        <4> QED
          BY <1>3, <3>1, <4>1
      <3>3. Sizes(s)[k + 1] = Sizes(s)[k] + s[k + 1].size
        BY <1>2, <3>1, SizesDef
      <3>4. u[k + 1] = s[k + 1] /\ Sizes(u)[k] = Sizes(s)[k]
        BY <1>3, <2>2, <3>1
      <3> QED
        BY <3>1, <3>2, <3>3, <3>4
    <2>3. S \in SUBSET Nat
      OBVIOUS
    <2> HIDE DEF S
    <2>4. 0 .. m \subseteq S
      BY <2>1, <2>2, <2>3, SetInduction
    <2> QED
      BY <2>4
  <1>5. Sizes(u)[m] = SizeOf(s) /\ SizeOf(s) \in Nat
    BY <1>2, <1>4, SizeOfType DEF SizeOf
  <1>6. n \in T
    <2>1. 0 \in T
      <3>1. Sizes(t)[0] = 0
        BY SizesDef
      <3> QED
        BY <1>5, <3>1
    <2>2. ASSUME NEW k \in 0 .. n - 1, k \in T PROVE k + 1 \in T
      <3>1. /\ k \in Nat /\ k <= n /\ k + 1 \in 1 .. n /\ (k + 1) - 1 = k /\ k \in 0 .. n
            /\ m + (k + 1) \in 1 .. m + n /\ (m + (k + 1)) - 1 = m + k
        OBVIOUS
      <3>2. Sizes(u)[m + (k + 1)] = Sizes(u)[m + k] + u[m + (k + 1)].size
        BY <1>3, <3>1, SizesDef
      <3>3. Sizes(t)[k + 1] = Sizes(t)[k] + t[k + 1].size /\ Sizes(t)[k] \in Nat
        BY <1>2, <3>1, SizesDef
      <3>4. u[m + (k + 1)] = t[k + 1] /\ Sizes(u)[m + k] = SizeOf(s) + Sizes(t)[k]
        BY <1>3, <2>2, <3>1
      <3>5. t[k + 1].size \in Nat
        BY <1>2, <3>1, TextType
      <3>6. (SizeOf(s) + Sizes(t)[k]) + t[k + 1].size = SizeOf(s) + (Sizes(t)[k] + t[k + 1].size)
        BY <1>5, <3>3, <3>5
      <3> QED
        BY <3>1, <3>2, <3>3, <3>4, <3>6
    <2>3. T \in SUBSET Nat
      OBVIOUS
    <2> HIDE DEF T
    <2>4. 0 .. n \subseteq T
      BY <2>1, <2>2, <2>3, SetInduction
    <2> QED
      BY <2>4
  <1> QED
    BY <1>1, <1>2, <1>3, <1>6 DEF SizeOf

LEMMA SizeOfOne ==
    ASSUME NEW e \in Entries
    PROVE  /\ <<>> \in Texts /\ SizeOf(<<>>) = 0
           /\ <<e>> \in Texts /\ SizeOf(<<e>>) = e.size
  <1>1. <<>> \in Texts /\ Len(<<>>) = 0 /\ <<e>> \in Texts /\ Len(<<e>>) = 1 /\ <<e>>[1] = e
    BY EmptySeq DEF Texts
  <1>2. Sizes(<<>>)[0] = 0 /\ Sizes(<<e>>)[0] = 0
    BY <1>1, SizesDef
  <1>3. Sizes(<<e>>)[1] = Sizes(<<e>>)[1 - 1] + <<e>>[1].size
    <2>1. PICK t \in Texts : t = <<e>> /\ Len(t) = 1
      BY <1>1
    <2>2. \A i \in 1 .. Len(t) : Sizes(t)[i] = Sizes(t)[i - 1] + t[i].size
      BY SizesDef
    <2>3. 1 \in 1 .. Len(t)
      BY <2>1
    <2>4. Sizes(t)[1] = Sizes(t)[1 - 1] + t[1].size
      BY <2>2, <2>3
    <2> QED
      BY <2>1, <2>4
  <1>4. e.size \in Nat
    BY DEF Entries
  <1> QED
    BY <1>1, <1>2, <1>3, <1>4 DEF SizeOf

-----------------------------------------------------------------------------
(* The inductive invariant of the log: the files are taken one after the    *)
(* other, the one that is written to is the last, and what waits in the     *)
(* buffer fits into a file.                                                 *)
Files == 0 .. LogFiles - 1
IsCard(c) ==
    /\ c = [present |-> c.present, name |-> c.name, buffer |-> c.buffer, files |-> c.files]
    /\ c.name \in 0 .. LogFiles
    /\ c.buffer \in Texts /\ c.files \in [Files -> Texts]

Successive(c) ==
    /\ \A f, g \in Files : f < g /\ Exists(c.files, g) => Exists(c.files, f)
    /\ c.name # NoName =>
           /\ \A f \in Files : f < c.name => Exists(c.files, f)
           /\ \A f \in Files : c.name < f => ~Exists(c.files, f)

InOrder(c) ==
    /\ Ascending(c.buffer)
    /\ \A f \in Files :
           /\ Ascending(c.files[f]) /\ Before(c.files[f], c.buffer)
           /\ \A g \in Files : f < g => Before(c.files[f], c.files[g])

Fits(c) ==
    /\ SizeOf(c.buffer) <= WriteBuffer
    /\ \A f \in Files : SizeOf(c.files[f]) <= MaxFileSize

CardInv(c) == IsCard(c) /\ Successive(c) /\ InOrder(c) /\ Fits(c)

LogInv ==
    /\ CardInv(card)
    /\ count.lines \in Nat /\ DOMAIN count = {"lines", "chars", "restarts"}
    /\ Logged(card) \cup lost = 1 .. count.lines
    /\ Logged(card) \cap lost = {}

(* The first name that is free.                                             *)
LEMMA NextName ==
    ASSUME NEW c, CardInv(c)
    PROVE  LET name == NextLogFile(c.files) IN
           /\ name \in 0 .. LogFiles
           /\ name # NoName =>
                  /\ name \in Files /\ ~Exists(c.files, name)
                  /\ \A f \in Files : f < name => Exists(c.files, f)
                  /\ \A f \in Files : name < f => ~Exists(c.files, f)
  <1> DEFINE free == {f \in 0 .. LogFiles - 1 : ~Exists(c.files, f)}
             name == NextLogFile(c.files)
  <1>1. CASE free = {}
    BY <1>1, ImuAssumption DEF NextLogFile, NoName
  <1>2. CASE free # {}
    <2>1. \E f \in free : \A g \in free : f <= g
      <3>1. free \in SUBSET Nat
        OBVIOUS
      <3>2. PICK x \in free : \A y \in free : ~(y < x)
        BY <1>2, <3>1, LeastElement
      <3>3. \A y \in free : x <= y
        BY <3>1, <3>2
      <3> QED
        BY <3>3
    <2>2. name \in free /\ \A g \in free : name <= g
      BY <1>2, <2>1 DEF NextLogFile
    <2>3. name \in Files /\ ~Exists(c.files, name)
      BY <2>2 DEF Files
    <2>4. \A f \in Files : f < name => Exists(c.files, f)
      BY <2>2, <2>3 DEF Files
    <2>5. \A f \in Files : name < f => ~Exists(c.files, f)
      BY <2>3 DEF CardInv, Successive
    <2>6. name \in 0 .. LogFiles
      <3> HIDE DEF name
      <3> QED
        BY <2>3, ImuAssumption DEF Files
    <2> HIDE DEF name
    <2> QED
      BY <2>3, <2>4, <2>5, <2>6 DEF name
  <1> QED
    BY <1>1, <1>2

(* The numbers of the lines.                                                *)
LEMMA LinesOfBoth ==
    ASSUME NEW s \in Texts, NEW t \in Texts
    PROVE  /\ LinesIn(s \o t) = LinesIn(s) \cup LinesIn(t)
           /\ Ascending(s) /\ Ascending(t) /\ Before(s, t) => Ascending(s \o t)
           /\ \A r \in Texts : /\ Before(r, s) /\ Before(r, t) => Before(r, s \o t)
                               /\ Before(s, r) /\ Before(t, r) => Before(s \o t, r)
  <1>1. PICK u \in Texts : u = s \o t
    BY SizeOfBoth
  <1>2. PICK m \in Nat, n \in Nat : m = Len(s) /\ n = Len(t)
    BY TextType
  <1>3. /\ DOMAIN s = 1 .. m /\ DOMAIN t = 1 .. n /\ DOMAIN u = 1 .. m + n
        /\ \A i \in 1 .. m : u[i] = s[i]
        /\ \A i \in 1 .. n : u[m + i] = t[i]
    BY <1>1, <1>2 DEF Texts
  <1>4. ASSUME NEW i \in 1 .. m + n
        PROVE  \/ i \in 1 .. m /\ u[i] = s[i]
               \/ \E j \in 1 .. n : i = m + j /\ u[i] = t[j]
    <2>1. CASE i <= m
      BY <1>3, <2>1
    <2>2. CASE ~(i <= m)
      <3>1. i - m \in 1 .. n /\ i = m + (i - m)
        BY <2>2
      <3> QED
        BY <1>3, <3>1
    <2> QED
      BY <2>1, <2>2
  <1>5. \A i \in 1 .. m : i \in 1 .. m + n
    OBVIOUS
  <1>6. \A i \in 1 .. n : m + i \in 1 .. m + n
    OBVIOUS
  <1>7. LinesIn(u) = LinesIn(s) \cup LinesIn(t)
    <2>1. ASSUME NEW x \in LinesIn(u) PROVE x \in LinesIn(s) \cup LinesIn(t)
      <3>1. PICK i \in 1 .. m + n : x = u[i].line
        BY <1>3 DEF LinesIn
      <3> QED
        BY <1>3, <1>4, <3>1 DEF LinesIn
    <2>2. ASSUME NEW x \in LinesIn(s) PROVE x \in LinesIn(u)
      BY <1>3, <1>5, <2>2 DEF LinesIn
    <2>3. ASSUME NEW x \in LinesIn(t) PROVE x \in LinesIn(u)
      <3>1. PICK i \in 1 .. n : x = t[i].line
        BY <1>3, <2>3 DEF LinesIn
      <3>2. u[m + i] = t[i] /\ m + i \in DOMAIN u
        BY <1>3, <1>6
      <3> QED
        BY <3>1, <3>2 DEF LinesIn
    <2> QED
      BY <2>1, <2>2, <2>3
  <1>8. ASSUME Ascending(s), Ascending(t), Before(s, t),
               NEW i \in 1 .. m + n, NEW j \in 1 .. m + n, i < j
        PROVE  u[i].line < u[j].line
    <2>1. CASE i \in 1 .. m /\ j \in 1 .. m
      BY <1>3, <1>8, <2>1 DEF Ascending
    <2>2. CASE i \in 1 .. m /\ j \notin 1 .. m
      <3>1. PICK k \in 1 .. n : u[j] = t[k]
        BY <1>4, <2>2
      <3> QED
        BY <1>3, <1>8, <2>2, <3>1 DEF Before
    <2>3. CASE i \notin 1 .. m
      <3>1. PICK k \in 1 .. n : i = m + k /\ u[i] = t[k]
        BY <1>4, <2>3
      <3>2. j \notin 1 .. m
        BY <1>8, <2>3
      <3>3. PICK l \in 1 .. n : j = m + l /\ u[j] = t[l]
        BY <1>4, <3>2
      <3>4. k < l
        BY <1>8, <3>1, <3>3
      <3> QED
        BY <1>3, <1>8, <3>1, <3>3, <3>4 DEF Ascending
    <2> QED
      BY <2>1, <2>2, <2>3
  <1>9. ASSUME NEW r \in Texts, Before(r, s), Before(r, t) PROVE Before(r, u)
    <2> SUFFICES ASSUME NEW i \in DOMAIN r, NEW j \in 1 .. m + n PROVE r[i].line < u[j].line
      BY <1>3 DEF Before
    <2>1. CASE j \in 1 .. m /\ u[j] = s[j]
      BY <1>3, <1>9, <2>1 DEF Before
    <2>2. CASE \E k \in 1 .. n : u[j] = t[k]
      BY <1>3, <1>9, <2>2 DEF Before
    <2> QED
      BY <1>4, <2>1, <2>2
  <1>10. ASSUME NEW r \in Texts, Before(s, r), Before(t, r) PROVE Before(u, r)
    <2> SUFFICES ASSUME NEW i \in DOMAIN r, NEW j \in 1 .. m + n PROVE u[j].line < r[i].line
      BY <1>3 DEF Before
    <2>1. CASE j \in 1 .. m /\ u[j] = s[j]
      BY <1>3, <1>10, <2>1 DEF Before
    <2>2. CASE \E k \in 1 .. n : u[j] = t[k]
      BY <1>3, <1>10, <2>2 DEF Before
    <2> QED
      BY <1>4, <2>1, <2>2
  <1>11. Ascending(s) /\ Ascending(t) /\ Before(s, t) => Ascending(u)
    BY <1>3, <1>8 DEF Ascending
  <1> QED
    BY <1>1, <1>7, <1>9, <1>10, <1>11

LEMMA LinesOfOne ==
    ASSUME NEW e \in Entries
    PROVE  /\ LinesIn(<<>>) = {} /\ LinesIn(<<e>>) = {e.line}
           /\ Ascending(<<>>) /\ Ascending(<<e>>)
           /\ \A r : Before(r, <<>>) /\ Before(<<>>, r)
           /\ \A r \in Texts : (\A x \in LinesIn(r) : x < e.line) => Before(r, <<e>>)
  <1>1. DOMAIN <<>> = {}
    OBVIOUS
  <1>2. DOMAIN <<e>> = {1} /\ <<e>>[1] = e
    OBVIOUS
  <1>3. LinesIn(<<>>) = {} /\ LinesIn(<<e>>) = {e.line}
    BY <1>1, <1>2 DEF LinesIn
  <1>4. Ascending(<<>>) /\ Ascending(<<e>>)
    BY <1>1, <1>2 DEF Ascending
  <1>5. \A r : Before(r, <<>>) /\ Before(<<>>, r)
    BY <1>1 DEF Before
  <1>6. ASSUME NEW r \in Texts, \A x \in LinesIn(r) : x < e.line PROVE Before(r, <<e>>)
    BY <1>2, <1>6 DEF Before, LinesIn
  <1> QED
    BY <1>3, <1>4, <1>5, <1>6

LEMMA LineNumbers ==
    ASSUME NEW text \in Texts
    PROVE  LinesIn(text) \subseteq Nat
  BY TextType DEF LinesIn

(* The file that the buffer goes to.                                        *)
LogName(c) ==
    IF c.name # NoName /\ SizeOf(c.files[c.name]) > MaxFileSize - SizeOf(c.buffer)
    THEN NextLogFile(c.files) ELSE c.name

LEMMA NameForLog ==
    ASSUME NEW c, CardInv(c), NEW name, name = LogName(c)
    PROVE  /\ name \in 0 .. LogFiles
           /\ name # NoName =>
                  /\ name \in Files
                  /\ SizeOf(c.files[name]) + SizeOf(c.buffer) <= MaxFileSize
                  /\ \A f \in Files : f < name => Exists(c.files, f)
                  /\ \A f \in Files : name < f => ~Exists(c.files, f)
  <1>0. LogFiles \in Nat /\ MaxFileSize \in Nat /\ WriteBuffer \in Nat /\ WriteBuffer <= MaxFileSize
    BY ImuAssumption
  <1>1. SizeOf(c.buffer) \in Nat /\ SizeOf(c.buffer) <= MaxFileSize /\ c.name \in 0 .. LogFiles
    <2>1. SizeOf(c.buffer) \in Nat /\ SizeOf(c.buffer) <= WriteBuffer /\ c.name \in 0 .. LogFiles
      BY SizeOfType DEF CardInv, IsCard, Fits
    <2> QED
      BY <1>0, <2>1
  <1>2. \A f \in Files : SizeOf(c.files[f]) \in Nat
    BY SizeOfType DEF CardInv, IsCard
  <1>3. CASE c.name # NoName /\ SizeOf(c.files[c.name]) > MaxFileSize - SizeOf(c.buffer)
    <2>1. name = NextLogFile(c.files)
      BY <1>3 DEF LogName
    <2>2. /\ name \in 0 .. LogFiles
          /\ name # NoName =>
                  /\ name \in Files /\ ~Exists(c.files, name)
                  /\ \A f \in Files : f < name => Exists(c.files, f)
                  /\ \A f \in Files : name < f => ~Exists(c.files, f)
      BY <2>1, NextName
    <2>3. ASSUME name # NoName PROVE SizeOf(c.files[name]) = 0
      <3>1. c.files[name] = <<>>
        BY <2>2, <2>3 DEF Exists
      <3>2. [line |-> 0, size |-> 0] \in Entries
        BY DEF Entries
      <3> QED
        BY <3>1, <3>2, SizeOfOne
    <2> QED
      BY <1>1, <2>2, <2>3
  <1>4. CASE ~(c.name # NoName /\ SizeOf(c.files[c.name]) > MaxFileSize - SizeOf(c.buffer))
    <2>1. name = c.name
      BY <1>4 DEF LogName
    <2>2. ASSUME name # NoName
          PROVE  name \in Files /\ SizeOf(c.files[name]) + SizeOf(c.buffer) <= MaxFileSize
      <3>1. name \in Files
        BY <1>0, <1>1, <2>1, <2>2 DEF Files, NoName
      <3>2. PICK a \in Nat, b \in Nat : a = SizeOf(c.files[name]) /\ b = SizeOf(c.buffer)
        BY <1>1, <1>2, <3>1
      <3>3. ~(a > MaxFileSize - b)
        BY <1>4, <2>1, <2>2, <3>2
      <3>4. a + b <= MaxFileSize
        BY <1>0, <3>3
      <3> QED
        BY <3>1, <3>2, <3>4
    <2> QED
      BY <1>1, <2>1, <2>2 DEF CardInv, Successive
  <1> QED
    BY <1>3, <1>4

FileLines(c) == UNION {LinesIn(c.files[f]) : f \in Files}

LEMMA LoggedLines ==
    ASSUME NEW c, IsCard(c)
    PROVE  /\ Logged(c) = LinesIn(c.buffer) \cup FileLines(c)
           /\ \A f \in Files : LinesIn(c.files[f]) \subseteq FileLines(c)
           /\ LinesIn(c.buffer) \subseteq Nat /\ FileLines(c) \subseteq Nat
  <1>1. DOMAIN c.files = Files
    BY DEF IsCard
  <1>2. Logged(c) = LinesIn(c.buffer) \cup FileLines(c)
    BY <1>1 DEF Logged, FileLines
  <1>3. \A f \in Files : LinesIn(c.files[f]) \subseteq Nat
    BY LineNumbers DEF IsCard
  <1>4. LinesIn(c.buffer) \subseteq Nat
    BY LineNumbers DEF IsCard
  <1> QED
    BY <1>2, <1>3, <1>4 DEF FileLines

(* The buffer is written: all of it into one file, or nothing.              *)
LEMMA Written ==
    ASSUME NEW c, CardInv(c), NEW d, d = sdLogString(c)
    PROVE  /\ IsCard(d) /\ Successive(d) /\ InOrder(d) /\ d.buffer = <<>>
           /\ \A f \in Files : SizeOf(d.files[f]) <= MaxFileSize
           /\ FileLines(d) = IF d.name = NoName THEN FileLines(c) ELSE Logged(c)
  <1>1. PICK name : name = LogName(c)
    OBVIOUS
  <1>2. /\ name \in 0 .. LogFiles
        /\ name # NoName =>
                  /\ name \in Files
                  /\ SizeOf(c.files[name]) + SizeOf(c.buffer) <= MaxFileSize
                  /\ \A f \in Files : f < name => Exists(c.files, f)
                  /\ \A f \in Files : name < f => ~Exists(c.files, f)
    BY <1>1, NameForLog
  <1>3. d = [c EXCEPT !.name = name, !.buffer = <<>>,
                !.files = IF name = NoName THEN @ ELSE [c.files EXCEPT ![name] = @ \o c.buffer]]
    BY <1>1 DEF sdLogString, LogName
  <1>4. /\ d = [present |-> c.present, name |-> name, buffer |-> <<>>,
                files |-> IF name = NoName THEN c.files
                          ELSE [c.files EXCEPT ![name] = c.files[name] \o c.buffer]]
    <2>1. c = [present |-> c.present, name |-> c.name, buffer |-> c.buffer, files |-> c.files]
      BY DEF CardInv, IsCard
    <2>2. d.present = c.present /\ d.name = name /\ d.buffer = <<>>
      BY <1>3, <2>1
    <2>3. d.files = IF name = NoName THEN c.files
                    ELSE [c.files EXCEPT ![name] = c.files[name] \o c.buffer]
      BY <1>3, <2>1
    <2>4. d = [i \in {"present", "name", "buffer", "files"} |-> d[i]]
      BY <1>3, <2>1
    <2> QED
      BY <2>2, <2>3, <2>4
  <1>5. /\ d.name = name /\ d.buffer = <<>> /\ <<>> \in Texts
        /\ d = [present |-> d.present, name |-> d.name, buffer |-> d.buffer, files |-> d.files]
    BY <1>4 DEF Texts
  <1>6. c.files \in [Files -> Texts] /\ c.buffer \in Texts /\ InOrder(c) /\ Successive(c)
        /\ \A f \in Files : SizeOf(c.files[f]) <= MaxFileSize
    BY DEF CardInv, IsCard, Fits
  <1>7. \A r : Before(r, <<>>)
    <2>1. DOMAIN <<>> = {}
      OBVIOUS
    <2> QED
      BY <2>1 DEF Before
  <1>8. CASE name = NoName
    <2>1. d.files = c.files
      BY <1>4, <1>8
    <2>2. IsCard(d)
      BY <1>2, <1>5, <1>6, <2>1 DEF IsCard
    <2>3. Successive(d)
      BY <1>5, <1>6, <1>8, <2>1 DEF Successive, Exists
    <2>4. Ascending(<<>>)
      <3>1. DOMAIN <<>> = {}
        OBVIOUS
      <3> QED
        BY <3>1 DEF Ascending
    <2>5. InOrder(d)
      BY <1>5, <1>6, <1>7, <2>1, <2>4 DEF InOrder
    <2>6. FileLines(d) = FileLines(c)
      BY <2>1 DEF FileLines
    <2> QED
      BY <1>5, <1>6, <1>8, <2>1, <2>2, <2>3, <2>5, <2>6
  <1>9. CASE name # NoName
    <2>1. PICK old \in Texts, buf \in Texts, new \in Texts :
              old = c.files[name] /\ buf = c.buffer /\ new = old \o buf
      BY <1>2, <1>6, <1>9, SizeOfBoth
    <2>2. name \in Files /\ d.files = [f \in Files |-> IF f = name THEN new ELSE c.files[f]]
      <3>1. name \in Files
        BY <1>2, <1>9
      <3>2. d.files = [c.files EXCEPT ![name] = new]
        BY <1>4, <1>9, <2>1
      <3>3. \A fs \in [Files -> Texts] :
                [fs EXCEPT ![name] = new] = [f \in Files |-> IF f = name THEN new ELSE fs[f]]
        OBVIOUS
      <3> QED
        BY <1>6, <3>1, <3>2, <3>3
    <2>3. /\ d.files[name] = new
          /\ \A f \in Files : f # name => d.files[f] = c.files[f]
          /\ d.files \in [Files -> Texts]
      BY <1>6, <2>2
    <2>4. IsCard(d)
      BY <1>2, <1>5, <2>3 DEF IsCard
    <2>5. ASSUME NEW f \in Files, f < name PROVE Exists(d.files, f)
      <3>1. f # name /\ Exists(c.files, f)
        BY <1>2, <1>9, <2>2, <2>5 DEF Files
      <3> QED
        BY <2>3, <3>1 DEF Exists
    <2>6. ASSUME NEW f \in Files, name < f PROVE d.files[f] = <<>> /\ ~Exists(d.files, f)
      <3>1. f # name /\ ~Exists(c.files, f)
        BY <1>2, <1>9, <2>2, <2>6 DEF Files
      <3> QED
        BY <2>3, <3>1 DEF Exists
    <2>7. Successive(d)
      <3>1. ASSUME NEW f \in Files, NEW g \in Files, f < g, Exists(d.files, g)
            PROVE  Exists(d.files, f)
        <4>1. ~(name < g)
          BY <2>6, <3>1
        <4>2. f < name
          BY <2>2, <3>1, <4>1 DEF Files
        <4> QED
          BY <2>5, <4>2
      <3> QED
        BY <1>5, <2>5, <2>6, <3>1 DEF Successive
    <2>8. Ascending(old) /\ Ascending(buf) /\ Before(old, buf)
      BY <1>6, <2>1, <2>2 DEF InOrder
    <2>9. Ascending(new) /\ LinesIn(new) = LinesIn(old) \cup LinesIn(buf)
      BY <2>1, <2>8, LinesOfBoth
    <2>10. InOrder(d)
      <3>1. Ascending(<<>>)
        <4>1. DOMAIN <<>> = {}
          OBVIOUS
        <4> QED
          BY <4>1 DEF Ascending
      <3>2. ASSUME NEW f \in Files PROVE Ascending(d.files[f])
        BY <1>6, <2>3, <2>9 DEF InOrder
      <3>3. ASSUME NEW f \in Files, NEW g \in Files, f < g
            PROVE  Before(d.files[f], d.files[g])
        <4>1. CASE g = name
          <5>1. f # name
            BY <3>3, <4>1 DEF Files
          <5>2. c.files[f] \in Texts /\ Before(c.files[f], old) /\ Before(c.files[f], buf)
            BY <1>6, <2>1, <3>3, <4>1 DEF InOrder
          <5>3. Before(c.files[f], new)
            BY <2>1, <5>2, LinesOfBoth
          <5> QED
            BY <2>3, <4>1, <5>1, <5>3
        <4>2. CASE name < g
          BY <1>7, <2>6, <4>2
        <4>3. CASE g < name
          <5>1. f # name /\ g # name
            BY <2>2, <3>3, <4>3 DEF Files
          <5> QED
            BY <1>6, <2>3, <3>3, <5>1 DEF InOrder
        <4>4. g = name \/ name < g \/ g < name
          BY <2>2 DEF Files
        <4> QED
          BY <4>1, <4>2, <4>3, <4>4
      <3> QED
        BY <1>5, <1>7, <3>1, <3>2, <3>3 DEF InOrder
    <2>11. ASSUME NEW f \in Files PROVE SizeOf(d.files[f]) <= MaxFileSize
      <3>1. SizeOf(new) = SizeOf(old) + SizeOf(buf)
        BY <2>1, SizeOfBoth
      <3>2. SizeOf(new) <= MaxFileSize
        BY <1>2, <1>9, <2>1, <3>1
      <3> QED
        BY <1>6, <2>3, <3>2
    <2>12. FileLines(d) = Logged(c)
      <3>1. Logged(c) = LinesIn(buf) \cup FileLines(c)
        BY <2>1, LoggedLines DEF CardInv
      <3>2. ASSUME NEW x \in FileLines(d) PROVE x \in Logged(c)
        <4>1. PICK f \in Files : x \in LinesIn(d.files[f])
          BY <3>2 DEF FileLines
        <4>2. CASE f = name
          BY <2>1, <2>2, <2>3, <2>9, <3>1, <4>1, <4>2 DEF FileLines
        <4>3. CASE f # name
          BY <2>3, <3>1, <4>1, <4>3 DEF FileLines
        <4> QED
          BY <4>2, <4>3
      <3>3. ASSUME NEW x \in FileLines(c) PROVE x \in FileLines(d)
        <4>1. PICK f \in Files : x \in LinesIn(c.files[f])
          BY <3>3 DEF FileLines
        <4>2. x \in LinesIn(d.files[f])
          <5>1. CASE f = name
            BY <2>1, <2>3, <2>9, <4>1, <5>1
          <5>2. CASE f # name
            BY <2>3, <4>1, <5>2
          <5> QED
            BY <5>1, <5>2
        <4> QED
          BY <4>2 DEF FileLines
      <3>4. LinesIn(buf) \subseteq FileLines(d)
        BY <2>2, <2>3, <2>9 DEF FileLines
      <3> QED
        BY <3>1, <3>2, <3>3, <3>4
    <2> QED
      BY <1>5, <1>9, <2>4, <2>7, <2>10, <2>11, <2>12
  <1> QED
    BY <1>8, <1>9

(* A line is appended to the buffer.                                        *)
LEMMA Appended ==
    ASSUME NEW w, IsCard(w), Successive(w), InOrder(w), NEW e \in Entries,
           \A f \in Files : SizeOf(w.files[f]) <= MaxFileSize,
           SizeOf(w.buffer) + e.size <= WriteBuffer,
           \A x \in Logged(w) : x < e.line,
           NEW d, d = [w EXCEPT !.buffer = Append(@, e)]
    PROVE  CardInv(d) /\ Logged(d) = Logged(w) \cup {e.line} /\ d.name = w.name
  <1>1. w = [present |-> w.present, name |-> w.name, buffer |-> w.buffer, files |-> w.files]
        /\ w.name \in 0 .. LogFiles /\ w.buffer \in Texts /\ w.files \in [Files -> Texts]
    BY DEF IsCard
  <1>2. PICK buf \in Texts, one \in Texts, new \in Texts :
            buf = w.buffer /\ one = <<e>> /\ new = buf \o one
    <2>1. <<e>> \in Texts
      BY SizeOfOne
    <2> QED
      BY <1>1, <2>1, SizeOfBoth
  <1>3. Append(w.buffer, e) = new
    <2>1. Append(buf, e) = buf \o <<e>>
      BY AppendIsConcat DEF Texts
    <2> QED
      BY <1>2, <2>1
  <1>4. d.name = w.name /\ d.buffer = new /\ d.files = w.files
        /\ d = [present |-> d.present, name |-> d.name, buffer |-> d.buffer, files |-> d.files]
    <2>1. d = [w EXCEPT !.buffer = new]
      <3>1. d = [w EXCEPT !.buffer = Append(w.buffer, e)]
        BY <1>1
      <3> QED
        BY <1>3, <3>1
    <2>2. d.name = w.name /\ d.buffer = new /\ d.files = w.files
      BY <1>1, <2>1
    <2>3. d = [i \in {"present", "name", "buffer", "files"} |-> d[i]]
      BY <1>1, <2>1
    <2> QED
      BY <2>2, <2>3
  <1>5. IsCard(d)
    BY <1>1, <1>2, <1>4 DEF IsCard
  <1>6. Successive(d)
    BY <1>4 DEF Successive
  <1>7. Logged(w) = LinesIn(buf) \cup FileLines(w)
        /\ \A f \in Files : LinesIn(w.files[f]) \subseteq FileLines(w)
    BY <1>2, LoggedLines
  <1>8. LinesIn(one) = {e.line} /\ Ascending(one)
        /\ \A r \in Texts : (\A x \in LinesIn(r) : x < e.line) => Before(r, one)
    BY <1>2, LinesOfOne
  <1>9. InOrder(d)
    <2>1. Ascending(buf) /\ \A f \in Files : Before(w.files[f], buf)
      BY <1>2 DEF InOrder
    <2>2. Before(buf, one)
      BY <1>7, <1>8
    <2>3. Ascending(new)
      BY <1>2, <1>8, <2>1, <2>2, LinesOfBoth
    <2>4. ASSUME NEW f \in Files PROVE Before(w.files[f], new)
      <3>1. w.files[f] \in Texts
        BY <1>1
      <3>2. Before(w.files[f], one)
        BY <1>7, <1>8, <3>1
      <3> QED
        BY <1>2, <2>1, <3>1, <3>2, LinesOfBoth
    <2> QED
      BY <1>4, <2>3, <2>4 DEF InOrder
  <1>10. SizeOf(new) <= WriteBuffer
    <2>1. SizeOf(new) = SizeOf(buf) + SizeOf(one)
      BY <1>2, SizeOfBoth
    <2>2. SizeOf(one) = e.size
      BY <1>2, SizeOfOne
    <2> QED
      BY <1>2, <2>1, <2>2
  <1>11. CardInv(d)
    BY <1>4, <1>5, <1>6, <1>9, <1>10 DEF CardInv, Fits
  <1>12. Logged(d) = Logged(w) \cup {e.line}
    <2>1. Logged(d) = LinesIn(new) \cup FileLines(d)
      BY <1>4, <1>5, LoggedLines
    <2>2. FileLines(d) = FileLines(w)
      BY <1>4 DEF FileLines
    <2>3. LinesIn(new) = LinesIn(buf) \cup LinesIn(one)
      BY <1>2, LinesOfBoth
    <2> QED
      BY <1>7, <1>8, <2>1, <2>2, <2>3
  <1> QED
    BY <1>4, <1>11, <1>12

(* A line is logged: it is added, and what is no longer there was waiting   *)
(* in the buffer when no name was left.                                     *)
Gone(c, d) == IF d.name = NoName THEN LinesIn(c.buffer) \ Logged(d) ELSE {}

LEMMA LineLogged ==
    ASSUME NEW c, CardInv(c), NEW e \in Entries, e.size <= WriteBuffer,
           \A x \in Logged(c) : x < e.line, NEW d, d = LogLine(c, e)
    PROVE  /\ CardInv(d)
           /\ Logged(d) \subseteq Logged(c) \cup {e.line}
           /\ Logged(d) \cup Gone(c, d) = Logged(c) \cup {e.line}
  <1>1. /\ IsCard(c) /\ Successive(c) /\ InOrder(c)
        /\ \A f \in Files : SizeOf(c.files[f]) <= MaxFileSize
    BY DEF CardInv, Fits
  <1>2. Logged(c) = LinesIn(c.buffer) \cup FileLines(c)
    BY <1>1, LoggedLines
  <1>3. CASE Flushes(c, e.size)
    <2>1. PICK w : w = sdLogString(c)
      OBVIOUS
    <2>2. d = [w EXCEPT !.buffer = Append(@, e)]
      BY <1>3, <2>1 DEF LogLine
    <2>3. /\ IsCard(w) /\ Successive(w) /\ InOrder(w) /\ w.buffer = <<>>
          /\ \A f \in Files : SizeOf(w.files[f]) <= MaxFileSize
          /\ FileLines(w) = IF w.name = NoName THEN FileLines(c) ELSE Logged(c)
      BY <2>1, Written
    <2>4. Logged(w) = FileLines(w)
      <3>1. LinesIn(<<>>) = {}
        BY LinesOfOne
      <3> QED
        BY <2>3, <3>1, LoggedLines
    <2>5. SizeOf(w.buffer) + e.size <= WriteBuffer
      <3>1. SizeOf(w.buffer) = 0 /\ e.size \in Nat
        BY <2>3, SizeOfOne DEF Entries
      <3> QED
        BY <3>1
    <2>6. \A x \in Logged(w) : x < e.line
      BY <1>2, <2>3, <2>4
    <2>7. CardInv(d) /\ Logged(d) = Logged(w) \cup {e.line} /\ d.name = w.name
      BY <2>2, <2>3, <2>5, <2>6, Appended
    <2> QED
      BY <1>2, <2>3, <2>4, <2>7 DEF Gone
  <1>4. CASE ~Flushes(c, e.size)
    <2>1. d = [c EXCEPT !.buffer = Append(@, e)]
      BY <1>4 DEF LogLine
    <2>2. SizeOf(c.buffer) + e.size <= WriteBuffer
      <3>1. SizeOf(c.buffer) \in Nat /\ e.size \in Nat /\ WriteBuffer \in Nat
        BY <1>1, SizeOfType, ImuAssumption DEF IsCard, Entries
      <3>2. ~(e.size + SizeOf(c.buffer) >= WriteBuffer)
        BY <1>4 DEF Flushes
      <3> QED
        BY <3>1, <3>2
    <2>3. CardInv(d) /\ Logged(d) = Logged(c) \cup {e.line} /\ d.name = c.name
      BY <1>1, <2>1, <2>2, Appended
    <2> QED
      BY <1>2, <2>3 DEF Gone
  <1> QED
    BY <1>3, <1>4



-----------------------------------------------------------------------------
LEMMA LogInitial == ImuInit => LogInv
  <1> SUFFICES ASSUME ImuInit PROVE LogInv
    OBVIOUS
  <1>1. /\ card.name = NoName /\ card.buffer = <<>>
        /\ card.files = [f \in Files |-> <<>>]
        /\ card = [present |-> card.present, name |-> card.name,
                   buffer |-> card.buffer, files |-> card.files]
    BY DEF ImuInit, Files
  <1>2. [line |-> 0, size |-> 0] \in Entries
    BY DEF Entries
  <1>3. /\ <<>> \in Texts /\ SizeOf(<<>>) = 0 /\ LinesIn(<<>>) = {} /\ Ascending(<<>>)
        /\ \A r : Before(<<>>, r)
    BY <1>2, SizeOfOne, LinesOfOne
  <1>4. IsCard(card)
    <2>1. card.name \in 0 .. LogFiles
      BY <1>1, ImuAssumption DEF NoName
    <2> QED
      BY <1>1, <1>3, <2>1 DEF IsCard
  <1>5. Successive(card)
    BY <1>1 DEF Successive, Exists
  <1>6. InOrder(card)
    BY <1>1, <1>3 DEF InOrder
  <1>7. Fits(card)
    <2>1. 0 <= WriteBuffer /\ 0 <= MaxFileSize
      BY ImuAssumption
    <2> QED
      BY <1>1, <1>3, <2>1 DEF Fits
  <1>8. Logged(card) = {}
    <2>1. FileLines(card) = {}
      BY <1>1, <1>3 DEF FileLines
    <2> QED
      BY <1>1, <1>3, <1>4, <2>1, LoggedLines
  <1>9. lost = {} /\ count.lines = 0 /\ DOMAIN count = {"lines", "chars", "restarts"}
    BY DEF ImuInit
  <1> QED
    BY <1>4, <1>5, <1>6, <1>7, <1>8, <1>9 DEF LogInv, CardInv

(* A card is found, or not, and with one the first free name.               *)
LEMMA StartKeepsLog == LogInv /\ Start => LogInv'
  <1> SUFFICES ASSUME LogInv, Start PROVE LogInv'
    OBVIOUS
  <1>0. PICK p \in BOOLEAN :
            card' = [card EXCEPT !.present = p,
                                 !.name = IF p THEN NextLogFile(card.files) ELSE NoName]
    BY DEF Start
  <1>1. PICK d, name :
            /\ d = card' /\ name = IF p THEN NextLogFile(card.files) ELSE NoName
            /\ d = [card EXCEPT !.present = p, !.name = name]
    BY <1>0
  <1>2. CardInv(card) /\ LogFiles \in Nat
    BY ImuAssumption DEF LogInv
  <1>3. card = [present |-> card.present, name |-> card.name,
                buffer |-> card.buffer, files |-> card.files]
    BY <1>2 DEF CardInv, IsCard
  <1>4. /\ d.name = name /\ d.buffer = card.buffer /\ d.files = card.files
        /\ d = [present |-> d.present, name |-> d.name, buffer |-> d.buffer, files |-> d.files]
    <2>1. d.name = name /\ d.buffer = card.buffer /\ d.files = card.files
      BY <1>1, <1>3
    <2>2. d = [i \in {"present", "name", "buffer", "files"} |-> d[i]]
      BY <1>1, <1>3
    <2> QED
      BY <2>1, <2>2
  <1>5. /\ name \in 0 .. LogFiles
        /\ name # NoName =>
               /\ \A f \in Files : f < name => Exists(card.files, f)
               /\ \A f \in Files : name < f => ~Exists(card.files, f)
    <2>1. CASE p
      BY <1>1, <1>2, <2>1, NextName
    <2>2. CASE ~p
      BY <1>1, <1>2, <2>2 DEF NoName
    <2> QED
      BY <2>1, <2>2
  <1>6. CardInv(d)
    <2>1. IsCard(d)
      BY <1>2, <1>4, <1>5 DEF CardInv, IsCard
    <2>2. Successive(d)
      BY <1>2, <1>4, <1>5 DEF CardInv, Successive
    <2>3. InOrder(d) /\ Fits(d)
      BY <1>2, <1>4 DEF CardInv, InOrder, Fits
    <2> QED
      BY <2>1, <2>2, <2>3 DEF CardInv
  <1>7. Logged(d) = Logged(card)
    BY <1>4 DEF Logged
  <1>8. UNCHANGED <<lost, count>>
    BY DEF Start
  <1> QED
    BY <1>1, <1>6, <1>7, <1>8 DEF LogInv

(* What waits in the buffer is lost when the board restarts.                *)
LEMMA RestartKeepsLog == LogInv /\ Restart => LogInv'
  <1> SUFFICES ASSUME LogInv, Restart PROVE LogInv'
    OBVIOUS
  <1>1. PICK d : d = card' /\ d = [card EXCEPT !.buffer = <<>>]
    BY DEF Restart
  <1>2. CardInv(card) /\ IsCard(card)
    BY DEF LogInv, CardInv
  <1>3. card = [present |-> card.present, name |-> card.name,
                buffer |-> card.buffer, files |-> card.files]
    BY <1>2 DEF IsCard
  <1>4. /\ d.name = card.name /\ d.buffer = <<>> /\ d.files = card.files
        /\ d = [present |-> d.present, name |-> d.name, buffer |-> d.buffer, files |-> d.files]
    <2>1. d.name = card.name /\ d.buffer = <<>> /\ d.files = card.files
      BY <1>1, <1>3
    <2>2. d = [i \in {"present", "name", "buffer", "files"} |-> d[i]]
      BY <1>1, <1>3
    <2> QED
      BY <2>1, <2>2
  <1>5. [line |-> 0, size |-> 0] \in Entries
    BY DEF Entries
  <1>6. /\ <<>> \in Texts /\ SizeOf(<<>>) = 0 /\ LinesIn(<<>>) = {} /\ Ascending(<<>>)
        /\ \A r : Before(r, <<>>)
    BY <1>5, SizeOfOne, LinesOfOne
  <1>7. CardInv(d)
    <2>1. IsCard(d)
      BY <1>2, <1>4, <1>6 DEF IsCard
    <2>2. Successive(d)
      BY <1>2, <1>4 DEF CardInv, Successive
    <2>3. InOrder(d)
      BY <1>2, <1>4, <1>6 DEF CardInv, InOrder
    <2>4. Fits(d)
      <3>1. 0 <= WriteBuffer
        BY ImuAssumption
      <3> QED
        BY <1>2, <1>4, <1>6, <3>1 DEF CardInv, Fits
    <2> QED
      BY <2>1, <2>2, <2>3, <2>4 DEF CardInv
  <1>8. Logged(card) = LinesIn(card.buffer) \cup FileLines(card)
    BY <1>2, LoggedLines
  <1>9. Logged(d) = FileLines(card)
    <2>1. FileLines(d) = FileLines(card)
      BY <1>4 DEF FileLines
    <2> QED
      BY <1>4, <1>6, <1>7, <2>1, LoggedLines DEF CardInv
  <1>10. LinesIn(card.buffer) \cap FileLines(card) = {}
    <2> SUFFICES ASSUME NEW f \in Files, NEW x \in LinesIn(card.buffer),
                        x \in LinesIn(card.files[f])
                 PROVE  FALSE
      BY DEF FileLines
    <2>1. Before(card.files[f], card.buffer) /\ x \in Nat
      BY <1>2, LineNumbers DEF CardInv, InOrder, IsCard
    <2>2. x < x
      BY <2>1 DEF Before, LinesIn
    <2> QED
      BY <2>1, <2>2
  <1>11. lost' = lost \cup LinesIn(card.buffer) /\ count' = [count EXCEPT !.restarts = @ + 1]
    BY DEF Restart
  <1>12. count'.lines = count.lines /\ DOMAIN count' = {"lines", "chars", "restarts"}
    BY <1>11 DEF LogInv
  <1>13. Logged(d) \cup lost' = 1 .. count.lines /\ Logged(d) \cap lost' = {}
    BY <1>8, <1>9, <1>10, <1>11 DEF LogInv
  <1> QED
    BY <1>1, <1>7, <1>12, <1>13 DEF LogInv

(* A line is logged, or lost when no card takes it.                         *)
LEMMA SampleKeepsLog == LogInv /\ logIMUData => LogInv'
  <1> SUFFICES ASSUME LogInv, logIMUData PROVE LogInv'
    OBVIOUS
  <1>1. PICK n \in Nat : n = count.lines
    BY DEF LogInv
  <1>2. PICK e : e = [line |-> n + 1, size |-> Len(Line(settings))]
    OBVIOUS
  <1>3. count'.lines = n + 1 /\ DOMAIN count' = {"lines", "chars", "restarts"}
    <2>1. count' = [count EXCEPT !.lines = @ + 1]
      BY DEF logIMUData
    <2> QED
      BY <1>1, <2>1 DEF LogInv
  <1>4. e \in Entries /\ e.size <= WriteBuffer /\ e.line = n + 1
    <2>1. PICK k \in 0 .. LongestLine : k = Len(Line(settings))
      BY LineLength
    <2>2. k \in Nat /\ k <= WriteBuffer
      BY ImuAssumption DEF LongestLine
    <2> QED
      BY <1>2, <2>1, <2>2 DEF Entries
  <1>5. Logged(card) \cup lost = 1 .. n /\ Logged(card) \cap lost = {} /\ CardInv(card)
    BY <1>1 DEF LogInv
  <1>6. \A x \in Logged(card) : x < n + 1
    BY <1>5
  <1>7. (1 .. n) \cup {n + 1} = 1 .. n + 1 /\ n + 1 \notin lost
    BY <1>5
  <1>8. CASE card.present /\ settings["sd"]
    <2>1. PICK d : d = card' /\ d = LogLine(card, e) /\ lost' = lost \cup Gone(card, d)
      BY <1>2, <1>3, <1>8 DEF logIMUData, Gone
    <2>2. /\ CardInv(d) /\ Logged(d) \subseteq Logged(card) \cup {n + 1}
          /\ Logged(d) \cup Gone(card, d) = Logged(card) \cup {n + 1}
      BY <1>4, <1>5, <1>6, <2>1, LineLogged
    <2>3. Logged(d) \cap Gone(card, d) = {}
      BY DEF Gone
    <2>4. Logged(d) \cup lost' = 1 .. n + 1 /\ Logged(d) \cap lost' = {}
      BY <1>5, <1>7, <2>1, <2>2, <2>3
    <2> QED
      BY <1>1, <1>3, <2>1, <2>2, <2>4 DEF LogInv
  <1>9. CASE ~(card.present /\ settings["sd"])
    <2>1. lost' = lost \cup {n + 1} /\ card' = card
      BY <1>1, <1>3, <1>9 DEF logIMUData
    <2>2. n + 1 \notin Logged(card)
      BY <1>5
    <2>3. Logged(card) \cup lost' = 1 .. n + 1 /\ Logged(card) \cap lost' = {}
      BY <1>5, <1>7, <2>1, <2>2
    <2> QED
      BY <1>1, <1>3, <1>5, <2>1, <2>3 DEF LogInv
  <1> QED
    BY <1>8, <1>9

LEMMA OthersKeepLog ==
    ASSUME LogInv,
           PowerUp \/ WriteDefaults \/ Store \/ (\E s \in Setting : parseSerialInput(s))
               \/ RobotRestarts \/ UNCHANGED imuVars
    PROVE  LogInv'
  <1>1. UNCHANGED <<card, lost>>
    BY DEF PowerUp, WriteDefaults, Store, parseSerialInput, RobotRestarts, imuVars
  <1>2. count'.lines = count.lines /\ DOMAIN count' = {"lines", "chars", "restarts"}
    <2>1. CASE count' = count
      BY <2>1 DEF LogInv
    <2>2. CASE count' = [count EXCEPT !.chars = @ + 1]
      BY <2>2 DEF LogInv
    <2> QED
      BY <2>1, <2>2
         DEF PowerUp, WriteDefaults, Store, parseSerialInput, RobotRestarts, imuVars
  <1> QED
    BY <1>1, <1>2 DEF LogInv

(* Whatever the size of a line, of the buffer and of a file, the number of  *)
(* names, and wherever the board restarts: a line is once on the card or in *)
(* the buffer, in order and in a file that is not too long, or it was lost  *)
(* with the buffer, without a card or without a name.                       *)
THEOREM LogKeeps == ImuSpec => []LogKept
  <1>1. LogInv /\ [ImuNext]_imuVars => LogInv'
    BY StartKeepsLog, RestartKeepsLog, SampleKeepsLog, OthersKeepLog DEF ImuNext
  <1>2. LogInv => LogKept
    <2> SUFFICES ASSUME LogInv PROVE LogKept
      OBVIOUS
    <2>1. DOMAIN card.files = Files
      BY DEF LogInv, CardInv, IsCard
    <2> QED
      BY <2>1 DEF LogInv, CardInv, InOrder, Fits, LogKept
  <1> QED
    BY LogInitial, <1>1, <1>2, PTL DEF ImuSpec

=============================================================================
