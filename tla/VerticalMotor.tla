--------------------------- MODULE VerticalMotor ---------------------------
(***************************************************************************)
(* The vertical motor of arduino/arduinoMain/arduinoMain.ino: an H-bridge  *)
(* driven by two pins, one per direction, that must not both be driven.    *)
(* verticalMotorWrite zeroes them when the direction is reversed, which it *)
(* finds out from the sign it stored the last time, in a byte.             *)
(***************************************************************************)
EXTENDS Integers

CONSTANT Speeds      \* the values of motorvals.v that are received

ASSUME MotorAssumption == Speeds \subseteq -255 .. 255

signum(n) == IF n > 0 THEN 1 ELSE IF n < 0 THEN -1 ELSE 0

(* verticalMotorSign = signum(value): a byte holds 255 for -1. *)
StoredSign(n) == (256 + signum(n)) % 256

VARIABLES
    v,                  \* motorvals.v
    verticalMotorSign,
    pin1, pin2,         \* what verticalMotorPin1 and 2 are driven with
    direction,          \* history: the direction written last,
    stops,              \* how many stops were written in a row, up to 2,
    lastRun,            \* the last direction that was no stop, and whether there
    careless            \* was a reversal that needs care, both since two stops

vars == <<v, verticalMotorSign, pin1, pin2, direction, stops, lastRun, careless>>

Init ==
    /\ v = 0
    /\ verticalMotorSign = 0
    /\ pin1 = 0 /\ pin2 = 0
    /\ direction = 0 /\ stops = 2 /\ lastRun = 0 /\ careless = FALSE

(* receiveMessageCallback: loop() may receive any number between two writes. *)
Receive ==
    /\ v' \in Speeds
    /\ UNCHANGED <<verticalMotorSign, pin1, pin2, direction, stops, lastRun, careless>>

(* if( signum(value) == -verticalMotorSign ): the pins are zeroed. *)
ZeroesNever(value) == FALSE
ZeroesTurning(value) == value # 0 /\ signum(value) = -verticalMotorSign
Zeroes(value) == signum(value) = -verticalMotorSign

(* History: from reverse to forward, or from forward to reverse through a   *)
(* single stop.                                                             *)
NeedsCare(value) ==
    \/ value > 0 /\ direction = -1
    \/ value < 0 /\ direction = 0 /\ lastRun = 1

Remember ==
    LET halted == v = 0 /\ direction = 0 IN
    /\ direction' = signum(v)
    /\ stops' = IF v # 0 THEN 0 ELSE IF direction = 0 THEN 2 ELSE 1
    /\ lastRun' = IF halted THEN 0 ELSE IF v = 0 THEN lastRun ELSE signum(v)
    /\ careless' = (~halted /\ (careless \/ NeedsCare(v)))

(* verticalMotorWrite, called by motor_update in every loop(). *)
verticalMotorWrite ==
    /\ pin1' = IF v > 0 THEN v ELSE IF Zeroes(v) THEN 0 ELSE pin1
    /\ pin2' = IF v <= 0 THEN -v ELSE IF Zeroes(v) THEN 0 ELSE pin2
    /\ verticalMotorSign' = StoredSign(v)
    /\ Remember
    /\ UNCHANGED v

Next == Receive \/ verticalMotorWrite

Spec == Init /\ [][Next]_vars

-----------------------------------------------------------------------------
(* The pins are written what analogWrite takes, and the sign is a byte.     *)
TypeOK ==
    /\ v \in -255 .. 255
    /\ verticalMotorSign \in {0, 1, 255}
    /\ pin1 \in 0 .. 255 /\ pin2 \in 0 .. 255
    /\ direction \in {-1, 0, 1} /\ lastRun \in {-1, 0, 1}
    /\ stops \in 0 .. 2
    /\ careless \in BOOLEAN

BothDriven == pin1 > 0 /\ pin2 > 0

(* verticalMotorWrite is the one place to write these pins because it never *)
(* leaves both driven.  The code does.                                      *)
NeverBothDriven == ~BothDriven

(* It leaves both driven only after a reversal that needs care: from        *)
(* reverse to forward, as the byte holds 255 for -1 and its negation is     *)
(* never 1, or from forward to reverse through a single stop, as that stop  *)
(* forgets the direction and leaves the forward pin driven.                 *)
SafeWithCare == ~careless => ~BothDriven

(* Two stops in a row end every such state, and stop the motor.             *)
StopStops == stops = 2 => pin1 = 0 /\ pin2 = 0

(* The inductive invariant behind the two.                                  *)
IInv ==
    /\ TypeOK
    /\ verticalMotorSign = StoredSign(direction)
    /\ stops = 0 <=> direction # 0
    /\ direction # 0 => lastRun = direction
    /\ StopStops
    /\ ~careless =>
          /\ direction = 1 => pin2 = 0
          /\ direction = -1 => pin1 = 0
          /\ direction = 0 => pin2 = 0 /\ (pin1 > 0 => lastRun = 1)

=============================================================================
