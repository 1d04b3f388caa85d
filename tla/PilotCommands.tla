--------------------------- MODULE PilotCommands ---------------------------
(***************************************************************************)
(* A command from the pilot's hands to the motors: the two joysticks that  *)
(* the control thread opens (mission-control/src/control.cpp) and the      *)
(* network thread reads (controller.cpp, network.cpp), the conversion to   *)
(* motor values, the robot that hands complete ones to the motor           *)
(* controller (onboard/src/robot.cpp), and the values the Arduino holds.   *)
(* The websocket connection is reduced to what ControlLink shows of it     *)
(* where no send overlaps on_open: one command in flight, none late.       *)
(* A motor value is abstracted to the reading it was computed from, so two *)
(* positions stand for readings whose motor values all differ.             *)
(***************************************************************************)
EXTENDS Integers, FiniteSets

CONSTANTS
    Pads,         \* joysticks; at most two are ever plugged in
    Kind,         \* "D" (four axes) or "X" (six)
    Positions,    \* of a pad's sticks; 0 is the centre
    NoPad,        \* nullptr
    MaxFaults     \* bound: restarts of programs, breaks, losses and pads unplugged

ASSUME PilotAssumption ==
    /\ IsFiniteSet(Pads) /\ Cardinality(Pads) <= 2 /\ NoPad \notin Pads
    /\ Kind \in [Pads -> {"D", "X"}]
    /\ Positions \subseteq Int /\ 0 \in Positions
    /\ MaxFaults \in Nat

VARIABLES
    plugged, position,  \* the pads: which are plugged in, where their sticks are
    devices,            \* SDL's list since it was last initialised
    joystick,           \* of controller1 and controller2
    opening,            \* the control thread has set the first of them, not yet the second
    first,              \* the network thread's reading of controller1, once it has it
    motors,             \* toRobot["motors"]
    up, lastSent,       \* the connection, clientConnectionData
    inFlight,           \* the command on its way to the robot, if any
    identified,         \* serial_motorcontrol is not nullptr
    wire,               \* the fast message on its way to the Arduino, if any
    motorvals,          \* of the Arduino
    missed,             \* history: the last command sent to the Arduino did not take hold
    faults              \* count, for the bound

pads == <<plugged, position>>
console == <<devices, joystick, opening, first, motors, lastSent>>
robot == <<identified, wire, motorvals>>
vars == <<pads, console, up, inFlight, robot, missed, faults>>

Reading == [pad : Pads, pos : Positions]
Disconnected == [pad |-> NoPad, pos |-> 0]
Unread == [pad |-> NoPad, pos |-> -1]        \* no reading was made in this iteration yet

\* ul, ur, bl and br; v; a1 and a2; a3 and a4.
Fields == {"drive", "v", "arm", "claw"}
NoValues == [f \in Fields |-> Disconnected]  \* {}, and what the Arduino starts with
Nothing == [f \in Fields |-> Unread]         \* no command is on its way
Command == [Fields -> Reading \cup {Disconnected}]
Complete(c) == \A f \in Fields : c[f] # Disconnected

Init ==
    /\ plugged \in SUBSET Pads /\ position = [p \in Pads |-> 0]
    /\ devices = [i \in 1 .. 2 |-> NoPad] /\ joystick = devices /\ opening = FALSE
    /\ first = Unread /\ motors = NoValues /\ lastSent = NoValues
    /\ up = FALSE /\ inFlight = Nothing
    /\ identified = FALSE /\ wire = Nothing /\ motorvals = NoValues
    /\ missed = FALSE /\ faults = 0

-----------------------------------------------------------------------------
(* The pilot. *)

Fault == faults < MaxFaults /\ faults' = faults + 1

Plug(p) ==
    /\ p \notin plugged
    /\ plugged' = plugged \cup {p}
    /\ UNCHANGED <<position, console, up, inFlight, robot, missed, faults>>

\* The handle of a pad that is no longer there goes on giving positions: the last or the centre.
Unplug(p) ==
    /\ Fault /\ p \in plugged
    /\ plugged' = plugged \ {p}
    /\ position' \in {position, [position EXCEPT ![p] = 0]}
    /\ UNCHANGED <<console, up, inFlight, robot, missed>>

Move(p) ==
    /\ p \in plugged
    /\ \E pos \in Positions \ {position[p]} : position' = [position EXCEPT ![p] = pos]
    /\ UNCHANGED <<plugged, console, up, inFlight, robot, missed, faults>>

-----------------------------------------------------------------------------
(* Mission control, control thread. *)

\* SDL numbers the pads it finds when it is initialised, in any order.
Numbered(d) ==
    /\ {d[1], d[2]} \ {NoPad} = plugged
    /\ d[1] = d[2] => d[1] = NoPad
    /\ d[1] = NoPad => d[2] = NoPad

\* Mutant of MayReopen: refresh as well as no pad.
MayReopenRefreshed == FALSE

\* Both mode() are 0; nothing sets refresh.
MayReopen == \A i \in 1 .. 2 : joystick[i] = NoPad

\* A new start of SDL and of controller1 ...
Reopen ==
    /\ ~opening /\ MayReopen
    /\ devices' \in [1 .. 2 -> Pads \cup {NoPad}] /\ Numbered(devices')
    /\ joystick' = [joystick EXCEPT ![1] = devices'[1]]
    /\ opening' = TRUE
    /\ UNCHANGED <<pads, first, motors, lastSent, up, inFlight, robot, missed, faults>>

\* ... and then of controller2.
ReopenSecond ==
    /\ opening
    /\ joystick' = [joystick EXCEPT ![2] = devices[2]]
    /\ opening' = FALSE
    /\ UNCHANGED <<pads, devices, first, motors, lastSent, up, inFlight, robot, missed, faults>>

-----------------------------------------------------------------------------
(* Mission control, network thread: one iteration is ReadFirst and Iterate. *)

\* controllerDataBucket
ReadPad(i) == IF joystick[i] = NoPad THEN Disconnected
              ELSE [pad |-> joystick[i], pos |-> position[joystick[i]]]

ReadFirst ==
    /\ first = Unread
    /\ first' = ReadPad(1)
    /\ UNCHANGED <<pads, devices, joystick, opening, motors, lastSent, up, inFlight, robot,
                   missed, faults>>

OfKind(k) == {p \in Pads : Kind[p] = k}

\* A pad of kind D gives its vertical axis in [-1, 1], which the conversion takes for
\* [-255, 255] and cuts to 0.
Vertical(r) == IF r.pad \in OfKind("D") THEN [r EXCEPT !.pos = 0] ELSE r

\* The assignments in order, up to the first that throws: a pad that is not connected has no
\* axes, and one of kind D no "t", which a3 needs.
Converted(r1, r2) ==
    LET driven == [motors EXCEPT !["drive"] = r1, !["v"] = Vertical(r1)]
        armed == [driven EXCEPT !["arm"] = r2]
    IN IF r1 = Disconnected THEN motors
       ELSE IF r2 = Disconnected THEN driven
       ELSE IF r2.pad \in OfKind("D") THEN armed
       ELSE [armed EXCEPT !["claw"] = r2]

\* Mutant of MaySend: only the first command is sent.
MaySendFirst(c) == up /\ inFlight = Nothing /\ lastSent = NoValues

\* send(): the robot has acknowledged what was sent last, and this is something else.
MaySend(c) == up /\ inFlight = Nothing /\ c # lastSent

Iterate ==
    /\ first # Unread
    /\ LET command == Converted(first, ReadPad(2)) IN
       /\ motors' = command
       /\ IF MaySend(command) THEN lastSent' = command /\ inFlight' = command
                              ELSE UNCHANGED <<lastSent, inFlight>>
    /\ first' = Unread
    /\ UNCHANGED <<pads, devices, joystick, opening, up, robot, missed, faults>>

-----------------------------------------------------------------------------
(* The connection. *)

\* Mutant of Connect: on_open remembers the current command and does not send it.
ConnectSilent ==
    /\ ~up
    /\ up' = TRUE
    /\ lastSent' = motors
    /\ UNCHANGED <<pads, devices, joystick, opening, first, motors, inFlight, robot, missed, faults>>

\* on_open sends the current command.
Connect ==
    /\ ~up
    /\ up' = TRUE
    /\ lastSent' = motors /\ inFlight' = motors
    /\ UNCHANGED <<pads, devices, joystick, opening, first, motors, robot, missed, faults>>

Break ==
    /\ Fault /\ up
    /\ up' = FALSE /\ inFlight' = Nothing
    /\ UNCHANGED <<pads, console, robot, missed>>

-----------------------------------------------------------------------------
(* The robot. *)

\* A message of the motor controller was received.
Identify ==
    /\ ~identified
    /\ identified' = TRUE
    /\ UNCHANGED <<pads, console, up, inFlight, wire, motorvals, missed, faults>>

\* Mutant of Accepts: a value that is missing does not matter.
AcceptsAny(c) == c["drive"] # Disconnected

\* Every conversion to short succeeds.
Accepts(c) == Complete(c)

\* on_message and updateRobotControls, and the acknowledgement.  The serial port takes a
\* message if there is room.
Handle ==
    /\ inFlight # Nothing
    /\ inFlight' = Nothing
    /\ IF ~Accepts(inFlight) THEN UNCHANGED <<wire, missed>>
       ELSE IF identified /\ wire = Nothing THEN wire' = inFlight /\ missed' = FALSE
       ELSE missed' = TRUE /\ UNCHANGED wire
    /\ UNCHANGED <<pads, console, up, identified, motorvals, faults>>

\* The Arduino's receiveMessageCallback.
Deliver ==
    /\ wire # Nothing
    /\ motorvals' = wire /\ wire' = Nothing
    /\ UNCHANGED <<pads, console, up, inFlight, identified, missed, faults>>

Lose ==
    /\ Fault /\ wire # Nothing
    /\ wire' = Nothing /\ missed' = TRUE
    /\ UNCHANGED <<pads, console, up, inFlight, identified, motorvals>>

ConsoleRestarts ==
    /\ Fault
    /\ devices' = [i \in 1 .. 2 |-> NoPad] /\ joystick' = devices' /\ opening' = FALSE
    /\ first' = Unread /\ motors' = NoValues /\ lastSent' = NoValues
    /\ up' = FALSE /\ inFlight' = Nothing
    /\ UNCHANGED <<pads, robot, missed>>

RobotRestarts ==
    /\ Fault
    /\ up' = FALSE /\ inFlight' = Nothing /\ identified' = FALSE
    /\ UNCHANGED <<pads, console, wire, motorvals, missed>>

ArduinoRestarts ==
    /\ Fault
    /\ motorvals' = NoValues
    /\ missed' = (missed \/ wire = Nothing)
    /\ UNCHANGED <<pads, console, up, inFlight, identified, wire>>

Pilot == \E p \in Pads : Plug(p) \/ Unplug(p) \/ Move(p)
ControlThread == Reopen \/ ReopenSecond
NetworkThread == ReadFirst \/ Iterate
Faults == Break \/ Lose \/ ConsoleRestarts \/ RobotRestarts \/ ArduinoRestarts
Next == Pilot \/ ControlThread \/ NetworkThread \/ Connect \/ Identify \/ Handle \/ Deliver \/ Faults
Spec == Init /\ [][Next]_vars

\* Every thread runs and every message arrives or is lost; the pilot does what he likes.
FairSpec ==
    /\ Spec
    /\ WF_vars(ControlThread) /\ WF_vars(NetworkThread)
    /\ WF_vars(Identify) /\ WF_vars(Handle) /\ WF_vars(Deliver)

-----------------------------------------------------------------------------
(* Properties. *)

\* Type invariant.
TypeOK ==
    /\ plugged \subseteq Pads /\ position \in [Pads -> Positions]
    /\ {devices, joystick} \subseteq [1 .. 2 -> Pads \cup {NoPad}]
    /\ first \in Reading \cup {Disconnected, Unread}
    /\ {motors, lastSent, motorvals} \subseteq Command
    /\ {inFlight, wire} \subseteq Command \cup {Nothing}
    /\ {opening, up, identified, missed} \subseteq BOOLEAN

\* The motors are never run by one pad alone, or by a pair whose second lacks the triggers:
\* as long as a motor value is missing the robot throws the whole command away.
TwoPadsObeyed ==
    motorvals # NoValues =>
        /\ motorvals["drive"].pad # motorvals["arm"].pad
        /\ motorvals["claw"].pad = motorvals["arm"].pad
        /\ motorvals["arm"].pad \in OfKind("X")

\* When nothing is on its way, the Arduino holds what the client believes to have sent, unless
\* its last command was lost or dropped or its values were reset: the flags and records of the
\* four parties agree.
Agreement ==
    up /\ inFlight = Nothing /\ wire = Nothing /\ ~missed /\ Complete(lastSent)
        => motorvals = lastSent

\* A pad that stays plugged in is opened, if no other was.
PadFound == <>[](plugged # {}) => <>[](joystick[1] # NoPad)

\* The command for the pads as they are.
Wanted ==
    LET r1 == ReadPad(1) r2 == ReadPad(2)
    IN [drive |-> r1, v |-> Vertical(r1), arm |-> r2, claw |-> r2]
Attached == up /\ joystick[1] # NoPad /\ joystick[2] \in OfKind("X")

\* While both pads are open, the connection holds and the pilot rests, the motors come to obey
\* him for good, unless the last command was missed: nothing sends it again.
Obeys ==
    <>[]Attached /\ <>[][UNCHANGED <<position, joystick>>]_vars
        => <>[](motorvals = Wanted \/ missed)

=============================================================================
