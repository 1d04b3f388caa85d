------------------------- MODULE TelemetryReadings -------------------------
(***************************************************************************)
(* The robot's CPU percentage on its way to the pilot's readout, and what  *)
(* it takes with it: Telemetry::getSystemCPUUsage of src/telemetry.cpp,    *)
(* the loop of onboard/src/server.cpp that sends it with the readings of   *)
(* the IMU, and on_message of mission-control/src/network.cpp.             *)
(* A percentage is the pair of ticks it is computed from.                  *)
(***************************************************************************)
EXTENDS Integers

CONSTANTS
    Second,      \* units of the clock for which a percentage is kept
    TickSteps,   \* what the two counters advance by in a unit of the clock
    MaxClock,    \* bound: units of time
    MaxSamples,  \* bound: readings of the IMU
    MaxBack      \* bound: times that the kernel lets a counter go back

ASSUME TelAssumption ==
    /\ Second \in Nat \ {0} /\ MaxClock \in Nat /\ MaxSamples \in Nat /\ MaxBack \in Nat
    /\ TickSteps \subseteq Nat \X Nat /\ <<0, 0>> \notin TickSteps

VARIABLES
    clock,       \* Time::millis(), in units
    stat,        \* /proc/stat: [busy, idle, back]
    telemetry,   \* the Telemetry object: [busy, idle, percent, time]
    sample,      \* the IMU's readings: their number
    message,     \* the state on its way to the client, or none
    connectionData,  \* the state sent last
    screen,      \* the client's current["imu"]
    calls        \* history: when the last call was, the latest sample sent and when
telVars == <<clock, stat, telemetry, sample, message, connectionData, screen, calls>>

-----------------------------------------------------------------------------
NoMessage == [cpu |-> <<0, 0>>, imu |-> 0]
Never == -Second

(* percent /= total, of doubles: a number, or not one. *)
IsNumber(percent) == percent[2] > 0

TelInit ==
    /\ clock = 0
    /\ stat = [busy |-> 0, idle |-> 0, back |-> 0]
    /\ telemetry = [busy |-> 0, idle |-> 0, percent |-> <<0, 1>>, time |-> Never]
    /\ sample = 1
    /\ message = NoMessage /\ connectionData = NoMessage
    /\ screen = 0
    /\ calls = [time |-> 0, sent |-> 0, sentTime |-> 0]

(* Time goes on and the kernel counts at least one tick of some processor;  *)
(* now and then its count of idle ticks goes back.                          *)
Ticks ==
    /\ clock < MaxClock
    /\ clock' = clock + 1
    /\ \/ \E step \in TickSteps :
              stat' = [busy |-> stat.busy + step[1], idle |-> stat.idle + step[2], back |-> stat.back]
       \/ /\ stat.back < MaxBack /\ stat.idle > 0
          /\ stat' = [busy |-> stat.busy, idle |-> stat.idle - 1, back |-> stat.back + 1]
    /\ UNCHANGED <<telemetry, sample, message, connectionData, screen, calls>>

NewSample ==
    /\ sample < MaxSamples
    /\ sample' = sample + 1
    /\ UNCHANGED <<clock, stat, telemetry, message, connectionData, screen, calls>>

-----------------------------------------------------------------------------
(* Mutant of TooSoon: the time of the last reading is not looked at.           *)
TooSoonNever(tel) == FALSE
TooSoon(tel) == clock < Second + tel.time

WentBack(tel) == stat.busy < tel.busy \/ stat.idle < tel.idle

(* The percentage since the last reading; the old one when it is too soon,  *)
(* or when a counter has gone back.                                         *)
getSystemCPUUsage(tel) ==
    IF TooSoon(tel) \/ WentBack(tel) THEN tel
    ELSE [busy |-> stat.busy, idle |-> stat.idle, time |-> clock,
          percent |-> <<stat.busy - tel.busy, stat.busy - tel.busy + stat.idle - tel.idle>>]

(* Whether two states are the same to the server: what is no number is      *)
(* never the same.                                                          *)
Rounded(percent) == (200 * percent[1] + percent[2]) \div (2 * percent[2])
Same(state, last) ==
    /\ state.imu = last.imu
    /\ IsNumber(state.cpu) /\ IsNumber(last.cpu) /\ Rounded(state.cpu) = Rounded(last.cpu)

(* One turn of the server's loop, with the readings of the IMU.  A state is *)
(* sent when the client has acknowledged the one before, unless nothing has *)
(* changed: the percentage, the readings or something else in the state.    *)
ServerTurn ==
    /\ telemetry' = getSystemCPUUsage(telemetry)
    /\ LET state == [cpu |-> telemetry'.percent, imu |-> sample] IN
       \/ /\ message = NoMessage
          /\ message' = state /\ connectionData' = state
          /\ calls' = [time |-> clock, sent |-> sample, sentTime |-> clock]
       \/ /\ message # NoMessage \/ Same(state, connectionData)
          /\ calls' = [calls EXCEPT !.time = clock]
          /\ UNCHANGED <<message, connectionData>>
    /\ UNCHANGED <<clock, stat, sample, screen>>

(* on_message: a percentage that is no number comes as null, whose          *)
(* conversion throws before the readings of the IMU are assigned.           *)
ClientTurn ==
    /\ message # NoMessage
    /\ screen' = IF IsNumber(message.cpu) THEN message.imu ELSE screen
    /\ message' = NoMessage
    /\ UNCHANGED <<clock, stat, telemetry, sample, connectionData, calls>>

TelNext == Ticks \/ NewSample \/ ServerTurn \/ ClientTurn
TelSpec == TelInit /\ [][TelNext]_telVars

-----------------------------------------------------------------------------
(* Properties. *)

(* A percentage is of ticks counted, and never of ticks that went back.     *)
(* Unless a counter goes back it is no number only in the first second,     *)
(* when the first turn came before a tick, and only then is the pilot's IMU *)
(* not the one sent.                                                        *)
ReadingsReach ==
    /\ telemetry.percent[1] \in 0 .. telemetry.percent[2]
    /\ stat.back = 0 /\ calls.time >= Second => IsNumber(telemetry.percent)
    /\ stat.back = 0 /\ calls.sentTime >= Second /\ message = NoMessage => screen = calls.sent

=============================================================================
