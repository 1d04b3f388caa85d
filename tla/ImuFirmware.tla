---------------------------- MODULE ImuFirmware ----------------------------
(***************************************************************************)
(* The IMU board (arduino/SimpleIMUFirmware): settings that single         *)
(* characters change and the flash keeps, one line of readings per sample, *)
(* sent to the onboard computer and logged to an SD card; and how          *)
(* onboard/src/robot.cpp takes the readings out of a line.  A field of a   *)
(* line is its name, and a line in the log is its number.                  *)
(***************************************************************************)
EXTENDS Integers, SequencesExt

CONSTANTS
    Configured,             \* flash contents that earlier users have left
    WriteBuffer,            \* SD_LOG_WRITE_BUFFER_SIZE, in fields
    MaxFileSize,            \* SD_MAX_FILE_SIZE, in fields
    LogFiles,               \* LOG_FILE_INDEX_MAX
    MaxLines,               \* bound: lines made
    MaxChars,               \* bound: characters received
    MaxRestarts             \* bound: restarts of the board

VARIABLES
    pc,         \* of the board: off, programming, starting, running, storing
    settings,   \* the board's settings in RAM and in the sensor
    unwritten,  \* settings still to be written to the flash, in order
    flash,      \* [firstRun, values]
    card,       \* sdCardPresent, logFileName, logFileBuffer and the files' lines
    robot,      \* the onboard program: runs, first byte of the port's message buffer,
                \* imuLastReceivedMessage
    chosen,     \* history: the settings the user has chosen
    bare,       \* history: whether the settings in use have left every group off
    lost,       \* history: lines that a restart, or a card without a free name, has lost
    count       \* lines, characters and restarts, for the bounds
imuVars == <<pc, settings, unwritten, flash, card, robot, chosen, bare, lost, count>>

-----------------------------------------------------------------------------
(* Settings. *)
Groups == {"time", "accel", "gyro", "compass", "quat", "euler", "heading"}
Order == <<"sd", "serial", "time", "calc", "accel", "gyro", "compass", "quat", "euler",
           "heading", "accelFSR", "gyroFSR", "rate">>
Setting == ToSet(Order)

(* config.h.  SD logging is on: ENABLE_SD_LOGGING is defined false and then  *)
(* again as the character 's', before it is used.                           *)
Defaults == [s \in Setting |-> CASE s = "time" -> FALSE
                                 [] s = "accelFSR" -> 2
                                 [] s = "gyroFSR" -> 2000
                                 [] s = "rate" -> 100
                                 [] OTHER -> TRUE]
Blank == [s \in Setting |-> IF s \in {"accelFSR", "gyroFSR", "rate"} THEN 0 ELSE FALSE]

\* The fields of a line with every group.
LongestLine == 18

IsSettings(f) == f = [s \in Setting |-> f[s]]
ASSUME ImuAssumption ==
    /\ \A v \in Configured : IsSettings(v)
    /\ WriteBuffer \in Nat /\ MaxFileSize \in Nat /\ LogFiles \in Nat
    /\ LongestLine <= WriteBuffer /\ WriteBuffer <= MaxFileSize
    /\ MaxLines \in Nat /\ MaxChars \in Nat /\ MaxRestarts \in Nat

(* What a setting's character makes of it. *)
NextRate(r) == IF r = 1 THEN 10 ELSE IF r + 10 > 100 THEN 1 ELSE r + 10
Changed(s, v) ==
    CASE s = "rate" -> NextRate(v)
      [] s = "accelFSR" -> IF v \in {2, 4, 8} THEN 2 * v ELSE 2
      [] s = "gyroFSR" -> IF v \in {250, 500, 1000} THEN 2 * v ELSE 250
      [] OTHER -> ~v

(* One line: the fields of each group that is on.  Without any, not even    *)
(* the first "i" is left when the last character is removed.                *)
Fields(g) ==
    CASE g = "accel" -> <<"ax", "ay", "az">>
      [] g = "gyro" -> <<"gx", "gy", "gz">>
      [] g = "compass" -> <<"mx", "my", "mz">>
      [] g = "quat" -> <<"qw", "qx", "qy", "qz">>
      [] g = "euler" -> <<"ep", "er", "ey">>
      [] g = "heading" -> <<"ch">>
      [] OTHER -> <<g>>
Logs(s, g) == IF s[g] THEN Fields(g) ELSE <<>>
Line(s) ==
    Logs(s, "time")
        \o (Logs(s, "accel") \o Logs(s, "gyro") \o Logs(s, "compass")
               \o Logs(s, "quat") \o Logs(s, "euler") \o Logs(s, "heading"))
EmptyLine(s) == Line(s) = <<>>

-----------------------------------------------------------------------------
(* The SD card.  A file, and the buffer, is a sequence of [line, size].     *)
NoName == LogFiles
Sizes(text) ==
    LET upto[n \in 0 .. Len(text)] == IF n = 0 THEN 0 ELSE upto[n - 1] + text[n].size
    IN  upto
SizeOf(text) == Sizes(text)[Len(text)]
Exists(files, f) == files[f] # <<>>

(* The first name that no file has, or none. *)
NextLogFile(files) ==
    LET free == {f \in 0 .. LogFiles - 1 : ~Exists(files, f)} IN
    IF free = {} THEN NoName ELSE CHOOSE f \in free : \A g \in free : f <= g

(* Mutant of sdLogString: the next file is opened when this one is full.    *)
sdLogStringFull(c) ==
    LET toLog == c.buffer
        full == c.name # NoName /\ SizeOf(c.files[c.name]) > MaxFileSize
        name == IF full THEN NextLogFile(c.files) ELSE c.name
    IN [c EXCEPT !.name = name, !.buffer = <<>>,
                 !.files = IF name = NoName THEN @ ELSE [c.files EXCEPT ![name] = @ \o toLog]]

(* sdLogString of the buffer, and the buffer cleared.  Without a name it    *)
(* opens the root directory, which takes no text.                           *)
sdLogString(c) ==
    LET toLog == c.buffer
        full == /\ c.name # NoName
                /\ SizeOf(c.files[c.name]) > MaxFileSize - SizeOf(toLog)
        name == IF full THEN NextLogFile(c.files) ELSE c.name
    IN [c EXCEPT !.name = name, !.buffer = <<>>,
                 !.files = IF name = NoName THEN @ ELSE [c.files EXCEPT ![name] = @ \o toLog]]

Flushes(c, size) == size + SizeOf(c.buffer) >= WriteBuffer
LogLine(c, entry) ==
    LET d == IF Flushes(c, entry.size) THEN sdLogString(c) ELSE c IN
    [d EXCEPT !.buffer = Append(@, entry)]

LinesIn(text) == {text[i].line : i \in DOMAIN text}
Logged(c) == LinesIn(c.buffer) \cup UNION {LinesIn(c.files[f]) : f \in DOMAIN c.files}

-----------------------------------------------------------------------------
(* The onboard computer. *)

(* imuLastReceivedMessage, for a message that begins with 'i'.  A message   *)
(* of length 0 is judged by the first byte of the one before, and after an  *)
(* 'i' length - 1 bytes are copied: that ends the program.                  *)
serialReceiveMessage(r, line) ==
    IF line # <<>> THEN [r EXCEPT !.first = "i", !.last = line]
    ELSE IF r.first = "i" THEN [r EXCEPT !.runs = FALSE]
    ELSE r
RobotStarted == [runs |-> TRUE, first |-> "0", last |-> <<>>]

(* updateRobotTelemetry: the readings by position, under these names.       *)
Names == <<"ax", "ay", "az">> \o <<"gx", "gy", "gz">> \o <<"mx", "my", "mz">>
             \o <<"qw", "qx", "qy", "qz">> \o <<"ep", "er", "ey">> \o <<"ch">>
(* Mutant of Readings: the number of fields is not looked at. *)
ReadingsAny(last) == last
Readings(last) == IF Len(last) >= Len(Names) THEN SubSeq(last, 1, Len(Names)) ELSE <<>>

-----------------------------------------------------------------------------
ImuInit ==
    /\ pc = "off"
    /\ settings = Defaults
    /\ unwritten = <<>>
    /\ \/ flash = [firstRun |-> FALSE, values |-> Blank] /\ chosen = Defaults
       \/ \E v \in Configured : flash = [firstRun |-> TRUE, values |-> v] /\ chosen = v
    /\ card = [present |-> FALSE, name |-> NoName, buffer |-> <<>>,
               files |-> [f \in 0 .. LogFiles - 1 |-> <<>>]]
    /\ robot = RobotStarted
    /\ bare = FALSE /\ lost = {}
    /\ count = [lines |-> 0, chars |-> 0, restarts |-> 0]

(* initLoggingParams: the first run writes the defaults, later ones read.   *)
PowerUp ==
    /\ pc = "off"
    /\ IF flash.firstRun
       THEN settings' = flash.values /\ pc' = "starting" /\ UNCHANGED unwritten
       ELSE unwritten' = Order /\ pc' = "programming" /\ UNCHANGED settings
    /\ bare' = (bare \/ EmptyLine(settings'))
    /\ UNCHANGED <<flash, card, robot, chosen, lost, count>>

(* Mutant of WriteFirst: flashFirstRun is written before the settings.      *)
WriteFirstRunFirst(f, todo) ==
    [firstRun |-> TRUE, values |-> [f.values EXCEPT ![Head(todo)] = settings[Head(todo)]]]

(* One write to the flash; flashFirstRun comes after the others.            *)
WriteFirst(f, todo) ==
    [f EXCEPT !.values = [@ EXCEPT ![Head(todo)] = settings[Head(todo)]]]

WriteDefaults ==
    /\ pc = "programming"
    /\ IF unwritten # <<>>
       THEN flash' = WriteFirst(flash, unwritten) /\ unwritten' = Tail(unwritten) /\ UNCHANGED pc
       ELSE flash' = [flash EXCEPT !.firstRun = TRUE] /\ pc' = "starting" /\ UNCHANGED unwritten
    /\ UNCHANGED <<settings, card, robot, chosen, bare, lost, count>>

(* initIMU, which succeeds, and initSD, with a card in the slot or without. *)
Start ==
    /\ pc = "starting"
    /\ pc' = "running"
    /\ \E present \in BOOLEAN :
           card' = [card EXCEPT !.present = present,
                                !.name = IF present THEN NextLogFile(card.files) ELSE NoName]
    /\ UNCHANGED <<settings, unwritten, flash, robot, chosen, bare, lost, count>>

(* parseSerialInput: the setting is changed, then written to the flash.     *)
parseSerialInput(s) ==
    /\ pc = "running" /\ count.chars < MaxChars
    /\ count' = [count EXCEPT !.chars = @ + 1]
    /\ settings' = [settings EXCEPT ![s] = Changed(s, @)]
    /\ pc' = "storing"
    /\ unwritten' = <<s>>
    /\ bare' = (bare \/ EmptyLine(settings'))
    /\ UNCHANGED <<flash, card, robot, chosen, lost>>

Store ==
    /\ pc = "storing"
    /\ flash' = WriteFirst(flash, unwritten)
    /\ unwritten' = <<>>
    /\ pc' = "running"
    /\ chosen' = settings
    /\ UNCHANGED <<settings, card, robot, bare, lost, count>>

(* loop() with a new sample: the line is sent whenever either way of        *)
(* logging is on; the cable delivers it, or not.                            *)
logIMUData ==
    /\ pc = "running" /\ count.lines < MaxLines
    /\ settings["serial"] \/ settings["sd"]
    /\ count' = [count EXCEPT !.lines = @ + 1]
    /\ robot' \in {robot, IF robot.runs THEN serialReceiveMessage(robot, Line(settings)) ELSE robot}
    /\ LET entry == [line |-> count'.lines, size |-> Len(Line(settings))] IN
       IF card.present /\ settings["sd"]
       THEN /\ card' = LogLine(card, entry)
            /\ lost' = lost \cup (IF card'.name = NoName THEN LinesIn(card.buffer) \ Logged(card') ELSE {})
       ELSE lost' = lost \cup {entry.line} /\ UNCHANGED card
    /\ UNCHANGED <<pc, settings, unwritten, flash, chosen, bare>>

(* The board loses its power, or is reset; so does the onboard program.     *)
Restart ==
    /\ pc # "off" /\ count.restarts < MaxRestarts
    /\ count' = [count EXCEPT !.restarts = @ + 1]
    /\ pc' = "off"
    /\ settings' = Defaults
    /\ unwritten' = <<>>
    /\ lost' = lost \cup LinesIn(card.buffer)
    /\ card' = [card EXCEPT !.buffer = <<>>]
    /\ UNCHANGED <<flash, robot, chosen, bare>>
RobotRestarts ==
    /\ robot # RobotStarted
    /\ robot' = RobotStarted
    /\ UNCHANGED <<pc, settings, unwritten, flash, card, chosen, bare, lost, count>>

ImuNext ==
    \/ PowerUp \/ WriteDefaults \/ Start \/ Store \/ logIMUData
    \/ \E s \in Setting : parseSerialInput(s)
    \/ Restart \/ RobotRestarts
ImuSpec == ImuInit /\ [][ImuNext]_imuVars

-----------------------------------------------------------------------------
(* Properties. *)

(* initLoggingParams and parseSerialInput keep the user's settings over a   *)
(* restart at any point, the first run's included: the board runs with what *)
(* was chosen, and at most a character that was being stored is lost.       *)
SettingsSurvive == pc \in {"starting", "running"} => settings = chosen /\ flash.values = chosen

(* sdLogString: what is logged is on the card or in the buffer, in order    *)
(* and once, in files that do not grow beyond their limit, but for the      *)
(* lines that were in the buffer at a restart or found no free file name.   *)
Before(s, t) == \A i \in DOMAIN s : \A j \in DOMAIN t : s[i].line < t[j].line
Ascending(s) == \A i, j \in DOMAIN s : i < j => s[i].line < s[j].line
LogKept ==
    /\ Logged(card) \cup lost = 1 .. count.lines
    /\ Logged(card) \cap lost = {}
    /\ Ascending(card.buffer)
    /\ \A f \in DOMAIN card.files :
           /\ Ascending(card.files[f]) /\ Before(card.files[f], card.buffer)
           /\ \A g \in DOMAIN card.files : f < g => Before(card.files[f], card.files[g])
           /\ SizeOf(card.files[f]) <= MaxFileSize

(* updateRobotTelemetry reads by position what logIMUData writes by group:  *)
(* whichever groups are on, a value appears under the wrong name only while *)
(* time is logged, and the onboard program ends only over a line of a board *)
(* that had every group off.                                                *)
ReadByName ==
    /\ \A i \in DOMAIN Readings(robot.last) :
           "time" \notin ToSet(robot.last) => Readings(robot.last)[i] = Names[i]
    /\ ~robot.runs => bare

=============================================================================
