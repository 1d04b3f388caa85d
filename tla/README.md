# Robosub-CVLib: a TLA+ development

Robosub-CVLib is the software of an underwater robot: an onboard computer that
reads cameras and sensors and commands motors, one Arduino that drives the motors
and another that reads an IMU, and a pilot's console ("mission control") on shore.
This directory models the parts whose correctness depends on the order of
events, checks them with TLC on small instances, and proves the most important
facts with TLAPS for every value of the constants.

Source paths are relative to the repository's root (PROJECT.json puts `src/` in
front of them).

## 1. Inventory

### 1.1 Components

**Universal serial protocol** (`src/robosub-serial.h`; copies in
`arduino/SimpleIMUFirmware`, `arduino/tests/BasicCommunication`, an older variant
in `arduino/arduinoMain`). State: `Serial_State`, that is the byte parser (state,
escape flag, flags, sequence number, CRC, 256 data bytes), the last number used,
and what a waiting send awaits. Operations: `Serial_SendMessage`,
`Serial_SendMessageNeedsResponse`, `Serial_ReceiveChar`; a send that needs an
answer polls for input inside `Serial_SendMessageComplex`. Correct when: a
reliable send returns only if its message was delivered, messages arrive in
order, fast ones at most once, and a frame that passes the parser was sent.

**`Serial` class** (`src/serial.cpp`). State: a read buffer filled by `read` and
emptied by `receiveAllMessages`, a send buffer of 516 bytes filled byte by byte and
written when the last byte of a frame is appended. Correct when no frame is cut
and no byte processed twice.

**Onboard server** (`onboard/src/server.cpp`). State: the current telemetry and,
per websocket connection, the state last sent (`connectionData`) and the flow
control flag `ready` (`connectionState`). Two threads without a lock: the
websocket thread runs `on_open`, `on_message`, `on_close` and `on_error`; the main
thread collects telemetry and sends it to every connection that is ready.
Correct when a client that stays connected gets the latest state, one message
is in flight at a time, and closed connections leave nothing behind.

**Mission control client** (`mission-control/src/network.cpp`). The other end of
the same exchange: `clientConnected`, `clientConnectionState.ready`, the command
last sent; a client thread that connects, runs the callbacks and reconnects after
a second, and a main thread that sends commands when ready. Correct when, while
connected, the robot's last command is eventually the pilot's current one.

**Robot state** (`onboard/src/robot.cpp`). Which serial port is the motor
controller and which the IMU, found by the first byte of what they send; motor
values computed from commands and sent fast; telemetry read from the IMU. Correct
when each message goes to the board that understands it, also before both ports
are identified.

**Motor controller firmware** (`arduino/arduinoMain/arduinoMain.ino`). The motor
values last received, the sign of the vertical motor and the two pins of its
H-bridge. Correct when the two pins are never driven together and a stop stops.

**IMU firmware** (`arduino/SimpleIMUFirmware`). State: thirteen settings in RAM, their
copies in flash and the mark of the first run, the log's buffer and current file. Operations: start,
a sample (a line sent as a fast message and logged), a character that changes a setting.
Correct when settings survive a reset at any point, no logged line is lost or doubled, and the
onboard computer takes each reading for what it is.

**UDP transport** (`src/networkudp.cpp`): sockets, a receive buffer to which each call adds one datagram, a
text encoding without null bytes. **UDP video** (`src/networkvideo.cpp`): a frame is
sent as packets of scattered pixels with a frame number; the receiver fills an
image, and a call returns at the first packet of a later frame, which it drops.
Correct when what a call draws is of one frame, a frame whose packets all arrive
fills the image, and calls return while packets keep coming.

**TCP transport** (`src/networktcp.cpp`) and **TCP video** (`onboard/src/video.cpp`,
`video-control/src/video.cpp`): frames with a 16-byte header over one connection;
both sides reconnect on errors and timeouts. State: on the robot the accepted
connection and the segment to send next; at the viewer the bytes still missing
from the frame and a count of reads that gained nothing. Correct when no picture is
put together from two frames, the viewer finds the next header after any
break, and a connection is left only when it does not work.

**Telemetry and data buckets** (`src/telemetry.cpp`): a JSON value that can be sent as its
difference from another, on `diff` and `patch` of `include/robosub/json`, and CPU and memory
readings, of which the CPU percentage is kept for a second. Correct when applying a
difference gives the newer state and a percentage is one of the ticks counted.

**Websocket library** (`include/robosub/ws`, vendored, but it carries every command and every telemetry
state). State: at the server a queue of frames, at the client one buffer that all reads fill.
Correct when `on_message` gets the messages sent, whole and in order.

**Mission control user interface** (`mission-control/src/main.cpp`, `control.cpp`,
`controller.cpp`, `robotState.cpp`, `readout.cpp`): joystick input mapped to motor
commands, graphs of telemetry. Two threads share the joysticks: one re-opens them,
the other reads them. Correct when the motor values sent are those of the pads'
current positions.

**Utilities** (`src/util.cpp`, `fps.cpp`, `timeutil.cpp`, `videoio.cpp`, `image.cpp`,
`color.cpp`): moving averages and frame rates over ring buffers, string
splitting, cameras, OpenCV wrappers.

**Image processing** (`src/image-processing/`): shape recognition with a vote over
the last frames, and a genetic search for its parameters.

Left aside: the rest of the vendored code (most of `include/robosub/json`, cvplot, the
SparkFun IMU firmware), samples under `test/` and data files.

### 1.2 How they interact

    mission control --commands--> onboard server --motor values--> serial --> Arduino (motors)
                    <--telemetry--               <--readings-----  serial <-- Arduino (IMU)
    video control   <==frames over TCP (or UDP)== onboard camera thread

The two websocket ends exchange JSON states and one-byte acknowledgements; each
end sends its next state only after the other acknowledged the previous one. The
onboard server's websocket thread calls `updateRobotControls`, which writes to the
serial port that the main thread reads in `updateRobotTelemetry`.

### 1.3 What is hard

* Two threads per websocket end share maps and flags without a lock; a callback
  may run between a check and the use of what was checked.
* Connections break and come back at any point, with messages in flight.
* Serial frames are lost or corrupted; acknowledgements are late, doubled, or
  match a number that has wrapped or was restarted.
* The serial parser must find the next frame after any noise.
* Buffers have limits (256 data bytes, 516 bytes per frame, 16-byte headers).
* A sender and a receiver of video that both wait for the other.

### 1.4 Hazards

PROJECT.json lists, at their lines, the things that can go wrong here and that a test would
hardly reach, each with the properties that would show it. They are of six sorts: what a
late, doubled or wrapped acknowledgement releases (serial link); what the two
threads of a websocket end do to each other's flag and state across a
reconnection; how a byte or frame parser finds its step again after noise, a cut or a
short read; who waits for whom when both ends of a video connection have given up
different connections; numbers that wrap, divide by zero or lose their sign in a byte; what a
reset, a full buffer or a full file leaves of what was being kept.

A hazard lists only the properties that fail when it goes wrong. Where the code itself lets it happen, the
model reaches it and the properties have to except it: such a hazard has a note that says so, and no property if nothing of
it is left to check (section 4 lists the exceptions).

## 2. Plan

### 2.1 Modules, in order

| Module | Models | State |
| --- | --- | --- |
| `SerialLink` | the serial protocol at the level of frames, two nodes | modelled, proved |
| `SerialChannel` | what the link promises: its abstract specification | modelled; that the link implements its safety is proved |
| `SerialParser`, `SerialCRC` | the same protocol at the level of bytes | modelled, proved |
| `ControlLink` | both websocket ends, two threads each | modelled, proved |
| `VerticalMotor` | the H-bridge of the vertical motor | modelled, proved |
| `VideoTcp` | camera thread and viewer over TCP | modelled, proved |
| `VideoUdp` | sender and receiver of scattered pixels | modelled, proved |
| `PilotCommands` | joysticks, the commands made of them, the robot's checks, the Arduino's motor values | modelled, proved |
| `WebSocket` | the library's frames, from the server's queue to the client's reader | modelled, proved |
| `ImuFirmware` | settings, flash, log and lines of the IMU board; the readings the robot takes from them | modelled, proved |
| `JsonPatch` | deltas of states: `diff` and `patch` | modelled, proved |
| `UdpTransport` | messages of any length through the receive buffer | modelled, proved |
| `TelemetryReadings` | the CPU percentage and the readings that travel with it | modelled, proved |
| `FlowControl` | one state in flight, and none delivered after a newer one: what each direction of `ControlLink` promises | modelled; that both directions implement it is proved |
| `ParameterTuner`, ring buffers, vote of the shape counts | pure algorithms against their reference definitions | planned |

`SerialLink` instantiates `SerialChannel` with a refinement mapping, and `ControlLink` instantiates `FlowControl`
with one for each direction.
`SerialParser` justifies the abstraction of `SerialLink` (a damaged frame is a lost
frame). `VideoUdp` uses `UdpTransport`'s receiver one packet at a time. `MC<module>` gives a module's
constants their values. Theorems are in modules of their own: `SerialLinkProofs`, `SerialParserProofs`, `ControlProofs`
(of `ControlLink` and `FlowControl`), `VideoTcpProofs`, `VideoUdpProofs` (of `VideoUdp` and `UdpTransport`), `WebSocketProofs` (of
`WebSocket` and `PilotCommands`, whose commands go over it), `RobotProofs` (of the two boards, `VerticalMotor` and `ImuFirmware`) and
`TelemetryProofs` (of `TelemetryReadings` and `JsonPatch`). `MCParts` runs the five small modules
and `VerticalMotor` in one configuration: they share no state, a variable says which one runs and the
others keep their first state, so the run is their sum.

### 2.2 Theorems

Proved, for every value of the constants (section 5): every safety property that the runs check, that the serial link
implements the safety of its abstract specification, that both directions of the websocket link implement theirs, and that
the patch that `diff` makes of any two documents turns the one into the other. In each the invariants are conjunctions of named parts, and there is one
lemma per action. Next: that a single step never takes back what was drawn or logged, as action properties of those
components; `SerialParser`'s justification of `SerialLink` as a refinement.

## 3. How the modules correspond to the code

PROJECT.json maps every definition to its lines. What follows is what the map cannot say.

**SerialLink.** A node is one `Serial_State` and one thread. `Serial_SendMessageComplex`
is cut where the code polls for input: `Send` is everything up to the first
poll, `Receive` one frame read by a poll (in the main loop or inside a waiting send), and `Tick`,
`Retransmit` and `Return` are the three ways a turn of the wait loop ends. An ack read in the last
of the 10 turns does not end the wait, because the loop tests `ticksWaited` first: the message
goes out again. The cable loses its oldest frame (`Lose`), or a frame written when it is full; a
damaged frame fails its CRC and is lost too. `Restart` is `Serial_NewState`. The message carried by
a frame is its index in the sender's history, which nothing but the properties reads.

**SerialChannel.** The promise to the two users: messages arrive in order, fast ones at most once,
a reliable send blocks until the peer's callback ran. `ImplementsChannel` maps `SerialLink` to it
by forgetting the sequence numbers.

**SerialParser.** One operator per branch of `Serial_ReceiveCharProtocol`; the encoder with
its escapes (`SentFrom` is what is handed to `sendChar` from a place of the frame on) and the send buffer that cuts
what exceeds it. `NothingForged` covers frames that arrive as they were sent and frames with one byte of the content
or of the checksum damaged. A frame that comes behind noise ending in a backslash has its flags byte misread
(`MisreadFlags`); when one of its bytes is damaged as well the two errors can cancel in the checksum, and the property
excludes that case. `SerialCRC` holds the code's
table, and TLC checks (an assumption of the MC module) that it is the table of remainders of the
CRC-8 polynomial.

**ControlLink.** Four threads: `ClientLoop` and `ServerLoop` are the two main loops,
`ClientHandler`/`ClientBreak` and `ServerOpen`/`ServerMessage`/`ServerClose` the websocket
callbacks. A handler is split where the other thread can come between two of its
statements and notice: the client's `on_open` in four, its `send()` in four, the server's loop in
three. It is one action where it cannot: `ServerOpen` is atomic because the main thread skips a
connection that is not ready, and the last statement that makes it ready runs in a later callback;
in `ClientPrepare` the comparison and the assignment touch a variable that only `on_open`
writes, and `on_open` writes `toRobot`, the value compared. A break loses what its end has not read and an arbitrary
suffix of what it sent. States are values; an empty bucket is `NoValue`.

**FlowControl.** One direction of the websocket link as its two users see it: a source that changes, the value taken from it and not
yet sent, the values and acknowledgements on their way, and what the receiver has. `ControlLink!Flow` maps both directions to it, on the
latest connection: in the hand is what a main thread or an `on_open` has taken and not handed to the library, on the way are the states
or commands that the other end has not read. What is left of an earlier connection belongs to no direction: the steps that
read it are stutters, but for a late command, which the robot still obeys.

**PilotCommands.** The path from the sticks to the Arduino's `motorvals`. The control thread opens
the two joysticks in two steps (`Reopen`, `ReopenSecond`); one turn of the network thread is `ReadFirst` and `Iterate`,
because the other thread can come between the two readings. `Converted` is the list of
assignments up to the first that throws. A motor value is the reading it was computed from. The nine motor values
fall into four fields, those that depend on the same reading and fail together. The websocket
link is the simple part of `ControlLink`: one command in flight, none late.

**VerticalMotor.** `receiveMessageCallback` and `verticalMotorWrite`; `StoredSign` keeps the sign in a
byte, where -1 is 255.

**VideoTcp.** Bytes are counted in units, each with its frame and place, so that a
picture put together from two frames is seen. Unbinding, binding and listening again are one
step, and a refused connection is no step. The port listens from the first `acceptClient` on; when
the camera thread ends nothing closes it, so `Connect` still succeeds while the queue has room. A connection is up, silent (nothing
passes and nobody is told), closed, reset, left (by the viewer) or piped (the camera thread has sent
to a viewer that left, so that the next send raises SIGPIPE, whose handler clears `running` for the whole
onboard program). Every read may stop anywhere. The assumption `VideoAssumption` holds of the
code's sizes: 2764816 bytes and 27648 bytes are multiples of 16.

**WebSocket.** The stream is counted in bytes. `Connection::send` puts a frame in the queue and starts
`send_from_queue` if it is alone there; a frame is two `async_write`s. The client's handshake reads up to an
empty line *and whatever the socket holds behind it*; each later read takes "exactly" what it
wants less `num_additional_bytes`. `stream` is the frames begun, each with the place where it begins. `Size`, `Additional` and `Transfer` are the code's arithmetic on these counts,
and a reader that leaves the step is `Astray`: what it does then depends on the bytes it misreads.

**ImuFirmware.** `Order` is the order of the flash writes. One write to the flash is atomic, and so is one
`print` to the card. `Line` is the list of names whose readings a line carries; `SizeOf` counts
fields where the code counts characters. That a line fits into the buffer and the buffer into a file
(`ImuAssumption`) holds of the code by far: a line has less than 200 characters, `SD_LOG_WRITE_BUFFER_SIZE` is 1024 and
`SD_MAX_FILE_SIZE` 5000000. SD logging is on at first: `ENABLE_SD_LOGGING` is `false` in
`config.h:50` and then defined again as the character `'s'`.

**JsonPatch.** A document is a number, null, an array or an object. `diffs` is the function of all calls of
`diff`, by source and target, and `diffBy` is the body of one call; the elements of an array are removed from the last. A call's paths
begin at the values it compares, and the caller puts the child's token in front of them (`Below`), where the code hands its own path
down. A path is the sequence of its tokens: `escape`, and the splitting and `unescape` of the string, undo each other. `Documents` is any set that contains the states and, with a document, the values in it; `Depth` says how deep these are nested
(`IsDocument`). The bucket is the one that `compress` made: `inflate` first checks its mark `_compressed`
(`telemetry.cpp:89-90`), which is taken as set, though a bucket parsed from the wire never has it (section 6). `Apply` is one turn of the loop in `patch`, whose
operations find their parent by the checked walk of `at`. The states are the server's: what is compared lacks the
time and the round trip that what is sent has (`Stamped`).

**UdpTransport.** A byte is its message and its place. `send` splits nothing, although a comment
(`networkudp.cpp:7`) speaks of split packets: `maxlen2` exceeds what a datagram can hold, so a message is one
datagram or an error (`UdpAssumption`). `recv` reads one datagram, by the single `recvfrom` of
`readEntireBuffer`, although the comment over it (`networkudp.cpp:86`) says "read all received data into the buffer":
those behind it wait in the socket (`rsock`) for later calls, however much room a call has.

**TelemetryReadings.** A percentage is the pair of ticks it is the quotient of, and is not a number when
the second is 0. A turn of the server's loop reads the percentage, and sends it with the IMU's readings
if the client is ready and anything changed; a null instead of the percentage makes the client's handler throw before
it stores the readings.

**VideoUdp.** A pixel is the frame it comes from. The multiplier that scatters the pixels, the
packets of a frame and the wrap of the last packet are the code's; ids wrap at `NumFrameIds`.

## 4. What the runs show

| Run | Shows | Distinct states |
| --- | --- | --- |
| `serial_link` | An acknowledged send was delivered; a send that asks for a response never returns; fast messages arrive at most once; nothing older is delivered after something newer; reliable sends return; the link implements `SerialChannel`, with its progress | 76 thousand |
| `serial_link_wrap` | With numbers that wrap and restarts at any point an ack still means that a message *with this number* was delivered | 72 thousand |
| `serial_parser` | After any noise an undamaged frame that fits the buffers runs the callback once; nothing is delivered that was not sent | 888 thousand |
| `control` | At most one telemetry state is in flight; at most one command, two if a send overlapped `on_open`; when the robot may obey an old command; nobody waits for an ack that is not coming; each direction implements `FlowControl` | 3 million (with symmetry) |
| `control_live` | Once a connection stays up the pilot sees the last telemetry and the robot obeys the last command | 125 thousand |
| `vertical_motor_pins` | Finding: both pins driven | - |
| `parts` | Which reversals leave both sides of the motor's bridge driven, and that two stops end it; settings survive resets; the log keeps every line it can; readings are found under their names unless time is logged; messages of the websocket library arrive, whole and in order, if the handshake ended between two of them; deltas carry states in the bucket that `compress` made; the UDP receiver returns what it has read, in order, and keeps or mixes messages only after a call that was filled; after the first second the pilot sees the readings sent | 452 thousand |
| `websocket_handshake` | Finding: a state that came in part with the handshake is not completed | - |
| `video_tcp` | No picture is mixed; the viewer stays in step; it leaves a connection that works only for a known cause; frames go on being drawn | 79 thousand |
| `video_tcp_reconnect` | Finding: a viewer waiting for a header stays on a dead connection | - |
| `pilot_commands` | No motor obeys a single pad, or a second pad without triggers; when nothing is on its way the Arduino holds what the client sent last, unless the last command was missed; a pad is opened in the end, and two pads that stay open are obeyed in the end, unless the last command was missed | 220 thousand |
| `video_udp` | A call draws one frame; a complete frame fills the image; calls return | 273 thousand |

These exceptions are needed: TLC refutes them without.

* `CommandCurrent` fails when a send overlapped `on_open` (the two messages may leave in the wrong
  order) and when the robot handled a late command of an earlier connection
  (`robotFrom`). With a send that outlasts the reconnection (over a second later) the
  client can also wait for ever: `NothingStalls` exempts it, and only it.
* `ImplementsFlow` speaks of commands while no send meets an `on_open` (two commands are then on their way) and but for
  late commands of an earlier connection (the robot then obeys one that the direction has given up).
* `Agreement` and `Obeys` fail when the motor controller was not identified, its message was lost or
  the Arduino restarted: the robot acknowledges the command all the same, and nothing sends it
  again until the pilot moves a stick (`missed`).
* `WholeAfterCleanHandshake` and `AllArrive` fail when the handshake's read ended inside a frame (section 6).
* `SettingsSurvive` speaks of a board that runs: one reset while it stores a character may lose that character.
* `LogKept` excludes what was in the buffer at a reset, and what found no free file name. `ReadByName`
  fails when time is logged: the reading before each then takes its name. An empty line, which a board sends that has
  every group off, ends the onboard program if an IMU line came before it.
* `ReadingsReach` fails in the first second if the first turn of the loop comes before a tick, and when the
  kernel lets a counter go back: the percentage is skipped until the counter has caught up.
* `OneFramePerCall` fails for calls with frame id 0, which stands for "no frame yet", and for calls that go over the end
  of the ids.
* `CallReturns` fails for the call that begins with the last frame id: no id is later.
* `UdpStream` would fail of a receiver whose buffer also held what waits in the socket: it speaks of `recvbuf` and
  of the datagrams that were read, one per call, and not of `rsock`.

`GivesUpForCause` describes a defect without contradicting a comment: the viewer counts a read that
leaves as much to read as the read before. A second read that completes a frame leaves 0, as the
frame before did, so after `TIMEOUT_LIMIT` + 1 frames of two reads each, with none of more reads between them, it abandons a
connection that works. A frame whose pixels come in one read neither counts nor sets the count back. It does not close it: the camera thread fills it and blocks, and the
viewer waits in the queue of the listening socket, for ever.

### 4.1 Bounds, and why they are enough

* `serial_link`: two messages one way cross one the other way, of any of the three kinds; two ticks
  (the last tick, where an ack is forgotten, and one before); two frames per direction, so that a
  retransmission and the ack it crosses are on the cable together. Three messages without wrap
  need four numbers.
* `serial_link_wrap`: one-bit numbers, so that the third message has the number of the first; one restart of
  each node.
* `serial_parser`: messages of up to two bytes, a send buffer of eight as 2 * 2 + 4; frames chosen so that each
  branch is taken: escapes in every field, a checksum that needs escaping, too
  long for the receiver, cut by the sender; noise with each byte that means something, with flags that turn the check
  off, and with the checksum that a misread frame would need.
* `control`: two connections, so one reconnection with messages of the first in flight; two
  values each way, as one that changes and one that changes back. `control_live`: one connection,
  from the first state or from any state that an earlier connection, closed at both ends, can have left.
* `pilot_commands`: one pad of four axes and one of six, in either order; a stick at rest or pushed; one
  restart of any of the three programs, break, lost message or pad unplugged.
* `parts`: the extreme and the least speeds of the motor in both directions. Boards with any of five groups off, or
  all of them; six lines, one character and one reset, a buffer of 20 fields and files of 40, so that the
  log flushes, rotates and runs out of names (a buffer shorter than a line would flush nothing first, which the
  code's 1024 characters are not). States with one length byte and with more (`ShortLength` stands for 125),
  three messages, and a handshake that takes up to nine bytes of them. Documents of two levels with arrays of up to three
  elements and keys that look like an index. Messages shorter and longer than what is wanted, up to a full datagram, and a buffer
  that two fill. A second of two units, three rates of the two counters, one of which stands still.
* `video_tcp`: headers of two units and pixels of four in segments of two, so that reads
  stop inside a header and a frame takes several sends and reads; two segments in flight; three connections
  with one break or restart, one short header read and one pause of a second. A connection made after the
  camera thread has ended takes two breaks, which are too many for this run; `VideoTcpProofs` has it.
* `video_udp`: five pixels in packets of two, so that the last packet wraps; three ids, so that
  they wrap; one packet lost, one late, one error.

### 4.2 Fairness

* `SerialLink`: weak fairness of `Receive` and of the wait loop, since both mains and the wait poll. That
  the cable becomes synchronous (`EventuallySynchronous`: nothing is lost, and a frame and its answer
  pass within a wait) is an assumption about the environment; without it a reliable send may
  retransmit for ever.
* `ControlLink`: weak fairness of each thread's steps: the two loops poll, the
  websocket library serves each socket that can be read. No fairness for breaks.
* `VideoTcp`: weak fairness of both threads and of `SendFails`, because the kernel gives up a silent
  connection in the end (ETIMEDOUT). A camera thread that is blocked in a full connection has no
  enabled step, so fairness does not free it.
* `PilotCommands`: weak fairness of both console threads, which loop every millisecond, and of what is
  in flight; none for the pilot, for faults or for reconnection (`Obeys` assumes that the connection
  stays).
* `WebSocket`: weak fairness of the writes and of the reads, which asio's threads complete when the socket is
  ready; none for breaks, nor for what the programs send.
* `VideoUdp`: weak fairness of the camera, the network and the receiver's loop.

## 5. What is proved

Each theorem holds for every value of the constants that the named assumptions of the module allow; TLC evaluates each
assumption in a run. TLC checked every safety property below, and each strengthening, on the runs' instances before it was proved.

`SerialLinkProofs`, for any pair of nodes, width of the number, timeout, number of sends and restarts and capacity of the
cable (`LinkAssumption`):

* The type invariant and `IInv`, and from it `AckedSNWasDelivered`, `AckedWasDelivered`,
  `ResponseNeverReturns` and `NoReliableGap`. None of them is inductive: that an ack in flight means a
  delivery (`WireInv`), that a waiting send whose flag is down was acknowledged (`SendingInv`), that histories only
  name sent messages (`HistoryInv`) and that numbers count up until a restart
  (`NumberInv`) are the parts of `IInv`. `Growth` and the `...Stable` lemmas say that histories only grow, so
  what was true of a delivered message stays true. `DistinctNumbers` turns a number into a message: within one round no two
  messages share it.
* `FastAtMostOnce` and the action property `InOrder`, also over restarts and wraps. `OrderInv` says of each direction (`Lane`) that
  the messages on the cable do not go down, from the one delivered last to the one sent last (`Ordered`), and that a fast
  message is in one place of it and not yet delivered (`Once`).
* `Implementation`: `SerialLink` implements `SerialChannel!SafeSpec`, its initial states and its steps, while no node restarts and no
  number is used twice (`MaxRestarts = 0`, `MaxSends[n] <= SNMod`). Both hypotheses are needed, and TLC refutes
  the implementation without either (with one message more than numbers, too): a restart forgets a waiting send, and a late ack
  with a number used again ends the wait for another message. `RoundInv` adds to `IInv` that a waiting message has not
  returned.

`SerialParserProofs`, for every checksum whose steps are one-to-one (`CRCAssumption`, which TLC checks of the code's table), every
length of message, set of frames and noise: `TypeOK`, which bounds the data by its buffer, `CleanFrameArrives` and `NothingForged`.
`FrameInv` says where the receiver is in the frame: the bytes that are left are those that the sender
has from that place on, and the receiver has the flags, number, data and checksum up to there, or, behind a
damaged byte, a checksum that differs from the sender's, which no right byte can make equal again. The encoder and the
checksum are recursive functions; that they exist and obey their equations is proved from the least element of a set of
numbers (`SetInduction`), as the induction theorems of the library cannot be used. The attempt to prove `NothingForged` for every
noise showed that it excluded too little: behind an escape left by noise, a damaged byte and the misread flags can cancel in the
checksum. It now excludes that frame, and the run's noise contains such a byte.

`ControlProofs`, for any number of connections, states and commands and any breaks (`ControlAssumption`):

* `OneTelemetryInFlight`. `TokenInv` counts, for each connection, the flag `ready`, the post that the main thread is about to make, the states
  on their way down and the acks on their way up: together at most one. It needs `FreshInv` (of a connection
  that was never opened there is nothing anywhere, so that `on_open` starts from zero) and `HeldInv` (the flag stays up
  between the main thread's test of it and its reset, although the other thread's handlers run there). The
  `...Count` lemmas say what an append, a read and a break do to a count of messages.
* `CommandsBounded`, `CommandCurrent` and `NothingStalls`, the client's half. `PlaceInv` and `OverlapInv` say where the two threads can be and
  what a `send()` that meets an `on_open` leaves; `LoadInv` counts the commands that are or will be in flight, at most one or,
  behind such a meeting, two; `KeptInv` says that the tokens of both ends are not lost while the connection is up; `CurrentInv`
  that what is on its way is what the client remembers, and what the robot obeys once it is acknowledged.
* `ImplementsFlow`: every step of `ControlLink` is one of `FlowControl` in each direction, or leaves its variables alone. `LeftInv` adds to
  the two halves' invariants what they do not need for themselves: that one value at most is left on a wire whose one end has
  gone. `CommandsFew` is the count of commands where the client's thread is anywhere between two connections. The `Values...` lemmas say what an
  append, a read and a break do to what is read off a wire.
* `NeverOlder`: if the robot's telemetry only moves on in some transitive order, what the pilot is shown does too, over all reconnections. It
  follows from the refinement alone: `OrderInv` says of `FlowControl` that the value shown, the one on its way, the one
  taken and the source follow each other.

`VideoTcpProofs`, for headers, frames and segments of every size (`VideoAssumption`), any limit of timeouts, number of connections and
every break, restart and pause: `DrawnWhole`, `InStep` and `GivesUpForCause`. `StreamInv` says that the units on a connection follow each
other up to the one the camera thread sends next (`RunInv`), that connections that wait for `accept` are fresh (`QueueInv`), and that the
viewer knows its place among them (`StepInv`, `GotInv`). `CauseInv` adds the reason why a connection that works is left (`LeftInv`) and what the
timeout counter counts on it (`CountInv`).

`VideoUdpProofs`, for every size of frame and packet and every multiplier that reaches all
pixels (`ScatterAssumption`): `WholeImage` with any loss and delay (`PacketsCover` is the arithmetic of the last packet,
`CoverInv` says that every pixel of a packet drawn comes from a frame drawn), and `OneFramePerCall` with fewer packets lost than a round of
frame ids has (`MaxLost < NumFrameIds * numpackets`, 65536 frames in the code: behind a gap of a whole round an id says nothing).
`OrderInv` chains the packet drawn last, those in the socket, those in the network and the camera's next one in the order of sending, with
gaps for what was lost.

`VideoUdpProofs` also has `UdpStream` for any lengths of messages, of calls and of the buffer. The
invariant is that what was returned followed by what is buffered is what was read from the socket, that bytes are left in the buffer only
behind a call that was filled, that the bytes of a message are contiguous, and that messages are apart.

`WebSocketProofs`:

* `WholeAfterCleanHandshake` for frames of every length, every split of writes and reads and any number of messages: `SentInv` says how the
  queue continues the stream, `PlacesInv` where each frame begins, and `ReaderInv` where the reader is in its frame, and that
  `num_additional_bytes` then counts more than the buffer holds, by what the last read took out, which does no harm
  while whole frames are left.
* `TwoPadsObeyed` and `Agreement` for any two pads and any number of faults.
  The two pads are different ones (`OpenInv`), a turn of the network thread holds readings of pads it found open
  (`ReadInv`), and every value on its way, in the command kept, at the robot or at the motor controller comes
  from the pad that its field is for (`CommandInv`); `ConversionKeeps` is the case of a conversion that throws. `AgreeInv` adds that
  the command in flight is the one kept.

`RobotProofs`:

* `SafeWithCare` and `StopStops` for every set of speeds from -255 to 255 (`MotorAssumption`), from the invariant that ties the stored
  sign to the direction last written.
* `SettingsSurvive` for every content of the flash. It is not inductive: the invariant adds
  that the settings not yet written are the rest of `Order` while the first run is not marked, so that the mark implies
  that all of them are there, and that a setting being stored is the only one in which RAM and flash
  differ.
* `ReadByName` for every choice of settings. `NamesInv` keeps the claim for the line received last, whatever line that was, and says that
  a running board whose lines are empty has been counted as bare. `LineProperties` and `LinesByName` are about `Line` alone: the groups
  stand in the order of `Names`, and 17 readings without time can only be all of them.
* `LogKept` for every size of the buffer and of a file, number of names, and restarts, where a line fits into the buffer
  and the buffer into a file (`ImuAssumption`). `LogInv` adds that files are taken in the order of their names, that those behind the current one
  are empty (`Successive`; otherwise a rotation could put new lines before old ones), that each file
  is older than the next and than the buffer (`InOrder`), and that the buffer fits into an empty file (`Fits`). `Written` is the lemma
  about `sdLogString`, `Appended` and `LineLogged` those about a line. Sizes are sums over a text, defined by a recursive function, and
  proved by `SetInduction`.

`TelemetryProofs`:

* `ReadingsReach` for every length of a second and every rate of the counters of which one tick per unit
  is true. The invariant ties the ticks since the last reading to the time since it (`Counted`), bounds the age
  of what is kept, and says that the message on its way is the one sent last (`Sent`).
* `Patches`: `source.patch(diff(source, target)) == target`, which `json.hpp:16843` claims, for all documents, however large and however deep
  (`PatchAssumption`, TLC checks it of the run's). `Carries(j, ops, k)` says that the operations make `k` of `j` and none throws;
  scripts carry on from each other (`CarriesBoth`, `CarriesChain`), and one that carries a child carries its parent when the child's token is
  put in front of its paths (`CarriesBelow`, from `AtBelow` and `WithBelow`, which follow a pointer one token down). For arrays and
  objects the documents between two operations are written down (`Started`, `Merged`), so that each operation or
  child's script is one link of the chain. A call of `diff` needs only calls for values that are nested less deep (`DiffByAgree`), so the
  function of all calls exists and obeys its equation (`DiffDef`), and the theorem follows by `SetInduction` over `Depth`.
* `DeltaCarries` for every set of states and every stamp. The invariant is that what is left of the delta carries the receiver's copy to
  what was sent. `ObjectTurns` is therefore about a receiver whose object has keys that only the target has: the additions set them again.

### 5.1 Only model-checked

* Liveness: `ReliableReturns`, `TelemetrySettles`, `CommandSettles`, `KeepsDrawing`, `CutReconnects`, `CallReturns`, `PadFound`, `Obeys`,
  `AllArrive`, and the progress that `ImplementsChannel` promises beyond the safety of `SerialChannel`. All rest on fairness, which
  is out of the prover's reach.
* `SerialLink` implementing `SerialChannel` with restarts or numbers used again: it does not, see above. Nor does the command direction of
  `ControlLink` implement `FlowControl` in the two cases that `ImplementsFlow` excludes.
* That `SerialCRC`'s table is the one of the CRC-8 polynomial, and that `Token` tells indexes apart and values are nested in finite depth
  (assumptions, which TLC evaluates).

Every module has a type invariant. The proofs of `SerialLink`, `VerticalMotor`, `PilotCommands`, `ImuFirmware`,
`TelemetryReadings`, `ControlLink`, `VideoTcp`, `VideoUdp`, `UdpTransport` and `WebSocket` contain it, and there is no run for it alone.

## 6. Findings

1. `vertical_motor_pins`: `verticalMotorWrite` leaves both pins of the H-bridge driven after a step
   from reverse to forward (the sign is kept in a byte), and also from forward through one
   stop to reverse. Two stops in a row clear the state.
2. `video_tcp_reconnect`: a viewer that waits for a header does not notice that its
   connection failed or ended, so the reconnection that `onboard/src/video.cpp:64` waits for does not come.

3. `websocket_handshake`: `client_ws.hpp:428-431` says that what a handshake's read took of a message is completed by the next
   read. The counts of what was taken include the bytes of the header that have been read out since, so too few are
   fetched: the message is delivered short, or the next header is taken from the middle of one. The server
   sends its first state in `on_open`, right behind the handshake.

Noted on the way, and not run as findings:

* `mission-control/src/network.cpp:195` announces a refresh about every second; `send()` gets a bucket without
  the index that would change, so nothing is sent while the pilot changes nothing.
* `config.h:60` says that a space pauses logging; with SD logging on, as it is at first, the board goes on sending.
* `networkudp.cpp:86` says that `readEntireBuffer` reads "all received data into the buffer". It calls `recvfrom` once (line 94), and so
  reads one datagram: with several in the socket `recv` returns bytes of the first, or of what was left before it, and the others wait
  for as many calls. `UdpStream` rests on what the code does; a receiver that did what the comment says
  would return bytes of several messages from one call, with none filled before.
* A received bucket is never marked compressed, so `inflate` of one (`onboard/src/server.cpp:77-81`) always throws.

## 7. What is not modelled

The map covers what the modules translate, which is most of the code that keeps state. The rest of the
source is, by lines: `json.hpp` (17 thousand of 29 thousand lines, vendored: parsing, printing, binary formats and iterators, which
have no order of events to get wrong), cvplot and the HTTP half of the websocket library (vendored), OpenCV and
system wrappers without state, and floating-point geometry.

PROJECT.json gives the reason for each component. Within the modelled ones:

* damage that the CRC does not notice, above the parser: `SerialLink` counts a damaged frame as lost;
* what callbacks do with a message, and sends from inside a callback (no callback sends);
* races at the level of memory (the nodes of a `std::map`, a half-written bucket): a step reads or writes
  a variable whole;
* times and round-trip measurements; the telemetry states' content;
* the counters of packets per frame in the UDP receiver, which nothing reads, and the change of frame size;
* pads with another number of axes than four or six, for which `mode()` ends without a return; the trigonometry
  and the ranges of the motor values (`convertArmRotationValuesToRobot` says "-1 to 1 => min to
  max" and gives twice that range), and commands of an earlier connection, which are `ControlLink`'s;
* drawing, recording and the choice of cameras;
* failures of `socket` and `bind`, the members `bound` and `connected`, read before they are
  set, and functions that end without a return.
