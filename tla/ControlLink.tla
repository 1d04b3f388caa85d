---------------------------- MODULE ControlLink ----------------------------
(***************************************************************************)
(* The websocket exchange between mission control (the client,             *)
(* mission-control/src/network.cpp) and the robot (the server,             *)
(* onboard/src/server.cpp).  Commands travel up, telemetry down; each end  *)
(* acknowledges every state it gets and sends its next one only when it is *)
(* ready, that is after an acknowledgement.  Each end has a main thread    *)
(* and a websocket thread that share variables without a lock, so a        *)
(* handler whose statements the other thread can separate is several       *)
(* actions here.  Connections break and are made again.                    *)
(***************************************************************************)
EXTENDS Integers, Sequences, FiniteSets, Functions

CONSTANTS
    Command,         \* values of toRobot["motors"]
    Telemetry,       \* values of the server's current
    NoValue,         \* a bucket still empty, {}
    MaxConnections   \* bound on connections made by the client

ASSUME ControlAssumption ==
    /\ NoValue \notin Command \cup Telemetry
    /\ MaxConnections \in Nat \ {0}

Conn == 1 .. MaxConnections

(* "\x06" and everything else *)
Ack == [type |-> "ack"]
State(v) == [type |-> "state", value |-> v]
Message == {Ack} \cup {State(v) : v \in Command \cup Telemetry \cup {NoValue}}

VARIABLES
    \* mission control, main thread
    toRobot,              \* the command computed from the joysticks
    sendAt,               \* where the thread is in its loop and in send()
    sendOn,               \* the connection send() was called with
    \* mission control, websocket thread
    clientAt,             \* where the thread is, between two of its start()s
    connection,           \* client.connection: the latest one, 0 for none
    opened,               \* what on_open has serialised and not sent yet
    shown,                \* the telemetry on the pilot's screen
    \* mission control, both threads
    clientConnected, clientConnectionData, clientReady,
    \* robot, main thread
    current,              \* the telemetry
    serverAt,             \* where the thread is in its loop over connections
    todo,                 \* the copy of get_connections() still to visit
    sendTo,               \* the connection being visited
    \* robot, websocket thread
    connections,          \* the websocket library's set of open connections
    closed,               \* the connections the server has closed
    robotCommand,         \* the motor values last given to the serial port
    \* robot, both threads
    connectionData, connectionState,    \* the two maps (of ready, the latter)
    \* the network
    up, down,             \* messages in flight on each connection
    \* history
    overlap,              \* "during": a send() began in on_open; "outlasted": one that
                          \* began before it, on an earlier connection, was not over
    robotFrom             \* the connection robotCommand came by

clientMain == <<toRobot, sendAt, sendOn>>
clientWs == <<clientAt, connection, opened, shown>>
clientShared == <<clientConnected, clientConnectionData, clientReady>>
serverMain == <<current, serverAt, todo, sendTo>>
serverWs == <<connections, closed, robotCommand, robotFrom>>
serverShared == <<connectionData, connectionState>>
network == <<up, down>>
client == <<clientMain, clientWs, clientShared, overlap>>
server == <<serverMain, serverWs, serverShared>>
vars == <<client, server, network>>

(* No connection was made yet and both main threads are in their loops. *)
Disconnected ==
    /\ sendAt = "update" /\ sendOn = 0
    /\ clientAt = "waiting" /\ connection = 0 /\ opened = NoValue
    /\ clientConnected = FALSE
    /\ serverAt = "loop" /\ todo = {} /\ sendTo = 0
    /\ connections = {} /\ closed = {}
    /\ connectionData = << >> /\ connectionState = << >>
    /\ up = [c \in Conn |-> << >>] /\ down = [c \in Conn |-> << >>]
    /\ overlap = "none" /\ robotFrom = 0

Init ==
    /\ Disconnected
    /\ clientReady = FALSE
    /\ toRobot = NoValue /\ clientConnectionData = NoValue /\ robotCommand = NoValue
    /\ shown = NoValue /\ current = NoValue

-----------------------------------------------------------------------------
(* The network: TCP keeps order and loses only the end of a broken stream.  *)

(* Whether an end still holds its socket of connection c. *)
ClientHolds(c) == c = connection /\ clientAt # "waiting"
ServerHolds(c) == c \notin closed

Put(wire, c, m, holds) == IF holds THEN [wire EXCEPT ![c] = Append(@, m)] ELSE wire

PutUp(c, m) == Put(up, c, m, ClientHolds(c) /\ ServerHolds(c))
PutDown(c, m) == Put(down, c, m, ClientHolds(c) /\ c \in connections)

(* A break loses what its end had not read, and the end of what it sent. *)
Break(c, unread, sent) ==
    /\ unread' = [unread EXCEPT ![c] = << >>]
    /\ \E k \in 0 .. Len(sent[c]) : sent' = [sent EXCEPT ![c] = SubSeq(@, 1, k)]

(* The two maps: an assignment by operator[], which makes an entry that is  *)
(* missing, and a reading by it, which makes one too.                       *)
Assigned(map, c, v) == [d \in DOMAIN map \cup {c} |-> IF d = c THEN v ELSE map[d]]
Looked(map, c, default) == IF c \in DOMAIN map THEN map ELSE Assigned(map, c, default)

-----------------------------------------------------------------------------
(* Both ends answer a state, and nothing else, with an acknowledgement. *)
AnswersAll(m) == TRUE
AnswersParsed(m) == m \notin {Ack, State(NoValue)}
Answers(m) == m # Ack
Answer(m) == Ack

(* The flag after on_open of the client and of the server. *)
KeptReady(ready) == ready
OpenedReady(ready) == FALSE

(* The flag after an end's main thread has sent. *)
SentReadyKept == TRUE
SentReady == FALSE

-----------------------------------------------------------------------------
(* Mission control, main thread: one iteration of the loop in network().    *)
ClientUpdate ==
    /\ sendAt = "update"
    /\ toRobot' \in Command
    /\ sendAt' = "check"
    /\ UNCHANGED <<sendOn, clientWs, clientShared, overlap, server, network>>

Opening == clientAt \in {"opened", "copied", "reset"}

(* if (clientConnected) send(client.connection, ...); if (!ready) return; *)
ClientCheck ==
    /\ sendAt = "check"
    /\ IF clientConnected /\ clientReady
       THEN /\ sendAt' = "prepare"
            /\ sendOn' = connection
            /\ overlap' = IF Opening /\ overlap = "none" THEN "during" ELSE overlap
       ELSE /\ sendAt' = "update"
            /\ UNCHANGED <<sendOn, overlap>>
    /\ UNCHANGED <<toRobot, clientWs, clientShared, server, network>>

(* Compare with what was sent last and remember it. *)
ClientPrepare ==
    /\ sendAt = "prepare"
    /\ clientConnectionData' = toRobot
    /\ sendAt' = IF toRobot = clientConnectionData THEN "update" ELSE "clear"
    /\ UNCHANGED <<toRobot, sendOn, clientWs, clientConnected, clientReady, overlap,
                   server, network>>

ClientClear ==
    /\ sendAt = "clear"
    /\ clientReady' = SentReady
    /\ sendAt' = "post"
    /\ UNCHANGED <<toRobot, sendOn, clientWs, clientConnected, clientConnectionData,
                   overlap, server, network>>

ClientPost ==
    /\ sendAt = "post"
    /\ up' = PutUp(sendOn, State(toRobot))
    /\ sendAt' = "update"
    /\ UNCHANGED <<toRobot, sendOn, clientWs, clientShared, overlap, server, down>>

(* Whether the main thread is in send(), past the test of ready. *)
Sending == sendAt \in {"prepare", "clear", "post"}

ClientLoop == ClientUpdate \/ ClientCheck \/ ClientPrepare \/ ClientClear \/ ClientPost

-----------------------------------------------------------------------------
(* Mission control, websocket thread.                                      *)

(* client.start(), a second after the previous one returned. *)
Connect ==
    /\ clientAt = "waiting" /\ connection < MaxConnections
    /\ connection' = connection + 1
    /\ clientAt' = "connecting"
    /\ UNCHANGED <<clientMain, opened, shown, clientShared, overlap, server, network>>

(* on_open, up to where the main thread can come between its statements. *)
OnOpenConnected ==
    /\ clientAt = "connecting"
    /\ clientConnected' = TRUE
    /\ clientAt' = "opened"
    /\ overlap' = IF Sending THEN "outlasted" ELSE "none"
    /\ UNCHANGED <<clientMain, connection, opened, shown, clientConnectionData,
                   clientReady, server, network>>

OnOpenData ==
    /\ clientAt = "opened"
    /\ clientConnectionData' = toRobot
    /\ clientAt' = "copied"
    /\ UNCHANGED <<clientMain, connection, opened, shown, clientConnected, clientReady,
                   overlap, server, network>>

OnOpenState ==
    /\ clientAt = "copied"
    /\ clientReady' = OpenedReady(clientReady)
    /\ opened' = clientConnectionData
    /\ clientAt' = "reset"
    /\ UNCHANGED <<clientMain, connection, shown, clientConnected, clientConnectionData,
                   overlap, server, network>>

OnOpenSend ==
    /\ clientAt = "reset"
    /\ up' = PutUp(connection, State(opened))
    /\ opened' = NoValue
    /\ clientAt' = "running"
    /\ UNCHANGED <<clientMain, connection, shown, clientShared, overlap, server, down>>

(* on_message.  An empty state does not parse and changes nothing; it is    *)
(* acknowledged all the same.                                               *)
ClientMessage ==
    /\ clientAt = "running" /\ down[connection] # << >>
    /\ LET m == Head(down[connection]) IN
       /\ clientReady' = (clientReady \/ m = Ack)
       /\ shown' = IF m \in {Ack, State(NoValue)} THEN shown ELSE m.value
       /\ up' = IF Answers(m) THEN PutUp(connection, Answer(m)) ELSE up
    /\ down' = [down EXCEPT ![connection] = Tail(@)]
    /\ UNCHANGED <<clientMain, clientAt, connection, opened, clientConnected,
                   clientConnectionData, overlap, server>>

(* on_close and on_error; the connection may never have opened. *)
ClientBreak ==
    /\ clientAt \in {"connecting", "running"}
    /\ clientConnected' = FALSE
    /\ clientAt' = "waiting"
    /\ Break(connection, down, up)
    /\ UNCHANGED <<clientMain, connection, opened, shown, clientConnectionData,
                   clientReady, overlap, server>>

ClientHandler ==
    OnOpenConnected \/ OnOpenData \/ OnOpenState \/ OnOpenSend \/ ClientMessage

-----------------------------------------------------------------------------
(* The robot, websocket thread: one thread runs every handler.             *)

(* on_open: the main thread skips a connection without an entry, so nothing *)
(* can come between its statements.                                         *)
ServerOpen(c) ==
    /\ c \in 1 .. connection \ (connections \cup closed)
    /\ connections' = connections \cup {c}
    /\ connectionData' = Assigned(connectionData, c, current)
    /\ connectionState' = Assigned(connectionState, c, OpenedReady(FALSE))
    /\ down' = Put(down, c, State(current), ClientHolds(c))
    /\ UNCHANGED <<client, serverMain, closed, robotCommand, robotFrom, up>>

(* on_message *)
ServerMessage(c) ==
    /\ c \in connections /\ up[c] # << >>
    /\ LET m == Head(up[c]) IN
       /\ IF m = Ack
          THEN connectionState' = Assigned(connectionState, c, TRUE)
          ELSE UNCHANGED connectionState
       /\ IF m \in {Ack, State(NoValue)}
          THEN UNCHANGED <<robotCommand, robotFrom>>
          ELSE robotCommand' = m.value /\ robotFrom' = c
       /\ down' = IF Answers(m) THEN PutDown(c, Answer(m)) ELSE down
    /\ up' = [up EXCEPT ![c] = Tail(@)]
    /\ UNCHANGED <<client, serverMain, connections, closed, connectionData>>

(* on_close and on_error *)
ServerClose(c) ==
    /\ c \in connections
    /\ connections' = connections \ {c}
    /\ closed' = closed \cup {c}
    /\ connectionData' = Restrict(connectionData, DOMAIN connectionData \ {c})
    /\ connectionState' = Restrict(connectionState, DOMAIN connectionState \ {c})
    /\ Break(c, up, down)
    /\ UNCHANGED <<client, serverMain, robotCommand, robotFrom>>

-----------------------------------------------------------------------------
(* The robot, main thread.  A connection may have been closed since         *)
(* get_connections() was copied, and gets entries in the maps again.        *)
ServerUpdate ==
    /\ serverAt = "loop" /\ todo = {}
    /\ current' \in Telemetry
    /\ todo' = connections
    /\ UNCHANGED <<client, serverAt, sendTo, serverWs, serverShared, network>>

ServerCheck(c) ==
    /\ serverAt = "loop" /\ c \in todo
    /\ todo' = todo \ {c}
    /\ connectionState' = Looked(connectionState, c, FALSE)
    /\ IF connectionState'[c]
       THEN serverAt' = "prepare" /\ sendTo' = c
       ELSE UNCHANGED <<serverAt, sendTo>>
    /\ UNCHANGED <<client, current, serverWs, connectionData, network>>

ServerPrepare ==
    /\ serverAt = "prepare"
    /\ LET known == Looked(connectionData, sendTo, NoValue) IN
       IF current = known[sendTo]
       THEN /\ serverAt' = "loop"
            /\ connectionData' = known
            /\ UNCHANGED connectionState
       ELSE /\ serverAt' = "post"
            /\ connectionData' = Assigned(connectionData, sendTo, current)
            /\ connectionState' = Assigned(connectionState, sendTo, SentReady)
    /\ UNCHANGED <<client, current, todo, sendTo, serverWs, network>>

ServerPost ==
    /\ serverAt = "post"
    /\ down' = PutDown(sendTo, State(current))
    /\ serverAt' = "loop"
    /\ UNCHANGED <<client, current, todo, sendTo, serverWs, serverShared, up>>

ServerLoop == ServerUpdate \/ (\E c \in Conn : ServerCheck(c)) \/ ServerPrepare \/ ServerPost

Next ==
    \/ ClientLoop \/ Connect \/ ClientHandler \/ ClientBreak
    \/ \E c \in Conn : ServerOpen(c) \/ ServerMessage(c) \/ ServerClose(c)
    \/ ServerLoop

Spec == Init /\ [][Next]_vars

(* Every thread runs: the two loops poll, and the websocket library serves  *)
(* each socket that has something to read.  Nothing makes a break happen.   *)
Fairness ==
    /\ WF_vars(ClientLoop) /\ WF_vars(ClientHandler) /\ WF_vars(Connect)
    /\ WF_vars(ServerLoop)
    /\ \A c \in Conn : WF_vars(ServerOpen(c)) /\ WF_vars(ServerMessage(c))

FairSpec == Spec /\ Fairness

-----------------------------------------------------------------------------
(* Every variable keeps its type, whatever the two threads of an end do.    *)
TypeOK ==
    /\ toRobot \in Command \cup {NoValue}
    /\ sendAt \in {"update", "check", "prepare", "clear", "post"} /\ sendOn \in 0 .. MaxConnections
    /\ clientAt \in {"waiting", "connecting", "opened", "copied", "reset", "running"}
    /\ connection \in 0 .. MaxConnections
    /\ {opened, clientConnectionData, robotCommand} \subseteq Command \cup {NoValue}
    /\ {shown, current} \subseteq Telemetry \cup {NoValue}
    /\ {clientConnected, clientReady} \subseteq BOOLEAN
    /\ overlap \in {"none", "during", "outlasted"}
    /\ serverAt \in {"loop", "prepare", "post"} /\ sendTo \in 0 .. MaxConnections
    /\ {todo, connections, closed, DOMAIN connectionData, DOMAIN connectionState}
           \subseteq SUBSET Conn
    /\ \A c \in DOMAIN connectionData : connectionData[c] \in Telemetry \cup {NoValue}
    /\ \A c \in DOMAIN connectionState : connectionState[c] \in BOOLEAN
    /\ up \in [Conn -> Seq(Message)] /\ down \in [Conn -> Seq(Message)]
    /\ robotFrom \in 0 .. MaxConnections

Count(wire, messages) == Cardinality({i \in DOMAIN wire : wire[i] \in messages})
Acks(wire) == Count(wire, {Ack})
States(wire) == Count(wire, Message \ {Ack})
One(b) == IF b THEN 1 ELSE 0

CommandsInFlight == States(up[connection]) + Acks(down[connection])

(* The server never has two telemetry states unacknowledged on a            *)
(* connection, and is not ready while it has one: the flag that its two     *)
(* threads share without a lock works as a token.                           *)
OneTelemetryInFlight ==
    \A c \in connections :
        One(c \in DOMAIN connectionState /\ connectionState[c])
            + One(serverAt = "post" /\ sendTo = c)
            + States(down[c]) + Acks(up[c]) <= 1

(* The client's flag is a weaker token: it may have two commands in flight, *)
(* but only on a connection whose on_open ran while the main thread, with   *)
(* the flag of the connection before, was sending.                          *)
CommandsBounded ==
    clientAt = "running" => CommandsInFlight <= IF overlap = "none" THEN 1 ELSE 2

(* When the client is ready and idle, the robot obeys the command the       *)
(* client last sent, except in two cases: a send overlapped on_open (their  *)
(* messages may have left in the wrong order, and nothing sends again), or  *)
(* the robot handled a late command of an earlier connection.               *)
CommandCurrent ==
    /\ clientAt = "running" /\ ~Sending /\ clientReady
    /\ overlap = "none" /\ robotFrom = connection
    => robotCommand = clientConnectionData

(* Nobody waits for an acknowledgement that is not coming: an end that is   *)
(* not ready has a message or its acknowledgement in flight, as long as the *)
(* other end holds the connection.  Only a send() that began on an earlier  *)
(* connection and outlasted the reconnection can stall the client.          *)
ClientNotStalled ==
    /\ clientAt = "running" /\ sendAt # "post"
    /\ connection \notin closed
    /\ overlap # "outlasted"
    => clientReady \/ CommandsInFlight > 0

ServerNotStalled ==
    /\ clientAt = "running" /\ connection \in connections
    /\ ~(serverAt = "post" /\ sendTo = connection)
    => \/ connection \in DOMAIN connectionState /\ connectionState[connection]
       \/ States(down[connection]) + Acks(up[connection]) > 0

NothingStalls == ClientNotStalled /\ ServerNotStalled

Up == clientAt = "running" /\ connection \in connections

(* If the connection stays up and the telemetry stops changing, the pilot   *)
(* eventually sees it.                                                      *)
TelemetrySettles ==
    \A t \in Telemetry : <>[](Up /\ current = t) => <>[](shown = t)

(* If the connection stays up, its on_open met no send, and the pilot stops *)
(* changing the command, the robot eventually obeys it.  Commands of an     *)
(* earlier connection cannot be in the way for ever.                        *)
CommandSettles ==
    \A v \in Command :
        <>[](Up /\ overlap = "none" /\ toRobot = v /\ robotFrom \in {0, connection})
            => <>[](robotCommand = v)

-----------------------------------------------------------------------------
(* Each direction, on the connection that the client made last, as a sender *)
(* that takes its next state when the one before was acknowledged.          *)
Latest(wires) == IF connection = 0 THEN << >> ELSE wires[connection]
Values(wire) == {wire[i].value : i \in {k \in DOMAIN wire : wire[k] # Ack}}

(* What a main thread or on_open has taken and not sent yet. *)
telemetryHand ==
    IF serverAt = "post" /\ sendTo = connection /\ connection \in connections
    THEN {current} ELSE {}
commandHand ==
    CASE clientAt = "copied" -> {clientConnectionData}
      [] clientAt = "reset" -> {opened}
      [] clientAt = "running" /\ sendAt \in {"clear", "post"} -> {toRobot}
      [] OTHER -> {}

TelemetryFlow == INSTANCE FlowControl
    WITH Value <- Telemetry, source <- current, sink <- shown, hand <- telemetryHand,
         way <- Values(Latest(down)), acks <- Acks(Latest(up))

CommandFlow == INSTANCE FlowControl
    WITH Value <- Command, source <- toRobot, sink <- robotCommand, hand <- commandHand,
         way <- Values(Latest(up)), acks <- Acks(Latest(down))

(* The robot handles a command of an earlier connection. *)
Late == robotCommand' # robotCommand /\ robotFrom' # connection

(* Telemetry flows as FlowControl says, over all reconnections and whatever *)
(* the threads do: the robot takes a state when the one before was          *)
(* acknowledged, and the pilot is never shown an older one after a newer.   *)
(* So do commands, but while a send() meets an on_open, and but for late    *)
(* commands of an earlier connection.                                       *)
ImplementsFlow ==
    /\ TelemetryFlow!SafeSpec
    /\ CommandFlow!Init
    /\ [][overlap = "none" /\ overlap' = "none" /\ ~Late
              => [CommandFlow!Next]_(CommandFlow!vars)]_vars

=============================================================================
