------------------------------ MODULE MCParts ------------------------------
(***************************************************************************)
(* The parts that stand for themselves, one at a time: `part` says which   *)
(* one runs, the others keep their first state.                            *)
(***************************************************************************)
EXTENDS VerticalMotor, ImuFirmware, WebSocket, JsonPatch, UdpTransport, TelemetryReadings

VARIABLE part
Parts == {"motor", "imu", "websocket", "delta", "udp", "telemetry"}
Runs(name) == part = name
partVars == <<part, vars, imuVars, wsVars, patchVars, udpVars, telVars>>

-----------------------------------------------------------------------------
(* Values of the constants.                                                *)

\* The extreme and the least speeds in both directions.
MCSpeeds == {-255, -128, -1, 0, 1, 128, 255}

\* Boards whose earlier users turned any of some groups off, or all of them.
Off == SUBSET {"sd", "time", "accel", "euler", "heading"} \cup {Groups}
MCConfigured ==
    {[s \in Setting |-> IF s \in off THEN FALSE ELSE IF s = "time" THEN TRUE ELSE Defaults[s]] :
        off \in Off}

\* States with numbers, null, arrays and objects, keys that look like an index, and nesting.
Num(n) == [type |-> "number", value |-> n]
Arrays(elements, longest) ==
    UNION {{[type |-> "array", value |-> s] : s \in [1 .. n -> elements]} : n \in 0 .. longest}
Objects(keys, values) ==
    UNION {{[type |-> "object", value |-> f] : f \in [ks -> values]} : ks \in SUBSET keys}
Leaves == {Num(1), Num(2)}
Null == [type |-> "null", value |-> 0]
Snapshots == Leaves \cup {Null} \cup Arrays(Leaves, 3) \cup Objects({"ax", "0"}, Leaves)
                \cup Arrays({Num(1)} \cup Objects({"0"}, Leaves), 2)
MCStates == Objects({"imu"}, Snapshots) \cup Objects({"imu", "0"}, {Num(1)} \cup Arrays({Num(2)}, 2))
MCUnkept == [k \in {"time", "rtt"} |-> Num(0)]

\* The states, with the stamp of their send, and what is in them.
AllDocuments ==
    LET whole == MCStates \cup {Stamped(s, NewStamp) : s \in MCStates}
        Within(js) == UNION {{j.value[x] : x \in DOMAIN j.value} : j \in {j \in js : IsObject(j) \/ IsArray(j)}}
    IN whole \cup Within(whole) \cup Within(Within(whole)) \cup Within(Within(Within(whole)))
RECURSIVE Nesting(_)
Nesting(j) ==
    IF ~IsObject(j) /\ ~IsArray(j) THEN 0
    ELSE 1 + FoldSet(LAMBDA x, deepest : IF Nesting(j.value[x]) > deepest THEN Nesting(j.value[x])
                                         ELSE deepest, 0, DOMAIN j.value)
NestingOf == [j \in AllDocuments |-> Nesting(j)]

\* The two by name, as TLC evaluates a definition without parameters once.
MCDocuments == AllDocuments
MCDepth == NestingOf
MCToken(index) == ToString(index)

MCTickSteps == {<<1, 0>>, <<0, 1>>, <<1, 2>>}

-----------------------------------------------------------------------------
NoState == [type |-> "object", value |-> << >>]
PatchIdle ==
    /\ previousState = NoState /\ current = NoState
    /\ result = sentState /\ todo = <<>>

PartsInit ==
    /\ part \in Parts
    /\ Init /\ WsInit /\ UdpInit /\ TelInit
    /\ ImuInit /\ (Runs("imu") \/ ~flash.firstRun)
    /\ IF Runs("delta") THEN PatchInit ELSE PatchIdle

Motor == Runs("motor") /\ Next /\ UNCHANGED <<part, imuVars, wsVars, patchVars, udpVars, telVars>>
Imu == Runs("imu") /\ ImuNext /\ UNCHANGED <<part, vars, wsVars, patchVars, udpVars, telVars>>
Ws(action) ==
    Runs("websocket") /\ action /\ UNCHANGED <<part, vars, imuVars, patchVars, udpVars, telVars>>
Delta == Runs("delta") /\ PatchNext /\ UNCHANGED <<part, vars, imuVars, wsVars, udpVars, telVars>>
Udp == Runs("udp") /\ UdpNext /\ UNCHANGED <<part, vars, imuVars, wsVars, patchVars, telVars>>
Tel == Runs("telemetry") /\ TelNext /\ UNCHANGED <<part, vars, imuVars, wsVars, patchVars, udpVars>>

PartsNext == Motor \/ Imu \/ Ws(WsNext) \/ Delta \/ Udp \/ Tel

\* WsFairness, for the part that runs.
PartsSpec ==
    /\ PartsInit /\ [][PartsNext]_partVars
    /\ WF_partVars(Ws(WsWriter)) /\ WF_partVars(Ws(WsReader))

=============================================================================
