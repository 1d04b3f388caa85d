--------------------------- MODULE MCControlLink ---------------------------
(***************************************************************************)
(* ControlLink for the liveness runs: what an earlier connection, closed   *)
(* at both ends and forgotten, may have left behind, so that one more      *)
(* connection stands for a reconnection.                                   *)
(***************************************************************************)
EXTENDS ControlLink, TLC

(* The commands are alike, and so are the telemetry states. *)
Symmetry == Permutations(Command) \cup Permutations(Telemetry)

Reconnecting ==
    /\ Disconnected
    /\ clientReady \in BOOLEAN
    /\ toRobot \in Command /\ clientConnectionData \in Command
    /\ robotCommand \in Command \cup {NoValue}
    /\ shown \in Telemetry \cup {NoValue} /\ current \in Telemetry

ReconnectSpec == (Init \/ Reconnecting) /\ [][Next]_vars /\ Fairness
=============================================================================
