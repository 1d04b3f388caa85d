-------------------------- MODULE MCPilotCommands --------------------------
(* PilotCommands with one pad of each kind and sticks at rest or pushed.   *)
EXTENDS PilotCommands, TLC

CONSTANTS d, x
MCKind == (d :> "D") @@ (x :> "X")
=============================================================================
