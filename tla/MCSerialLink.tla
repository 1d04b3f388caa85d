---------------------------- MODULE MCSerialLink ----------------------------
(* SerialLink on the two ends of one cable.                                *)
EXTENDS SerialLink

MCNode == {"onboard", "arduino"}
MCPeer == [n \in MCNode |-> IF n = "onboard" THEN "arduino" ELSE "onboard"]

(* Two messages from one node cross one of its peer. *)
Crossing == [n \in MCNode |-> IF n = "onboard" THEN 2 ELSE 1]

(* One node sends, its peer only answers. *)
OneSends == [n \in MCNode |-> IF n = "onboard" THEN 3 ELSE 0]
=============================================================================
