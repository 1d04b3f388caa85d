---------------------------- MODULE MCWebSocket ----------------------------
(* WebSocket with states whose length needs no further bytes, and two more. *)
EXTENDS WebSocket

=============================================================================
