----------------------------- MODULE MCVideoTcp -----------------------------
(* VideoTcp with headers of two units, so that a read may stop inside one. *)
EXTENDS VideoTcp

=============================================================================
