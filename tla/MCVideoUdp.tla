----------------------------- MODULE MCVideoUdp -----------------------------
(* VideoUdp with five pixels in packets of two, so that the last packet wraps. *)
EXTENDS VideoUdp

=============================================================================
