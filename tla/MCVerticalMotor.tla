-------------------------- MODULE MCVerticalMotor --------------------------
(* VerticalMotor with the extreme and the least speeds in both directions. *)
EXTENDS VerticalMotor

MCSpeeds == {-255, -128, -1, 0, 1, 128, 255}
=============================================================================
