------------------------------ MODULE MCFanOut ------------------------------
(* Instances of FanOut for TLC. *)
EXTENDS FanOut

CONSTANTS p1, p2, c1, c2, w1, w2
=============================================================================
