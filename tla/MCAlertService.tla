--------------------------- MODULE MCAlertService ---------------------------
(* Instances of AlertService for TLC. *)
EXTENDS AlertService

CONSTANTS r1, r2, h1, h2, s1, d1, d2
=============================================================================
