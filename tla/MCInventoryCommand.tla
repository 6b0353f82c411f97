------------------------- MODULE MCInventoryCommand -------------------------
(* Instances of InventoryCommand for TLC. *)
EXTENDS InventoryCommand

CONSTANTS w1, w2, p1, pUnknown

MCProductIds == {p1, pUnknown}
MCProducts == {p1}
=============================================================================
