------------------------- MODULE MCCircleSettlement -------------------------
(* Small instances of CircleSettlement for TLC.                             *)
EXTENDS CircleSettlement

CONSTANTS a1, a2, w1, w2
=============================================================================
