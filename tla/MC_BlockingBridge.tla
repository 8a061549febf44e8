------------------------- MODULE MC_BlockingBridge -------------------------
(* Model-checking instance of BlockingBridge: the constants are given in   *)
(* the .cfg files.                                                          *)
EXTENDS BlockingBridge
=============================================================================
