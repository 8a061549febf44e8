----------------------------- MODULE MC_Listener -----------------------------
(* Model-checking instance of Listener.                                     *)
EXTENDS Listener
=============================================================================
