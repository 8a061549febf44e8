------------------------------ MODULE MC_Socket ------------------------------
(* Model-checking instance of Socket.                                       *)
EXTENDS Socket
=============================================================================
