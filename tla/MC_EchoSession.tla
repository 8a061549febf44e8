---------------------------- MODULE MC_EchoSession ----------------------------
(* Model-checking instance of EchoSession: the constants are given in the  *)
(* .cfg files.                                                              *)
EXTENDS EchoSession
===============================================================================
