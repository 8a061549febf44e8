----------------------------- MODULE MC_Resolver -----------------------------
(* Resolver for TLC: the Resolver objects are model values of the cfg.     *)
EXTENDS Resolver
=============================================================================
