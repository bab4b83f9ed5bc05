------------------------------- MODULE MCMarine -------------------------------
(* Model-checking instances of Marine. *)
EXTENDS Marine, TLC

CONSTANTS c1, c2, c3
=============================================================================
