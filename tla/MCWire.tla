------------------------------- MODULE MCWire -------------------------------
(* Two services, releases 0 to 2, flows of up to three events. *)
EXTENDS Wire

CONSTANTS s1, s2
=============================================================================
