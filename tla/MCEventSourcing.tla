--------------------------- MODULE MCEventSourcing ---------------------------
(* Instances of EventSourcing for TLC. *)
EXTENDS EventSourcing, TLC

CONSTANTS c1, c2

MCSymmetry == Permutations(Client)
=============================================================================
