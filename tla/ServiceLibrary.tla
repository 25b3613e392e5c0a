--------------------------- MODULE ServiceLibrary ---------------------------
(***************************************************************************)
(* The order service with the money of the library.  What Money promises   *)
(* holds of all its inputs and changes with no step: it is stated of the   *)
(* initial states.                                                         *)
(***************************************************************************)
EXTENDS OrderService, Money

\* Money: moved, multiplied and split without loss up to the ends of its range
\* (Money!Conserved).
MoneyExact == Init => Conserved
=============================================================================
