-------------------------- MODULE MCAggregateStore --------------------------
(* Instances of AggregateStore for TLC. *)
EXTENDS AggregateStore, TLC

CONSTANTS c1, c2

\* Every client saves through the unit of work, or one publishes on the bus
\* and the others insert into the outbox themselves.
MCModes == {[c \in Client |-> "Outbox"]}
           \cup {[c \in Client |-> IF c = d THEN "Inline" ELSE "Enqueue"] : d \in Client}
\* Permuting the clients permutes MCModes.
MCSymmetry == Permutations(Client)
=============================================================================
