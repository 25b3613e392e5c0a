--------------------------- MODULE MCRealtimeHub ---------------------------
(* Instances of RealtimeHub for TLC. *)
EXTENDS RealtimeHub, TLC

CONSTANTS c1, c2, p1, p2

\* After is the filter it stands for, on every backlog of up to three messages
\* in the order of their versions.
ASSUME AfterIsFilter ==
  \A q \in UNION {[1..n -> [version : 1..4]] : n \in 0..3}, v \in 0..4 :
    (\A i, j \in DOMAIN q : i < j => q[i].version < q[j].version)
      => After(q, v) = SelectSeq(q, LAMBDA m : m.version > v)

MCSymmetry == Permutations(Client) \cup Permutations(Publisher)
=============================================================================
