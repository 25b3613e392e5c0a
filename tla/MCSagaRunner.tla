---------------------------- MODULE MCSagaRunner ----------------------------
(* Instances of SagaRunner for TLC. *)
EXTENDS SagaRunner

CONSTANTS s1, s2, e1, e2

\* Two events of one saga and sweeps that may outlive their leases; one event
\* for each of two sagas, with prompt sweeps that end them, or that do not.
OneSaga == [e \in Event |-> s1]
TwoSagas == [e \in Event |-> IF e = e1 THEN s1 ELSE s2]
MCDeployments ==
  {[idFor |-> OneSaga, fresh |-> {"Start"}, timeout |-> {"Ignore"},
    prompt |-> FALSE, faults |-> 0],
   [idFor |-> TwoSagas, fresh |-> {"Start", "Fail"}, timeout |-> {"Complete", "Fail"},
    prompt |-> TRUE, faults |-> 1],
   [idFor |-> TwoSagas, fresh |-> {"Complete", "Start"}, timeout |-> {"Ignore"},
    prompt |-> TRUE, faults |-> 0]}
=============================================================================
