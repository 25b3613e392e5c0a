------------------------------ MODULE MCTenancy ------------------------------
(* Two tasks, two tenants, a purpose that may cross and one that may impersonate. *)
EXTENDS Tenancy, TLC

CONSTANTS t1, t2, acme, globex, console, support

MCSource == <<acme, globex>>
MCSymmetry == Permutations(Task)
=============================================================================
