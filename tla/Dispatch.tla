------------------------------ MODULE Dispatch ------------------------------
(***************************************************************************)
(* From a declared command to its handler: what derive(Command) generates  *)
(* for a declaration, and CommandHandlerState::dispatch.                   *)
(*                                                                         *)
(* A declaration is [shape, fields, options]; a field has no #[garde(..)]  *)
(* attribute ("none"), skips validation ("skip"), or has a rule ("rule").  *)
(* A command is given by the fields whose value breaks their rule.         *)
(***************************************************************************)
EXTENDS Naturals, Sequences

\* struct_fields: named and positional fields alike; an enum has none.
StructFields(d) == IF d.shape \in {"named", "tuple"} THEN d.fields ELSE <<>>

\* has_garde_fields: some rule other than skip.
HasGardeFields(d) == \E i \in DOMAIN StructFields(d) : d.fields[i] = "rule"

\* expand_dispatchable, for derive(Command).
ExpandDispatchable(d) ==
  [internal |-> "internal" \in d.options,
   validates |-> "validate" \in d.options \/ HasGardeFields(d)]

\* The generated validate_input runs garde; without it the default accepts.
ValidateInput(d, broken) ==
  ExpandDispatchable(d).validates => \A i \in broken : d.fields[i] # "rule"

\* Whether pharos_app::dispatch, and CommandHandlerState::dispatch, which refuses
\* internal commands, reach the handler; else they return a validation error.
AppDispatch(d, broken) == ValidateInput(d, broken)
StateDispatch(d, broken) == ~ExpandDispatchable(d).internal /\ AppDispatch(d, broken)
=============================================================================
