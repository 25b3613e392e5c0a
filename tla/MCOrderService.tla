--------------------------- MODULE MCOrderService ---------------------------
(* An item of one cent, two of which are past MaxCents, and one with a quantity
   that AddItem's rules refuse.  JSON has no number that is not finite, so
   Money::brl refuses nothing that these rules let through.  Money is checked
   once, in the initial states: amounts of five bits in two currencies. *)
EXTENDS ServiceLibrary

CONSTANT o1

MCItems == {[price |-> 1, quantity |-> 1, valid |-> TRUE, finite |-> TRUE],
            [price |-> 1, quantity |-> 0, valid |-> FALSE, finite |-> TRUE]}
=============================================================================
