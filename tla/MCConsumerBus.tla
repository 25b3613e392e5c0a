---------------------------- MODULE MCConsumerBus ----------------------------
(* Two handlers: one retried and dead-lettered, one cascading two commands. *)
EXTENDS ConsumerBus

CONSTANTS w1, w2, retried, cascading

MCName == [h \in Handler |-> IF h = retried THEN "Retried" ELSE "Cascading"]
MCCommands == [h \in Handler |-> IF h = cascading THEN 2 ELSE 0]
MCBudget == [h \in Handler |-> IF h = retried THEN 2 ELSE 1]

MCDeployments ==
  {[withRetry |-> TRUE, mayFail |-> TRUE, prompt |-> FALSE],
   [withRetry |-> FALSE, mayFail |-> FALSE, prompt |-> TRUE]}

MCSetups ==
  {[port |-> "publish", list |-> <<retried, cascading>>, decoder |-> "own", policy |-> "CollectAll"],
   [port |-> "bytes", list |-> <<cascading, retried>>, decoder |-> "none", policy |-> "FailFast"],
   [port |-> "Retried", list |-> <<cascading>>, decoder |-> "none", policy |-> "FailFast"]}
=============================================================================
