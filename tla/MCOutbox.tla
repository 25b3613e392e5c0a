------------------------------ MODULE MCOutbox ------------------------------
(* Values of the constants of Outbox for TLC. *)
EXTENDS Outbox, TLC

CONSTANTS k1, k2

\* 1 and 2 share a key, and a scan reads the shard of 1 first; 3 has no key and
\* may be a poison message.
MCMsg == 1..3
MCKeyOf == <<k1, k1, NoKey>>
MCShardOf == <<1, 2, 2>>
MCPublishFaults == <<{"Transient"}, {}, {"Poison"}>>

\* Two rows of one key in one shard.
MCMsgPair == 1..2
MCKeyOfPair == <<k1, k1>>
MCShardOfPair == <<1, 1>>
MCPublishFaultsPair == [m \in MCMsgPair |-> {"Transient"}]
MCDispatcherSymmetry == Permutations(Dispatcher)
=============================================================================
