SPECIFICATION Spec
CONSTANTS
  k1 = k1
  k2 = k2
  NoKey = NoKey
  Key = {k1, k2}
  Msg <- MCMsgPair
  KeyOf <- MCKeyOfPair
  Shards = 1
  ShardOf <- MCShardOfPair
  Dispatcher = {d1, d2}
  Sweeper = {}
  BatchSize = 2
  Concurrency = 1
  MaxAttempts = 2
  Backoffs = {1}
  Lease = 2
  PublishFaults <- MCPublishFaultsPair
  MaxFaults = 1
CHECK_DEADLOCK FALSE
SYMMETRY MCDispatcherSymmetry
INVARIANTS BudgetSpent LeaseExclusive DuplicatesBounded
