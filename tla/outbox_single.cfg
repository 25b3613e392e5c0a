SPECIFICATION FairSpec
CONSTANTS
  k1 = k1
  k2 = k2
  NoKey = NoKey
  Key = {k1, k2}
  Msg <- MCMsg
  KeyOf <- MCKeyOf
  Shards = 2
  ShardOf <- MCShardOf
  Dispatcher = {d1}
  Sweeper = {s1}
  BatchSize = 2
  Concurrency = 2
  MaxAttempts = 2
  Backoffs = {1}
  Lease = 1
  PublishFaults <- MCPublishFaults
  MaxFaults = 1
CHECK_DEADLOCK FALSE
INVARIANTS OvertakenOnlyInRetry
PROPERTIES ImplementsDelivery EventuallySettled
