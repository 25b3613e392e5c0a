SPECIFICATION FairSpec
CONSTANTS
  s1 = s1
  s2 = s2
  e1 = e1
  e2 = e2
  NoDeadline = NoDeadline
  Saga = {s1, s2}
  Event = {e1, e2}
  Runner = {1, 2}
  Sweeper = {11, 12}
  LiveKinds = {"Advance", "Complete"}
  Deadlines = {1}
  Lease = 1
  Limit = 2
  MaxRetries = 2
  MaxDeliveries = 3
  MaxVersion = 3
  Deployments <- MCDeployments
INVARIANTS OneValidClaim CommandOnce
PROPERTIES FoldedForGood EventuallyTimedOut
CHECK_DEADLOCK FALSE
