SPECIFICATION FairSpecBus
CONSTANTS
  w1 = w1
  w2 = w2
  retried = retried
  cascading = cascading
  Msg = {1}
  Worker = {w1, w2}
  MaxCopies = 2
  MaxAttempts = 2
  StaleAfter = 1
  MaxRuns = 8
  Deployments <- MCDeployments
  MaxFaults = 1
  Redelivers = TRUE
  Handler = {retried, cascading}
  Name <- MCName
  Commands <- MCCommands
  Budget <- MCBudget
  Parks = {retried}
  Setups <- MCSetups
INVARIANTS NothingLost HandledOnce EveryHandlerReached RetryBounded
PROPERTIES EventuallySettled
CHECK_DEADLOCK FALSE
