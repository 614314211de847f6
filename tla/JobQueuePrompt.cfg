SPECIFICATION FairSpec
CONSTANTS
  Jobs = {j1, j2}
  Runs = {r1, r2}
  None = None
  QueueCount = 1
  Priorities = {0, 1}
  MaxRetries = 1
  Delays = {0}
  RetryUnit = 1
  MaxConcurrent = 2
  StaleThreshold = 1
  StaleCheckInterval = 1
  CleanupAge = 1
  MaxRunTime = 1
  MaxLag = 1
INVARIANTS ExclusiveHandler RunOwnsClaim
PROPERTIES KeepsLedger EveryJobSettles StopEnds
