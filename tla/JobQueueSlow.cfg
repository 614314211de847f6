SPECIFICATION Spec
CONSTANTS
  Jobs = {j1, j2}
  Runs = {r1, r2, r3}
  None = None
  QueueCount = 2
  Priorities = {0}
  MaxRetries = 1
  Delays = {0}
  RetryUnit = 1
  MaxConcurrent = 2
  StaleThreshold = 1
  StaleCheckInterval = 1
  CleanupAge = 1
  MaxRunTime = 3
  MaxLag = 1
SYMMETRY Symmetry
INVARIANT SlotAccounting
PROPERTY NoIdleSlot
