SPECIFICATION FairSpec
CONSTANTS
  Schedules = {s1}
  Spaces = {p1}
  Jobs = {j1, j2}
  None = None
  MaxRetries = 1
  RetryWait = 1
  Horizon = 1
INVARIANTS OneTaskPerFire OneShotFiresOnce OneTaskPerInstant NeverOutOfReach
PROPERTIES StartRearms KeepsLedger ArmedFires
