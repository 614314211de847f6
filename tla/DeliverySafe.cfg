SPECIFICATION Spec
CONSTANTS
    NumMsgs = 2
    MaxRuns = 2
    MaxFaults = 1
    Kinds = {"exit", "startup", "fatal", "timeout", "interrupt", "reset", "restart", "crash"}
INVARIANTS
    QueueServesItsRun
    PromisesMatch
PROPERTIES
    KeepsLedger
CHECK_DEADLOCK FALSE
