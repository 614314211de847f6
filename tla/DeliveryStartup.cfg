SPECIFICATION Spec
CONSTANTS
    NumMsgs = 1
    MaxRuns = 1
    MaxFaults = 1
    Kinds = {"startup"}
INVARIANTS
    RetryReadsInput
CHECK_DEADLOCK FALSE
