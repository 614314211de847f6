SPECIFICATION AnsweringSpec
CONSTANTS
    NumMsgs = 2
    MaxRuns = 3
    MaxFaults = 1
    Kinds = {"exit", "startup", "transient", "fatal", "interrupt", "reset", "restart", "crash"}
PROPERTIES
    EveryMessageConsumed
    ProcessingEnds
CHECK_DEADLOCK FALSE
