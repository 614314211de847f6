SPECIFICATION FairSpec
CONSTANTS
    NumMsgs = 1
    MaxRuns = 3
    MaxFaults = 1
    Kinds = {"exit", "startup", "transient", "timeout"}
PROPERTIES
    EnqueuedSettles
    QueuedEnds
    ProcessingEnds
CHECK_DEADLOCK FALSE
