SPECIFICATION FairSpec
CONSTANTS
    Nodes = {B}
    EndNode = B
    B = B
    MaxCrashRetries = 1
    MaxBlockedRetries = 1
    MaxNags = 1
    MaxRestarts = 1
    MaxActs = 3
PROPERTIES PendingSpawns StuckHandled EndedRunSettlesTask BlockedRetried
