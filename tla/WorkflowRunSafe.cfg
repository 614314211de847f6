SPECIFICATION Spec
CONSTANTS
    Nodes = {A, B}
    EndNode = B
    A = A
    B = B
    MaxCrashRetries = 0
    MaxBlockedRetries = 1
    MaxNags = 1
    MaxRestarts = 0
    MaxActs = 1
PROPERTIES TerminalStands
