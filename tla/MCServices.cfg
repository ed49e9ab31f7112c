CONSTANTS
    Pids <- MCPids
    Commands <- MCCommands
    MaxCommands = 2
    MaxCrashes = 1
SPECIFICATION Spec
INVARIANTS StopLeavesNone
PROPERTIES QueueTrusted CollectorRuns
CHECK_DEADLOCK FALSE
