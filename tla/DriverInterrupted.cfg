\* No write is ever torn here: the driver is only killed between two steps.
SPECIFICATION Spec
CONSTANTS
    Configs <- MCConfigs
    Pairs <- MCPairs
    Shorter = {}
    Iterations = {1}
    ExitStatuses = {1, 2, 3}
    TornWrites = FALSE
    MaxStarts = 2
INVARIANTS
    ResumesAfterInterruption
CHECK_DEADLOCK FALSE
