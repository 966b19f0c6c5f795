\* Two seeds of matrix.json, one of which is how the other one begins.
SPECIFICATION Spec
CONSTANTS
    Configs <- MCConfig
    Pairs <- MCSeeds
    Shorter <- MCShorter
    Iterations = {1}
    ExitStatuses = {1, 3}
    TornWrites = TRUE
    MaxStarts = 2
INVARIANTS
    RecordedIsSkipped
CHECK_DEADLOCK FALSE
