\* Two runs that share one program. The driver is killed and started three times, on
\* a disk that may fill up in the middle of any write. The VM that writes a summary
\* reports OOM. The driver need not be started again: deadlock is not checked.
SPECIFICATION Spec
CONSTANTS
    Configs <- MCConfigs
    Pairs <- MCPairs
    Shorter = {}
    Iterations = {1}
    ExitStatuses = {2}
    TornWrites = TRUE
    MaxStarts = 3
INVARIANTS
    NeverRedone
    RowIsTrue
PROPERTIES
    RefinesResultsTable
    EveryRunRecorded
CHECK_DEADLOCK FALSE
