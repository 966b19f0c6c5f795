\* Seven words of heap.
SPECIFICATION Spec
CONSTANTS
    HeapEnd = 9
    W = 32
    Ids = {1, 2, 3, 4}
    NRoots = 2
    Lengths = {0, 1, 2}
    Kinds = {TRUE, FALSE}
    Elements = {0, 1, 2}
    Ints = {2}
    ExplicitGC = TRUE
    CountBytes = TRUE
INVARIANTS
    HeapIntact
PROPERTIES
    OomTerminal
\* The program may end, and it ends when it is out of memory.
CHECK_DEADLOCK FALSE
