\* The program also executes GC instructions.
SPECIFICATION Spec
CONSTANTS
    HeapEnd = 18
    W = 2048
    Ids = {1, 2, 3, 4, 5}
    NRoots = 2
    Lengths = {2}
    Kinds = {TRUE}
    Elements = {1}
    Ints = {}
    ExplicitGC = TRUE
    CountBytes = FALSE
    MaxRemembered = 2
INVARIANTS
    HeadroomKept
PROPERTIES
    CollectionEnds
\* The program may end, and it ends when it is out of memory.
CHECK_DEADLOCK FALSE
