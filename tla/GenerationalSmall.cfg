\* Arrays of one element.
SPECIFICATION Spec
CONSTANTS
    HeapEnd = 13
    W = 2048
    Ids = {1, 2, 3, 4, 5}
    NRoots = 2
    Lengths = {1, 2}
    Kinds = {TRUE}
    Elements = {0}
    Ints = {}
    ExplicitGC = FALSE
    CountBytes = FALSE
    MaxRemembered = 2
PROPERTIES
    MinorHasRoom
\* The program may end, and it ends when it is out of memory.
CHECK_DEADLOCK FALSE
