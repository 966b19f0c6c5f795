\* Two semispaces of seven words; length 27 makes the 32-bit bound check wrap.
SPECIFICATION Spec
CONSTANTS
    HeapEnd = 17
    W = 32
    Ids = {1, 2, 3, 4}
    NRoots = 2
    Lengths = {0, 1, 2, 27}
    Kinds = {TRUE, FALSE}
    Elements = {0, 1, 2}
    Ints = {2}
    ExplicitGC = TRUE
    CountBytes = TRUE
    EarlyGC = FALSE
INVARIANTS
    HeapIntact
    ViewPreserved
    ForwardingSound
    CopiedExactly
PROPERTIES
    OomMeansFull
    CollectionEnds
\* The program may end, and it ends when it is out of memory.
CHECK_DEADLOCK FALSE
