\* Arrays of at least two elements: see GenerationalSmall for shorter ones.
SPECIFICATION Spec
CONSTANTS
    HeapEnd = 18
    W = 2048
    Ids = {1, 2, 3, 4, 5}
    NRoots = 2
    Lengths = {2, 3}
    Kinds = {TRUE, FALSE}
    Elements = {1}
    Ints = {}
    ExplicitGC = FALSE
    CountBytes = FALSE
    MaxRemembered = 2
INVARIANTS
    HeapIntact
    ViewPreserved
    RememberedExact
PROPERTIES
    OomMeansNurseryTooSmall
    MinorHasRoom
    RefinesAbstract
\* The program may end, and it ends when it is out of memory.
CHECK_DEADLOCK FALSE
