\* Tables of two entries that wrap around, and iterations of both parities.
SPECIFICATION Spec
CONSTANTS
    Iterations = 5
    TableSize = 2
    SizeMin = 1
    SizeMax = 2
    Nodes = 3
    KeeperSlots = 2
    Fills = {7, 200}
    MaxArrays = 14
INVARIANTS
    NoFault
    StackBalanced
    AllocationsFollowSeed
    StructureHolds
PROPERTIES
    Halts
\* A program that has ended stays ended.
CHECK_DEADLOCK FALSE
