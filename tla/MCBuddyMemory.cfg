\* Two tasks allocate and free in a pool of 5 units
SPECIFICATION Spec
CONSTANTS
    t1 = t1
    t2 = t2
    Task = {t1, t2}
    iBlockCountOfSmallestBlock = 5
    Start = 2
    QWORD = 16
    INTList = 2
    QWORDBits = 4
    BYTEBits = 2
    NULL = NULL
    Unused = Unused
    MaxBlocks = 2
    MaxLost = 1
SYMMETRY Symmetry
INVARIANTS
    TypeOK
    PoolIsConsistent
PROPERTIES
    RefusedOnlyWhenFull
    ImplementsAllocator
