CONSTANTS
    c0 = c0
    c1 = c1
    noCore = noCore
    Core <- MCCore
    Lock <- MCLock
    NoAPICID = noCore
    MaxCalls = 2
SPECIFICATION FairSpec
INVARIANTS
    TypeOK
    MutualExclusion
    InterruptsAreControlled
    NoSelfDeadlock
PROPERTIES
    ImplementsReentrantLock
    InnermostIsReleased
