\* Mutex across two cores, semaphore within one
SPECIFICATION Spec
CONSTANTS
    c0 = c0
    c1 = c1
    m1 = m1
    m2 = m2
    s1 = s1
    s2 = s2
    i1 = i1
    TASK_INVALIDID = TASK_INVALIDID
    Core = {c0, c1}
    Task = {m1, m2, s1, s2, i1}
    Start <- MCStart
    FirstRunning <- MCFirstRunning
    MutexUser = {m1, m2}
    SemaphoreUser = {s1, s2}
    LoadBalanced = {m1, m2}
    Moved = {i1}
    value = 1
    DWORD = 8
    MaxDepth = 2
INVARIANTS
    TypeOK
    HolderIsOwner
    FreeMutexIsClear
    CountIsAccurate
PROPERTIES
    ImplementsReentrantLock
