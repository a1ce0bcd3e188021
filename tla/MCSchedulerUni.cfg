\* One core: create, end, exit, priority, yield, timer, idle task; every ready
\* task runs, every ended task is freed
SPECIFICATION FairSpec
CONSTANTS
    c0 = c0
    c1 = c1
    shell = shell
    idle0 = idle0
    idle1 = idle1
    a = a
    b = b
    x = x
    y = y
    None = None
    AnyCore = AnyCore
    WAIT = 255
    NPriority = 2
    MaxCalls = 2
    Core = {c0}
    TCB = {shell, idle0, a, b}
    Priorities = {1}
    Affinities = {c0}
    Boot <- UniBoot
    BootRunning <- MCBootRunning
    May <- UniMay
    Asks <- UniAsks
INVARIANTS
    NoTaskLostOrDoubled
    FamilyIsConsistent
PROPERTIES
    ReadyTaskRuns
    EndedTaskIsFreed
