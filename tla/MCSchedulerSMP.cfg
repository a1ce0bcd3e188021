\* Two cores with load balancing; no task moves another
SPECIFICATION Spec
CONSTANTS
    c0 = c0
    c1 = c1
    shell = shell
    idle0 = idle0
    idle1 = idle1
    a = a
    b = b
    x = x
    y = y
    None = None
    AnyCore = AnyCore
    WAIT = 255
    NPriority = 2
    MaxCalls = 2
    Core = {c0, c1}
    TCB = {shell, idle0, idle1, a, b, x}
    Priorities = {1}
    Affinities = {c1}
    Boot <- SmpBoot
    BootRunning <- MCBootRunning
    May <- SmpMay
    Asks <- SmpAsks
INVARIANTS
    TypeOK
    NoTaskLostOrDoubled
    ExecutionIsConsistent
    ReadyListsConsistent
    EndedTaskNeverRuns
