\* The FPU of two cores
SPECIFICATION Spec
CONSTANTS
    c0 = c0
    c1 = c1
    a = a
    b = b
    new = new
    TASK_INVALIDID = TASK_INVALIDID
    Core = {c0, c1}
    TCB = {a, b, new}
    FirstTask <- MCFirstTask
    MaxUse = 2
    MaxGeneration = 2
INVARIANTS
    ComputationsAreKept
    LastUserIsLocal
VIEW MCView
CHECK_DEADLOCK FALSE
