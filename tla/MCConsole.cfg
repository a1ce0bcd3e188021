\* System calls, and the console under them
SPECIFICATION Spec
CONSTANTS
    KernelTask = {k}
    UserTask = {u1}
    Shell = k
    Text <- MCText
    Message <- MCMessage
    Point <- MCPoint
    CONSOLESHELL_MAXCOMMANDBUFFERCOUNT = 1
    CONSOLE_WIDTH = 4
    CONSOLE_HEIGHT = 3
    TAB = 2
    LASTLINE = 2
    BYTE = 4
    MaxCalls = 3
INVARIANTS
    CallsAreServed
    OutputIsOnScreen
    CursorFollowsText
CHECK_DEADLOCK FALSE
