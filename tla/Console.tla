-------------------------------- MODULE Console --------------------------------
(***************************************************************************)
(* Tasks that make system calls, and the console they share (02.Kernel64/  *)
(* Source/Console.c): the position of the next character and the cursor of *)
(* the CRT controller.  No lock guards them.  A kernel task prints with    *)
(* kPrintf, a user task with the library's printf, which are two system    *)
(* calls.  SYSCALL leaves interrupts on, so another task may run between   *)
(* any two accesses to the position or to a port.                          *)
(***************************************************************************)
EXTENDS SystemCall

CONSTANTS
    KernelTask,       \* the tasks that run in the kernel
    UserTask,         \* the tasks that run at user level
    Shell,            \* the kernel task of ConsoleShell.c
    Text,             \* what they print: sequences of "char", "\n" and "\t"
    Message,          \* what kProcessSystemCall prints itself: also one
    Point,            \* the <<x, y>> that programs set the cursor to, on the screen or not
    CONSOLESHELL_MAXCOMMANDBUFFERCOUNT,
    CONSOLE_WIDTH, CONSOLE_HEIGHT,
    TAB,              \* 8
    LASTLINE,         \* 24: where kInitializeConsole and kClearScreen set the cursor
    BYTE,             \* 2^8: what a register of the CRT controller holds
    MaxCalls          \* bound: how often tasks print or call the kernel

ASSUME ConsoleAssumption ==
    /\ CONSOLE_WIDTH \in Nat \ {0} /\ CONSOLE_HEIGHT \in Nat \ {0}
    /\ LASTLINE \in 0 .. CONSOLE_HEIGHT - 1
    /\ TAB \in Nat \ {0} /\ CONSOLE_WIDTH % TAB = 0
    /\ BYTE \in Nat \ {0} /\ CONSOLE_WIDTH * CONSOLE_HEIGHT <= BYTE * BYTE
ASSUME TextAssumption ==
    Text \subseteq Seq({"char", "\n", "\t"}) /\ Message \in Seq({"char", "\n", "\t"})
ASSUME PointAssumption == Point \subseteq Int \X Int
ASSUME TaskAssumption == KernelTask \cap UserTask = {} /\ Shell \in KernelTask
ASSUME ShellAssumption == CONSOLESHELL_MAXCOMMANDBUFFERCOUNT \in Nat

VARIABLES
    iCurrentPrintOffset,  \* the field of gs_stConsoleManager
    crtc,          \* the CRT controller: the selected register and the two of the cursor
    pc,            \* where task t stands
    request,       \* request[t]: the number and the parameters of its system call
    served,        \* served[t]: what the kernel calls for it
    string,        \* string[t]: what t has still to print
    offset,        \* iPrintOffset of kConsolePrintString, iLinearValue of kSetCursor
    printing,      \* printing[t]: is t in kPrintf or printf?
    iCommandBufferIndex,  \* of the shell: how many characters it can take back
    called,        \* called[t]: the library function that t is in (for properties)
    calls,         \* how many there have been
    expected,      \* where the text printed so far ends, by row and column (for properties)
    overlap,       \* have two tasks been in the console at once? (")
    strayed        \* has a task set the cursor off the screen? (")

shared == <<iCurrentPrintOffset, crtc>>
locals == <<request, served, string, offset, printing, iCommandBufferIndex, called>>
ghosts == <<calls, expected, overlap, strayed>>
vars == <<shared, pc, locals, ghosts>>

Task == KernelTask \cup UserTask
SCREEN == CONSOLE_WIDTH * CONSOLE_HEIGHT
Position == 0 .. SCREEN - 1
UPPER == "upper"        \* the registers 0x0E and 0x0F
LOWER == "lower"

NoRequest == [number |-> 0, table |-> [x \in 0 .. 19 |-> Garbage]]

\* kInitializeConsole(0, 24)
Init ==
    /\ iCurrentPrintOffset = LASTLINE * CONSOLE_WIDTH
    /\ crtc = [selected |-> LOWER,
               upper |-> (LASTLINE * CONSOLE_WIDTH) \div BYTE,
               lower |-> (LASTLINE * CONSOLE_WIDTH) % BYTE]
    /\ pc = [t \in Task |-> "run"]
    /\ request = [t \in Task |-> NoRequest]
    /\ served = [t \in Task |-> Undefined(0)]
    /\ string = [t \in Task |-> <<>>]
    /\ offset = [t \in Task |-> 0]
    /\ printing = [t \in Task |-> FALSE]
    /\ iCommandBufferIndex = 0
    /\ called = [t \in Task |-> "none"]
    /\ calls = 0 /\ expected = [row |-> LASTLINE, column |-> 0]
    /\ overlap = FALSE /\ strayed = FALSE

Goto(t, from, to) == pc[t] = from /\ pc' = [pc EXCEPT ![t] = to]

(***************************************************************************)
(* What a screen shows of a text, by row and column (for properties)       *)
(***************************************************************************)
Below(at) ==
    [row |-> IF at.row = CONSOLE_HEIGHT - 1 THEN at.row ELSE at.row + 1, column |-> 0]
ToColumn(at, column) ==
    IF column < CONSOLE_WIDTH THEN [at EXCEPT !.column = column] ELSE Below(at)
Before(at) ==
    IF at.column > 0 THEN [at EXCEPT !.column = @ - 1]
    ELSE IF at.row > 0 THEN [row |-> at.row - 1, column |-> CONSOLE_WIDTH - 1] ELSE at
After(at, c) ==
    CASE c = "char" -> ToColumn(at, at.column + 1)
      [] c = "\t" -> ToColumn(at, (at.column \div TAB + 1) * TAB)
      [] OTHER -> Below(at)

\* A call that moves the position, and so the end of the text
ConsoleCall ==
    {"printf", "ConsolePrintString", "SetCursor", "ClearScreen", "kSystemCallTestTask",
     "Backspace"} \cup {f.name : f \in LibraryFiles \cup LibraryDirectories}
InConsole(t) == pc[t] # "run" /\ called[t] \in ConsoleCall
Begin(t, name) ==
    /\ calls < MaxCalls /\ calls' = calls + 1
    /\ called' = [called EXCEPT ![t] = name]
    /\ overlap' = (\/ overlap
                   \/ name \in ConsoleCall /\ \E u \in Task \ {t} : InConsole(u))

(***************************************************************************)
(* System calls                                                            *)
(***************************************************************************)
\* The library stores its parameters and executes SYSCALL.
ExecuteSystemCall(t, name, values) ==
    \E f \in Library :
        /\ f.name = name
        /\ request' = [request EXCEPT
                         ![t] = [number |-> f.number, table |-> ParameterTable(f, values)]]

\* A user task calls a function that gives the console nothing to print and no place
\* to set the cursor to; its parameters are told apart by their names.
CallLibrary(t, f) ==
    /\ t \in UserTask /\ Goto(t, "run", "syscall")
    /\ f.name \notin {"ConsolePrintString", "SetCursor", "ClearScreen"}
    /\ request' = [request EXCEPT
                     ![t] = [number |-> f.number,
                             table |-> ParameterTable(f, [i \in DOMAIN f.params |-> 0])]]
    /\ Begin(t, f.name)
    /\ UNCHANGED <<shared, served, string, offset, printing, iCommandBufferIndex, expected,
                   strayed>>

\* printf: format the text, print it ...
printf(t, text) ==
    /\ t \in UserTask /\ Goto(t, "run", "syscall")
    /\ ExecuteSystemCall(t, "ConsolePrintString", <<text>>)
    /\ printing' = [printing EXCEPT ![t] = TRUE]
    /\ Begin(t, "printf")
    /\ UNCHANGED <<shared, served, string, offset, iCommandBufferIndex, expected, strayed>>

Linear(x, y) == y * CONSOLE_WIDTH + x
\* C's / and % round to zero.
Quot(a, b) == IF a >= 0 THEN a \div b ELSE -((-a) \div b)
Rem(a, b) == a - Quot(a, b) * b

\* Mutant of SetCursorAfter: the row and the column are swapped.
SwapAfter(t) ==
    /\ printing[t] /\ t \in UserTask /\ Goto(t, "sysret", "syscall")
    /\ ExecuteSystemCall(t, "SetCursor",
                         <<Quot(offset[t], CONSOLE_WIDTH), Rem(offset[t], CONSOLE_WIDTH)>>)
    /\ printing' = [printing EXCEPT ![t] = FALSE]
    /\ UNCHANGED <<shared, served, string, offset, iCommandBufferIndex, called, ghosts>>

\* ... and set the cursor behind it.
SetCursorAfter(t) ==
    /\ printing[t] /\ t \in UserTask /\ Goto(t, "sysret", "syscall")
    /\ ExecuteSystemCall(t, "SetCursor",
                         <<Rem(offset[t], CONSOLE_WIDTH), Quot(offset[t], CONSOLE_WIDTH)>>)
    /\ printing' = [printing EXCEPT ![t] = FALSE]
    /\ UNCHANGED <<shared, served, string, offset, iCommandBufferIndex, called, ghosts>>

\* The library's functions of the console, called by the program itself
ConsolePrintString(t, text) ==
    /\ t \in UserTask /\ Goto(t, "run", "syscall")
    /\ ExecuteSystemCall(t, "ConsolePrintString", <<text>>)
    /\ Begin(t, "ConsolePrintString")
    /\ UNCHANGED <<shared, served, string, offset, printing, iCommandBufferIndex, expected,
                   strayed>>

\* Neither the library nor the kernel looks whether the place is on the screen.
SetCursor(t, x, y) ==
    /\ t \in UserTask /\ Goto(t, "run", "syscall")
    /\ ExecuteSystemCall(t, "SetCursor", <<x, y>>)
    /\ Begin(t, "SetCursor")
    /\ strayed' = (strayed \/ Linear(x, y) \notin Position)
    /\ expected' = [row |-> Linear(x, y) \div CONSOLE_WIDTH,
                    column |-> Linear(x, y) % CONSOLE_WIDTH]
    /\ UNCHANGED <<shared, served, string, offset, printing, iCommandBufferIndex>>

ClearScreen(t) ==
    /\ t \in UserTask /\ Goto(t, "run", "syscall")
    /\ ExecuteSystemCall(t, "ClearScreen", <<>>)
    /\ Begin(t, "ClearScreen")
    /\ expected' = [row |-> LASTLINE, column |-> 0]
    /\ UNCHANGED <<shared, served, string, offset, printing, iCommandBufferIndex, strayed>>

\* kSystemCallEntryPoint and the switch of kProcessSystemCall
Dispatch(t) ==
    LET service == kProcessSystemCall(request[t].number, request[t].table)
        value(i) == service.arguments[i].value
    IN  /\ pc[t] = "syscall"
        /\ served' = [served EXCEPT ![t] = service]
        /\ \/ /\ service.function = "kConsolePrintString"
              /\ pc' = [pc EXCEPT ![t] = "begin"]
              /\ string' = [string EXCEPT ![t] = value(1)]
              /\ UNCHANGED <<offset, printing>>
           \/ /\ PrintsMessage(service)
              /\ pc' = [pc EXCEPT ![t] = "begin"]
              /\ string' = [string EXCEPT ![t] = Message]
              /\ printing' = [printing EXCEPT ![t] = TRUE]
              /\ UNCHANGED offset
           \/ /\ service.function = "kSetCursor"
              /\ pc' = [pc EXCEPT ![t] = "selectUpper"]
              /\ offset' = [offset EXCEPT ![t] = Linear(value(1), value(2))]
              /\ UNCHANGED <<string, printing>>
           \/ /\ service.function = "kClearScreen"
              /\ pc' = [pc EXCEPT ![t] = "clear"]
              /\ UNCHANGED <<string, offset, printing>>
           \/ /\ service.function = "kExitTask"
              /\ pc' = [pc EXCEPT ![t] = "ended"]
              /\ UNCHANGED <<string, offset, printing>>
           \/ /\ service.function \notin {"kConsolePrintString", "kSetCursor", "kClearScreen",
                                          "kExitTask"}
              /\ ~PrintsMessage(service)
              /\ pc' = [pc EXCEPT ![t] = "sysret"]
              /\ UNCHANGED <<string, offset, printing>>
        /\ UNCHANGED <<shared, request, iCommandBufferIndex, called, ghosts>>

Sysret(t) ==
    /\ ~printing[t] /\ Goto(t, "sysret", "run")
    /\ UNCHANGED <<shared, locals, ghosts>>

(***************************************************************************)
(* Console.c                                                               *)
(***************************************************************************)
kPrintf(t, text) ==
    /\ t \in KernelTask /\ Goto(t, "run", "begin")
    /\ string' = [string EXCEPT ![t] = text]
    /\ printing' = [printing EXCEPT ![t] = TRUE]
    /\ Begin(t, "printf")
    /\ UNCHANGED <<shared, request, served, offset, expected, strayed>>

\* kConsolePrintString reads the position once, ...
ReadOffset(t) ==
    /\ Goto(t, "begin", "loop")
    /\ offset' = [offset EXCEPT ![t] = iCurrentPrintOffset]
    /\ UNCHANGED <<shared, request, served, string, printing, iCommandBufferIndex, called,
                   ghosts>>

\* Mutant of Advanced: the screen scrolls one character too late.
ScrollLate(at, c) ==
    LET next == CASE c = "\n" -> at + (CONSOLE_WIDTH - Rem(at, CONSOLE_WIDTH))
                  [] c = "\t" -> at + (TAB - Rem(at, TAB))
                  [] OTHER -> at + 1
    IN  IF next > SCREEN THEN (CONSOLE_HEIGHT - 1) * CONSOLE_WIDTH ELSE next

\* ... goes on from character to character, and scrolls at the end of the screen.
Advanced(at, c) ==
    LET next == CASE c = "\n" -> at + (CONSOLE_WIDTH - Rem(at, CONSOLE_WIDTH))
                  [] c = "\t" -> at + (TAB - Rem(at, TAB))
                  [] OTHER -> at + 1
    IN  IF next >= SCREEN THEN (CONSOLE_HEIGHT - 1) * CONSOLE_WIDTH ELSE next

PrintCharacter(t) ==
    /\ pc[t] = "loop" /\ string[t] # <<>>
    /\ offset' = [offset EXCEPT ![t] = Advanced(@, Head(string[t]))]
    /\ string' = [string EXCEPT ![t] = Tail(@)]
    /\ expected' = IF printing[t] THEN After(expected, Head(string[t])) ELSE expected
    /\ UNCHANGED <<shared, pc, request, served, printing, iCommandBufferIndex, called, calls,
                   overlap, strayed>>

\* The position behind the text is returned; kPrintf goes on to kSetCursor.
EndOfString(t) ==
    /\ string[t] = <<>>
    /\ IF t \in KernelTask \/ PrintsMessage(served[t])
       THEN /\ Goto(t, "loop", "selectUpper")
            /\ offset' = [offset EXCEPT
                            ![t] = Linear(Rem(@, CONSOLE_WIDTH), Quot(@, CONSOLE_WIDTH))]
            /\ printing' = [printing EXCEPT ![t] = FALSE]
       ELSE Goto(t, "loop", "sysret") /\ UNCHANGED <<offset, printing>>
    /\ UNCHANGED <<shared, request, served, string, iCommandBufferIndex, called, ghosts>>

\* kSetCursor: a register of the CRT controller is selected by one port and
\* written by another.
Select(t, from, to, register) ==
    /\ Goto(t, from, to)
    /\ crtc' = [crtc EXCEPT !.selected = register]
    /\ UNCHANGED <<iCurrentPrintOffset, locals, ghosts>>

WriteRegister(t, from, to, byte) ==
    /\ Goto(t, from, to)
    /\ crtc' = [crtc EXCEPT ![crtc.selected] = byte]
    /\ UNCHANGED <<iCurrentPrintOffset, locals, ghosts>>

StoreOffset(t) ==
    /\ Goto(t, "store", IF t \in UserTask THEN "sysret" ELSE "run")
    /\ iCurrentPrintOffset' = offset[t]
    /\ UNCHANGED <<crtc, locals, ghosts>>

kSetCursor(t) ==
    \/ Select(t, "selectUpper", "upper", UPPER)
    \/ WriteRegister(t, "upper", "selectLower", (offset[t] \div BYTE) % BYTE)
    \/ Select(t, "selectLower", "lower", LOWER)
    \/ WriteRegister(t, "lower", "store", offset[t] % BYTE)
    \/ StoreOffset(t)

\* kClearScreen fills the screen and calls kSetCursor(0, 24).
kClearScreen(t) ==
    /\ Goto(t, "clear", "selectUpper")
    /\ offset' = [offset EXCEPT ![t] = Linear(0, LASTLINE)]
    /\ UNCHANGED <<shared, request, served, string, printing, iCommandBufferIndex, called,
                   ghosts>>

(***************************************************************************)
(* kStartConsoleShell, with a key that kGetCh has returned                 *)
(***************************************************************************)
\* Any other key is printed and kept.
TypeKey ==
    /\ iCommandBufferIndex < CONSOLESHELL_MAXCOMMANDBUFFERCOUNT
    /\ kPrintf(Shell, <<"char">>)
    /\ iCommandBufferIndex' = iCommandBufferIndex + 1

\* Enter: what the command and the prompt print follows as texts of the shell.
Enter ==
    /\ kPrintf(Shell, <<"\n">>)
    /\ iCommandBufferIndex' = 0

\* Backspace: kGetCursor reads the position twice, ...
Backspace ==
    /\ iCommandBufferIndex > 0 /\ iCommandBufferIndex' = iCommandBufferIndex - 1
    /\ Goto(Shell, "run", "column")
    /\ Begin(Shell, "Backspace")
    /\ UNCHANGED <<shared, request, served, string, offset, printing, expected, strayed>>

ReadColumn ==
    /\ Goto(Shell, "column", "row")
    /\ offset' = [offset EXCEPT ![Shell] = Rem(iCurrentPrintOffset, CONSOLE_WIDTH)]
    /\ UNCHANGED <<shared, request, served, string, printing, iCommandBufferIndex, called,
                   ghosts>>

\* ... and the place before it is erased, which is off the screen at its origin; then
\* the cursor is set there.
ReadRow ==
    LET before == Linear(offset[Shell] - 1, Quot(iCurrentPrintOffset, CONSOLE_WIDTH))
    IN  /\ Goto(Shell, "row", "erase")
        /\ offset' = [offset EXCEPT ![Shell] = before]
        /\ strayed' = (strayed \/ before < 0)
        /\ expected' = Before(expected)
        /\ UNCHANGED <<shared, request, served, string, printing, iCommandBufferIndex, called,
                       calls, overlap>>

kPrintStringXY ==
    /\ Goto(Shell, "erase", "selectUpper")
    /\ UNCHANGED <<shared, locals, ghosts>>

(***************************************************************************)
(* The specification                                                       *)
(***************************************************************************)
Program(t) ==
    \/ \E f \in Library \cup {TestTask} : CallLibrary(t, f)
    \/ \E text \in Text : printf(t, text) \/ ConsolePrintString(t, text)
    \/ \E text \in Text : kPrintf(t, text) /\ UNCHANGED iCommandBufferIndex
    \/ \E point \in Point : SetCursor(t, point[1], point[2])
    \/ ClearScreen(t)

Kernel(t) ==
    \/ Dispatch(t) \/ Sysret(t) \/ SetCursorAfter(t)
    \/ ReadOffset(t) \/ PrintCharacter(t) \/ EndOfString(t) \/ kSetCursor(t) \/ kClearScreen(t)

ConsoleShell == TypeKey \/ Enter \/ Backspace \/ ReadColumn \/ ReadRow \/ kPrintStringXY

Next == (\E t \in Task : Program(t) \/ Kernel(t)) \/ ConsoleShell

Spec == Init /\ [][Next]_vars

(***************************************************************************)
(* Properties                                                              *)
(***************************************************************************)
\* A call of the library, or of kSystemCallTestTask, reaches the function of the
\* kernel it stands for, every parameter in the place the kernel's declaration gives
\* it and none left over from the stack, unless it is one of NotServed; and those,
\* no more and no less, the kernel does not serve as they are meant.
CallsAreServed ==
    \A t \in UserTask :
        pc[t] \in {"sysret", "ended"} /\ called[t] # "printf" =>
            (Serves(served[t], called[t]) <=> called[t] \notin NotServed)

\* Until a program sets the cursor off the screen, or the shell takes a character
\* back at its origin, nobody writes outside the video memory however the tasks
\* interleave, and the position is one of the screen, so that the next print starts
\* there.
OutputIsOnScreen ==
    ~strayed =>
        /\ iCurrentPrintOffset \in Position
        /\ \A t \in Task : pc[t] \in {"loop", "erase", "store"} => offset[t] \in Position

\* As long as that has not happened and no two tasks have used the console at once,
\* the position and the cursor are behind the last character printed whenever nobody
\* is printing, as a screen of rows and columns has it; what the kernel prints for
\* a service it does not know counts.
CursorFollowsText ==
    ~strayed /\ ~overlap /\ (\A t \in Task : ~InConsole(t)) =>
        /\ iCurrentPrintOffset = Linear(expected.column, expected.row)
        /\ crtc.upper * BYTE + crtc.lower = iCurrentPrintOffset
===============================================================================
