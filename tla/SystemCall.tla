------------------------------ MODULE SystemCall ------------------------------
(***************************************************************************)
(* The system calls, as tables: what a function of the user library        *)
(* (03.Application/UserLibrary/Source/SystemCallLibrary.c) asks of the     *)
(* kernel, and what the kernel calls for it (02.Kernel64/Source/           *)
(* SystemCall.c).  The two meet in a service number and in a table of      *)
(* parameters on the caller's stack.  A parameter goes by its name and its *)
(* value.                                                                  *)
(***************************************************************************)
EXTENDS Integers, Sequences

\* SystemCallList.h, of which the library has a copy
SYSCALL ==
    [CONSOLEPRINTSTRING |-> 0, SETCURSOR |-> 1, GETCURSOR |-> 2, CLEARSCREEN |-> 3,
     GETCH |-> 4, MALLOC |-> 5, FREE |-> 6, FOPEN |-> 7, FREAD |-> 8, FWRITE |-> 9,
     FSEEK |-> 10, FCLOSE |-> 11, REMOVE |-> 12, OPENDIR |-> 13, READDIR |-> 14,
     REWINDDIR |-> 15, CLOSEDIR |-> 16, ISFILEOPENED |-> 17, READHDDSECTOR |-> 18,
     WRITEHDDSECTOR |-> 19, CREATETASK |-> 20, SCHEDULE |-> 21, CHANGEPRIORITY |-> 22,
     ENDTASK |-> 23, EXITTASK |-> 24, GETTASKCOUNT |-> 25, ISTASKEXIST |-> 26,
     GETPROCESSORLOAD |-> 27, CHANGEPROCESSORAFFINITY |-> 28, READRTCTIME |-> 29,
     READRTCDATE |-> 30, SENDSERIALDATA |-> 31, RECEIVESERIALDATA |-> 32,
     CLEARSERIALFIFO |-> 33, GETTOTALRAMSIZE |-> 34, GETTICKCOUNT |-> 35, SLEEP |-> 36,
     TEST |-> 37]   \* 0xFFFFFFFF: any number that is none of the others

(***************************************************************************)
(* The library: a function stores its parameters in this order and         *)
(* executes SYSCALL with this number.                                      *)
(***************************************************************************)
Function(name, service, params) ==
    [name |-> name, number |-> SYSCALL[service], params |-> params]

LibraryConsole == {
    Function("ConsolePrintString", "CONSOLEPRINTSTRING", <<"pcBuffer">>),
    Function("SetCursor", "SETCURSOR", <<"iX", "iY">>),
    Function("GetCursor", "GETCURSOR", <<"piX", "piY">>),
    Function("ClearScreen", "CLEARSCREEN", <<>>),
    Function("getch", "GETCH", <<>>)}

LibraryMemory == {
    Function("malloc", "MALLOC", <<"qwSize">>),
    Function("free", "FREE", <<"pvAddress">>)}

LibraryFiles == {
    Function("fopen", "FOPEN", <<"pcFileName", "pcMode">>),
    Function("fread", "FREAD", <<"pvBuffer", "dwSize", "dwCount", "pstFile">>),
    Function("fwrite", "FWRITE", <<"pvBuffer", "dwSize", "dwCount", "pstFile">>),
    Function("fseek", "FSEEK", <<"pstFile", "iOffset", "iOrigin">>),
    Function("fclose", "FCLOSE", <<"pstFile">>),
    Function("remove", "REMOVE", <<"pcFileName">>)}

LibraryDirectories == {
    Function("opendir", "OPENDIR", <<"pcDirectoryName">>),
    Function("readdir", "READDIR", <<"pstDirectory">>),
    Function("rewinddir", "REWINDDIR", <<"pstDirectory">>),
    Function("closedir", "CLOSEDIR", <<"pstDirectory">>),
    Function("IsFileOpened", "ISFILEOPENED", <<"pstEntry">>)}

LibraryDisk == {
    Function("ReadHDDSector", "READHDDSECTOR",
             <<"bPrimary", "bMaster", "dwLBA", "iSectorCount", "pcBuffer">>),
    Function("WriteHDDSector", "WRITEHDDSECTOR",
             <<"bPrimary", "bMaster", "dwLBA", "iSectorCount", "pcBuffer">>)}

LibraryTasks == {
    Function("CreateTask", "CREATETASK",
             <<"qwFlags", "pvMemoryAddress", "qwMemorySize", "qwEntryPointAddress",
               "bAffinity">>),
    Function("Schedule", "SCHEDULE", <<>>),
    Function("ChangePriority", "CHANGEPRIORITY",
             <<"qwID", "bPriority", "bExecutedInInterrupt">>),
    Function("EndTask", "ENDTASK", <<"qwTaskID">>),
    Function("exit", "EXITTASK", <<"iExitValue">>),
    Function("GetTaskCount", "GETTASKCOUNT", <<"bAPICID">>),
    Function("IsTaskExist", "ISTASKEXIST", <<"qwID">>),
    Function("GetProcessorLoad", "GETPROCESSORLOAD", <<"bAPICID">>),
    Function("ChangeProcessorAffinity", "CHANGEPROCESSORAFFINITY",
             <<"qwTaskID", "bAffinity">>)}

LibraryDevices == {
    Function("ReadRTCTime", "READRTCTIME", <<"pbHour", "pbMinute", "pbSecond">>),
    Function("ReadRTCDate", "READRTCDATE",
             <<"pwYear", "pbMonth", "pbDayOfMonth", "pbDayOfWeek">>),
    Function("SendSerialData", "SENDSERIALDATA", <<"pbBuffer", "iSize">>),
    Function("ReceiveSerialData", "RECEIVESERIALDATA", <<"pbBuffer", "iSize">>),
    Function("ClearSerialFIFO", "CLEARSERIALFIFO", <<>>),
    Function("GetTotalRAMSize", "GETTOTALRAMSIZE", <<>>),
    Function("GetTickCount", "GETTICKCOUNT", <<>>),
    Function("Sleep", "SLEEP", <<"qwMillisecond">>)}

Library ==
    LibraryConsole \cup LibraryMemory \cup LibraryFiles \cup LibraryDirectories
    \cup LibraryDisk \cup LibraryTasks \cup LibraryDevices

\* The kernel's own program of user level, kSystemCallTestTask, asks for a service
\* that the library has no function for.
TestTask == Function("kSystemCallTestTask", "TEST", <<>>)

\* What is in an entry of the table that the library has not stored to: it is
\* on the stack.
Garbage == [name |-> "garbage", value |-> 0]

\* PARAM(x) after the library function f has stored the values
Parameter(f, values, x) ==
    IF x < Len(f.params) THEN [name |-> f.params[x + 1], value |-> values[x + 1]]
    ELSE Garbage
ParameterTable(f, values) == [x \in 0 .. 19 |-> Parameter(f, values, x)]

(***************************************************************************)
(* The kernel: a service number is a call of this function with these      *)
(* entries of the table.                                                   *)
(***************************************************************************)
Case(service, function, arguments) ==
    [number |-> SYSCALL[service], function |-> function, arguments |-> arguments]

KernelConsole(P) == {
    Case("CONSOLEPRINTSTRING", "kConsolePrintString", <<P[0]>>),
    Case("SETCURSOR", "kSetCursor", <<P[0], P[1]>>),
    Case("GETCURSOR", "kGetCursor", <<P[0], P[1]>>),
    Case("CLEARSCREEN", "kClearScreen", <<>>),
    Case("GETCH", "kGetCh", <<>>)}

KernelMemoryAndDisk(P) == {
    Case("MALLOC", "kAllocateMemory", <<P[0]>>),
    Case("FREE", "kFreeMemory", <<P[0]>>),
    Case("READHDDSECTOR", "kReadHDDSector", <<P[0], P[1], P[2], P[3]>>),
    Case("WRITEHDDSECTOR", "kWriteHDDSector", <<P[0], P[1], P[2], P[3]>>)}

\* Mutant of KernelTasks: two parameters are swapped.
SwapParameters(P) == {
    Case("CREATETASK", "kCreateTask", <<P[0], P[1], P[2], P[4], P[3]>>),
    Case("ENDTASK", "kEndTask", <<P[0]>>), Case("EXITTASK", "kExitTask", <<>>)}

KernelTasks(P) == {
    Case("CREATETASK", "kCreateTask", <<P[0], P[1], P[2], P[3], P[4]>>),
    Case("SCHEDULE", "kSchedule", <<>>),
    Case("CHANGEPRIORITY", "kChangePriority", <<P[0], P[1]>>),
    Case("ENDTASK", "kEndTask", <<P[0]>>),
    Case("EXITTASK", "kExitTask", <<>>),
    Case("GETTASKCOUNT", "kGetTaskCount", <<P[0]>>),
    Case("ISTASKEXIST", "kIsTaskExist", <<P[0]>>),
    Case("GETPROCESSORLOAD", "kGetProcessorLoad", <<P[0]>>),
    Case("CHANGEPROCESSORAFFINITY", "kChangePriority", <<P[0], P[1]>>)}

KernelDevices(P) == {
    Case("READRTCTIME", "kReadRTCTime", <<P[0], P[1], P[2]>>),
    Case("READRTCDATE", "kReadRTCDate", <<P[0], P[1], P[2], P[3]>>),
    Case("SENDSERIALDATA", "kSendSerialData", <<P[0], P[1]>>),
    Case("RECEIVESERIALDATA", "kReceiveSerialData", <<P[0], P[1]>>),
    Case("CLEARSERIALFIFO", "kClearSerialFIFO", <<>>),
    Case("GETTOTALRAMSIZE", "kGetTotalRAMSize", <<>>),
    Case("GETTICKCOUNT", "kGetTickCount", <<>>),
    Case("SLEEP", "kSleep", <<P[0]>>)}

\* SYSCALL_TEST prints that it works.
KernelTest == {Case("TEST", "kPrintf", <<>>)}

KernelServices(P) ==
    KernelConsole(P) \cup KernelMemoryAndDisk(P) \cup KernelTasks(P) \cup KernelDevices(P)
    \cup KernelTest

\* The cases of files and directories are commented out: the default prints that
\* the number is undefined, and FALSE is returned.
Undefined(number) == [number |-> number, function |-> "undefined", arguments |-> <<>>]

kProcessSystemCall(number, P) ==
    LET cases == {c \in KernelServices(P) : c.number = number}
    IN  IF cases = {} THEN Undefined(number) ELSE CHOOSE c \in cases : TRUE

\* The services in which kProcessSystemCall itself prints with kPrintf
PrintsMessage(service) == service.function \in {"kPrintf", "undefined"}

(***************************************************************************)
(* What a caller expects: the function of the kernel of that purpose, and  *)
(* its parameters, under the names the kernel gives them.                  *)
(***************************************************************************)
Meant ==
    [ConsolePrintString |-> "kConsolePrintString", SetCursor |-> "kSetCursor",
     GetCursor |-> "kGetCursor", ClearScreen |-> "kClearScreen", getch |-> "kGetCh",
     malloc |-> "kAllocateMemory", free |-> "kFreeMemory",
     fopen |-> "fopen", fread |-> "fread", fwrite |-> "fwrite", fseek |-> "fseek",
     fclose |-> "fclose", remove |-> "remove", opendir |-> "opendir",
     readdir |-> "readdir", rewinddir |-> "rewinddir", closedir |-> "closedir",
     IsFileOpened |-> "kIsFileOpened", ReadHDDSector |-> "kReadHDDSector",
     WriteHDDSector |-> "kWriteHDDSector", CreateTask |-> "kCreateTask",
     Schedule |-> "kSchedule", ChangePriority |-> "kChangePriority",
     EndTask |-> "kEndTask", exit |-> "kExitTask", GetTaskCount |-> "kGetTaskCount",
     IsTaskExist |-> "kIsTaskExist", GetProcessorLoad |-> "kGetProcessorLoad",
     ChangeProcessorAffinity |-> "kChangeProcessorAffinity",
     ReadRTCTime |-> "kReadRTCTime", ReadRTCDate |-> "kReadRTCDate",
     SendSerialData |-> "kSendSerialData", ReceiveSerialData |-> "kReceiveSerialData",
     ClearSerialFIFO |-> "kClearSerialFIFO", GetTotalRAMSize |-> "kGetTotalRAMSize",
     GetTickCount |-> "kGetTickCount", Sleep |-> "kSleep",
     kSystemCallTestTask |-> "kPrintf"]

\* The declarations in the kernel's headers; a function not named has none, or no
\* parameters.
Declared ==
    [kConsolePrintString |-> <<"pcBuffer">>, kSetCursor |-> <<"iX", "iY">>,
     kGetCursor |-> <<"piX", "piY">>, kAllocateMemory |-> <<"qwSize">>,
     kFreeMemory |-> <<"pvAddress">>,
     kReadHDDSector |-> <<"portnum", "dwLBA", "iSectorCount", "pcBuffer">>,
     kWriteHDDSector |-> <<"portnum", "dwLBA", "iSectorCount", "pcBuffer">>,
     kCreateTask |-> <<"qwFlags", "pvMemoryAddress", "qwMemorySize",
                       "qwEntryPointAddress", "bAffinity">>,
     kChangePriority |-> <<"qwID", "bPriority">>, kEndTask |-> <<"qwTaskID">>,
     kGetTaskCount |-> <<"bAPICID">>, kIsTaskExist |-> <<"qwID">>,
     kGetProcessorLoad |-> <<"bAPICID">>,
     kChangeProcessorAffinity |-> <<"qwTaskID", "bAffinity">>,
     kReadRTCTime |-> <<"pbHour", "pbMinute", "pbSecond">>,
     kReadRTCDate |-> <<"pwYear", "pbMonth", "pbDayOfMonth", "pbDayOfWeek">>,
     kSendSerialData |-> <<"pbBuffer", "iSize">>,
     kReceiveSerialData |-> <<"pbBuffer", "iSize">>, kSleep |-> <<"qwMillisecond">>]
Parameters(function) == IF function \in DOMAIN Declared THEN Declared[function] ELSE <<>>

NamesOf(arguments) == [i \in DOMAIN arguments |-> arguments[i].name]

\* The service calls what the function of this name stands for, and every parameter
\* arrives in the place the kernel's declaration gives it.
Serves(service, name) ==
    /\ service.function = Meant[name]
    /\ NamesOf(service.arguments) = Parameters(service.function)

\* The functions that are not served so: files and directories, whose cases are
\* commented out; the disk, whose port the kernel takes from what the library calls
\* bPrimary; and the affinity, which is served by kChangePriority.
NotServed ==
    {f.name : f \in LibraryFiles \cup LibraryDirectories \cup LibraryDisk}
    \cup {"ChangeProcessorAffinity"}
===============================================================================
