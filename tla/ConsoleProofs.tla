----------------------------- MODULE ConsoleProofs -----------------------------
(***************************************************************************)
(* Proofs about the module Console, for any number of tasks, any texts     *)
(* and a screen of any size that two registers of a byte address.          *)
(*                                                                         *)
(* The table of services is a finite relation: a number is served in one   *)
(* way (OneCase), and what the library stores arrives (EveryoneIsServed).  *)
(* The positions are pairs of a row and a column (RowAndColumn), which the *)
(* loop of kConsolePrintString advances as a screen does (AdvancedIs).     *)
(* The inductive invariant then says of a task where it can be in its      *)
(* call, and of the one task in the console how far it has brought the     *)
(* position and the controller to the end of the text.                     *)
(***************************************************************************)
EXTENDS Console, TLAPS

(***************************************************************************)
(* The table of services                                                   *)
(***************************************************************************)
\* The numbers that the kernel serves
LEMMA Number ==
    /\ SYSCALL["CONSOLEPRINTSTRING"] = 0
    /\ SYSCALL["SETCURSOR"] = 1
    /\ SYSCALL["GETCURSOR"] = 2
    /\ SYSCALL["CLEARSCREEN"] = 3
    /\ SYSCALL["GETCH"] = 4
    /\ SYSCALL["MALLOC"] = 5
    /\ SYSCALL["FREE"] = 6
    /\ SYSCALL["READHDDSECTOR"] = 18
    /\ SYSCALL["WRITEHDDSECTOR"] = 19
    /\ SYSCALL["CREATETASK"] = 20
    /\ SYSCALL["SCHEDULE"] = 21
    /\ SYSCALL["CHANGEPRIORITY"] = 22
    /\ SYSCALL["ENDTASK"] = 23
    /\ SYSCALL["EXITTASK"] = 24
    /\ SYSCALL["GETTASKCOUNT"] = 25
    /\ SYSCALL["ISTASKEXIST"] = 26
    /\ SYSCALL["GETPROCESSORLOAD"] = 27
    /\ SYSCALL["CHANGEPROCESSORAFFINITY"] = 28
    /\ SYSCALL["READRTCTIME"] = 29
    /\ SYSCALL["READRTCDATE"] = 30
    /\ SYSCALL["SENDSERIALDATA"] = 31
    /\ SYSCALL["RECEIVESERIALDATA"] = 32
    /\ SYSCALL["CLEARSERIALFIFO"] = 33
    /\ SYSCALL["GETTOTALRAMSIZE"] = 34
    /\ SYSCALL["GETTICKCOUNT"] = 35
    /\ SYSCALL["SLEEP"] = 36
    /\ SYSCALL["TEST"] = 37
BY DEF SYSCALL

\* The fields of a service
LEMMA CaseIs ==
    ASSUME NEW s, NEW f, NEW a
    PROVE  Case(s, f, a).number = SYSCALL[s] /\ Case(s, f, a).function = f
           /\ Case(s, f, a).arguments = a
BY DEF Case

\* The numbers of this group, and that each is served in one way
LEMMA KernelConsoleCase ==
    ASSUME NEW P, NEW c \in KernelConsole(P)
    PROVE  /\ c.number \in 0 .. 4
           /\ \A d \in KernelConsole(P) : d.number = c.number => d = c
<1> DEFINE c1 == Case("CONSOLEPRINTSTRING", "kConsolePrintString", <<P[0]>>)
<1> DEFINE c2 == Case("SETCURSOR", "kSetCursor", <<P[0], P[1]>>)
<1> DEFINE c3 == Case("GETCURSOR", "kGetCursor", <<P[0], P[1]>>)
<1> DEFINE c4 == Case("CLEARSCREEN", "kClearScreen", <<>>)
<1> DEFINE c5 == Case("GETCH", "kGetCh", <<>>)
<1>1. /\ c1.number = 0
      /\ c2.number = 1
  BY Number DEF Case
<1>2. /\ c3.number = 2
      /\ c4.number = 3
  BY Number DEF Case
<1>3. /\ c5.number = 4
  BY Number DEF Case
<1>9. \A d : d \in KernelConsole(P) <=> \/ d = c1
                    \/ d = c2
                    \/ d = c3
                    \/ d = c4
                    \/ d = c5
  BY DEF KernelConsole
<1> HIDE DEF c1, c2, c3, c4, c5
<1>. QED
  BY <1>9, <1>1, <1>2, <1>3

\* The numbers of this group, and that each is served in one way
LEMMA KernelMemoryAndDiskCase ==
    ASSUME NEW P, NEW c \in KernelMemoryAndDisk(P)
    PROVE  /\ c.number \in {5, 6, 18, 19}
           /\ \A d \in KernelMemoryAndDisk(P) : d.number = c.number => d = c
<1> DEFINE c1 == Case("MALLOC", "kAllocateMemory", <<P[0]>>)
<1> DEFINE c2 == Case("FREE", "kFreeMemory", <<P[0]>>)
<1> DEFINE c3 == Case("READHDDSECTOR", "kReadHDDSector", <<P[0], P[1], P[2], P[3]>>)
<1> DEFINE c4 == Case("WRITEHDDSECTOR", "kWriteHDDSector", <<P[0], P[1], P[2], P[3]>>)
<1>1. /\ c1.number = 5
      /\ c2.number = 6
  BY Number DEF Case
<1>2. /\ c3.number = 18
      /\ c4.number = 19
  BY Number DEF Case
<1>9. \A d : d \in KernelMemoryAndDisk(P) <=> \/ d = c1
                    \/ d = c2
                    \/ d = c3
                    \/ d = c4
  BY DEF KernelMemoryAndDisk
<1> HIDE DEF c1, c2, c3, c4
<1>. QED
  BY <1>9, <1>1, <1>2

\* The numbers of this group, and that each is served in one way
LEMMA KernelTasksCase ==
    ASSUME NEW P, NEW c \in KernelTasks(P)
    PROVE  /\ c.number \in 20 .. 28
           /\ \A d \in KernelTasks(P) : d.number = c.number => d = c
<1> DEFINE c1 == Case("CREATETASK", "kCreateTask", <<P[0], P[1], P[2], P[3], P[4]>>)
<1> DEFINE c2 == Case("SCHEDULE", "kSchedule", <<>>)
<1> DEFINE c3 == Case("CHANGEPRIORITY", "kChangePriority", <<P[0], P[1]>>)
<1> DEFINE c4 == Case("ENDTASK", "kEndTask", <<P[0]>>)
<1> DEFINE c5 == Case("EXITTASK", "kExitTask", <<>>)
<1> DEFINE c6 == Case("GETTASKCOUNT", "kGetTaskCount", <<P[0]>>)
<1> DEFINE c7 == Case("ISTASKEXIST", "kIsTaskExist", <<P[0]>>)
<1> DEFINE c8 == Case("GETPROCESSORLOAD", "kGetProcessorLoad", <<P[0]>>)
<1> DEFINE c9 == Case("CHANGEPROCESSORAFFINITY", "kChangePriority", <<P[0], P[1]>>)
<1>1. /\ c1.number = 20
      /\ c2.number = 21
  BY Number DEF Case
<1>2. /\ c3.number = 22
      /\ c4.number = 23
  BY Number DEF Case
<1>3. /\ c5.number = 24
      /\ c6.number = 25
  BY Number DEF Case
<1>4. /\ c7.number = 26
      /\ c8.number = 27
  BY Number DEF Case
<1>5. /\ c9.number = 28
  BY Number DEF Case
<1>9. \A d : d \in KernelTasks(P) <=> \/ d = c1
                    \/ d = c2
                    \/ d = c3
                    \/ d = c4
                    \/ d = c5
                    \/ d = c6
                    \/ d = c7
                    \/ d = c8
                    \/ d = c9
  BY DEF KernelTasks
<1> HIDE DEF c1, c2, c3, c4, c5, c6, c7, c8, c9
<1>. QED
  BY <1>9, <1>1, <1>2, <1>3, <1>4, <1>5

\* The numbers of this group, and that each is served in one way
LEMMA KernelDevicesCase ==
    ASSUME NEW P, NEW c \in KernelDevices(P)
    PROVE  /\ c.number \in 29 .. 36
           /\ \A d \in KernelDevices(P) : d.number = c.number => d = c
<1> DEFINE c1 == Case("READRTCTIME", "kReadRTCTime", <<P[0], P[1], P[2]>>)
<1> DEFINE c2 == Case("READRTCDATE", "kReadRTCDate", <<P[0], P[1], P[2], P[3]>>)
<1> DEFINE c3 == Case("SENDSERIALDATA", "kSendSerialData", <<P[0], P[1]>>)
<1> DEFINE c4 == Case("RECEIVESERIALDATA", "kReceiveSerialData", <<P[0], P[1]>>)
<1> DEFINE c5 == Case("CLEARSERIALFIFO", "kClearSerialFIFO", <<>>)
<1> DEFINE c6 == Case("GETTOTALRAMSIZE", "kGetTotalRAMSize", <<>>)
<1> DEFINE c7 == Case("GETTICKCOUNT", "kGetTickCount", <<>>)
<1> DEFINE c8 == Case("SLEEP", "kSleep", <<P[0]>>)
<1>1. /\ c1.number = 29
      /\ c2.number = 30
  BY Number DEF Case
<1>2. /\ c3.number = 31
      /\ c4.number = 32
  BY Number DEF Case
<1>3. /\ c5.number = 33
      /\ c6.number = 34
  BY Number DEF Case
<1>4. /\ c7.number = 35
      /\ c8.number = 36
  BY Number DEF Case
<1>9. \A d : d \in KernelDevices(P) <=> \/ d = c1
                    \/ d = c2
                    \/ d = c3
                    \/ d = c4
                    \/ d = c5
                    \/ d = c6
                    \/ d = c7
                    \/ d = c8
  BY DEF KernelDevices
<1> HIDE DEF c1, c2, c3, c4, c5, c6, c7, c8
<1>. QED
  BY <1>9, <1>1, <1>2, <1>3, <1>4

\* The number of the test, and that it is served in one way
LEMMA KernelTestCase ==
    ASSUME NEW c \in KernelTest
    PROVE  c.number = 37 /\ \A d \in KernelTest : d = c
BY Number DEF KernelTest, Case

\* The kernel serves a number in one way.
LEMMA OneCase ==
    ASSUME NEW P, NEW c \in KernelServices(P), NEW d \in KernelServices(P),
           c.number = d.number
    PROVE  c = d
BY KernelConsoleCase, KernelMemoryAndDiskCase, KernelTasksCase, KernelDevicesCase, KernelTestCase
   DEF KernelServices

\* So a number that is served is served by its case, ...
LEMMA ServedBy ==
    ASSUME NEW P, NEW c \in KernelServices(P)
    PROVE  kProcessSystemCall(c.number, P) = c
<1> DEFINE cases == {d \in KernelServices(P) : d.number = c.number}
<1>1. cases = {c}
  BY OneCase
<1>2. (CHOOSE d \in cases : TRUE) = c
  BY <1>1
<1>. QED
  BY <1>1, <1>2 DEF kProcessSystemCall

\* ... and the numbers of files and directories by none.
LEMMA NotServedBy ==
    ASSUME NEW P, NEW n \in 7 .. 17
    PROVE  kProcessSystemCall(n, P) = Undefined(n)
<1>1. \A c \in KernelServices(P) : c.number # n
  BY KernelConsoleCase, KernelMemoryAndDiskCase, KernelTasksCase, KernelDevicesCase,
     KernelTestCase DEF KernelServices
<1>. QED
  BY <1>1 DEF kProcessSystemCall

(***************************************************************************)
(* The functions of the library                                            *)
(***************************************************************************)
\* The table holds the parameters of f in its order.
Stored(f, P) == \A i \in 1 .. Len(f.params) : P[i - 1].name = f.params[i]

\* The fields of a function of the library
LEMMA FunctionIs ==
    ASSUME NEW n, NEW s, NEW p
    PROVE  Function(n, s, p).name = n /\ Function(n, s, p).number = SYSCALL[s]
           /\ Function(n, s, p).params = p
BY DEF Function

\* What the functions stand for ...
LEMMA MeantIs ==
    /\ Meant["ConsolePrintString"] = "kConsolePrintString"
    /\ Meant["SetCursor"] = "kSetCursor"
    /\ Meant["GetCursor"] = "kGetCursor"
    /\ Meant["ClearScreen"] = "kClearScreen"
    /\ Meant["getch"] = "kGetCh"
    /\ Meant["malloc"] = "kAllocateMemory"
    /\ Meant["free"] = "kFreeMemory"
    /\ Meant["fopen"] = "fopen"
    /\ Meant["fread"] = "fread"
    /\ Meant["fwrite"] = "fwrite"
    /\ Meant["fseek"] = "fseek"
    /\ Meant["fclose"] = "fclose"
    /\ Meant["remove"] = "remove"
    /\ Meant["opendir"] = "opendir"
    /\ Meant["readdir"] = "readdir"
    /\ Meant["rewinddir"] = "rewinddir"
    /\ Meant["closedir"] = "closedir"
    /\ Meant["IsFileOpened"] = "kIsFileOpened"
    /\ Meant["ReadHDDSector"] = "kReadHDDSector"
    /\ Meant["WriteHDDSector"] = "kWriteHDDSector"
    /\ Meant["CreateTask"] = "kCreateTask"
    /\ Meant["Schedule"] = "kSchedule"
    /\ Meant["ChangePriority"] = "kChangePriority"
    /\ Meant["EndTask"] = "kEndTask"
    /\ Meant["exit"] = "kExitTask"
    /\ Meant["GetTaskCount"] = "kGetTaskCount"
    /\ Meant["IsTaskExist"] = "kIsTaskExist"
    /\ Meant["GetProcessorLoad"] = "kGetProcessorLoad"
    /\ Meant["ChangeProcessorAffinity"] = "kChangeProcessorAffinity"
    /\ Meant["ReadRTCTime"] = "kReadRTCTime"
    /\ Meant["ReadRTCDate"] = "kReadRTCDate"
    /\ Meant["SendSerialData"] = "kSendSerialData"
    /\ Meant["ReceiveSerialData"] = "kReceiveSerialData"
    /\ Meant["ClearSerialFIFO"] = "kClearSerialFIFO"
    /\ Meant["GetTotalRAMSize"] = "kGetTotalRAMSize"
    /\ Meant["GetTickCount"] = "kGetTickCount"
    /\ Meant["Sleep"] = "kSleep"
    /\ Meant["kSystemCallTestTask"] = "kPrintf"
BY DEF Meant

\* ... and their parameters.
LEMMA ParametersAre ==
    /\ Parameters("kConsolePrintString") = <<"pcBuffer">>
    /\ Parameters("kSetCursor") = <<"iX", "iY">>
    /\ Parameters("kGetCursor") = <<"piX", "piY">>
    /\ Parameters("kClearScreen") = <<>>
    /\ Parameters("kGetCh") = <<>>
    /\ Parameters("kAllocateMemory") = <<"qwSize">>
    /\ Parameters("kFreeMemory") = <<"pvAddress">>
    /\ Parameters("kCreateTask") = <<"qwFlags", "pvMemoryAddress", "qwMemorySize", "qwEntryPointAddress", "bAffinity">>
    /\ Parameters("kSchedule") = <<>>
    /\ Parameters("kChangePriority") = <<"qwID", "bPriority">>
    /\ Parameters("kEndTask") = <<"qwTaskID">>
    /\ Parameters("kExitTask") = <<>>
    /\ Parameters("kGetTaskCount") = <<"bAPICID">>
    /\ Parameters("kIsTaskExist") = <<"qwID">>
    /\ Parameters("kGetProcessorLoad") = <<"bAPICID">>
    /\ Parameters("kReadRTCTime") = <<"pbHour", "pbMinute", "pbSecond">>
    /\ Parameters("kReadRTCDate") = <<"pwYear", "pbMonth", "pbDayOfMonth", "pbDayOfWeek">>
    /\ Parameters("kSendSerialData") = <<"pbBuffer", "iSize">>
    /\ Parameters("kReceiveSerialData") = <<"pbBuffer", "iSize">>
    /\ Parameters("kClearSerialFIFO") = <<>>
    /\ Parameters("kGetTotalRAMSize") = <<>>
    /\ Parameters("kGetTickCount") = <<>>
    /\ Parameters("kSleep") = <<"qwMillisecond">>
    /\ Parameters("kPrintf") = <<>>
    /\ Parameters("kReadHDDSector") = <<"portnum", "dwLBA", "iSectorCount", "pcBuffer">>
    /\ Parameters("kWriteHDDSector") = <<"portnum", "dwLBA", "iSectorCount", "pcBuffer">>
BY DEF Parameters, Declared

\* The names of a list of parameters, by its length
LEMMA NamesOf0 == NamesOf(<<>>) = <<>>
BY DEF NamesOf
\* ... of one argument,
LEMMA NamesOf1 ==
    ASSUME NEW a
    PROVE  NamesOf(<<a>>) = <<a.name>>
BY DEF NamesOf
\* of two,
LEMMA NamesOf2 ==
    ASSUME NEW a, NEW b
    PROVE  NamesOf(<<a, b>>) = <<a.name, b.name>>
BY DEF NamesOf
\* of three,
LEMMA NamesOf3 ==
    ASSUME NEW a, NEW b, NEW c
    PROVE  NamesOf(<<a, b, c>>) = <<a.name, b.name, c.name>>
BY DEF NamesOf
\* of four,
LEMMA NamesOf4 ==
    ASSUME NEW a, NEW b, NEW c, NEW d
    PROVE  NamesOf(<<a, b, c, d>>) = <<a.name, b.name, c.name, d.name>>
BY DEF NamesOf
\* and of five.
LEMMA NamesOf5 ==
    ASSUME NEW a, NEW b, NEW c, NEW d, NEW e
    PROVE  NamesOf(<<a, b, c, d, e>>) = <<a.name, b.name, c.name, d.name, e.name>>
BY DEF NamesOf

\* A function is served when the case of its number calls what is meant, with the
\* parameters under their names.
LEMMA ServedAs ==
    ASSUME NEW P, NEW f, NEW name, NEW service, NEW params, f = Function(name, service, params),
           NEW function, NEW arguments,
           Case(service, function, arguments) \in KernelServices(P),
           Meant[name] = function,
           NamesOf(arguments) = Parameters(function)
    PROVE  /\ kProcessSystemCall(f.number, P) = Case(service, function, arguments)
           /\ Serves(kProcessSystemCall(f.number, P), f.name)
<1> DEFINE c == Case(service, function, arguments)
<1>1. f.number = c.number /\ f.name = name
  BY CaseIs, FunctionIs
<1>2. kProcessSystemCall(f.number, P) = c
  BY <1>1, ServedBy
<1>3. c.function = function /\ c.arguments = arguments
  BY CaseIs
<1>. QED
  BY <1>1, <1>2, <1>3 DEF Serves

\* Each function of the console is served by what it stands for, ...
LEMMA ConsoleIsServed ==
    ASSUME NEW P, NEW f \in LibraryConsole, Stored(f, P)
    PROVE  Serves(kProcessSystemCall(f.number, P), f.name)
<1>1. CASE f = Function("ConsolePrintString", "CONSOLEPRINTSTRING", <<"pcBuffer">>)
  <2>1. Case("CONSOLEPRINTSTRING", "kConsolePrintString", <<P[0]>>) \in KernelServices(P)
    BY DEF KernelServices, KernelConsole
  <2>3. P[0].name = "pcBuffer"
    BY <1>1, FunctionIs DEF Stored
  <2>4. NamesOf(<<P[0]>>) = <<"pcBuffer">>
    BY <2>3, NamesOf1
  <2>5. Meant["ConsolePrintString"] = "kConsolePrintString" /\ Parameters("kConsolePrintString") = <<"pcBuffer">>
    BY MeantIs, ParametersAre
  <2>. QED
    BY <1>1, <2>1, <2>4, <2>5, ServedAs
<1>2. CASE f = Function("SetCursor", "SETCURSOR", <<"iX", "iY">>)
  <2>1. Case("SETCURSOR", "kSetCursor", <<P[0], P[1]>>) \in KernelServices(P)
    BY DEF KernelServices, KernelConsole
  <2>2. f.params = <<"iX", "iY">>
    BY <1>2, FunctionIs
  <2>3. P[0].name = "iX" /\ P[1].name = "iY"
    BY <2>2 DEF Stored
  <2>4. NamesOf(<<P[0], P[1]>>) = <<"iX", "iY">>
    BY <2>3, NamesOf2
  <2>5. Meant["SetCursor"] = "kSetCursor" /\ Parameters("kSetCursor") = <<"iX", "iY">>
    BY MeantIs, ParametersAre
  <2>. QED
    BY <1>2, <2>1, <2>4, <2>5, ServedAs
<1>3. CASE f = Function("GetCursor", "GETCURSOR", <<"piX", "piY">>)
  <2>1. Case("GETCURSOR", "kGetCursor", <<P[0], P[1]>>) \in KernelServices(P)
    BY DEF KernelServices, KernelConsole
  <2>2. f.params = <<"piX", "piY">>
    BY <1>3, FunctionIs
  <2>3. P[0].name = "piX" /\ P[1].name = "piY"
    BY <2>2 DEF Stored
  <2>4. NamesOf(<<P[0], P[1]>>) = <<"piX", "piY">>
    BY <2>3, NamesOf2
  <2>5. Meant["GetCursor"] = "kGetCursor" /\ Parameters("kGetCursor") = <<"piX", "piY">>
    BY MeantIs, ParametersAre
  <2>. QED
    BY <1>3, <2>1, <2>4, <2>5, ServedAs
<1>4. CASE f = Function("ClearScreen", "CLEARSCREEN", <<>>)
  <2>1. Case("CLEARSCREEN", "kClearScreen", <<>>) \in KernelServices(P)
    BY DEF KernelServices, KernelConsole
  <2>4. NamesOf(<<>>) = <<>>
    BY NamesOf0
  <2>5. Meant["ClearScreen"] = "kClearScreen" /\ Parameters("kClearScreen") = <<>>
    BY MeantIs, ParametersAre
  <2>. QED
    BY <1>4, <2>1, <2>4, <2>5, ServedAs
<1>5. CASE f = Function("getch", "GETCH", <<>>)
  <2>1. Case("GETCH", "kGetCh", <<>>) \in KernelServices(P)
    BY DEF KernelServices, KernelConsole
  <2>4. NamesOf(<<>>) = <<>>
    BY NamesOf0
  <2>5. Meant["getch"] = "kGetCh" /\ Parameters("kGetCh") = <<>>
    BY MeantIs, ParametersAre
  <2>. QED
    BY <1>5, <2>1, <2>4, <2>5, ServedAs
<1>. QED
  BY <1>1, <1>2, <1>3, <1>4, <1>5 DEF LibraryConsole

\* ... each of the memory,
LEMMA MemoryIsServed ==
    ASSUME NEW P, NEW f \in LibraryMemory, Stored(f, P)
    PROVE  Serves(kProcessSystemCall(f.number, P), f.name)
<1>1. CASE f = Function("malloc", "MALLOC", <<"qwSize">>)
  <2>1. Case("MALLOC", "kAllocateMemory", <<P[0]>>) \in KernelServices(P)
    BY DEF KernelServices, KernelMemoryAndDisk
  <2>3. P[0].name = "qwSize"
    BY <1>1, FunctionIs DEF Stored
  <2>4. NamesOf(<<P[0]>>) = <<"qwSize">>
    BY <2>3, NamesOf1
  <2>5. Meant["malloc"] = "kAllocateMemory" /\ Parameters("kAllocateMemory") = <<"qwSize">>
    BY MeantIs, ParametersAre
  <2>. QED
    BY <1>1, <2>1, <2>4, <2>5, ServedAs
<1>2. CASE f = Function("free", "FREE", <<"pvAddress">>)
  <2>1. Case("FREE", "kFreeMemory", <<P[0]>>) \in KernelServices(P)
    BY DEF KernelServices, KernelMemoryAndDisk
  <2>3. P[0].name = "pvAddress"
    BY <1>2, FunctionIs DEF Stored
  <2>4. NamesOf(<<P[0]>>) = <<"pvAddress">>
    BY <2>3, NamesOf1
  <2>5. Meant["free"] = "kFreeMemory" /\ Parameters("kFreeMemory") = <<"pvAddress">>
    BY MeantIs, ParametersAre
  <2>. QED
    BY <1>2, <2>1, <2>4, <2>5, ServedAs
<1>. QED
  BY <1>1, <1>2 DEF LibraryMemory

\* each of the tasks but the one of the affinity,
LEMMA TasksIsServed ==
    ASSUME NEW P, NEW f \in LibraryTasks, f.name # "ChangeProcessorAffinity", Stored(f, P)
    PROVE  Serves(kProcessSystemCall(f.number, P), f.name)
<1>1. CASE f = Function("CreateTask", "CREATETASK", <<"qwFlags", "pvMemoryAddress", "qwMemorySize", "qwEntryPointAddress", "bAffinity">>)
  <2>1. Case("CREATETASK", "kCreateTask", <<P[0], P[1], P[2], P[3], P[4]>>) \in KernelServices(P)
    BY DEF KernelServices, KernelTasks
  <2>2. f.params = <<"qwFlags", "pvMemoryAddress", "qwMemorySize", "qwEntryPointAddress", "bAffinity">>
    BY <1>1, FunctionIs
  <2>3. P[0].name = "qwFlags" /\ P[1].name = "pvMemoryAddress" /\ P[2].name = "qwMemorySize" /\ P[3].name = "qwEntryPointAddress" /\ P[4].name = "bAffinity"
    BY <2>2 DEF Stored
  <2>4. NamesOf(<<P[0], P[1], P[2], P[3], P[4]>>) = <<"qwFlags", "pvMemoryAddress", "qwMemorySize", "qwEntryPointAddress", "bAffinity">>
    BY <2>3, NamesOf5
  <2>5. Meant["CreateTask"] = "kCreateTask" /\ Parameters("kCreateTask") = <<"qwFlags", "pvMemoryAddress", "qwMemorySize", "qwEntryPointAddress", "bAffinity">>
    BY MeantIs, ParametersAre
  <2>. QED
    BY <1>1, <2>1, <2>4, <2>5, ServedAs
<1>2. CASE f = Function("Schedule", "SCHEDULE", <<>>)
  <2>1. Case("SCHEDULE", "kSchedule", <<>>) \in KernelServices(P)
    BY DEF KernelServices, KernelTasks
  <2>4. NamesOf(<<>>) = <<>>
    BY NamesOf0
  <2>5. Meant["Schedule"] = "kSchedule" /\ Parameters("kSchedule") = <<>>
    BY MeantIs, ParametersAre
  <2>. QED
    BY <1>2, <2>1, <2>4, <2>5, ServedAs
<1>3. CASE f = Function("ChangePriority", "CHANGEPRIORITY", <<"qwID", "bPriority", "bExecutedInInterrupt">>)
  <2>1. Case("CHANGEPRIORITY", "kChangePriority", <<P[0], P[1]>>) \in KernelServices(P)
    BY DEF KernelServices, KernelTasks
  <2>2. f.params = <<"qwID", "bPriority", "bExecutedInInterrupt">>
    BY <1>3, FunctionIs
  <2>3. P[0].name = "qwID" /\ P[1].name = "bPriority"
    BY <2>2 DEF Stored
  <2>4. NamesOf(<<P[0], P[1]>>) = <<"qwID", "bPriority">>
    BY <2>3, NamesOf2
  <2>5. Meant["ChangePriority"] = "kChangePriority" /\ Parameters("kChangePriority") = <<"qwID", "bPriority">>
    BY MeantIs, ParametersAre
  <2>. QED
    BY <1>3, <2>1, <2>4, <2>5, ServedAs
<1>4. CASE f = Function("EndTask", "ENDTASK", <<"qwTaskID">>)
  <2>1. Case("ENDTASK", "kEndTask", <<P[0]>>) \in KernelServices(P)
    BY DEF KernelServices, KernelTasks
  <2>3. P[0].name = "qwTaskID"
    BY <1>4, FunctionIs DEF Stored
  <2>4. NamesOf(<<P[0]>>) = <<"qwTaskID">>
    BY <2>3, NamesOf1
  <2>5. Meant["EndTask"] = "kEndTask" /\ Parameters("kEndTask") = <<"qwTaskID">>
    BY MeantIs, ParametersAre
  <2>. QED
    BY <1>4, <2>1, <2>4, <2>5, ServedAs
<1>5. CASE f = Function("exit", "EXITTASK", <<"iExitValue">>)
  <2>1. Case("EXITTASK", "kExitTask", <<>>) \in KernelServices(P)
    BY DEF KernelServices, KernelTasks
  <2>4. NamesOf(<<>>) = <<>>
    BY NamesOf0
  <2>5. Meant["exit"] = "kExitTask" /\ Parameters("kExitTask") = <<>>
    BY MeantIs, ParametersAre
  <2>. QED
    BY <1>5, <2>1, <2>4, <2>5, ServedAs
<1>6. CASE f = Function("GetTaskCount", "GETTASKCOUNT", <<"bAPICID">>)
  <2>1. Case("GETTASKCOUNT", "kGetTaskCount", <<P[0]>>) \in KernelServices(P)
    BY DEF KernelServices, KernelTasks
  <2>3. P[0].name = "bAPICID"
    BY <1>6, FunctionIs DEF Stored
  <2>4. NamesOf(<<P[0]>>) = <<"bAPICID">>
    BY <2>3, NamesOf1
  <2>5. Meant["GetTaskCount"] = "kGetTaskCount" /\ Parameters("kGetTaskCount") = <<"bAPICID">>
    BY MeantIs, ParametersAre
  <2>. QED
    BY <1>6, <2>1, <2>4, <2>5, ServedAs
<1>7. CASE f = Function("IsTaskExist", "ISTASKEXIST", <<"qwID">>)
  <2>1. Case("ISTASKEXIST", "kIsTaskExist", <<P[0]>>) \in KernelServices(P)
    BY DEF KernelServices, KernelTasks
  <2>3. P[0].name = "qwID"
    BY <1>7, FunctionIs DEF Stored
  <2>4. NamesOf(<<P[0]>>) = <<"qwID">>
    BY <2>3, NamesOf1
  <2>5. Meant["IsTaskExist"] = "kIsTaskExist" /\ Parameters("kIsTaskExist") = <<"qwID">>
    BY MeantIs, ParametersAre
  <2>. QED
    BY <1>7, <2>1, <2>4, <2>5, ServedAs
<1>8. CASE f = Function("GetProcessorLoad", "GETPROCESSORLOAD", <<"bAPICID">>)
  <2>1. Case("GETPROCESSORLOAD", "kGetProcessorLoad", <<P[0]>>) \in KernelServices(P)
    BY DEF KernelServices, KernelTasks
  <2>3. P[0].name = "bAPICID"
    BY <1>8, FunctionIs DEF Stored
  <2>4. NamesOf(<<P[0]>>) = <<"bAPICID">>
    BY <2>3, NamesOf1
  <2>5. Meant["GetProcessorLoad"] = "kGetProcessorLoad" /\ Parameters("kGetProcessorLoad") = <<"bAPICID">>
    BY MeantIs, ParametersAre
  <2>. QED
    BY <1>8, <2>1, <2>4, <2>5, ServedAs
<1>. QED
  BY <1>1, <1>2, <1>3, <1>4, <1>5, <1>6, <1>7, <1>8, FunctionIs DEF LibraryTasks

\* and each of the devices.
LEMMA DevicesIsServed ==
    ASSUME NEW P, NEW f \in LibraryDevices, Stored(f, P)
    PROVE  Serves(kProcessSystemCall(f.number, P), f.name)
<1>1. CASE f = Function("ReadRTCTime", "READRTCTIME", <<"pbHour", "pbMinute", "pbSecond">>)
  <2>1. Case("READRTCTIME", "kReadRTCTime", <<P[0], P[1], P[2]>>) \in KernelServices(P)
    BY DEF KernelServices, KernelDevices
  <2>2. f.params = <<"pbHour", "pbMinute", "pbSecond">>
    BY <1>1, FunctionIs
  <2>3. P[0].name = "pbHour" /\ P[1].name = "pbMinute" /\ P[2].name = "pbSecond"
    BY <2>2 DEF Stored
  <2>4. NamesOf(<<P[0], P[1], P[2]>>) = <<"pbHour", "pbMinute", "pbSecond">>
    BY <2>3, NamesOf3
  <2>5. Meant["ReadRTCTime"] = "kReadRTCTime" /\ Parameters("kReadRTCTime") = <<"pbHour", "pbMinute", "pbSecond">>
    BY MeantIs, ParametersAre
  <2>. QED
    BY <1>1, <2>1, <2>4, <2>5, ServedAs
<1>2. CASE f = Function("ReadRTCDate", "READRTCDATE", <<"pwYear", "pbMonth", "pbDayOfMonth", "pbDayOfWeek">>)
  <2>1. Case("READRTCDATE", "kReadRTCDate", <<P[0], P[1], P[2], P[3]>>) \in KernelServices(P)
    BY DEF KernelServices, KernelDevices
  <2>2. f.params = <<"pwYear", "pbMonth", "pbDayOfMonth", "pbDayOfWeek">>
    BY <1>2, FunctionIs
  <2>3. P[0].name = "pwYear" /\ P[1].name = "pbMonth" /\ P[2].name = "pbDayOfMonth" /\ P[3].name = "pbDayOfWeek"
    BY <2>2 DEF Stored
  <2>4. NamesOf(<<P[0], P[1], P[2], P[3]>>) = <<"pwYear", "pbMonth", "pbDayOfMonth", "pbDayOfWeek">>
    BY <2>3, NamesOf4
  <2>5. Meant["ReadRTCDate"] = "kReadRTCDate" /\ Parameters("kReadRTCDate") = <<"pwYear", "pbMonth", "pbDayOfMonth", "pbDayOfWeek">>
    BY MeantIs, ParametersAre
  <2>. QED
    BY <1>2, <2>1, <2>4, <2>5, ServedAs
<1>3. CASE f = Function("SendSerialData", "SENDSERIALDATA", <<"pbBuffer", "iSize">>)
  <2>1. Case("SENDSERIALDATA", "kSendSerialData", <<P[0], P[1]>>) \in KernelServices(P)
    BY DEF KernelServices, KernelDevices
  <2>2. f.params = <<"pbBuffer", "iSize">>
    BY <1>3, FunctionIs
  <2>3. P[0].name = "pbBuffer" /\ P[1].name = "iSize"
    BY <2>2 DEF Stored
  <2>4. NamesOf(<<P[0], P[1]>>) = <<"pbBuffer", "iSize">>
    BY <2>3, NamesOf2
  <2>5. Meant["SendSerialData"] = "kSendSerialData" /\ Parameters("kSendSerialData") = <<"pbBuffer", "iSize">>
    BY MeantIs, ParametersAre
  <2>. QED
    BY <1>3, <2>1, <2>4, <2>5, ServedAs
<1>4. CASE f = Function("ReceiveSerialData", "RECEIVESERIALDATA", <<"pbBuffer", "iSize">>)
  <2>1. Case("RECEIVESERIALDATA", "kReceiveSerialData", <<P[0], P[1]>>) \in KernelServices(P)
    BY DEF KernelServices, KernelDevices
  <2>2. f.params = <<"pbBuffer", "iSize">>
    BY <1>4, FunctionIs
  <2>3. P[0].name = "pbBuffer" /\ P[1].name = "iSize"
    BY <2>2 DEF Stored
  <2>4. NamesOf(<<P[0], P[1]>>) = <<"pbBuffer", "iSize">>
    BY <2>3, NamesOf2
  <2>5. Meant["ReceiveSerialData"] = "kReceiveSerialData" /\ Parameters("kReceiveSerialData") = <<"pbBuffer", "iSize">>
    BY MeantIs, ParametersAre
  <2>. QED
    BY <1>4, <2>1, <2>4, <2>5, ServedAs
<1>5. CASE f = Function("ClearSerialFIFO", "CLEARSERIALFIFO", <<>>)
  <2>1. Case("CLEARSERIALFIFO", "kClearSerialFIFO", <<>>) \in KernelServices(P)
    BY DEF KernelServices, KernelDevices
  <2>4. NamesOf(<<>>) = <<>>
    BY NamesOf0
  <2>5. Meant["ClearSerialFIFO"] = "kClearSerialFIFO" /\ Parameters("kClearSerialFIFO") = <<>>
    BY MeantIs, ParametersAre
  <2>. QED
    BY <1>5, <2>1, <2>4, <2>5, ServedAs
<1>6. CASE f = Function("GetTotalRAMSize", "GETTOTALRAMSIZE", <<>>)
  <2>1. Case("GETTOTALRAMSIZE", "kGetTotalRAMSize", <<>>) \in KernelServices(P)
    BY DEF KernelServices, KernelDevices
  <2>4. NamesOf(<<>>) = <<>>
    BY NamesOf0
  <2>5. Meant["GetTotalRAMSize"] = "kGetTotalRAMSize" /\ Parameters("kGetTotalRAMSize") = <<>>
    BY MeantIs, ParametersAre
  <2>. QED
    BY <1>6, <2>1, <2>4, <2>5, ServedAs
<1>7. CASE f = Function("GetTickCount", "GETTICKCOUNT", <<>>)
  <2>1. Case("GETTICKCOUNT", "kGetTickCount", <<>>) \in KernelServices(P)
    BY DEF KernelServices, KernelDevices
  <2>4. NamesOf(<<>>) = <<>>
    BY NamesOf0
  <2>5. Meant["GetTickCount"] = "kGetTickCount" /\ Parameters("kGetTickCount") = <<>>
    BY MeantIs, ParametersAre
  <2>. QED
    BY <1>7, <2>1, <2>4, <2>5, ServedAs
<1>8. CASE f = Function("Sleep", "SLEEP", <<"qwMillisecond">>)
  <2>1. Case("SLEEP", "kSleep", <<P[0]>>) \in KernelServices(P)
    BY DEF KernelServices, KernelDevices
  <2>3. P[0].name = "qwMillisecond"
    BY <1>8, FunctionIs DEF Stored
  <2>4. NamesOf(<<P[0]>>) = <<"qwMillisecond">>
    BY <2>3, NamesOf1
  <2>5. Meant["Sleep"] = "kSleep" /\ Parameters("kSleep") = <<"qwMillisecond">>
    BY MeantIs, ParametersAre
  <2>. QED
    BY <1>8, <2>1, <2>4, <2>5, ServedAs
<1>. QED
  BY <1>1, <1>2, <1>3, <1>4, <1>5, <1>6, <1>7, <1>8 DEF LibraryDevices

\* The test task asks for a print of the kernel.
LEMMA TestIsServed ==
    ASSUME NEW P
    PROVE  /\ kProcessSystemCall(TestTask.number, P) = Case("TEST", "kPrintf", <<>>)
           /\ Serves(kProcessSystemCall(TestTask.number, P), TestTask.name)
<1>1. Case("TEST", "kPrintf", <<>>) \in KernelServices(P)
  BY DEF KernelServices, KernelTest
<1>2. TestTask = Function("kSystemCallTestTask", "TEST", <<>>)
  BY DEF TestTask
<1>3. /\ Meant["kSystemCallTestTask"] = "kPrintf" /\ Parameters("kPrintf") = <<>>
      /\ NamesOf(<<>>) = <<>>
  BY MeantIs, ParametersAre, NamesOf0
<1>. QED
  BY <1>1, <1>2, <1>3, ServedAs

(***************************************************************************)
(* The inductive invariant                                                 *)
(***************************************************************************)
Character == {"char", "\n", "\t"}
Setting == {"selectUpper", "upper", "selectLower", "lower", "store"}
Shelled == {"column", "row", "erase"}
Place == {"run", "syscall", "sysret", "ended", "begin", "loop", "clear"} \cup Setting \cup Shelled
CRTC == [selected : {UPPER, LOWER}, upper : 0 .. BYTE - 1, lower : 0 .. BYTE - 1]
At == [row : 0 .. CONSOLE_HEIGHT - 1, column : 0 .. CONSOLE_WIDTH - 1]

ConsoleTypeOK ==
    /\ pc \in [Task -> Place]
    /\ DOMAIN request = Task /\ DOMAIN served = Task /\ DOMAIN called = Task
    /\ string \in [Task -> Seq(Character)]
    /\ printing \in [Task -> BOOLEAN]
    /\ overlap \in BOOLEAN /\ strayed \in BOOLEAN

\* Every offset anybody computes is one of the screen; the shell's, between its two
\* reads of the position, is a column.
ScreenInv ==
    /\ iCurrentPrintOffset \in Position /\ crtc \in CRTC
    /\ offset \in [Task -> Position]
    /\ pc[Shell] = "row" => offset[Shell] \in 0 .. CONSOLE_WIDTH - 1
    /\ expected \in At

\* The functions for which the kernel itself prints
MessageCall ==
    {"kSystemCallTestTask", "fopen", "fread", "fwrite", "fseek", "fclose", "remove",
     "opendir", "readdir", "rewinddir", "closedir", "IsFileOpened"}

\* The function of the library that t's system call is of
Name(t) == IF called[t] = "printf"
           THEN IF printing[t] THEN "ConsolePrintString" ELSE "SetCursor"
           ELSE called[t]

\* What a task asks for is what its function stores, with a text to print or, as long
\* as nobody has strayed, a place of the screen.
RequestOK(t) ==
    /\ \E f \in Library \cup {TestTask} :
          /\ f.name = Name(t) /\ request[t].number = f.number
          /\ Stored(f, request[t].table)
    /\ Name(t) = "ConsolePrintString" => request[t].table[0].value \in Text
    /\ ~strayed /\ Name(t) = "SetCursor" =>
          Linear(request[t].table[0].value, request[t].table[1].value) \in Position

\* Where a task can be in the function it has called
PlaceOK(t) ==
    /\ t \in KernelTask => /\ pc[t] \notin {"syscall", "clear", "sysret", "ended"}
                           /\ called[t] \in {"none", "printf", "Backspace"}
    /\ t \in UserTask => called[t] # "Backspace"
    /\ pc[t] \in Shelled => t = Shell /\ called[t] = "Backspace"
    /\ printing[t] => \/ called[t] = "printf" /\ pc[t] \in {"syscall", "begin", "loop", "sysret"}
                      \/ called[t] \in MessageCall /\ pc[t] \in {"begin", "loop"}
    /\ pc[t] \in {"begin", "loop"} => \/ called[t] = "printf" /\ printing[t]
                                      \/ called[t] \in MessageCall /\ printing[t]
                                      \/ called[t] = "ConsolePrintString"
    /\ t \in UserTask /\ pc[t] \in {"begin", "loop"} =>
          (PrintsMessage(served[t]) <=> called[t] \in MessageCall)
    /\ pc[t] \in Setting =>
          called[t] \in {"printf", "SetCursor", "ClearScreen", "Backspace"} \cup MessageCall
    /\ pc[t] = "clear" => called[t] = "ClearScreen"
    /\ pc[t] = "ended" => called[t] = "exit"

ServiceOK(t) ==
    t \in UserTask /\ pc[t] \notin {"run", "syscall"} /\ called[t] # "printf" =>
        (Serves(served[t], called[t]) <=> called[t] \notin NotServed)

CallInv ==
    \A t \in Task : /\ PlaceOK(t) /\ ServiceOK(t)
                    /\ pc[t] = "syscall" => RequestOK(t)

\* Position and cursor are at the end of the text.
EndOffset == Linear(expected.column, expected.row)
Settled ==
    /\ iCurrentPrintOffset = EndOffset
    /\ crtc.upper = EndOffset \div BYTE /\ crtc.lower = EndOffset % BYTE

\* The offset of a task that moves them is the end of the text, and the controller
\* is as far as the task is.
Moves(t) == pc[t] \in Setting \cup {"erase"} \/ (printing[t] /\ pc[t] \in {"loop", "sysret"})
MovesOK(t) ==
    /\ offset[t] = EndOffset
    /\ pc[t] = "upper" => crtc.selected = UPPER
    /\ pc[t] = "lower" => crtc.selected = LOWER
    /\ pc[t] \in {"selectLower", "lower", "store"} => crtc.upper = EndOffset \div BYTE
    /\ pc[t] = "store" => crtc.lower = EndOffset % BYTE

\* A task that has asked for the cursor to be moved asked for that place.
WillMove(t) ==
    \/ pc[t] = "clear"
    \/ pc[t] = "syscall" /\ Name(t) \in {"SetCursor", "ClearScreen"}
WillMoveOK(t) ==
    /\ Name(t) = "SetCursor" =>
         Linear(request[t].table[0].value, request[t].table[1].value) = EndOffset
    /\ Name(t) = "ClearScreen" => EndOffset = Linear(0, LASTLINE)

Clean == ~overlap /\ ~strayed
CursorInv ==
    Clean =>
        /\ \A t \in Task : InConsole(t) =>
             /\ \A u \in Task \ {t} : ~InConsole(u)
             /\ Moves(t) => MovesOK(t)
             /\ WillMove(t) => WillMoveOK(t)
             /\ pc[t] = "row" => offset[t] = expected.column
        /\ (\A t \in Task : InConsole(t) => ~Moves(t) /\ ~WillMove(t)) => Settled

IInv == ConsoleTypeOK /\ CallInv /\ (~strayed => ScreenInv) /\ CursorInv

(***************************************************************************)
(* Offsets, rows and columns                                               *)
(***************************************************************************)
\* A product grows with its factor.
LEMMA Times == ASSUME NEW a \in Nat, NEW b \in Nat, NEW w \in Nat, a <= b PROVE a * w <= b * w
OBVIOUS

\* A row and a column can be had back from a linear value.
LEMMA Divided ==
    ASSUME NEW w \in Nat \ {0}, NEW y \in Nat, NEW x \in 0 .. w - 1
    PROVE  (y * w + x) % w = x /\ (y * w + x) \div w = y
OBVIOUS

\* What division and remainder are
LEMMA Division ==
    ASSUME NEW w \in Nat \ {0}, NEW o \in Nat
    PROVE  /\ o % w \in 0 .. w - 1 /\ o \div w \in Nat
           /\ o = (o \div w) * w + (o % w)
OBVIOUS

\* C's division is the same on what is not negative.
LEMMA QuotRem ==
    ASSUME NEW w \in Nat \ {0}, NEW o \in Nat
    PROVE  Quot(o, w) = o \div w /\ Rem(o, w) = o % w
<1>1. Quot(o, w) = o \div w
  BY DEF Quot
<1>2. o = (o \div w) * w + (o % w) /\ o % w \in Nat /\ o \div w \in Nat /\ (o \div w) * w \in Nat
  BY Division
<1>. QED
  BY <1>1, <1>2 DEF Rem

\* The row of a value below w * h is below h.
LEMMA Quotient ==
    ASSUME NEW w \in Nat \ {0}, NEW h \in Nat, NEW o \in Nat, o < w * h
    PROVE  o \div w < h
<1>1. o = (o \div w) * w + (o % w) /\ o % w \in Nat /\ o \div w \in Nat
  BY Division
<1>2. CASE h <= o \div w
  <2>1. h * w <= (o \div w) * w
    BY <1>1, <1>2, Times
  <2>. QED
    BY <1>1, <2>1
<1>. QED
  BY <1>1, <1>2

\* The screen's cells are those of the rows above the last one, and those of the last.
LEMMA Screen ==
    /\ CONSOLE_WIDTH \in Nat \ {0} /\ CONSOLE_HEIGHT \in Nat \ {0}
    /\ SCREEN \in Nat
    /\ SCREEN = (CONSOLE_HEIGHT - 1) * CONSOLE_WIDTH + CONSOLE_WIDTH
BY ConsoleAssumption DEF SCREEN

\* A row and a column of the screen are a position of the screen, ...
LEMMA LinearInScreen ==
    ASSUME NEW x \in 0 .. CONSOLE_WIDTH - 1, NEW y \in 0 .. CONSOLE_HEIGHT - 1
    PROVE  Linear(x, y) \in Position
<1>1. y * CONSOLE_WIDTH <= (CONSOLE_HEIGHT - 1) * CONSOLE_WIDTH
  BY Screen, Times
<1>2. y * CONSOLE_WIDTH \in Nat /\ (CONSOLE_HEIGHT - 1) * CONSOLE_WIDTH \in Nat
  BY Screen
<1>. QED
  BY <1>1, <1>2, Screen DEF Linear, Position

\* ... a position is a row and a column (what printf and kPrintf hand to kSetCursor), ...
LEMMA RowAndColumn ==
    ASSUME NEW o \in Position
    PROVE  /\ o % CONSOLE_WIDTH \in 0 .. CONSOLE_WIDTH - 1
           /\ o \div CONSOLE_WIDTH \in 0 .. CONSOLE_HEIGHT - 1
           /\ Linear(o % CONSOLE_WIDTH, o \div CONSOLE_WIDTH) = o
           /\ Rem(o, CONSOLE_WIDTH) = o % CONSOLE_WIDTH
           /\ Quot(o, CONSOLE_WIDTH) = o \div CONSOLE_WIDTH
<1>1. o \in Nat /\ o < CONSOLE_WIDTH * CONSOLE_HEIGHT
  BY Screen DEF Position, SCREEN
<1>2. o % CONSOLE_WIDTH \in 0 .. CONSOLE_WIDTH - 1 /\ o \div CONSOLE_WIDTH \in Nat
      /\ o = (o \div CONSOLE_WIDTH) * CONSOLE_WIDTH + (o % CONSOLE_WIDTH)
  BY <1>1, Screen, Division
<1>3. o \div CONSOLE_WIDTH < CONSOLE_HEIGHT
  BY <1>1, Screen, Quotient
<1>4. Rem(o, CONSOLE_WIDTH) = o % CONSOLE_WIDTH /\ Quot(o, CONSOLE_WIDTH) = o \div CONSOLE_WIDTH
  BY <1>1, Screen, QuotRem
<1>. QED
  BY <1>2, <1>3, <1>4, Screen DEF Linear

\* ... and no two are the same.
LEMMA LinearIsOne ==
    ASSUME NEW x \in 0 .. CONSOLE_WIDTH - 1, NEW y \in 0 .. CONSOLE_HEIGHT - 1
    PROVE  Linear(x, y) % CONSOLE_WIDTH = x /\ Linear(x, y) \div CONSOLE_WIDTH = y
BY Screen, Divided DEF Linear

\* A position fits the two registers of the CRT controller.
LEMMA Bytes ==
    ASSUME NEW o \in Position
    PROVE  /\ o \div BYTE \in 0 .. BYTE - 1 /\ o % BYTE \in 0 .. BYTE - 1
           /\ (o \div BYTE) % BYTE = o \div BYTE
           /\ (o \div BYTE) * BYTE + (o % BYTE) = o
<1>1. o \in Nat /\ o < BYTE * BYTE /\ BYTE \in Nat \ {0}
  BY Screen, ConsoleAssumption DEF Position, SCREEN
<1>2. /\ o % BYTE \in 0 .. BYTE - 1 /\ o \div BYTE \in Nat
      /\ o = (o \div BYTE) * BYTE + (o % BYTE)
  BY <1>1, Division
<1>3. o \div BYTE < BYTE
  BY <1>1, Quotient
<1>4. \A x \in 0 .. BYTE - 1 : x % BYTE = x
  BY <1>1
<1>. QED
  BY <1>1, <1>2, <1>3, <1>4

\* A tab stops at a multiple of TAB, also seen from the start of the row.
LEMMA Tabs ==
    ASSUME NEW x \in 0 .. CONSOLE_WIDTH - 1, NEW y \in 0 .. CONSOLE_HEIGHT - 1
    PROVE  /\ Linear(x, y) + (TAB - (Linear(x, y) % TAB))
                = y * CONSOLE_WIDTH + (x \div TAB + 1) * TAB
           /\ (x \div TAB + 1) * TAB \in Nat /\ (x \div TAB + 1) * TAB <= CONSOLE_WIDTH
<1> DEFINE n == CONSOLE_WIDTH \div TAB
           k == x \div TAB
           r == x % TAB
<1>1. TAB \in Nat \ {0} /\ CONSOLE_WIDTH = n * TAB /\ n \in Nat /\ x \in Nat /\ y \in Nat
  BY ConsoleAssumption, Screen, Division
<1>2. x = k * TAB + r /\ k \in Nat /\ r \in 0 .. TAB - 1
  BY <1>1, Division
<1>3. k < n
  <2>1. x < TAB * n
    BY <1>1
  <2>. QED
    BY <1>1, <2>1, Quotient
<1> HIDE DEF n, k, r
<1>4. (k + 1) * TAB \in Nat /\ (k + 1) * TAB <= n * TAB /\ (k + 1) * TAB = k * TAB + TAB
  BY <1>1, <1>2, <1>3, Times
<1>5. Linear(x, y) = (y * n + k) * TAB + r
  BY <1>1, <1>2 DEF Linear
<1>6. Linear(x, y) % TAB = r
  <2>1. y * n + k \in Nat
    BY <1>1, <1>2
  <2>2. ((y * n + k) * TAB + r) % TAB = r
    BY <1>1, <1>2, <2>1, Divided
  <2>. QED
    BY <1>5, <2>2
<1>7. Linear(x, y) = y * CONSOLE_WIDTH + (k * TAB + r)
  BY <1>2 DEF Linear
<1>8. y * CONSOLE_WIDTH \in Nat /\ k * TAB \in Nat
  BY <1>1, <1>2, Screen
<1>9. Linear(x, y) + (TAB - r) = y * CONSOLE_WIDTH + (k + 1) * TAB
  BY <1>1, <1>2, <1>4, <1>7, <1>8
<1>. QED
  BY <1>1, <1>4, <1>6, <1>9 DEF k

\* The code's arithmetic on offsets is what the screen shows by row and column.
LEMMA AdvancedIs ==
    ASSUME NEW p \in At, NEW c \in Character
    PROVE  /\ After(p, c) \in At
           /\ Advanced(Linear(p.column, p.row), c)
                = Linear(After(p, c).column, After(p, c).row)
<1> DEFINE x == p.column
           y == p.row
           at == Linear(x, y)
           base == y * CONSOLE_WIDTH
           next == CASE c = "\n" -> at + (CONSOLE_WIDTH - Rem(at, CONSOLE_WIDTH))
                     [] c = "\t" -> at + (TAB - Rem(at, TAB))
                     [] OTHER -> at + 1
           stop == CASE c = "\n" -> CONSOLE_WIDTH
                     [] c = "\t" -> (x \div TAB + 1) * TAB
                     [] OTHER -> x + 1
<1>1. x \in 0 .. CONSOLE_WIDTH - 1 /\ y \in 0 .. CONSOLE_HEIGHT - 1
  BY DEF At
<1>2. p = [row |-> y, column |-> x]
  BY DEF At
<1>3. at = base + x /\ base \in Nat
  BY <1>1, Screen DEF Linear
<1>3a. Rem(at, CONSOLE_WIDTH) = x /\ Rem(at, TAB) = at % TAB
  <2>1. at % CONSOLE_WIDTH = x
    BY <1>1, LinearIsOne
  <2>2. at \in Nat /\ CONSOLE_WIDTH \in Nat \ {0} /\ TAB \in Nat \ {0}
    BY <1>1, <1>3, ConsoleAssumption
  <2>. HIDE DEF at
  <2>. QED
    BY <2>1, <2>2, QuotRem
<1>4. stop \in Nat /\ stop <= CONSOLE_WIDTH
  BY <1>1, Tabs, Screen
<1>5. next = base + stop
  <2>1. at + (TAB - (at % TAB)) = base + (x \div TAB + 1) * TAB
    BY <1>1, Tabs
  <2>. QED
    BY <1>1, <1>3, <1>3a, <2>1, Screen
<1>6. After(p, c) = IF stop < CONSOLE_WIDTH THEN [row |-> y, column |-> stop] ELSE Below(p)
  <2>1. \A n \in Nat : ToColumn(p, n) = IF n < CONSOLE_WIDTH
                                       THEN [row |-> y, column |-> n] ELSE Below(p)
    BY <1>2 DEF ToColumn
  <2>2. CASE c = "\n"
    BY <2>2, Screen DEF After
  <2>3. CASE c = "\t"
    BY <1>4, <2>1, <2>3 DEF After
  <2>4. CASE c = "char"
    BY <1>4, <2>1, <2>4 DEF After
  <2>. QED
    BY <2>2, <2>3, <2>4 DEF Character
<1>7. Advanced(at, c) = IF next >= SCREEN THEN (CONSOLE_HEIGHT - 1) * CONSOLE_WIDTH ELSE next
  BY DEF Advanced
<1> HIDE DEF at, base, next, stop
<1>8. CASE stop < CONSOLE_WIDTH
  <2>1. After(p, c) = [row |-> y, column |-> stop] /\ stop \in 0 .. CONSOLE_WIDTH - 1
    BY <1>4, <1>6, <1>8, Screen
  <2>2. Linear(stop, y) = next /\ Linear(stop, y) \in Position
    BY <1>1, <1>5, <2>1, LinearInScreen DEF Linear, base
  <2>3. ~(next >= SCREEN)
    BY <2>2, Screen DEF Position
  <2>. QED
    BY <1>1, <1>7, <2>1, <2>2, <2>3 DEF At, at
<1>9. CASE stop = CONSOLE_WIDTH
  <2>1. next = (y + 1) * CONSOLE_WIDTH
    BY <1>1, <1>5, <1>9, Screen DEF base
  <2>2. CASE y = CONSOLE_HEIGHT - 1
    <3>1. After(p, c) = [row |-> y, column |-> 0]
      BY <1>2, <1>6, <1>9, <2>2, Screen DEF Below
    <3>2. next = SCREEN
      BY <2>1, <2>2, Screen DEF SCREEN
    <3>3. Linear(0, y) = (CONSOLE_HEIGHT - 1) * CONSOLE_WIDTH
      BY <2>2, Screen DEF Linear
    <3>. QED
      BY <1>1, <1>7, <3>1, <3>2, <3>3, Screen DEF At, at
  <2>3. CASE y # CONSOLE_HEIGHT - 1
    <3>1. After(p, c) = [row |-> y + 1, column |-> 0] /\ y + 1 \in 0 .. CONSOLE_HEIGHT - 1
      BY <1>1, <1>2, <1>6, <1>9, <2>3, Screen DEF Below
    <3>4. Linear(0, y + 1) \in Position
      BY <3>1, Screen, LinearInScreen
    <3>2. Linear(0, y + 1) = next /\ Linear(0, y + 1) \in Position
      BY <2>1, <3>1, <3>4, Screen DEF Linear
    <3>3. ~(next >= SCREEN)
      BY <3>2, Screen DEF Position
    <3>. QED
      BY <1>7, <3>1, <3>2, <3>3, Screen DEF At, at
  <2>. QED
    BY <2>2, <2>3
<1>. QED
  BY <1>4, <1>8, <1>9, Screen DEF at

\* The loop of kConsolePrintString stays in the screen.
LEMMA AdvancedInScreen ==
    ASSUME NEW o \in Position, NEW c \in Character
    PROVE  Advanced(o, c) \in Position
<1> DEFINE p == [row |-> o \div CONSOLE_WIDTH, column |-> o % CONSOLE_WIDTH]
<1>1. p \in At /\ Linear(p.column, p.row) = o
  BY RowAndColumn DEF At
<1>2. After(p, c) \in At /\ Advanced(o, c) = Linear(After(p, c).column, After(p, c).row)
  BY <1>1, AdvancedIs
<1> HIDE DEF p
<1>. QED
  BY <1>2, LinearInScreen DEF At

\* The place before one of the screen is there too, but for the origin.
LEMMA BeforeIs ==
    ASSUME NEW p \in At
    PROVE  /\ Before(p) \in At
           /\ Linear(p.column - 1, p.row) >= 0 =>
                Linear(p.column - 1, p.row) = Linear(Before(p).column, Before(p).row)
<1> DEFINE x == p.column
           y == p.row
<1>1. x \in 0 .. CONSOLE_WIDTH - 1 /\ y \in 0 .. CONSOLE_HEIGHT - 1 /\ p = [row |-> y, column |-> x]
  BY DEF At
<1>2. CASE x > 0
  <2>1. Before(p) = [row |-> y, column |-> x - 1] /\ x - 1 \in 0 .. CONSOLE_WIDTH - 1
    BY <1>1, <1>2, Screen DEF Before
  <2>. QED
    BY <1>1, <2>1 DEF At
<1>3. CASE x = 0 /\ y > 0
  <2>1. Before(p) = [row |-> y - 1, column |-> CONSOLE_WIDTH - 1]
    BY <1>1, <1>3, Screen DEF Before
  <2>2. Linear(0 - 1, y) = Linear(CONSOLE_WIDTH - 1, y - 1)
    BY <1>1, <1>3, Screen DEF Linear
  <2>. QED
    BY <1>1, <1>3, <2>1, <2>2, Screen DEF At
<1>4. CASE x = 0 /\ y = 0
  <2>1. Before(p) = p
    BY <1>1, <1>4, Screen DEF Before
  <2>2. Linear(0 - 1, 0) = 0 - 1
    BY Screen DEF Linear
  <2>. QED
    BY <1>1, <1>4, <2>1, <2>2
<1>. QED
  BY <1>1, <1>2, <1>3, <1>4

\* What the shell computes from a column and a position of the screen is one, or
\* before it.
LEMMA BeforeInScreen ==
    ASSUME NEW x \in 0 .. CONSOLE_WIDTH - 1, NEW o \in Position,
           Linear(x - 1, Quot(o, CONSOLE_WIDTH)) >= 0
    PROVE  Linear(x - 1, Quot(o, CONSOLE_WIDTH)) \in Position
<1> DEFINE y == o \div CONSOLE_WIDTH
<1>1. Quot(o, CONSOLE_WIDTH) = y /\ y \in 0 .. CONSOLE_HEIGHT - 1
  BY RowAndColumn
<1> HIDE DEF y
<1>2. Linear(x, y) \in Position /\ Linear(x - 1, y) = Linear(x, y) - 1
  <2>1. y * CONSOLE_WIDTH \in Int
    BY <1>1, Screen
  <2>. QED
    BY <1>1, <2>1, LinearInScreen DEF Linear
<1>. QED
  BY <1>1, <1>2, Screen DEF Position

(***************************************************************************)
(* A system call from the library to the kernel                            *)
(***************************************************************************)
\* The numbers of the files and directories
LEMMA FileNumber ==
    /\ SYSCALL["FOPEN"] = 7 /\ SYSCALL["FREAD"] = 8 /\ SYSCALL["FWRITE"] = 9
    /\ SYSCALL["FSEEK"] = 10 /\ SYSCALL["FCLOSE"] = 11 /\ SYSCALL["REMOVE"] = 12
    /\ SYSCALL["OPENDIR"] = 13 /\ SYSCALL["READDIR"] = 14 /\ SYSCALL["REWINDDIR"] = 15
    /\ SYSCALL["CLOSEDIR"] = 16 /\ SYSCALL["ISFILEOPENED"] = 17
BY DEF SYSCALL

\* What is not served as it is meant
LEMMA NotServedIs ==
    NotServed = {"fopen", "fread", "fwrite", "fseek", "fclose", "remove", "opendir", "readdir",
                 "rewinddir", "closedir", "IsFileOpened", "ReadHDDSector", "WriteHDDSector",
                 "ChangeProcessorAffinity"}
<1>1. {f.name : f \in LibraryFiles} = {"fopen", "fread", "fwrite", "fseek", "fclose", "remove"}
  BY FunctionIs DEF LibraryFiles
<1>2. {f.name : f \in LibraryDirectories}
        = {"opendir", "readdir", "rewinddir", "closedir", "IsFileOpened"}
  BY FunctionIs DEF LibraryDirectories
<1>3. {f.name : f \in LibraryDisk} = {"ReadHDDSector", "WriteHDDSector"}
  BY FunctionIs DEF LibraryDisk
<1>4. NotServed = {f.name : f \in LibraryFiles} \cup {f.name : f \in LibraryDirectories}
                  \cup {f.name : f \in LibraryDisk} \cup {"ChangeProcessorAffinity"}
  BY DEF NotServed
<1>. QED
  BY <1>1, <1>2, <1>3, <1>4

\* The calls that move the position
LEMMA ConsoleCallIs ==
    ConsoleCall = {"printf", "ConsolePrintString", "SetCursor", "ClearScreen", "Backspace"}
                  \cup MessageCall
<1>1. {f.name : f \in LibraryFiles} = {"fopen", "fread", "fwrite", "fseek", "fclose", "remove"}
  BY FunctionIs DEF LibraryFiles
<1>2. {f.name : f \in LibraryDirectories}
        = {"opendir", "readdir", "rewinddir", "closedir", "IsFileOpened"}
  BY FunctionIs DEF LibraryDirectories
<1>3. ConsoleCall = {"printf", "ConsolePrintString", "SetCursor", "ClearScreen",
                     "kSystemCallTestTask", "Backspace"}
                    \cup {f.name : f \in LibraryFiles} \cup {f.name : f \in LibraryDirectories}
  BY DEF ConsoleCall
<1>. QED
  BY <1>1, <1>2, <1>3 DEF MessageCall

\* No case of the kernel serves a file or a directory.
LEMMA FilesAreNotServed ==
    ASSUME NEW P, NEW f \in LibraryFiles \cup LibraryDirectories
    PROVE  kProcessSystemCall(f.number, P).function = "undefined"
<1>1. f.number \in 7 .. 17
  <2>1. CASE f \in LibraryFiles
    BY <2>1, FileNumber, FunctionIs DEF LibraryFiles
  <2>2. CASE f \in LibraryDirectories
    BY <2>2, FileNumber, FunctionIs DEF LibraryDirectories
  <2>. QED
    BY <2>1, <2>2
<1>. QED
  BY <1>1, NotServedBy DEF Undefined

\* The disk is read or written, with the library's parameters in the places of others.
LEMMA DiskIsServed ==
    ASSUME NEW P, NEW f \in LibraryDisk, Stored(f, P)
    PROVE  /\ kProcessSystemCall(f.number, P).function \in {"kReadHDDSector", "kWriteHDDSector"}
           /\ ~Serves(kProcessSystemCall(f.number, P), f.name)
<1> DEFINE r == Case("READHDDSECTOR", "kReadHDDSector", <<P[0], P[1], P[2], P[3]>>)
           w == Case("WRITEHDDSECTOR", "kWriteHDDSector", <<P[0], P[1], P[2], P[3]>>)
           names == <<"portnum", "dwLBA", "iSectorCount", "pcBuffer">>
<1>1. r \in KernelServices(P) /\ w \in KernelServices(P)
  BY DEF KernelServices, KernelMemoryAndDisk
<1>2. /\ r.number = SYSCALL["READHDDSECTOR"] /\ w.number = SYSCALL["WRITEHDDSECTOR"]
      /\ r.function = "kReadHDDSector" /\ w.function = "kWriteHDDSector"
      /\ r.arguments = <<P[0], P[1], P[2], P[3]>> /\ w.arguments = <<P[0], P[1], P[2], P[3]>>
  BY DEF Case
<1> HIDE DEF r, w
<1>3. /\ f.number = r.number \/ f.number = w.number
      /\ f.params = <<"bPrimary", "bMaster", "dwLBA", "iSectorCount", "pcBuffer">>
  BY <1>2, FunctionIs DEF LibraryDisk
<1>4. P[0].name = "bPrimary"
  BY <1>3 DEF Stored
<1>5. NamesOf(<<P[0], P[1], P[2], P[3]>>) # names
  <2>1. NamesOf(<<P[0], P[1], P[2], P[3]>>)
          = <<P[0].name, P[1].name, P[2].name, P[3].name>>
    BY NamesOf4
  <2>. QED
    BY <1>4, <2>1
<1>6. \A c \in {r, w} : NamesOf(c.arguments) # Parameters(c.function)
  BY <1>2, <1>5, ParametersAre
<1>. QED
  BY <1>1, <1>2, <1>3, <1>6, ServedBy DEF Serves

\* The affinity of a task is asked for and its priority is changed.
LEMMA AffinityIsServed ==
    ASSUME NEW P, NEW f \in LibraryTasks, f.name = "ChangeProcessorAffinity"
    PROVE  /\ kProcessSystemCall(f.number, P).function = "kChangePriority"
           /\ ~Serves(kProcessSystemCall(f.number, P), f.name)
<1> DEFINE c == Case("CHANGEPROCESSORAFFINITY", "kChangePriority", <<P[0], P[1]>>)
<1>1. c \in KernelServices(P)
  BY DEF KernelServices, KernelTasks
<1>2. c.number = SYSCALL["CHANGEPROCESSORAFFINITY"] /\ c.function = "kChangePriority"
  BY DEF Case
<1> HIDE DEF c
<1>3. f.number = c.number
  BY <1>2, FunctionIs DEF LibraryTasks
<1>. QED
  BY <1>1, <1>2, <1>3, ServedBy, MeantIs DEF Serves

\* The names of the library
LEMMA ConsoleNames ==
    ASSUME NEW f \in LibraryConsole
    PROVE  /\ f.name \in {"ConsolePrintString", "SetCursor", "GetCursor", "ClearScreen", "getch"}
           /\ Len(f.params) \in 0 .. 5
           /\ f.name = "ConsolePrintString" =>
                f = Function("ConsolePrintString", "CONSOLEPRINTSTRING", <<"pcBuffer">>)
           /\ f.name = "SetCursor" => f = Function("SetCursor", "SETCURSOR", <<"iX", "iY">>)
BY FunctionIs DEF LibraryConsole
\* ... of the memory,
LEMMA MemoryNames ==
    ASSUME NEW f \in LibraryMemory
    PROVE  f.name \in {"malloc", "free"} /\ Len(f.params) \in 0 .. 5
BY FunctionIs DEF LibraryMemory
\* of the files,
LEMMA FilesNames ==
    ASSUME NEW f \in LibraryFiles
    PROVE  /\ f.name \in {"fopen", "fread", "fwrite", "fseek", "fclose", "remove"}
           /\ Len(f.params) \in 0 .. 5
BY FunctionIs DEF LibraryFiles
\* of the directories,
LEMMA DirectoriesNames ==
    ASSUME NEW f \in LibraryDirectories
    PROVE  /\ f.name \in {"opendir", "readdir", "rewinddir", "closedir", "IsFileOpened"}
           /\ Len(f.params) \in 0 .. 5
BY FunctionIs DEF LibraryDirectories
\* of the disk,
LEMMA DiskNames ==
    ASSUME NEW f \in LibraryDisk
    PROVE  f.name \in {"ReadHDDSector", "WriteHDDSector"} /\ Len(f.params) \in 0 .. 5
BY FunctionIs DEF LibraryDisk
\* of the tasks,
LEMMA TasksNames ==
    ASSUME NEW f \in LibraryTasks
    PROVE  /\ f.name \in {"CreateTask", "Schedule", "ChangePriority", "EndTask", "exit",
                          "GetTaskCount", "IsTaskExist", "GetProcessorLoad",
                          "ChangeProcessorAffinity"}
           /\ Len(f.params) \in 0 .. 5
BY FunctionIs DEF LibraryTasks
\* and of the devices.
LEMMA DevicesNames ==
    ASSUME NEW f \in LibraryDevices
    PROVE  /\ f.name \in {"ReadRTCTime", "ReadRTCDate", "SendSerialData", "ReceiveSerialData",
                          "ClearSerialFIFO", "GetTotalRAMSize", "GetTickCount", "Sleep"}
           /\ Len(f.params) \in 0 .. 5
BY FunctionIs DEF LibraryDevices

\* The functions that make system calls
Caller == Library \cup {TestTask}

\* What their names tell apart
LEMMA CallerNames ==
    ASSUME NEW f \in Caller
    PROVE  /\ Len(f.params) \in 0 .. 5
           /\ f.name \notin {"none", "printf", "Backspace"}
           /\ f.name = "ConsolePrintString" =>
                f = Function("ConsolePrintString", "CONSOLEPRINTSTRING", <<"pcBuffer">>)
           /\ f.name = "SetCursor" => f = Function("SetCursor", "SETCURSOR", <<"iX", "iY">>)
<1>1. CASE f = TestTask
  <2>1. TestTask = Function("kSystemCallTestTask", "TEST", <<>>)
    BY DEF TestTask
  <2>2. TestTask.name = "kSystemCallTestTask" /\ TestTask.params = <<>>
    BY <2>1, FunctionIs
  <2>. QED
    BY <1>1, <2>2
<1>2. CASE f \in Library
  BY <1>2, ConsoleNames, MemoryNames, FilesNames, DirectoriesNames, DiskNames, TasksNames,
     DevicesNames DEF Library
<1>. QED
  BY <1>1, <1>2 DEF Caller

\* A call reaches what it stands for, unless it is one of NotServed.
LEMMA EveryoneIsServed ==
    ASSUME NEW P, NEW f \in Caller, Stored(f, P)
    PROVE  Serves(kProcessSystemCall(f.number, P), f.name) <=> f.name \notin NotServed
<1>1. CASE f = TestTask
  <2>1. f.name = "kSystemCallTestTask"
    BY <1>1, FunctionIs DEF TestTask
  <2>. QED
    BY <1>1, <2>1, TestIsServed, NotServedIs
<1>2. CASE f \in LibraryConsole
  BY <1>2, ConsoleIsServed, ConsoleNames, NotServedIs
<1>3. CASE f \in LibraryMemory
  BY <1>3, MemoryIsServed, MemoryNames, NotServedIs
<1>4. CASE f \in LibraryFiles \cup LibraryDirectories
  <2>1. kProcessSystemCall(f.number, P).function = "undefined"
    BY <1>4, FilesAreNotServed
  <2>2. f.name \in NotServed /\ Meant[f.name] # "undefined"
    BY <1>4, FilesNames, DirectoriesNames, NotServedIs, MeantIs
  <2>. QED
    BY <2>1, <2>2 DEF Serves
<1>5. CASE f \in LibraryDisk
  BY <1>5, DiskIsServed, DiskNames, NotServedIs
<1>6. CASE f \in LibraryTasks
  <2>1. CASE f.name = "ChangeProcessorAffinity"
    BY <1>6, <2>1, AffinityIsServed, NotServedIs
  <2>2. CASE f.name # "ChangeProcessorAffinity"
    BY <1>6, <2>2, TasksIsServed, TasksNames, NotServedIs
  <2>. QED
    BY <2>1, <2>2
<1>7. CASE f \in LibraryDevices
  BY <1>7, DevicesIsServed, DevicesNames, NotServedIs
<1>. QED
  BY <1>1, <1>2, <1>3, <1>4, <1>5, <1>6, <1>7 DEF Caller, Library

\* Which calls enter the console, for which the kernel prints itself, and which ends
\* the task
LEMMA DispatchTo ==
    ASSUME NEW P, NEW f \in Caller, Stored(f, P), NEW service,
           service = kProcessSystemCall(f.number, P)
    PROVE  /\ service.function = "kConsolePrintString" <=> f.name = "ConsolePrintString"
           /\ service.function = "kSetCursor" <=> f.name = "SetCursor"
           /\ service.function = "kClearScreen" <=> f.name = "ClearScreen"
           /\ service.function = "kExitTask" <=> f.name = "exit"
           /\ PrintsMessage(service) <=> f.name \in MessageCall
           /\ f.name = "ConsolePrintString" => service.arguments[1] = P[0]
           /\ f.name = "SetCursor" =>
                service.arguments[1] = P[0] /\ service.arguments[2] = P[1]
<1>1. CASE f.name \notin NotServed
  <2>1. service.function = Meant[f.name]
    BY <1>1, EveryoneIsServed DEF Serves
  <2>2. /\ service.function = "kConsolePrintString" <=> f.name = "ConsolePrintString"
        /\ service.function = "kSetCursor" <=> f.name = "SetCursor"
        /\ service.function = "kClearScreen" <=> f.name = "ClearScreen"
        /\ service.function = "kExitTask" <=> f.name = "exit"
        /\ PrintsMessage(service) <=> f.name \in MessageCall
    <3> DEFINE g == service.function
    <3>0. g = Meant[f.name]
      BY <2>1
    <3> HIDE DEF g
    <3>1. CASE f = TestTask
      <4>1. f.name = "kSystemCallTestTask"
        BY <3>1, FunctionIs DEF TestTask
      <4>2. g = "kPrintf"
        BY <3>0, <4>1, MeantIs
      <4>. QED
        BY <4>1, <4>2 DEF PrintsMessage, MessageCall, g
    <3>2. CASE f \in LibraryConsole
      BY <3>0, <3>2, ConsoleNames, MeantIs DEF PrintsMessage, MessageCall, g
    <3>3. CASE f \in LibraryMemory
      BY <3>0, <3>3, MemoryNames, MeantIs DEF PrintsMessage, MessageCall, g
    <3>4. CASE f \in LibraryTasks
      BY <1>1, <3>0, <3>4, TasksNames, NotServedIs, MeantIs DEF PrintsMessage, MessageCall, g
    <3>5. CASE f \in LibraryDevices
      BY <3>0, <3>5, DevicesNames, MeantIs DEF PrintsMessage, MessageCall, g
    <3>6. f \notin LibraryFiles /\ f \notin LibraryDirectories /\ f \notin LibraryDisk
      BY <1>1, FilesNames, DirectoriesNames, DiskNames, NotServedIs
    <3>. QED
      BY <3>1, <3>2, <3>3, <3>4, <3>5, <3>6 DEF Caller, Library
  <2>3. CASE f.name = "ConsolePrintString"
    <3> DEFINE c == Case("CONSOLEPRINTSTRING", "kConsolePrintString", <<P[0]>>)
    <3>1. c \in KernelServices(P) /\ c.arguments = <<P[0]>> /\ c.number = f.number
      BY <2>3, CallerNames, FunctionIs, CaseIs DEF KernelServices, KernelConsole
    <3> HIDE DEF c
    <3>2. service = c
      BY <3>1, ServedBy
    <3>. QED
      BY <2>2, <2>3, <3>1, <3>2
  <2>4. CASE f.name = "SetCursor"
    <3> DEFINE c == Case("SETCURSOR", "kSetCursor", <<P[0], P[1]>>)
    <3>1. c \in KernelServices(P) /\ c.arguments = <<P[0], P[1]>> /\ c.number = f.number
      BY <2>4, CallerNames, FunctionIs, CaseIs DEF KernelServices, KernelConsole
    <3> HIDE DEF c
    <3>2. service = c
      BY <3>1, ServedBy
    <3>. QED
      BY <2>2, <2>4, <3>1, <3>2
  <2>. QED
    BY <2>2, <2>3, <2>4
<1>2. CASE f.name \in NotServed
  <2>1. \/ f \in LibraryFiles \cup LibraryDirectories \/ f \in LibraryDisk
        \/ f \in LibraryTasks /\ f.name = "ChangeProcessorAffinity"
    <3>1. f # TestTask
      BY <1>2, NotServedIs, FunctionIs DEF TestTask
    <3>. QED
      BY <1>2, <3>1, NotServedIs, ConsoleNames, MemoryNames, TasksNames, DevicesNames
         DEF Caller, Library
  <2>2. CASE f \in LibraryFiles \cup LibraryDirectories
    <3>1. service.function = "undefined"
      BY <2>2, FilesAreNotServed
    <3>2. f.name \in MessageCall
      BY <2>2, FilesNames, DirectoriesNames DEF MessageCall
    <3>. QED
      BY <3>1, <3>2 DEF PrintsMessage, MessageCall
  <2>3. CASE f \in LibraryDisk
    <3>1. service.function \in {"kReadHDDSector", "kWriteHDDSector"}
      BY <2>3, DiskIsServed
    <3>. QED
      BY <2>3, <3>1, DiskNames DEF PrintsMessage, MessageCall
  <2>4. CASE f \in LibraryTasks /\ f.name = "ChangeProcessorAffinity"
    <3>1. service.function = "kChangePriority"
      BY <2>4, AffinityIsServed
    <3>. QED
      BY <2>4, <3>1 DEF PrintsMessage, MessageCall
  <2>. QED
    BY <2>1, <2>2, <2>3, <2>4
<1>. QED
  BY <1>1, <1>2

\* What the kernel finds in the table after the library has stored the values
LEMMA TableHolds ==
    ASSUME NEW f \in Caller, NEW values
    PROVE  /\ Stored(f, ParameterTable(f, values))
           /\ f.name = "ConsolePrintString" => ParameterTable(f, values)[0].value = values[1]
           /\ f.name = "SetCursor" => /\ ParameterTable(f, values)[0].value = values[1]
                                      /\ ParameterTable(f, values)[1].value = values[2]
<1> DEFINE P == ParameterTable(f, values)
<1>1. Len(f.params) \in 0 .. 5
  BY CallerNames
<1>2. \A i \in 1 .. Len(f.params) :
          P[i - 1] = [name |-> f.params[i], value |-> values[i]]
  <2> SUFFICES ASSUME NEW i \in 1 .. Len(f.params)
               PROVE  P[i - 1] = [name |-> f.params[i], value |-> values[i]]
    OBVIOUS
  <2> DEFINE n == Len(f.params)
  <2>3. n \in 0 .. 5 /\ i \in 1 .. n
    BY <1>1
  <2> HIDE DEF n
  <2>4. i - 1 \in 0 .. 19 /\ i - 1 < n /\ i - 1 + 1 = i
    BY <2>3
  <2>1. i - 1 \in 0 .. 19 /\ i - 1 < Len(f.params) /\ i - 1 + 1 = i
    BY <2>4 DEF n
  <2>2. P[i - 1] = Parameter(f, values, i - 1)
    BY <2>1 DEF ParameterTable
  <2>. QED
    BY <2>1, <2>2 DEF Parameter
<1> HIDE DEF P
<1>3. Stored(f, P)
  <2> SUFFICES ASSUME NEW i \in 1 .. Len(f.params) PROVE P[i - 1].name = f.params[i]
    BY DEF Stored
  <2>1. P[i - 1] = [name |-> f.params[i], value |-> values[i]]
    BY <1>2
  <2>. QED
    BY <2>1
<1>4. f.name = "ConsolePrintString" => P[0].value = values[1]
  <2> SUFFICES ASSUME f.name = "ConsolePrintString" PROVE P[0].value = values[1]
    OBVIOUS
  <2>1. Len(f.params) = 1
    BY CallerNames, FunctionIs
  <2>2. P[1 - 1] = [name |-> f.params[1], value |-> values[1]]
    BY <1>2, <2>1
  <2>. QED
    BY <2>2
<1>5. f.name = "SetCursor" => P[0].value = values[1] /\ P[1].value = values[2]
  <2> SUFFICES ASSUME f.name = "SetCursor"
               PROVE  P[0].value = values[1] /\ P[1].value = values[2]
    OBVIOUS
  <2>1. Len(f.params) = 2
    BY CallerNames, FunctionIs
  <2>2. /\ P[1 - 1] = [name |-> f.params[1], value |-> values[1]]
        /\ P[2 - 1] = [name |-> f.params[2], value |-> values[2]]
    BY <1>2, <2>1
  <2>. QED
    BY <2>2
<1>. QED
  BY <1>3, <1>4, <1>5 DEF P

(***************************************************************************)
(* The steps                                                               *)
(***************************************************************************)
\* The other tasks are where they were.
OthersStand(t) ==
    \A u \in Task \ {t} :
        /\ pc'[u] = pc[u] /\ request'[u] = request[u] /\ served'[u] = served[u]
        /\ called'[u] = called[u] /\ printing'[u] = printing[u]

\* A step of a task leaves the calls of the others alone.
LEMMA CallFrame ==
    ASSUME CallInv, NEW t \in Task, OthersStand(t), strayed => strayed', PlaceOK(t)', ServiceOK(t)',
           (pc[t] = "syscall" => RequestOK(t))'
    PROVE  CallInv'
<1> SUFFICES ASSUME NEW u \in Task
             PROVE  (PlaceOK(u) /\ ServiceOK(u) /\ (pc[u] = "syscall" => RequestOK(u)))'
  BY DEF CallInv
<1>1. CASE u = t
  BY <1>1
<1>2. CASE u # t
  <2>1. /\ pc'[u] = pc[u] /\ request'[u] = request[u] /\ served'[u] = served[u]
        /\ called'[u] = called[u] /\ printing'[u] = printing[u]
    BY <1>2 DEF OthersStand
  <2>2. PlaceOK(u) /\ ServiceOK(u) /\ (pc[u] = "syscall" => RequestOK(u))
    BY DEF CallInv
  <2>3. PlaceOK(u)'
    BY <2>1, <2>2 DEF PlaceOK
  <2>4. ServiceOK(u)'
    BY <2>1, <2>2 DEF ServiceOK
  <2>5. (pc[u] = "syscall" => RequestOK(u))'
    BY <2>1, <2>2 DEF RequestOK, Name, Linear
  <2>. QED
    BY <2>3, <2>4, <2>5
<1>. QED
  BY <1>1, <1>2

\* What a step of a task has to say about the offsets
LEMMA ScreenFrame ==
    ASSUME ScreenInv, NEW t \in Task, OthersStand(t), \A u \in Task \ {t} : offset'[u] = offset[u],
           iCurrentPrintOffset' \in Position, crtc' \in CRTC, offset' \in [Task -> Position],
           pc'[t] = "row" => offset'[t] \in 0 .. CONSOLE_WIDTH - 1, expected' \in At
    PROVE  ScreenInv'
<1>1. Shell \in Task
  BY TaskAssumption DEF Task
<1>2. pc'[Shell] = "row" => offset'[Shell] \in 0 .. CONSOLE_WIDTH - 1
  BY <1>1 DEF OthersStand, ScreenInv
<1>. QED
  BY <1>2 DEF ScreenInv

\* A step of a task that is alone in the console
LEMMA CursorFrame ==
    ASSUME NEW t \in Task, OthersStand(t), Clean' => \A u \in Task \ {t} : ~InConsole(u),
           Clean' => (pc'[t] = "row" => offset'[t] = expected'.column),
           Clean' => \/ ~InConsole(t)' /\ Settled'
                     \/ Moves(t)' /\ ~WillMove(t)' /\ MovesOK(t)'
                     \/ ~Moves(t)' /\ ~WillMove(t)' /\ Settled'
    PROVE  (InConsole(t)' \/ (~Moves(t)' /\ ~WillMove(t)')) => CursorInv'
<1> SUFFICES ASSUME InConsole(t)' \/ (~Moves(t)' /\ ~WillMove(t)'), Clean' PROVE CursorInv'
  BY DEF CursorInv
<1>1. \A u \in Task \ {t} : ~InConsole(u)'
  BY DEF OthersStand, InConsole
<1>2. ASSUME NEW v \in Task, InConsole(v)'
      PROVE  /\ \A u \in Task \ {v} : ~InConsole(u)'
             /\ (Moves(v) => MovesOK(v))' /\ (WillMove(v) => WillMoveOK(v))'
             /\ pc'[v] = "row" => offset'[v] = expected'.column
  <2>1. v = t
    BY <1>1, <1>2
  <2>. QED
    BY <1>1, <1>2, <2>1
<1>3. (\A v \in Task : InConsole(v)' => ~Moves(v)' /\ ~WillMove(v)') => Settled'
  OBVIOUS
<1>. QED
  BY <1>2, <1>3 DEF CursorInv

\* A task that asks for the cursor to be moved is alone in the console.
LEMMA CursorAsked ==
    ASSUME NEW t \in Task, OthersStand(t), InConsole(t)', ~Moves(t)', WillMove(t)',
           Clean' => (\A u \in Task \ {t} : ~InConsole(u)) /\ WillMoveOK(t)'
    PROVE  CursorInv'
<1> SUFFICES ASSUME Clean' PROVE CursorInv'
  BY DEF CursorInv
<1>1. \A u \in Task \ {t} : ~InConsole(u)'
  BY DEF OthersStand, InConsole
<1>4. pc'[t] # "row"
  BY DEF WillMove
<1>2. ASSUME NEW v \in Task, InConsole(v)'
      PROVE  /\ \A u \in Task \ {v} : ~InConsole(u)'
             /\ (Moves(v) => MovesOK(v))' /\ (WillMove(v) => WillMoveOK(v))'
             /\ pc'[v] = "row" => offset'[v] = expected'.column
  <2>1. v = t
    BY <1>1, <1>2
  <2>. QED
    BY <1>1, <1>4, <2>1
<1>3. ~(\A v \in Task : InConsole(v)' => ~Moves(v)' /\ ~WillMove(v)')
  OBVIOUS
<1>. QED
  BY <1>2, <1>3 DEF CursorInv

\* A step of a task that has nothing to do with the console
LEMMA CursorUntouched ==
    ASSUME CursorInv, NEW t \in Task, OthersStand(t), ~InConsole(t), ~InConsole(t)',
           UNCHANGED <<iCurrentPrintOffset, crtc, offset, expected, overlap, strayed>>
    PROVE  CursorInv'
<1> SUFFICES ASSUME Clean PROVE CursorInv'
  BY DEF CursorInv, Clean
<1>1. \A u \in Task : InConsole(u)' <=> InConsole(u)
  BY DEF OthersStand, InConsole
<1>2. EndOffset' = EndOffset /\ (Settled' <=> Settled)
  BY DEF EndOffset, Settled, Linear
<1>3. ASSUME NEW u \in Task, InConsole(u)
      PROVE  /\ Moves(u)' <=> Moves(u)
             /\ MovesOK(u)' <=> MovesOK(u)
             /\ WillMove(u)' <=> WillMove(u)
             /\ WillMoveOK(u)' <=> WillMoveOK(u)
             /\ pc'[u] = pc[u] /\ offset'[u] = offset[u] /\ expected'.column = expected.column
  <2>1. u # t
    BY <1>3
  <2>2. /\ pc'[u] = pc[u] /\ request'[u] = request[u]
        /\ called'[u] = called[u] /\ printing'[u] = printing[u]
    BY <2>1 DEF OthersStand
  <2>3. Name(u)' = Name(u)
    BY <2>2 DEF Name
  <2>. QED
    BY <1>2, <2>2, <2>3 DEF Moves, MovesOK, WillMove, WillMoveOK, Linear
<1>. QED
  BY <1>1, <1>2, <1>3 DEF CursorInv

\* What it means that a task of the console is alone
LEMMA Alone ==
    ASSUME CursorInv, Clean, NEW t \in Task, InConsole(t)
    PROVE  /\ \A u \in Task \ {t} : ~InConsole(u)
           /\ Moves(t) => MovesOK(t)
           /\ WillMove(t) => WillMoveOK(t)
           /\ ~Moves(t) /\ ~WillMove(t) => Settled
           /\ pc[t] = "row" => offset[t] = expected.column
BY DEF CursorInv
\* ... and that nobody is there
LEMMA Nobody ==
    ASSUME CursorInv, Clean, \A u \in Task : ~InConsole(u)
    PROVE  Settled
BY DEF CursorInv

(***************************************************************************)
(* The invariant                                                           *)
(***************************************************************************)
\* kInitializeConsole sets position and cursor to the last line.
LEMMA InitInv == Init => IInv
<1> SUFFICES ASSUME Init PROVE IInv
  OBVIOUS
<1>1. LASTLINE \in 0 .. CONSOLE_HEIGHT - 1 /\ 0 \in 0 .. CONSOLE_WIDTH - 1
  BY ConsoleAssumption, Screen
<1>2. LASTLINE * CONSOLE_WIDTH = Linear(0, LASTLINE) /\ Linear(0, LASTLINE) \in Position
  <2>1. LASTLINE * CONSOLE_WIDTH \in Nat
    BY <1>1, Screen
  <2>2. LASTLINE * CONSOLE_WIDTH + 0 = LASTLINE * CONSOLE_WIDTH
    BY <2>1
  <2>. QED
    BY <1>1, <2>2, LinearInScreen DEF Linear
<1>3. 0 \in Position
  BY <1>2, Screen DEF Position
<1>4. ConsoleTypeOK
  <2>1. pc \in [Task -> Place]
    BY DEF Init, Place
  <2>2. string \in [Task -> Seq(Character)]
    <3>1. <<>> \in Seq(Character)
      OBVIOUS
    <3>. QED
      BY <3>1 DEF Init
  <2>3. printing \in [Task -> BOOLEAN]
    BY DEF Init
  <2>4. DOMAIN request = Task /\ DOMAIN served = Task /\ DOMAIN called = Task
    BY DEF Init
  <2>5. overlap \in BOOLEAN /\ strayed \in BOOLEAN
    BY DEF Init
  <2>. QED
    BY <2>1, <2>2, <2>3, <2>4, <2>5 DEF ConsoleTypeOK
<1>4s. ScreenInv
  <2>1. iCurrentPrintOffset \in Position
    BY <1>2 DEF Init
  <2>2. crtc \in CRTC
    BY <1>2, Bytes DEF Init, CRTC
  <2>3. expected \in At
    BY <1>1 DEF Init, At
  <2>4. offset \in [Task -> Position]
    BY <1>3 DEF Init
  <2>5. Shell \in Task
    BY TaskAssumption DEF Task
  <2>6. pc[Shell] # "row"
    BY <2>5 DEF Init
  <2>. QED
    BY <2>1, <2>2, <2>3, <2>4, <2>6 DEF ScreenInv
<1>5. CallInv
  <2> SUFFICES ASSUME NEW t \in Task
               PROVE  PlaceOK(t) /\ ServiceOK(t) /\ (pc[t] = "syscall" => RequestOK(t))
    BY DEF CallInv
  <2>1. pc[t] = "run" /\ printing[t] = FALSE /\ called[t] = "none"
    BY DEF Init
  <2>. QED
    BY <2>1 DEF PlaceOK, ServiceOK, Setting, Shelled
<1>6. CursorInv
  <2>1. Settled
    BY <1>2 DEF Init, Settled, EndOffset
  <2>2. \A t \in Task : ~InConsole(t)
    BY DEF Init, InConsole
  <2>. QED
    BY <2>1, <2>2 DEF CursorInv
<1>. QED
  BY <1>4, <1>4s, <1>5, <1>6 DEF IInv

\* The kernel returns to a task that is done.
LEMMA SysretKeeps ==
    ASSUME IInv, NEW t \in Task, Sysret(t)
    PROVE  IInv'
<1>1. ConsoleTypeOK /\ CallInv /\ CursorInv /\ (~strayed => ScreenInv)
  BY DEF IInv
<1>2. OthersStand(t)
  BY <1>1 DEF OthersStand, ConsoleTypeOK, locals, shared, ghosts, Sysret, Goto
<1>3. PlaceOK(t) /\ ServiceOK(t) /\ (pc[t] = "syscall" => RequestOK(t))
  BY <1>1 DEF CallInv
<1>4. /\ pc[t] = "sysret" /\ pc'[t] = "run" /\ ~printing[t] /\ ~printing'[t]
      /\ UNCHANGED <<shared, locals, ghosts>> /\ UNCHANGED <<overlap, strayed>>
  BY <1>1, <1>3 DEF Sysret, Goto, ConsoleTypeOK, locals, ghosts
<1>5. ConsoleTypeOK'
  BY <1>1 DEF ConsoleTypeOK, Sysret, Goto, Place, shared, locals, ghosts
<1>5s. ~strayed' => ScreenInv'
  BY <1>1, <1>2, <1>4, ScreenFrame DEF ScreenInv, shared, locals, ghosts
<1>6. PlaceOK(t)'
  BY <1>3, <1>4 DEF PlaceOK, Setting, Shelled, locals
<1>7. ServiceOK(t)'
  BY <1>4 DEF ServiceOK
<1>8. (pc[t] = "syscall" => RequestOK(t))'
  BY <1>4
<1>9. CallInv'
  BY <1>1, <1>2, <1>4, <1>6, <1>7, <1>8, CallFrame
<1>10. CursorInv'
  <2>1. ~InConsole(t)'
    BY <1>4 DEF InConsole
  <2>2. CASE ~InConsole(t)
    BY <1>1, <1>2, <1>4, <2>1, <2>2, CursorUntouched DEF shared, locals, ghosts
  <2>3. CASE InConsole(t)
    <3>1. ~Moves(t) /\ ~WillMove(t) /\ ~Moves(t)' /\ ~WillMove(t)'
      BY <1>4 DEF Moves, WillMove, Setting
    <3>2. Clean' => /\ \A u \in Task \ {t} : ~InConsole(u)
                    /\ Settled'
      BY <1>1, <1>4, <2>3, <3>1, Alone DEF Settled, EndOffset, Linear, Clean, shared, ghosts
    <3>. QED
      BY <1>2, <1>4, <2>1, <3>1, <3>2, CursorFrame
  <2>. QED
    BY <2>2, <2>3
<1>. QED
  BY <1>5, <1>5s, <1>9, <1>10 DEF IInv

\* kSetCursor selects the upper register ...
LEMMA SelectUpperKeeps ==
    ASSUME IInv, NEW t \in Task, Select(t, "selectUpper", "upper", UPPER)
    PROVE  IInv'
<1>1. ConsoleTypeOK /\ CallInv /\ CursorInv /\ (~strayed => ScreenInv)
  BY DEF IInv
<1>2. OthersStand(t)
  BY <1>1 DEF OthersStand, ConsoleTypeOK, locals, shared, ghosts, Select, Goto
<1>3. PlaceOK(t) /\ ServiceOK(t) /\ (pc[t] = "syscall" => RequestOK(t))
  BY <1>1 DEF CallInv
<1>4. /\ pc[t] = "selectUpper" /\ pc'[t] = "upper" /\ UNCHANGED <<iCurrentPrintOffset, locals, ghosts>>
      /\ UNCHANGED <<request, served, offset, printing, called, expected, overlap, strayed>>
      /\ crtc' = [crtc EXCEPT !.selected = UPPER]
  BY <1>1 DEF ConsoleTypeOK, locals, ghosts, Select, Goto
<1>5. ConsoleTypeOK'
  <2>2. pc' \in [Task -> Place]
    BY <1>1 DEF ConsoleTypeOK, Place, Setting, Select, Goto
  <2>. QED
    BY <1>1, <1>4, <2>2 DEF ConsoleTypeOK, locals, ghosts
<1>5s. ~strayed' => ScreenInv'
  <2>1. ~strayed' => crtc' \in CRTC
    BY <1>1, <1>4 DEF ScreenInv, CRTC
  <2>. QED
    BY <1>1, <1>2, <1>4, <2>1, ScreenFrame DEF ScreenInv
<1>6. PlaceOK(t)'
  BY <1>3, <1>4 DEF PlaceOK, Setting, Shelled
<1>7. ServiceOK(t)'
  BY <1>3, <1>4 DEF ServiceOK
<1>8. (pc[t] = "syscall" => RequestOK(t))'
  BY <1>4
<1>9. CallInv'
  BY <1>1, <1>2, <1>4, <1>6, <1>7, <1>8, CallFrame
<1>10. CursorInv'
  <2>1. InConsole(t) /\ InConsole(t)' /\ Moves(t) /\ Moves(t)' /\ ~WillMove(t)'
    BY <1>3, <1>4, ConsoleCallIs DEF PlaceOK, InConsole, Moves, WillMove, Setting
  <2>2. Clean' => (\A u \in Task \ {t} : ~InConsole(u)) /\ MovesOK(t)
    BY <1>1, <1>4, <2>1, Alone DEF Clean
  <2>3. Clean' => MovesOK(t)'
    BY <1>1, <1>4, <2>2 DEF MovesOK, EndOffset, Linear, ScreenInv, CRTC, UPPER, LOWER, Clean
  <2>. QED
    BY <1>2, <1>4, <2>1, <2>2, <2>3, CursorFrame
<1>. QED
  BY <1>5, <1>5s, <1>9, <1>10 DEF IInv

\* ... and the lower one.
LEMMA SelectLowerKeeps ==
    ASSUME IInv, NEW t \in Task, Select(t, "selectLower", "lower", LOWER)
    PROVE  IInv'
<1>1. ConsoleTypeOK /\ CallInv /\ CursorInv /\ (~strayed => ScreenInv)
  BY DEF IInv
<1>2. OthersStand(t)
  BY <1>1 DEF OthersStand, ConsoleTypeOK, locals, shared, ghosts, Select, Goto
<1>3. PlaceOK(t) /\ ServiceOK(t) /\ (pc[t] = "syscall" => RequestOK(t))
  BY <1>1 DEF CallInv
<1>4. /\ pc[t] = "selectLower" /\ pc'[t] = "lower" /\ UNCHANGED <<iCurrentPrintOffset, locals, ghosts>>
      /\ UNCHANGED <<request, served, offset, printing, called, expected, overlap, strayed>>
      /\ crtc' = [crtc EXCEPT !.selected = LOWER]
  BY <1>1 DEF ConsoleTypeOK, locals, ghosts, Select, Goto
<1>5. ConsoleTypeOK'
  <2>2. pc' \in [Task -> Place]
    BY <1>1 DEF ConsoleTypeOK, Place, Setting, Select, Goto
  <2>. QED
    BY <1>1, <1>4, <2>2 DEF ConsoleTypeOK, locals, ghosts
<1>5s. ~strayed' => ScreenInv'
  <2>1. ~strayed' => crtc' \in CRTC
    BY <1>1, <1>4 DEF ScreenInv, CRTC
  <2>. QED
    BY <1>1, <1>2, <1>4, <2>1, ScreenFrame DEF ScreenInv
<1>6. PlaceOK(t)'
  BY <1>3, <1>4 DEF PlaceOK, Setting, Shelled
<1>7. ServiceOK(t)'
  BY <1>3, <1>4 DEF ServiceOK
<1>8. (pc[t] = "syscall" => RequestOK(t))'
  BY <1>4
<1>9. CallInv'
  BY <1>1, <1>2, <1>4, <1>6, <1>7, <1>8, CallFrame
<1>10. CursorInv'
  <2>1. InConsole(t) /\ InConsole(t)' /\ Moves(t) /\ Moves(t)' /\ ~WillMove(t)'
    BY <1>3, <1>4, ConsoleCallIs DEF PlaceOK, InConsole, Moves, WillMove, Setting
  <2>2. Clean' => (\A u \in Task \ {t} : ~InConsole(u)) /\ MovesOK(t)
    BY <1>1, <1>4, <2>1, Alone DEF Clean
  <2>3. Clean' => MovesOK(t)'
    BY <1>1, <1>4, <2>2 DEF MovesOK, EndOffset, Linear, ScreenInv, CRTC, UPPER, LOWER, Clean
  <2>. QED
    BY <1>2, <1>4, <2>1, <2>2, <2>3, CursorFrame
<1>. QED
  BY <1>5, <1>5s, <1>9, <1>10 DEF IInv

\* It writes the upper byte of the offset ...
LEMMA WriteUpperKeeps ==
    ASSUME IInv, NEW t \in Task, WriteRegister(t, "upper", "selectLower", (offset[t] \div BYTE) % BYTE)
    PROVE  IInv'
<1>1. ConsoleTypeOK /\ CallInv /\ CursorInv /\ (~strayed => ScreenInv)
  BY DEF IInv
<1>2. OthersStand(t)
  BY <1>1 DEF OthersStand, ConsoleTypeOK, locals, shared, ghosts, WriteRegister, Goto
<1>3. PlaceOK(t) /\ ServiceOK(t) /\ (pc[t] = "syscall" => RequestOK(t))
  BY <1>1 DEF CallInv
<1>4. /\ pc[t] = "upper" /\ pc'[t] = "selectLower" /\ UNCHANGED <<iCurrentPrintOffset, locals, ghosts>>
      /\ UNCHANGED <<request, served, offset, printing, called, expected, overlap, strayed>>
      /\ crtc' = [crtc EXCEPT ![crtc.selected] = (offset[t] \div BYTE) % BYTE]
  BY <1>1 DEF ConsoleTypeOK, locals, ghosts, WriteRegister, Goto
<1>5. ConsoleTypeOK'
  <2>4. pc' \in [Task -> Place]
    BY <1>1 DEF ConsoleTypeOK, Place, Setting, WriteRegister, Goto
  <2>. QED
    BY <1>1, <1>4, <2>4 DEF ConsoleTypeOK, locals, ghosts
<1>5s. ~strayed' => ScreenInv'
  <2> SUFFICES ASSUME ~strayed' PROVE ScreenInv'
    OBVIOUS
  <2>0. ScreenInv
    BY <1>1, <1>4
  <2>1. ((offset[t] \div BYTE) % BYTE) \in 0 .. BYTE - 1
    BY <2>0, Bytes DEF ScreenInv
  <2>2. crtc.selected \in {UPPER, LOWER}
    BY <2>0 DEF ScreenInv, CRTC
  <2>3. crtc' \in CRTC
    <3>1. CASE crtc.selected = UPPER
      BY <2>0, <1>4, <2>1, <3>1 DEF ScreenInv, CRTC, UPPER, LOWER
    <3>2. CASE crtc.selected = LOWER
      BY <2>0, <1>4, <2>1, <3>2 DEF ScreenInv, CRTC, UPPER, LOWER
    <3>. QED
      BY <2>2, <3>1, <3>2
  <2>. QED
    BY <1>2, <1>4, <2>0, <2>3, ScreenFrame DEF ScreenInv
<1>6. PlaceOK(t)'
  BY <1>3, <1>4 DEF PlaceOK, Setting, Shelled
<1>7. ServiceOK(t)'
  BY <1>3, <1>4 DEF ServiceOK
<1>8. (pc[t] = "syscall" => RequestOK(t))'
  BY <1>4
<1>9. CallInv'
  BY <1>1, <1>2, <1>4, <1>6, <1>7, <1>8, CallFrame
<1>10. CursorInv'
  <2>1. InConsole(t) /\ InConsole(t)' /\ Moves(t) /\ Moves(t)' /\ ~WillMove(t)'
    BY <1>3, <1>4, ConsoleCallIs DEF PlaceOK, InConsole, Moves, WillMove, Setting
  <2>2. Clean' => (\A u \in Task \ {t} : ~InConsole(u)) /\ MovesOK(t)
    BY <1>1, <1>4, <2>1, Alone DEF Clean
  <2>3. Clean' => MovesOK(t)'
    <3> SUFFICES ASSUME Clean' PROVE MovesOK(t)'
      OBVIOUS
    <3>0. ScreenInv
      BY <1>1, <1>4 DEF Clean
    <3>1. crtc.selected = UPPER /\ offset[t] = EndOffset
      BY <1>4, <2>2 DEF MovesOK
    <3>2. crtc.upper = EndOffset \div BYTE \/ pc[t] = "upper"
      BY <1>4, <2>2 DEF MovesOK
    <3>3. EndOffset' = EndOffset /\ offset'[t] = offset[t]
      BY <1>4 DEF EndOffset, Linear
    <3>4. offset[t] \in Position
      BY <3>0 DEF ScreenInv
    <3>5. ((offset[t] \div BYTE) % BYTE) = EndOffset \div BYTE
      BY <3>1, <3>4, Bytes
    <3>6. crtc'.upper = EndOffset \div BYTE
      BY <3>0, <1>4, <3>1, <3>5 DEF ScreenInv, CRTC, UPPER, LOWER
    <3>7. crtc'.upper = EndOffset \div BYTE
      BY <3>0, <1>4, <3>1, <3>2, <3>6 DEF ScreenInv, CRTC, UPPER, LOWER
    <3>. QED
      BY <1>4, <3>1, <3>3, <3>6, <3>7 DEF MovesOK
  <2>. QED
    BY <1>2, <1>4, <2>1, <2>2, <2>3, CursorFrame
<1>. QED
  BY <1>5, <1>5s, <1>9, <1>10 DEF IInv

\* ... and the lower one.
LEMMA WriteLowerKeeps ==
    ASSUME IInv, NEW t \in Task, WriteRegister(t, "lower", "store", offset[t] % BYTE)
    PROVE  IInv'
<1>1. ConsoleTypeOK /\ CallInv /\ CursorInv /\ (~strayed => ScreenInv)
  BY DEF IInv
<1>2. OthersStand(t)
  BY <1>1 DEF OthersStand, ConsoleTypeOK, locals, shared, ghosts, WriteRegister, Goto
<1>3. PlaceOK(t) /\ ServiceOK(t) /\ (pc[t] = "syscall" => RequestOK(t))
  BY <1>1 DEF CallInv
<1>4. /\ pc[t] = "lower" /\ pc'[t] = "store" /\ UNCHANGED <<iCurrentPrintOffset, locals, ghosts>>
      /\ UNCHANGED <<request, served, offset, printing, called, expected, overlap, strayed>>
      /\ crtc' = [crtc EXCEPT ![crtc.selected] = offset[t] % BYTE]
  BY <1>1 DEF ConsoleTypeOK, locals, ghosts, WriteRegister, Goto
<1>5. ConsoleTypeOK'
  <2>4. pc' \in [Task -> Place]
    BY <1>1 DEF ConsoleTypeOK, Place, Setting, WriteRegister, Goto
  <2>. QED
    BY <1>1, <1>4, <2>4 DEF ConsoleTypeOK, locals, ghosts
<1>5s. ~strayed' => ScreenInv'
  <2> SUFFICES ASSUME ~strayed' PROVE ScreenInv'
    OBVIOUS
  <2>0. ScreenInv
    BY <1>1, <1>4
  <2>1. (offset[t] % BYTE) \in 0 .. BYTE - 1
    BY <2>0, Bytes DEF ScreenInv
  <2>2. crtc.selected \in {UPPER, LOWER}
    BY <2>0 DEF ScreenInv, CRTC
  <2>3. crtc' \in CRTC
    <3>1. CASE crtc.selected = UPPER
      BY <2>0, <1>4, <2>1, <3>1 DEF ScreenInv, CRTC, UPPER, LOWER
    <3>2. CASE crtc.selected = LOWER
      BY <2>0, <1>4, <2>1, <3>2 DEF ScreenInv, CRTC, UPPER, LOWER
    <3>. QED
      BY <2>2, <3>1, <3>2
  <2>. QED
    BY <1>2, <1>4, <2>0, <2>3, ScreenFrame DEF ScreenInv
<1>6. PlaceOK(t)'
  BY <1>3, <1>4 DEF PlaceOK, Setting, Shelled
<1>7. ServiceOK(t)'
  BY <1>3, <1>4 DEF ServiceOK
<1>8. (pc[t] = "syscall" => RequestOK(t))'
  BY <1>4
<1>9. CallInv'
  BY <1>1, <1>2, <1>4, <1>6, <1>7, <1>8, CallFrame
<1>10. CursorInv'
  <2>1. InConsole(t) /\ InConsole(t)' /\ Moves(t) /\ Moves(t)' /\ ~WillMove(t)'
    BY <1>3, <1>4, ConsoleCallIs DEF PlaceOK, InConsole, Moves, WillMove, Setting
  <2>2. Clean' => (\A u \in Task \ {t} : ~InConsole(u)) /\ MovesOK(t)
    BY <1>1, <1>4, <2>1, Alone DEF Clean
  <2>3. Clean' => MovesOK(t)'
    <3> SUFFICES ASSUME Clean' PROVE MovesOK(t)'
      OBVIOUS
    <3>0. ScreenInv
      BY <1>1, <1>4 DEF Clean
    <3>1. crtc.selected = LOWER /\ offset[t] = EndOffset
      BY <1>4, <2>2 DEF MovesOK
    <3>2. crtc.upper = EndOffset \div BYTE \/ pc[t] = "upper"
      BY <1>4, <2>2 DEF MovesOK
    <3>3. EndOffset' = EndOffset /\ offset'[t] = offset[t]
      BY <1>4 DEF EndOffset, Linear
    <3>4. offset[t] \in Position
      BY <3>0 DEF ScreenInv
    <3>5. (offset[t] % BYTE) = EndOffset % BYTE
      BY <3>1, <3>4, Bytes
    <3>6. crtc'.lower = EndOffset % BYTE
      BY <3>0, <1>4, <3>1, <3>5 DEF ScreenInv, CRTC, UPPER, LOWER
    <3>7. crtc'.upper = EndOffset \div BYTE
      BY <3>0, <1>4, <3>1, <3>2, <3>6 DEF ScreenInv, CRTC, UPPER, LOWER
    <3>. QED
      BY <1>4, <3>1, <3>3, <3>6, <3>7 DEF MovesOK
  <2>. QED
    BY <1>2, <1>4, <2>1, <2>2, <2>3, CursorFrame
<1>. QED
  BY <1>5, <1>5s, <1>9, <1>10 DEF IInv

\* kSetCursor stores the offset; the cursor is there already.
LEMMA StoreOffsetKeeps ==
    ASSUME IInv, NEW t \in Task, StoreOffset(t)
    PROVE  IInv'
<1>1. ConsoleTypeOK /\ CallInv /\ CursorInv /\ (~strayed => ScreenInv)
  BY DEF IInv
<1>2. OthersStand(t)
  BY <1>1 DEF OthersStand, ConsoleTypeOK, locals, shared, ghosts, StoreOffset, Goto
<1>3. PlaceOK(t) /\ ServiceOK(t) /\ (pc[t] = "syscall" => RequestOK(t))
  BY <1>1 DEF CallInv
<1>4. /\ pc[t] = "store" /\ pc'[t] \in {"sysret", "run"} /\ iCurrentPrintOffset' = offset[t]
      /\ t \in KernelTask => pc'[t] = "run"
      /\ UNCHANGED <<crtc, locals, ghosts>>
      /\ UNCHANGED <<request, served, offset, printing, called, expected, overlap, strayed>>
  BY <1>1, TaskAssumption DEF ConsoleTypeOK, locals, ghosts, StoreOffset, Goto
<1>5. ConsoleTypeOK'
  <2>1. pc' \in [Task -> Place]
    BY <1>1 DEF ConsoleTypeOK, Place, StoreOffset, Goto
  <2>. QED
    BY <1>1, <1>4, <2>1 DEF ConsoleTypeOK, locals, ghosts
<1>5s. ~strayed' => ScreenInv'
  BY <1>1, <1>2, <1>4, ScreenFrame DEF ScreenInv
<1>6. PlaceOK(t)'
  BY <1>3, <1>4 DEF PlaceOK, Setting, Shelled
<1>7. ServiceOK(t)'
  BY <1>3, <1>4 DEF ServiceOK
<1>8. (pc[t] = "syscall" => RequestOK(t))'
  BY <1>4
<1>9. CallInv'
  BY <1>1, <1>2, <1>4, <1>6, <1>7, <1>8, CallFrame
<1>10. CursorInv'
  <2>1. InConsole(t) /\ Moves(t) /\ ~Moves(t)' /\ ~WillMove(t)'
    BY <1>3, <1>4, ConsoleCallIs DEF PlaceOK, InConsole, Moves, WillMove, Setting
  <2>2. Clean' => (\A u \in Task \ {t} : ~InConsole(u)) /\ MovesOK(t)
    BY <1>1, <1>4, <2>1, Alone DEF Clean
  <2>3. Clean' => Settled'
    BY <1>4, <2>2 DEF MovesOK, Settled, EndOffset, Linear, Setting
  <2>. QED
    BY <1>2, <1>4, <2>1, <2>2, <2>3, CursorFrame
<1>. QED
  BY <1>5, <1>5s, <1>9, <1>10 DEF IInv

\* kClearScreen sets the cursor to the last line.
LEMMA kClearScreenKeeps ==
    ASSUME IInv, NEW t \in Task, kClearScreen(t)
    PROVE  IInv'
<1>1. ConsoleTypeOK /\ CallInv /\ CursorInv /\ (~strayed => ScreenInv)
  BY DEF IInv
<1>2. OthersStand(t)
  BY <1>1 DEF OthersStand, ConsoleTypeOK, locals, shared, ghosts, kClearScreen, Goto
<1>3. PlaceOK(t) /\ ServiceOK(t) /\ (pc[t] = "syscall" => RequestOK(t))
  BY <1>1 DEF CallInv
<1>4. /\ pc[t] = "clear" /\ pc'[t] = "selectUpper" /\ offset' = [offset EXCEPT ![t] = Linear(0, LASTLINE)]
      /\ UNCHANGED <<shared, request, served, string, printing, called, ghosts>>
      /\ UNCHANGED <<iCurrentPrintOffset, crtc, expected, overlap, strayed>>
  BY <1>1 DEF ConsoleTypeOK, shared, ghosts, kClearScreen, Goto
<1>5. ConsoleTypeOK'
  <2>1. pc' \in [Task -> Place]
    BY <1>1 DEF ConsoleTypeOK, Place, Setting, kClearScreen, Goto
  <2>. QED
    BY <1>1, <1>4, <2>1 DEF ConsoleTypeOK
<1>5s. ~strayed' => ScreenInv'
  <2>2. Linear(0, LASTLINE) \in Position
    BY ConsoleAssumption, Screen, LinearInScreen
  <2>. QED
    BY <1>1, <1>2, <1>4, <2>2, ScreenFrame DEF ScreenInv
<1>6. PlaceOK(t)'
  BY <1>3, <1>4 DEF PlaceOK, Setting, Shelled
<1>7. ServiceOK(t)'
  BY <1>3, <1>4 DEF ServiceOK
<1>8. (pc[t] = "syscall" => RequestOK(t))'
  BY <1>4
<1>9. CallInv'
  BY <1>1, <1>2, <1>4, <1>6, <1>7, <1>8, CallFrame
<1>10. CursorInv'
  <2>1. InConsole(t) /\ InConsole(t)' /\ Moves(t)' /\ WillMove(t) /\ ~WillMove(t)'
    BY <1>3, <1>4, ConsoleCallIs DEF PlaceOK, InConsole, Moves, WillMove, Setting
  <2>2. Clean' => (\A u \in Task \ {t} : ~InConsole(u)) /\ WillMoveOK(t)
    BY <1>1, <1>4, <2>1, Alone DEF Clean
  <2>3. Name(t) = "ClearScreen"
    BY <1>3, <1>4 DEF PlaceOK, Name
  <2>4. Clean' => offset'[t] = Linear(0, LASTLINE)
    BY <1>1, <1>4 DEF ScreenInv, Clean
  <2>5. Clean' => MovesOK(t)'
    BY <1>4, <2>2, <2>3, <2>4 DEF MovesOK, WillMoveOK, EndOffset, Linear
  <2>. QED
    BY <1>2, <1>4, <2>1, <2>2, <2>5, CursorFrame
<1>. QED
  BY <1>5, <1>5s, <1>9, <1>10 DEF IInv

\* kConsolePrintString reads the position.
LEMMA ReadOffsetKeeps ==
    ASSUME IInv, NEW t \in Task, ReadOffset(t)
    PROVE  IInv'
<1>1. ConsoleTypeOK /\ CallInv /\ CursorInv /\ (~strayed => ScreenInv)
  BY DEF IInv
<1>2. OthersStand(t)
  BY <1>1 DEF OthersStand, ConsoleTypeOK, locals, shared, ghosts, ReadOffset, Goto
<1>3. PlaceOK(t) /\ ServiceOK(t) /\ (pc[t] = "syscall" => RequestOK(t))
  BY <1>1 DEF CallInv
<1>4. /\ pc[t] = "begin" /\ pc'[t] = "loop" /\ offset' = [offset EXCEPT ![t] = iCurrentPrintOffset]
      /\ UNCHANGED <<shared, request, served, string, printing, called, ghosts>>
      /\ UNCHANGED <<iCurrentPrintOffset, crtc, expected, overlap, strayed>>
  BY <1>1 DEF ConsoleTypeOK, shared, ghosts, ReadOffset, Goto
<1>5. ConsoleTypeOK'
  <2>1. pc' \in [Task -> Place]
    BY <1>1 DEF ConsoleTypeOK, Place, ReadOffset, Goto
  <2>. QED
    BY <1>1, <1>4, <2>1 DEF ConsoleTypeOK
<1>5s. ~strayed' => ScreenInv'
  BY <1>1, <1>2, <1>4, ScreenFrame DEF ScreenInv
<1>6. PlaceOK(t)'
  BY <1>3, <1>4 DEF PlaceOK, Setting, Shelled
<1>7. ServiceOK(t)'
  BY <1>3, <1>4 DEF ServiceOK
<1>8. (pc[t] = "syscall" => RequestOK(t))'
  BY <1>4
<1>9. CallInv'
  BY <1>1, <1>2, <1>4, <1>6, <1>7, <1>8, CallFrame
<1>10. CursorInv'
  <2>1. InConsole(t) /\ InConsole(t)' /\ ~Moves(t) /\ ~WillMove(t) /\ ~WillMove(t)'
    BY <1>3, <1>4, ConsoleCallIs DEF PlaceOK, InConsole, Moves, WillMove, Setting
  <2>2. Clean' => (\A u \in Task \ {t} : ~InConsole(u)) /\ Settled
    BY <1>1, <1>4, <2>1, Alone DEF Clean
  <2>3. Clean' => offset'[t] = iCurrentPrintOffset
    BY <1>1, <1>4 DEF ScreenInv, Clean
  <2>4. Clean' => Settled' /\ MovesOK(t)'
    BY <1>4, <2>2, <2>3 DEF MovesOK, Settled, EndOffset, Linear
  <2>. QED
    BY <1>2, <1>4, <2>1, <2>2, <2>4, CursorFrame
<1>. QED
  BY <1>5, <1>5s, <1>9, <1>10 DEF IInv

\* A character advances the offset as it advances the end of the text.
LEMMA PrintCharacterKeeps ==
    ASSUME IInv, NEW t \in Task, PrintCharacter(t)
    PROVE  IInv'
<1>1. ConsoleTypeOK /\ CallInv /\ CursorInv /\ (~strayed => ScreenInv)
  BY DEF IInv
<1>2. OthersStand(t)
  BY <1>1 DEF OthersStand, ConsoleTypeOK, locals, shared, ghosts, PrintCharacter
<1>3. PlaceOK(t) /\ ServiceOK(t) /\ (pc[t] = "syscall" => RequestOK(t))
  BY <1>1 DEF CallInv
<1>4. /\ pc[t] = "loop" /\ pc'[t] = "loop" /\ string[t] # <<>>
      /\ offset' = [offset EXCEPT ![t] = Advanced(offset[t], Head(string[t]))]
      /\ expected' = IF printing[t] THEN After(expected, Head(string[t])) ELSE expected
      /\ UNCHANGED <<shared, pc, request, served, printing, called, calls, overlap, strayed>>
      /\ UNCHANGED <<iCurrentPrintOffset, crtc>>
  BY <1>1 DEF ConsoleTypeOK, shared, PrintCharacter
<1>4a. Head(string[t]) \in Character /\ Tail(string[t]) \in Seq(Character)
  BY <1>1, <1>4 DEF ConsoleTypeOK
<1>4b. ~strayed => /\ Advanced(offset[t], Head(string[t])) \in Position
                   /\ After(expected, Head(string[t])) \in At
  BY <1>1, <1>4a, AdvancedIs, AdvancedInScreen DEF ScreenInv
<1>5. ConsoleTypeOK'
  <2>2. string' \in [Task -> Seq(Character)]
    BY <1>1, <1>4a DEF ConsoleTypeOK, PrintCharacter
  <2>. QED
    BY <1>1, <1>4, <2>2 DEF ConsoleTypeOK, shared
<1>5s. ~strayed' => ScreenInv'
  BY <1>1, <1>2, <1>4, <1>4b, ScreenFrame DEF ScreenInv
<1>6. PlaceOK(t)'
  BY <1>3, <1>4 DEF PlaceOK, Setting, Shelled
<1>7. ServiceOK(t)'
  BY <1>3, <1>4 DEF ServiceOK
<1>8. (pc[t] = "syscall" => RequestOK(t))'
  BY <1>4
<1>9. CallInv'
  BY <1>1, <1>2, <1>4, <1>6, <1>7, <1>8, CallFrame
<1>10. CursorInv'
  <2>1. InConsole(t) /\ InConsole(t)' /\ ~WillMove(t) /\ ~WillMove(t)'
    BY <1>3, <1>4, ConsoleCallIs DEF PlaceOK, InConsole, WillMove, Setting
  <2>2. (Moves(t) <=> printing[t]) /\ (Moves(t)' <=> printing[t])
    BY <1>4 DEF Moves, Setting
  <2>3. Clean' => /\ \A u \in Task \ {t} : ~InConsole(u)
                  /\ printing[t] => MovesOK(t)
                  /\ ~printing[t] => Settled
    BY <1>1, <1>4, <2>1, <2>2, Alone DEF Clean
  <2>4. CASE printing[t]
    <3>1. Clean' => MovesOK(t)'
      <4> SUFFICES ASSUME Clean' PROVE MovesOK(t)'
        OBVIOUS
      <4> DEFINE c == Head(string[t])
      <4>0. ScreenInv
        BY <1>1, <1>4 DEF Clean
      <4>1. offset[t] = Linear(expected.column, expected.row)
        BY <2>3, <2>4 DEF MovesOK, EndOffset
      <4>2. Advanced(Linear(expected.column, expected.row), c)
              = Linear(After(expected, c).column, After(expected, c).row)
        BY <4>0, <1>4a, AdvancedIs DEF ScreenInv
      <4>3. expected' = After(expected, c) /\ offset'[t] = Advanced(offset[t], c)
        BY <4>0, <1>4, <2>4 DEF ScreenInv
      <4> HIDE DEF c
      <4>4. offset'[t] = EndOffset'
        BY <4>1, <4>2, <4>3 DEF EndOffset, Linear
      <4>. QED
        BY <1>4, <4>4 DEF MovesOK
    <3>. QED
      BY <1>2, <1>4, <2>1, <2>2, <2>3, <2>4, <3>1, CursorFrame
  <2>5. CASE ~printing[t]
    <3>1. Clean' => Settled'
      BY <1>4, <2>3, <2>5 DEF Settled, EndOffset, Linear
    <3>. QED
      BY <1>2, <1>4, <2>1, <2>2, <2>3, <2>5, <3>1, CursorFrame
  <2>. QED
    BY <2>4, <2>5
<1>. QED
  BY <1>5, <1>5s, <1>9, <1>10 DEF IInv

\* The position behind the text is the offset that the loop has reached.
LEMMA EndOfStringKeeps ==
    ASSUME IInv, NEW t \in Task, EndOfString(t)
    PROVE  IInv'
<1>1. ConsoleTypeOK /\ CallInv /\ CursorInv /\ (~strayed => ScreenInv)
  BY DEF IInv
<1>2. OthersStand(t)
  BY <1>1 DEF OthersStand, ConsoleTypeOK, locals, shared, ghosts, EndOfString, Goto
<1>3. PlaceOK(t) /\ ServiceOK(t) /\ (pc[t] = "syscall" => RequestOK(t))
  BY <1>1 DEF CallInv
<1> DEFINE prints == t \in KernelTask \/ PrintsMessage(served[t])
           back == Linear(Rem(offset[t], CONSOLE_WIDTH), Quot(offset[t], CONSOLE_WIDTH))
<1>4. /\ pc[t] = "loop" /\ pc'[t] = IF prints THEN "selectUpper" ELSE "sysret"
      /\ offset' = IF prints THEN [offset EXCEPT ![t] = back] ELSE offset
      /\ printing'[t] = IF prints THEN FALSE ELSE printing[t]
      /\ printing' \in [Task -> BOOLEAN] /\ pc' \in [Task -> Place]
      /\ UNCHANGED <<shared, request, served, string, called, ghosts>>
      /\ UNCHANGED <<iCurrentPrintOffset, crtc, expected, overlap, strayed>>
  <2>1. /\ pc[t] = "loop" /\ UNCHANGED <<shared, request, served, string, called, ghosts>>
        /\ UNCHANGED <<iCurrentPrintOffset, crtc, expected, overlap, strayed>>
    BY DEF EndOfString, Goto, shared, ghosts
  <2>2. CASE prints
    <3>1. /\ offset' = [offset EXCEPT ![t] = back] /\ printing' = [printing EXCEPT ![t] = FALSE]
          /\ pc' = [pc EXCEPT ![t] = "selectUpper"]
      BY <2>2 DEF EndOfString, Goto
    <3>. QED
      BY <1>1, <2>1, <2>2, <3>1 DEF ConsoleTypeOK, Place, Setting
  <2>3. CASE ~prints
    <3>1. pc' = [pc EXCEPT ![t] = "sysret"] /\ UNCHANGED <<offset, printing>>
      BY <2>3 DEF EndOfString, Goto
    <3>. QED
      BY <1>1, <2>1, <2>3, <3>1 DEF ConsoleTypeOK, Place
  <2>. QED
    BY <2>2, <2>3
<1>4a. ~strayed => back = offset[t] /\ offset[t] \in Position
  BY <1>1, RowAndColumn DEF ScreenInv
<1>4b. /\ prints => printing[t] /\ called[t] \in {"printf"} \cup MessageCall
       /\ ~prints => called[t] \in {"printf", "ConsolePrintString"} /\ t \notin KernelTask
                     /\ (printing[t] => called[t] = "printf")
  BY <1>3, <1>4 DEF PlaceOK, MessageCall, Task
<1> HIDE DEF prints, back
<1>4c. ~strayed => offset'[t] = offset[t] /\ offset' \in [Task -> Position]
                   /\ \A u \in Task \ {t} : offset'[u] = offset[u]
  BY <1>1, <1>4, <1>4a DEF ScreenInv
<1>5. ConsoleTypeOK'
  BY <1>1, <1>4 DEF ConsoleTypeOK
<1>5s. ~strayed' => ScreenInv'
  BY <1>1, <1>2, <1>4, <1>4c, ScreenFrame DEF ScreenInv
<1>6. PlaceOK(t)'
  <2>1. CASE prints
    BY <1>3, <1>4, <1>4b, <2>1 DEF PlaceOK, Setting, Shelled
  <2>2. CASE ~prints
    BY <1>3, <1>4, <1>4b, <2>2 DEF PlaceOK, Setting, Shelled
  <2>. QED
    BY <2>1, <2>2
<1>7. ServiceOK(t)'
  BY <1>3, <1>4, TaskAssumption DEF ServiceOK
<1>8. (pc[t] = "syscall" => RequestOK(t))'
  BY <1>4
<1>9. CallInv'
  BY <1>1, <1>2, <1>4, <1>6, <1>7, <1>8, CallFrame
<1>10. CursorInv'
  <2>1. InConsole(t) /\ InConsole(t)' /\ ~WillMove(t) /\ ~WillMove(t)'
    BY <1>4, <1>4b, ConsoleCallIs DEF InConsole, WillMove, Setting
  <2>2. (Moves(t) <=> printing[t]) /\ (Moves(t)' <=> printing[t])
    BY <1>4, <1>4b DEF Moves, Setting
  <2>3. Clean' => /\ \A u \in Task \ {t} : ~InConsole(u)
                  /\ printing[t] => MovesOK(t)
                  /\ ~printing[t] => Settled
    BY <1>1, <1>4, <2>1, <2>2, Alone DEF Clean
  <2>4. Clean' => (printing[t] => MovesOK(t)') /\ (~printing[t] => Settled')
    BY <1>4, <1>4c, <2>3 DEF MovesOK, Settled, EndOffset, Linear, Clean
  <2>. QED
    BY <1>2, <1>4, <2>1, <2>2, <2>3, <2>4, CursorFrame
<1>. QED
  BY <1>5, <1>5s, <1>9, <1>10 DEF IInv

\* A user task prints ...
LEMMA printfKeeps ==
    ASSUME IInv, NEW t \in Task, NEW text \in Text, printf(t, text)
    PROVE  IInv'
<1>1. ConsoleTypeOK /\ CallInv /\ CursorInv /\ (~strayed => ScreenInv)
  BY DEF IInv
<1>2. OthersStand(t)
  BY <1>1 DEF OthersStand, ConsoleTypeOK, locals, shared, ghosts, printf, Goto, Begin, ExecuteSystemCall
<1>3. PlaceOK(t) /\ ServiceOK(t) /\ (pc[t] = "syscall" => RequestOK(t))
  BY <1>1 DEF CallInv
<1>4. /\ t \in UserTask /\ pc[t] = "run" /\ pc'[t] = "syscall"
      /\ printing'[t] = TRUE /\ called'[t] = "printf"
      /\ expected' = expected
      /\ overlap' = (\/ overlap
                     \/ "printf" \in ConsoleCall /\ \E u \in Task \ {t} : InConsole(u))
      /\ strayed' = strayed /\ (strayed => strayed')
      /\ UNCHANGED <<iCurrentPrintOffset, crtc, served, offset>>
  BY <1>1 DEF ConsoleTypeOK, shared, Begin, printf, Goto
<1>4a. pc' \in [Task -> Place] /\ printing' \in [Task -> BOOLEAN] /\ string' \in [Task -> Seq(Character)]
  BY <1>1, TextAssumption DEF ConsoleTypeOK, Place, Character, Shelled, printf, Goto
<1>4b. ~printing[t]
  BY <1>1, <1>3, <1>4 DEF PlaceOK
<1>4c. DOMAIN called' = Task /\ DOMAIN request' = Task /\ DOMAIN served' = Task
  BY <1>1 DEF ConsoleTypeOK, Begin, ExecuteSystemCall, printf, Goto
<1>4e. overlap' = (overlap \/ \E u \in Task \ {t} : InConsole(u)) /\ overlap' \in BOOLEAN
       /\ strayed' \in BOOLEAN
  BY <1>1, <1>4, ConsoleCallIs DEF ConsoleTypeOK
<1>4d. PICK f \in Library : /\ f.name = "ConsolePrintString"
                           /\ request'[t] = [number |-> f.number, table |-> ParameterTable(f, <<text>>)]
  BY <1>1 DEF ConsoleTypeOK, ExecuteSystemCall, printf, Goto
<1>5. ConsoleTypeOK'
  BY <1>1, <1>4, <1>4a, <1>4c, <1>4e DEF ConsoleTypeOK
<1>5s. ~strayed' => ScreenInv'
  <2>1. ~strayed' => expected' \in At
    BY <1>1, <1>4, ConsoleAssumption, Screen DEF ScreenInv, At
  <2>. QED
    BY <1>1, <1>2, <1>4, <2>1, ScreenFrame DEF ScreenInv
<1>6. PlaceOK(t)'
  BY <1>4, <1>4b, TaskAssumption DEF PlaceOK, Setting, Shelled
<1>7. ServiceOK(t)'
  BY <1>4, TaskAssumption DEF ServiceOK
<1>8. (pc[t] = "syscall" => RequestOK(t))'
  <2>1. Name(t)' = f.name /\ f \in Caller
    BY <1>4, <1>4d DEF Name, Caller
  <2>2. Stored(f, request'[t].table) /\ request'[t].number = f.number
    BY <1>4d, <2>1, TableHolds
  <2>3. f.name = "ConsolePrintString" => request'[t].table[0].value \in Text
    BY <1>4d, <2>1, TableHolds
  <2>4. ~strayed' /\ f.name = "SetCursor" =>
          Linear(request'[t].table[0].value, request'[t].table[1].value) \in Position
    BY <1>4, <1>4d, <2>1, TableHolds
  <2>5. \E g \in Library \cup {TestTask} :
          /\ g.name = Name(t)' /\ request'[t].number = g.number
          /\ Stored(g, request'[t].table)
    BY <2>1, <2>2
  <2>. QED
    BY <2>1, <2>3, <2>4, <2>5 DEF RequestOK, Linear
<1>9. CallInv'
  BY <1>1, <1>2, <1>4, <1>6, <1>7, <1>8, CallFrame
<1>10. CursorInv'
  <2>1. ~InConsole(t) /\ InConsole(t)' /\ ~Moves(t)'
    BY <1>4, ConsoleCallIs DEF InConsole, Moves, Setting
  <2>2. Clean' => Clean /\ \A u \in Task : ~InConsole(u)
    BY <1>1, <1>4, <1>4e, <2>1 DEF ConsoleTypeOK, Clean
  <2>3. ~WillMove(t)'
    BY <1>4 DEF WillMove, Name
  <2>4. Clean' => Settled'
    BY <1>1, <1>4, <2>2, Nobody DEF Settled, EndOffset, Linear
  <2>. QED
    BY <1>2, <1>4, <2>1, <2>2, <2>3, <2>4, CursorFrame
<1>. QED
  BY <1>5, <1>5s, <1>9, <1>10 DEF IInv

\* ... or calls the kernel's function itself.
LEMMA ConsolePrintStringKeeps ==
    ASSUME IInv, NEW t \in Task, NEW text \in Text, ConsolePrintString(t, text)
    PROVE  IInv'
<1>1. ConsoleTypeOK /\ CallInv /\ CursorInv /\ (~strayed => ScreenInv)
  BY DEF IInv
<1>2. OthersStand(t)
  BY <1>1 DEF OthersStand, ConsoleTypeOK, locals, shared, ghosts, ConsolePrintString, Goto, Begin, ExecuteSystemCall
<1>3. PlaceOK(t) /\ ServiceOK(t) /\ (pc[t] = "syscall" => RequestOK(t))
  BY <1>1 DEF CallInv
<1>4. /\ t \in UserTask /\ pc[t] = "run" /\ pc'[t] = "syscall"
      /\ printing'[t] = printing[t] /\ called'[t] = "ConsolePrintString"
      /\ expected' = expected
      /\ overlap' = (\/ overlap
                     \/ "ConsolePrintString" \in ConsoleCall /\ \E u \in Task \ {t} : InConsole(u))
      /\ strayed' = strayed /\ (strayed => strayed')
      /\ UNCHANGED <<iCurrentPrintOffset, crtc, served, offset>>
  BY <1>1 DEF ConsoleTypeOK, shared, Begin, ConsolePrintString, Goto
<1>4a. pc' \in [Task -> Place] /\ printing' \in [Task -> BOOLEAN] /\ string' \in [Task -> Seq(Character)]
  BY <1>1, TextAssumption DEF ConsoleTypeOK, Place, Character, Shelled, ConsolePrintString, Goto
<1>4b. ~printing[t]
  BY <1>1, <1>3, <1>4 DEF PlaceOK
<1>4c. DOMAIN called' = Task /\ DOMAIN request' = Task /\ DOMAIN served' = Task
  BY <1>1 DEF ConsoleTypeOK, Begin, ExecuteSystemCall, ConsolePrintString, Goto
<1>4e. overlap' = (overlap \/ \E u \in Task \ {t} : InConsole(u)) /\ overlap' \in BOOLEAN
       /\ strayed' \in BOOLEAN
  BY <1>1, <1>4, ConsoleCallIs DEF ConsoleTypeOK
<1>4d. PICK f \in Library : /\ f.name = "ConsolePrintString"
                           /\ request'[t] = [number |-> f.number, table |-> ParameterTable(f, <<text>>)]
  BY <1>1 DEF ConsoleTypeOK, ExecuteSystemCall, ConsolePrintString, Goto
<1>5. ConsoleTypeOK'
  BY <1>1, <1>4, <1>4a, <1>4c, <1>4e DEF ConsoleTypeOK
<1>5s. ~strayed' => ScreenInv'
  <2>1. ~strayed' => expected' \in At
    BY <1>1, <1>4, ConsoleAssumption, Screen DEF ScreenInv, At
  <2>. QED
    BY <1>1, <1>2, <1>4, <2>1, ScreenFrame DEF ScreenInv
<1>6. PlaceOK(t)'
  BY <1>4, <1>4b, TaskAssumption DEF PlaceOK, Setting, Shelled
<1>7. ServiceOK(t)'
  BY <1>4, TaskAssumption DEF ServiceOK
<1>8. (pc[t] = "syscall" => RequestOK(t))'
  <2>1. Name(t)' = f.name /\ f \in Caller
    BY <1>4, <1>4d DEF Name, Caller
  <2>2. Stored(f, request'[t].table) /\ request'[t].number = f.number
    BY <1>4d, <2>1, TableHolds
  <2>3. f.name = "ConsolePrintString" => request'[t].table[0].value \in Text
    BY <1>4d, <2>1, TableHolds
  <2>4. ~strayed' /\ f.name = "SetCursor" =>
          Linear(request'[t].table[0].value, request'[t].table[1].value) \in Position
    BY <1>4, <1>4d, <2>1, TableHolds
  <2>5. \E g \in Library \cup {TestTask} :
          /\ g.name = Name(t)' /\ request'[t].number = g.number
          /\ Stored(g, request'[t].table)
    BY <2>1, <2>2
  <2>. QED
    BY <2>1, <2>3, <2>4, <2>5 DEF RequestOK, Linear
<1>9. CallInv'
  BY <1>1, <1>2, <1>4, <1>6, <1>7, <1>8, CallFrame
<1>10. CursorInv'
  <2>1. ~InConsole(t) /\ InConsole(t)' /\ ~Moves(t)'
    BY <1>4, ConsoleCallIs DEF InConsole, Moves, Setting
  <2>2. Clean' => Clean /\ \A u \in Task : ~InConsole(u)
    BY <1>1, <1>4, <1>4e, <2>1 DEF ConsoleTypeOK, Clean
  <2>3. ~WillMove(t)'
    BY <1>4 DEF WillMove, Name
  <2>4. Clean' => Settled'
    BY <1>1, <1>4, <2>2, Nobody DEF Settled, EndOffset, Linear
  <2>. QED
    BY <1>2, <1>4, <2>1, <2>2, <2>3, <2>4, CursorFrame
<1>. QED
  BY <1>5, <1>5s, <1>9, <1>10 DEF IInv

\* A user task moves the cursor, and the end of the text with it if it is on the screen.
LEMMA SetCursorKeeps ==
    ASSUME IInv, NEW t \in Task, NEW x \in Int, NEW y \in Int, SetCursor(t, x, y)
    PROVE  IInv'
<1>1. ConsoleTypeOK /\ CallInv /\ CursorInv /\ (~strayed => ScreenInv)
  BY DEF IInv
<1>2. OthersStand(t)
  BY <1>1 DEF OthersStand, ConsoleTypeOK, locals, shared, ghosts, SetCursor, Goto, Begin, ExecuteSystemCall
<1>3. PlaceOK(t) /\ ServiceOK(t) /\ (pc[t] = "syscall" => RequestOK(t))
  BY <1>1 DEF CallInv
<1>4. /\ t \in UserTask /\ pc[t] = "run" /\ pc'[t] = "syscall"
      /\ printing'[t] = printing[t] /\ called'[t] = "SetCursor"
      /\ expected' = [row |-> Linear(x, y) \div CONSOLE_WIDTH,
                       column |-> Linear(x, y) % CONSOLE_WIDTH]
      /\ overlap' = (\/ overlap
                     \/ "SetCursor" \in ConsoleCall /\ \E u \in Task \ {t} : InConsole(u))
      /\ strayed' = (strayed \/ Linear(x, y) \notin Position) /\ (strayed => strayed')
      /\ UNCHANGED <<iCurrentPrintOffset, crtc, served, offset>>
  BY <1>1 DEF ConsoleTypeOK, shared, Begin, SetCursor, Goto
<1>4a. pc' \in [Task -> Place] /\ printing' \in [Task -> BOOLEAN] /\ string' \in [Task -> Seq(Character)]
  BY <1>1, TextAssumption DEF ConsoleTypeOK, Place, Character, Shelled, SetCursor, Goto
<1>4b. ~printing[t]
  BY <1>1, <1>3, <1>4 DEF PlaceOK
<1>4c. DOMAIN called' = Task /\ DOMAIN request' = Task /\ DOMAIN served' = Task
  BY <1>1 DEF ConsoleTypeOK, Begin, ExecuteSystemCall, SetCursor, Goto
<1>4e. overlap' = (overlap \/ \E u \in Task \ {t} : InConsole(u)) /\ overlap' \in BOOLEAN
       /\ strayed' \in BOOLEAN
  BY <1>1, <1>4, ConsoleCallIs DEF ConsoleTypeOK
<1>4d. PICK f \in Library : /\ f.name = "SetCursor"
                           /\ request'[t] = [number |-> f.number, table |-> ParameterTable(f, <<x, y>>)]
  BY <1>1 DEF ConsoleTypeOK, ExecuteSystemCall, SetCursor, Goto
<1>5. ConsoleTypeOK'
  BY <1>1, <1>4, <1>4a, <1>4c, <1>4e DEF ConsoleTypeOK
<1>5s. ~strayed' => ScreenInv'
  <2>1. ~strayed' => expected' \in At
    BY <1>4, RowAndColumn DEF At
  <2>. QED
    BY <1>1, <1>2, <1>4, <2>1, ScreenFrame DEF ScreenInv
<1>6. PlaceOK(t)'
  BY <1>4, <1>4b, TaskAssumption DEF PlaceOK, Setting, Shelled
<1>7. ServiceOK(t)'
  BY <1>4, TaskAssumption DEF ServiceOK
<1>8. (pc[t] = "syscall" => RequestOK(t))'
  <2>1. Name(t)' = f.name /\ f \in Caller
    BY <1>4, <1>4d DEF Name, Caller
  <2>2. Stored(f, request'[t].table) /\ request'[t].number = f.number
    BY <1>4d, <2>1, TableHolds
  <2>3. f.name = "ConsolePrintString" => request'[t].table[0].value \in Text
    BY <1>4d, <2>1, TableHolds
  <2>4. ~strayed' /\ f.name = "SetCursor" =>
          Linear(request'[t].table[0].value, request'[t].table[1].value) \in Position
    <3>1. /\ ParameterTable(f, <<x, y>>)[0].value = <<x, y>>[1]
          /\ ParameterTable(f, <<x, y>>)[1].value = <<x, y>>[2]
      BY <1>4d, <2>1, TableHolds
    <3>2. request'[t].table[0].value = x /\ request'[t].table[1].value = y
      BY <1>4d, <3>1
    <3>3. ~strayed' => Linear(x, y) \in Position
      BY <1>4
    <3>. QED
      BY <3>2, <3>3
  <2>5. \E g \in Library \cup {TestTask} :
          /\ g.name = Name(t)' /\ request'[t].number = g.number
          /\ Stored(g, request'[t].table)
    BY <2>1, <2>2
  <2>. QED
    BY <2>1, <2>3, <2>4, <2>5 DEF RequestOK, Linear
<1>9. CallInv'
  BY <1>1, <1>2, <1>4, <1>6, <1>7, <1>8, CallFrame
<1>10. CursorInv'
  <2>1. ~InConsole(t) /\ InConsole(t)' /\ ~Moves(t)'
    BY <1>4, ConsoleCallIs DEF InConsole, Moves, Setting
  <2>2. Clean' => Clean /\ \A u \in Task : ~InConsole(u)
    BY <1>1, <1>4, <1>4e, <2>1 DEF ConsoleTypeOK, Clean
  <2>3. WillMove(t)' /\ Name(t)' = "SetCursor"
    BY <1>4 DEF WillMove, Name
  <2>4. Clean' => WillMoveOK(t)'
    <3> SUFFICES ASSUME Clean' PROVE WillMoveOK(t)'
      OBVIOUS
    <3>1. request'[t].table[0].value = x /\ request'[t].table[1].value = y
      BY <1>4d, TableHolds DEF Caller
    <3>2. expected'.column = Linear(x, y) % CONSOLE_WIDTH /\ expected'.row = Linear(x, y) \div CONSOLE_WIDTH
      BY <1>4
    <3>3. Linear(x, y) \in Position
      BY <1>4 DEF Clean
    <3>4. Linear(Linear(x, y) % CONSOLE_WIDTH, Linear(x, y) \div CONSOLE_WIDTH) = Linear(x, y)
      BY <3>3, RowAndColumn
    <3>5. EndOffset' = Linear(x, y)
      BY <3>2, <3>4 DEF EndOffset, Linear
    <3>. QED
      BY <2>3, <3>1, <3>5 DEF WillMoveOK, Linear
  <2>. QED
    BY <1>2, <1>4, <2>1, <2>2, <2>3, <2>4, CursorAsked
<1>. QED
  BY <1>5, <1>5s, <1>9, <1>10 DEF IInv

\* It clears the screen.
LEMMA ClearScreenKeeps ==
    ASSUME IInv, NEW t \in Task, ClearScreen(t)
    PROVE  IInv'
<1>1. ConsoleTypeOK /\ CallInv /\ CursorInv /\ (~strayed => ScreenInv)
  BY DEF IInv
<1>2. OthersStand(t)
  BY <1>1 DEF OthersStand, ConsoleTypeOK, locals, shared, ghosts, ClearScreen, Goto, Begin, ExecuteSystemCall
<1>3. PlaceOK(t) /\ ServiceOK(t) /\ (pc[t] = "syscall" => RequestOK(t))
  BY <1>1 DEF CallInv
<1>4. /\ t \in UserTask /\ pc[t] = "run" /\ pc'[t] = "syscall"
      /\ printing'[t] = printing[t] /\ called'[t] = "ClearScreen"
      /\ expected' = [row |-> LASTLINE, column |-> 0]
      /\ overlap' = (\/ overlap
                     \/ "ClearScreen" \in ConsoleCall /\ \E u \in Task \ {t} : InConsole(u))
      /\ strayed' = strayed /\ (strayed => strayed')
      /\ UNCHANGED <<iCurrentPrintOffset, crtc, served, offset>>
  BY <1>1 DEF ConsoleTypeOK, shared, Begin, ClearScreen, Goto
<1>4a. pc' \in [Task -> Place] /\ printing' \in [Task -> BOOLEAN] /\ string' \in [Task -> Seq(Character)]
  BY <1>1, TextAssumption DEF ConsoleTypeOK, Place, Character, Shelled, ClearScreen, Goto
<1>4b. ~printing[t]
  BY <1>1, <1>3, <1>4 DEF PlaceOK
<1>4c. DOMAIN called' = Task /\ DOMAIN request' = Task /\ DOMAIN served' = Task
  BY <1>1 DEF ConsoleTypeOK, Begin, ExecuteSystemCall, ClearScreen, Goto
<1>4e. overlap' = (overlap \/ \E u \in Task \ {t} : InConsole(u)) /\ overlap' \in BOOLEAN
       /\ strayed' \in BOOLEAN
  BY <1>1, <1>4, ConsoleCallIs DEF ConsoleTypeOK
<1>4d. PICK f \in Library : /\ f.name = "ClearScreen"
                           /\ request'[t] = [number |-> f.number, table |-> ParameterTable(f, <<>>)]
  BY <1>1 DEF ConsoleTypeOK, ExecuteSystemCall, ClearScreen, Goto
<1>5. ConsoleTypeOK'
  BY <1>1, <1>4, <1>4a, <1>4c, <1>4e DEF ConsoleTypeOK
<1>5s. ~strayed' => ScreenInv'
  <2>1. ~strayed' => expected' \in At
    BY <1>1, <1>4, ConsoleAssumption, Screen DEF ScreenInv, At
  <2>. QED
    BY <1>1, <1>2, <1>4, <2>1, ScreenFrame DEF ScreenInv
<1>6. PlaceOK(t)'
  BY <1>4, <1>4b, TaskAssumption DEF PlaceOK, Setting, Shelled
<1>7. ServiceOK(t)'
  BY <1>4, TaskAssumption DEF ServiceOK
<1>8. (pc[t] = "syscall" => RequestOK(t))'
  <2>1. Name(t)' = f.name /\ f \in Caller
    BY <1>4, <1>4d DEF Name, Caller
  <2>2. Stored(f, request'[t].table) /\ request'[t].number = f.number
    BY <1>4d, <2>1, TableHolds
  <2>3. f.name = "ConsolePrintString" => request'[t].table[0].value \in Text
    BY <1>4d, <2>1, TableHolds
  <2>4. ~strayed' /\ f.name = "SetCursor" =>
          Linear(request'[t].table[0].value, request'[t].table[1].value) \in Position
    BY <1>4, <1>4d, <2>1, TableHolds
  <2>5. \E g \in Library \cup {TestTask} :
          /\ g.name = Name(t)' /\ request'[t].number = g.number
          /\ Stored(g, request'[t].table)
    BY <2>1, <2>2
  <2>. QED
    BY <2>1, <2>3, <2>4, <2>5 DEF RequestOK, Linear
<1>9. CallInv'
  BY <1>1, <1>2, <1>4, <1>6, <1>7, <1>8, CallFrame
<1>10. CursorInv'
  <2>1. ~InConsole(t) /\ InConsole(t)' /\ ~Moves(t)'
    BY <1>4, ConsoleCallIs DEF InConsole, Moves, Setting
  <2>2. Clean' => Clean /\ \A u \in Task : ~InConsole(u)
    BY <1>1, <1>4, <1>4e, <2>1 DEF ConsoleTypeOK, Clean
  <2>3. WillMove(t)' /\ Name(t)' = "ClearScreen"
    BY <1>4 DEF WillMove, Name
  <2>4. WillMoveOK(t)'
    <3>1. expected'.column = 0 /\ expected'.row = LASTLINE
      BY <1>4
    <3>. QED
      BY <2>3, <3>1 DEF WillMoveOK, EndOffset, Linear
  <2>. QED
    BY <1>2, <1>4, <2>1, <2>2, <2>3, <2>4, CursorAsked
<1>. QED
  BY <1>5, <1>5s, <1>9, <1>10 DEF IInv

\* A kernel task prints.
LEMMA kPrintfKeeps ==
    ASSUME IInv, NEW t \in Task, NEW text \in Seq(Character), kPrintf(t, text)
    PROVE  IInv'
<1>1. ConsoleTypeOK /\ CallInv /\ CursorInv /\ (~strayed => ScreenInv)
  BY DEF IInv
<1>2. OthersStand(t)
  BY <1>1 DEF OthersStand, ConsoleTypeOK, locals, shared, ghosts, kPrintf, Goto, Begin, ExecuteSystemCall
<1>3. PlaceOK(t) /\ ServiceOK(t) /\ (pc[t] = "syscall" => RequestOK(t))
  BY <1>1 DEF CallInv
<1>4. /\ t \in KernelTask /\ pc[t] = "run" /\ pc'[t] = "begin"
      /\ printing'[t] = TRUE /\ called'[t] = "printf"
      /\ expected' = expected
      /\ overlap' = (\/ overlap
                     \/ "printf" \in ConsoleCall /\ \E u \in Task \ {t} : InConsole(u))
      /\ strayed' = strayed /\ (strayed => strayed')
      /\ UNCHANGED <<iCurrentPrintOffset, crtc, served, offset>>
  BY <1>1 DEF ConsoleTypeOK, shared, Begin, kPrintf, Goto
<1>4a. pc' \in [Task -> Place] /\ printing' \in [Task -> BOOLEAN] /\ string' \in [Task -> Seq(Character)]
  BY <1>1, TextAssumption DEF ConsoleTypeOK, Place, Character, Shelled, kPrintf, Goto
<1>4b. ~printing[t]
  BY <1>1, <1>3, <1>4 DEF PlaceOK
<1>4c. DOMAIN called' = Task /\ DOMAIN request' = Task /\ DOMAIN served' = Task
  BY <1>1 DEF ConsoleTypeOK, Begin, ExecuteSystemCall, kPrintf, Goto
<1>4e. overlap' = (overlap \/ \E u \in Task \ {t} : InConsole(u)) /\ overlap' \in BOOLEAN
       /\ strayed' \in BOOLEAN
  BY <1>1, <1>4, ConsoleCallIs DEF ConsoleTypeOK
<1>5. ConsoleTypeOK'
  BY <1>1, <1>4, <1>4a, <1>4c, <1>4e DEF ConsoleTypeOK
<1>5s. ~strayed' => ScreenInv'
  <2>1. ~strayed' => expected' \in At
    BY <1>1, <1>4, ConsoleAssumption, Screen DEF ScreenInv, At
  <2>. QED
    BY <1>1, <1>2, <1>4, <2>1, ScreenFrame DEF ScreenInv
<1>6. PlaceOK(t)'
  BY <1>4, <1>4b, TaskAssumption DEF PlaceOK, Setting, Shelled
<1>7. ServiceOK(t)'
  BY <1>4, TaskAssumption DEF ServiceOK
<1>8. (pc[t] = "syscall" => RequestOK(t))'
  BY <1>4
<1>9. CallInv'
  BY <1>1, <1>2, <1>4, <1>6, <1>7, <1>8, CallFrame
<1>10. CursorInv'
  <2>1. ~InConsole(t) /\ InConsole(t)' /\ ~Moves(t)'
    BY <1>4, ConsoleCallIs DEF InConsole, Moves, Setting
  <2>2. Clean' => Clean /\ \A u \in Task : ~InConsole(u)
    BY <1>1, <1>4, <1>4e, <2>1 DEF ConsoleTypeOK, Clean
  <2>3. ~WillMove(t)'
    BY <1>4 DEF WillMove, Name
  <2>4. Clean' => Settled'
    BY <1>1, <1>4, <2>2, Nobody DEF Settled, EndOffset, Linear
  <2>. QED
    BY <1>2, <1>4, <2>1, <2>2, <2>3, <2>4, CursorFrame
<1>. QED
  BY <1>5, <1>5s, <1>9, <1>10 DEF IInv

\* A user task calls something else, which may print.
LEMMA CallLibraryKeeps ==
    ASSUME IInv, NEW t \in Task, NEW g \in Library \cup {TestTask}, CallLibrary(t, g)
    PROVE  IInv'
<1>1. ConsoleTypeOK /\ CallInv /\ CursorInv /\ (~strayed => ScreenInv)
  BY DEF IInv
<1>2. OthersStand(t)
  BY <1>1 DEF OthersStand, ConsoleTypeOK, locals, shared, ghosts, CallLibrary, Goto, Begin
<1>3. PlaceOK(t) /\ ServiceOK(t) /\ (pc[t] = "syscall" => RequestOK(t))
  BY <1>1 DEF CallInv
<1>4. /\ t \in UserTask /\ pc[t] = "run" /\ pc'[t] = "syscall" /\ called'[t] = g.name
      /\ pc' \in [Task -> Place] /\ DOMAIN called' = Task /\ DOMAIN request' = Task
      /\ overlap' = (\/ overlap
                     \/ g.name \in ConsoleCall /\ \E u \in Task \ {t} : InConsole(u))
      /\ UNCHANGED <<iCurrentPrintOffset, crtc, served, string, offset, printing, expected, strayed>>
  BY <1>1 DEF ConsoleTypeOK, Place, CallLibrary, Goto, Begin, shared
<1>4a. ~printing[t]
  BY <1>1, <1>3, <1>4 DEF PlaceOK
<1>4b. /\ g \in Caller
       /\ g.name \notin {"none", "printf", "Backspace", "ConsolePrintString", "SetCursor", "ClearScreen"}
  BY CallerNames DEF Caller, CallLibrary
<1>4c. request'[t] = [number |-> g.number,
                      table |-> ParameterTable(g, [i \in DOMAIN g.params |-> 0])]
  BY <1>1 DEF ConsoleTypeOK, CallLibrary
<1>5. ConsoleTypeOK'
  BY <1>1, <1>4 DEF ConsoleTypeOK
<1>5s. ~strayed' => ScreenInv'
  BY <1>1, <1>2, <1>4, ScreenFrame DEF ScreenInv
<1>6. PlaceOK(t)'
  BY <1>4, <1>4a, <1>4b, TaskAssumption DEF PlaceOK, Setting, Shelled
<1>7. ServiceOK(t)'
  BY <1>4 DEF ServiceOK
<1>8. (pc[t] = "syscall" => RequestOK(t))'
  <2>1. Name(t)' = g.name
    BY <1>4, <1>4b DEF Name
  <2>2. Stored(g, request'[t].table) /\ request'[t].number = g.number
    BY <1>4b, <1>4c, TableHolds
  <2>. QED
    BY <1>4b, <2>1, <2>2 DEF RequestOK
<1>9. CallInv'
  BY <1>1, <1>2, <1>4, <1>6, <1>7, <1>8, CallFrame
<1>10. CursorInv'
  <2>1. CASE g.name \notin ConsoleCall
    <3>1. ~InConsole(t) /\ ~InConsole(t)'
      BY <1>4, <2>1 DEF InConsole
    <3>2. overlap' = overlap
      BY <1>1, <1>4, <2>1 DEF ConsoleTypeOK
    <3>. QED
      BY <1>1, <1>2, <1>4, <3>1, <3>2, CursorUntouched
  <2>2. CASE g.name \in ConsoleCall
    <3>1. ~InConsole(t) /\ InConsole(t)' /\ ~Moves(t)'
      BY <1>4, <2>2 DEF InConsole, Moves, Setting
    <3>2. Clean' => Clean /\ \A u \in Task : ~InConsole(u)
      BY <1>1, <1>4, <2>2, <3>1 DEF ConsoleTypeOK, Clean
    <3>3. ~WillMove(t)'
      BY <1>4, <1>4b DEF WillMove, Name
    <3>4. Clean' => Settled'
      BY <1>1, <1>4, <3>2, Nobody DEF Settled, EndOffset, Linear
    <3>. QED
      BY <1>2, <1>4, <3>1, <3>2, <3>3, <3>4, CursorFrame
  <2>. QED
    BY <2>1, <2>2
<1>. QED
  BY <1>5, <1>5s, <1>9, <1>10 DEF IInv

\* printf sets the cursor to the offset that the kernel has returned.
LEMMA SetCursorAfterKeeps ==
    ASSUME IInv, NEW t \in Task, SetCursorAfter(t)
    PROVE  IInv'
<1>1. ConsoleTypeOK /\ CallInv /\ CursorInv /\ (~strayed => ScreenInv)
  BY DEF IInv
<1>2. OthersStand(t)
  BY <1>1 DEF OthersStand, ConsoleTypeOK, locals, shared, ghosts, SetCursorAfter, Goto, ExecuteSystemCall
<1>3. PlaceOK(t) /\ ServiceOK(t) /\ (pc[t] = "syscall" => RequestOK(t))
  BY <1>1 DEF CallInv
<1>4. /\ t \in UserTask /\ pc[t] = "sysret" /\ pc'[t] = "syscall" /\ printing[t] /\ ~printing'[t]
      /\ pc' \in [Task -> Place] /\ printing' \in [Task -> BOOLEAN] /\ DOMAIN request' = Task
      /\ UNCHANGED <<iCurrentPrintOffset, crtc, served, string, offset, called, expected, overlap,
                     strayed>>
  BY <1>1 DEF ConsoleTypeOK, Place, SetCursorAfter, Goto, ExecuteSystemCall, shared, ghosts
<1>4a. called[t] = "printf"
  BY <1>1, <1>3, <1>4 DEF PlaceOK
<1> DEFINE x == Rem(offset[t], CONSOLE_WIDTH)
           y == Quot(offset[t], CONSOLE_WIDTH)
<1>4b. PICK f \in Library : /\ f.name = "SetCursor"
                            /\ request'[t] = [number |-> f.number, table |-> ParameterTable(f, <<x, y>>)]
  BY <1>1 DEF ConsoleTypeOK, ExecuteSystemCall, SetCursorAfter
<1>4c. ~strayed => Linear(x, y) = offset[t] /\ offset[t] \in Position
  BY <1>1, RowAndColumn DEF ScreenInv
<1> HIDE DEF x, y
<1>4d. request'[t].table[0].value = x /\ request'[t].table[1].value = y
  <2>1. f \in Caller
    BY DEF Caller
  <2>2. /\ ParameterTable(f, <<x, y>>)[0].value = <<x, y>>[1]
        /\ ParameterTable(f, <<x, y>>)[1].value = <<x, y>>[2]
    BY <1>4b, <2>1, TableHolds
  <2>. QED
    BY <1>4b, <2>2
<1>5. ConsoleTypeOK'
  BY <1>1, <1>4 DEF ConsoleTypeOK
<1>5s. ~strayed' => ScreenInv'
  BY <1>1, <1>2, <1>4, ScreenFrame DEF ScreenInv
<1>6. PlaceOK(t)'
  BY <1>4, <1>4a, TaskAssumption DEF PlaceOK, Setting, Shelled
<1>7. ServiceOK(t)'
  BY <1>4 DEF ServiceOK
<1>8. (pc[t] = "syscall" => RequestOK(t))'
  <2>1. Name(t)' = f.name /\ f \in Caller
    BY <1>4, <1>4a, <1>4b DEF Name, Caller
  <2>2. Stored(f, request'[t].table) /\ request'[t].number = f.number
    BY <1>4b, <2>1, TableHolds
  <2>3. \E g \in Library \cup {TestTask} :
          /\ g.name = Name(t)' /\ request'[t].number = g.number
          /\ Stored(g, request'[t].table)
    BY <2>1, <2>2
  <2>4. ~strayed' => Linear(request'[t].table[0].value, request'[t].table[1].value) \in Position
    BY <1>4, <1>4c, <1>4d
  <2>. QED
    BY <1>4b, <2>1, <2>3, <2>4 DEF RequestOK, Linear
<1>9. CallInv'
  BY <1>1, <1>2, <1>4, <1>6, <1>7, <1>8, CallFrame
<1>10. CursorInv'
  <2>1. InConsole(t) /\ InConsole(t)' /\ Moves(t) /\ ~Moves(t)'
    BY <1>4, <1>4a, ConsoleCallIs DEF InConsole, Moves, Setting
  <2>2. WillMove(t)' /\ Name(t)' = "SetCursor"
    BY <1>4, <1>4a DEF WillMove, Name
  <2>3. Clean' => (\A u \in Task \ {t} : ~InConsole(u)) /\ MovesOK(t)
    BY <1>1, <1>4, <2>1, Alone DEF Clean
  <2>4. Clean' => WillMoveOK(t)'
    BY <1>4, <1>4c, <1>4d, <2>2, <2>3 DEF MovesOK, WillMoveOK, EndOffset, Linear, Clean
  <2>. QED
    BY <1>2, <2>1, <2>2, <2>3, <2>4, CursorAsked
<1>. QED
  BY <1>5, <1>5s, <1>9, <1>10 DEF IInv

\* The kernel calls what it has for a number, which may be its own print.
LEMMA DispatchKeeps ==
    ASSUME IInv, NEW t \in Task, Dispatch(t)
    PROVE  IInv'
<1>1. ConsoleTypeOK /\ CallInv /\ CursorInv /\ (~strayed => ScreenInv)
  BY DEF IInv
<1>3. pc[t] = "syscall" /\ PlaceOK(t) /\ ServiceOK(t) /\ RequestOK(t)
  BY <1>1 DEF CallInv, Dispatch
<1> DEFINE P == request[t].table
<1>4. PICK f \in Caller : f.name = Name(t) /\ request[t].number = f.number /\ Stored(f, P)
  BY <1>3 DEF RequestOK, Caller
<1> DEFINE service == kProcessSystemCall(f.number, P)
<1>5. /\ served'[t] = service /\ DOMAIN served' = Task
      /\ \A u \in Task \ {t} : served'[u] = served[u]
      /\ UNCHANGED <<iCurrentPrintOffset, crtc, request, called, expected, overlap, strayed>>
  BY <1>1, <1>4 DEF ConsoleTypeOK, Dispatch, shared, ghosts
<1>6. \/ /\ service.function = "kConsolePrintString" /\ pc' = [pc EXCEPT ![t] = "begin"]
         /\ string' = [string EXCEPT ![t] = service.arguments[1].value]
         /\ UNCHANGED <<offset, printing>>
      \/ /\ PrintsMessage(service) /\ pc' = [pc EXCEPT ![t] = "begin"]
         /\ string' = [string EXCEPT ![t] = Message]
         /\ printing' = [printing EXCEPT ![t] = TRUE] /\ UNCHANGED offset
      \/ /\ service.function = "kSetCursor" /\ pc' = [pc EXCEPT ![t] = "selectUpper"]
         /\ offset' = [offset EXCEPT ![t] = Linear(service.arguments[1].value,
                                                   service.arguments[2].value)]
         /\ UNCHANGED <<string, printing>>
      \/ /\ service.function = "kClearScreen" /\ pc' = [pc EXCEPT ![t] = "clear"]
         /\ UNCHANGED <<string, offset, printing>>
      \/ /\ service.function = "kExitTask" /\ pc' = [pc EXCEPT ![t] = "ended"]
         /\ UNCHANGED <<string, offset, printing>>
      \/ /\ service.function \notin {"kConsolePrintString", "kSetCursor", "kClearScreen",
                                     "kExitTask"}
         /\ ~PrintsMessage(service)
         /\ pc' = [pc EXCEPT ![t] = "sysret"] /\ UNCHANGED <<string, offset, printing>>
  BY <1>4 DEF Dispatch
<1>7. /\ service.function = "kConsolePrintString" <=> Name(t) = "ConsolePrintString"
      /\ service.function = "kSetCursor" <=> Name(t) = "SetCursor"
      /\ service.function = "kClearScreen" <=> Name(t) = "ClearScreen"
      /\ service.function = "kExitTask" <=> Name(t) = "exit"
      /\ PrintsMessage(service) <=> Name(t) \in MessageCall
      /\ Name(t) = "ConsolePrintString" => service.arguments[1] = P[0]
      /\ Name(t) = "SetCursor" => service.arguments[1] = P[0] /\ service.arguments[2] = P[1]
  BY <1>4, DispatchTo
<1>8. called[t] # "printf" => (Serves(service, called[t]) <=> called[t] \notin NotServed)
  <2>1. called[t] # "printf" => Name(t) = called[t]
    BY DEF Name
  <2>. QED
    BY <1>4, <2>1, EveryoneIsServed
<1>9. /\ Name(t) = "ConsolePrintString" => P[0].value \in Text
      /\ ~strayed /\ Name(t) = "SetCursor" => Linear(P[0].value, P[1].value) \in Position
  BY <1>3 DEF RequestOK
<1> HIDE DEF service, P
<1>2. OthersStand(t)
  <2>1. \A u \in Task \ {t} : pc'[u] = pc[u] /\ printing'[u] = printing[u]
    BY <1>1, <1>6 DEF ConsoleTypeOK
  <2>. QED
    BY <1>5, <2>1 DEF OthersStand
<1>10. ServiceOK(t)'
  BY <1>5, <1>8 DEF ServiceOK
<1>11. t \notin KernelTask /\ t \in UserTask
  BY <1>3 DEF PlaceOK, Task
<1>12. /\ Name(t) = "ConsolePrintString" => \/ called[t] = "printf" /\ printing[t]
                                            \/ called[t] = "ConsolePrintString" /\ ~printing[t]
       /\ Name(t) = "SetCursor" => called[t] \in {"printf", "SetCursor"} /\ ~printing[t]
       /\ Name(t) \notin {"ConsolePrintString", "SetCursor"} =>
             called[t] = Name(t) /\ called[t] # "printf" /\ ~printing[t]
       /\ called[t] # "Backspace"
  BY <1>1, <1>3, <1>11 DEF ConsoleTypeOK, PlaceOK, Name
<1>12a. called[t] \in MessageCall <=> Name(t) \in MessageCall
  BY DEF Name, MessageCall
<1>14. pc'[t] \in {"begin", "selectUpper", "clear", "ended", "sysret"}
  BY <1>1, <1>6 DEF ConsoleTypeOK
<1>15. /\ pc'[t] = "begin" => Name(t) = "ConsolePrintString" \/ Name(t) \in MessageCall
       /\ pc'[t] = "selectUpper" => Name(t) = "SetCursor"
       /\ pc'[t] = "clear" => Name(t) = "ClearScreen"
       /\ pc'[t] = "ended" => Name(t) = "exit"
       /\ pc'[t] = "sysret" =>
            Name(t) \notin {"ConsolePrintString", "SetCursor", "ClearScreen", "exit"} \cup MessageCall
       /\ pc'[t] # "selectUpper" => offset' = offset
  BY <1>1, <1>6, <1>7 DEF ConsoleTypeOK
<1>15a. printing'[t] = IF Name(t) \in MessageCall THEN TRUE ELSE printing[t]
  <2>1. ~(Name(t) \in MessageCall /\ Name(t) \in {"ConsolePrintString", "SetCursor", "ClearScreen", "exit"})
    BY DEF MessageCall
  <2>. QED
    BY <1>1, <1>6, <1>7, <2>1 DEF ConsoleTypeOK
<1>13. ConsoleTypeOK'
  <2>1. pc' \in [Task -> Place]
    BY <1>1, <1>6 DEF ConsoleTypeOK, Place, Setting
  <2>2. string' \in [Task -> Seq(Character)]
    <3>1. Message \in Seq(Character) /\ Text \subseteq Seq(Character)
      BY TextAssumption DEF Character
    <3>2. service.function = "kConsolePrintString" => service.arguments[1].value \in Seq(Character)
      BY <1>7, <1>9, <3>1
    <3>. QED
      BY <1>1, <1>6, <3>1, <3>2 DEF ConsoleTypeOK
  <2>3. printing' \in [Task -> BOOLEAN]
    BY <1>1, <1>6 DEF ConsoleTypeOK
  <2>. QED
    BY <1>1, <1>5, <2>1, <2>2, <2>3 DEF ConsoleTypeOK
<1>13s. ~strayed' => ScreenInv'
  <2> SUFFICES ASSUME ~strayed' PROVE ScreenInv'
    OBVIOUS
  <2>0. ScreenInv /\ ~strayed
    BY <1>1, <1>5
  <2>1. offset' \in [Task -> Position] /\ \A u \in Task \ {t} : offset'[u] = offset[u]
    <3>1. CASE Name(t) = "SetCursor"
      <4>1. offset' = [offset EXCEPT ![t] = Linear(P[0].value, P[1].value)]
        BY <1>6, <1>7, <3>1 DEF MessageCall
      <4>2. Linear(P[0].value, P[1].value) \in Position
        BY <1>9, <2>0, <3>1
      <4>. QED
        BY <2>0, <4>1, <4>2 DEF ScreenInv
    <3>2. CASE Name(t) # "SetCursor"
      BY <2>0, <1>6, <1>7, <3>2 DEF ScreenInv
    <3>. QED
      BY <3>1, <3>2
  <2>. QED
    BY <1>2, <1>5, <1>14, <2>0, <2>1, ScreenFrame DEF ScreenInv
<1>16. PlaceOK(t)'
  <2>1. pc'[t] = "begin" => (PrintsMessage(served'[t]) <=> called'[t] \in MessageCall)
    BY <1>5, <1>7, <1>12a
  <2>2. CASE pc'[t] = "begin"
    <3>1. CASE Name(t) = "ConsolePrintString"
      <4>1. Name(t) \notin MessageCall
        BY <3>1 DEF MessageCall
      <4>. QED
        BY <1>5, <1>11, <1>12, <1>15a, <2>1, <2>2, <3>1, <4>1 DEF PlaceOK, Setting, Shelled
    <3>2. CASE Name(t) \in MessageCall
      <4>1. Name(t) \notin {"ConsolePrintString", "SetCursor"}
        BY <3>2 DEF MessageCall
      <4>. QED
        BY <1>5, <1>11, <1>12, <1>12a, <1>15a, <2>1, <2>2, <3>2, <4>1 DEF PlaceOK, Setting, Shelled
    <3>. QED
      BY <1>15, <2>2, <3>1, <3>2
  <2>3. CASE pc'[t] = "selectUpper"
    <3>1. Name(t) = "SetCursor" /\ Name(t) \notin MessageCall
      BY <1>15, <2>3 DEF MessageCall
    <3>. QED
      BY <1>5, <1>11, <1>12, <1>15a, <2>3, <3>1 DEF PlaceOK, Setting, Shelled
  <2>4. CASE pc'[t] \in {"clear", "ended", "sysret"}
    <3>1. Name(t) \notin MessageCall /\ Name(t) \notin {"ConsolePrintString", "SetCursor"}
      BY <1>15, <2>4 DEF MessageCall
    <3>2. ~printing'[t] /\ called'[t] = Name(t)
      BY <1>5, <1>12, <1>15a, <3>1
    <3>. QED
      BY <1>5, <1>11, <1>12, <1>15, <2>4, <3>1, <3>2 DEF PlaceOK, Setting, Shelled
  <2>. QED
    BY <1>14, <2>2, <2>3, <2>4
<1>17. CallInv'
  BY <1>1, <1>2, <1>5, <1>10, <1>14, <1>16, CallFrame
<1>18. CursorInv'
  <2>1. ~Moves(t) /\ pc'[t] # "row"
    BY <1>3, <1>14 DEF Moves, Setting
  <2>2. CASE pc'[t] = "begin"
    <3>1. InConsole(t) /\ InConsole(t)' /\ ~WillMove(t) /\ ~Moves(t)' /\ ~WillMove(t)'
      <4>1. Name(t) \notin {"SetCursor", "ClearScreen"}
        BY <1>15, <2>2 DEF MessageCall
      <4>2. called[t] \in ConsoleCall
        BY <1>12, <1>12a, <1>15, <2>2, ConsoleCallIs
      <4>. QED
        BY <1>3, <1>5, <2>2, <4>1, <4>2 DEF InConsole, Moves, WillMove, Setting
    <3>2. Clean' => (\A u \in Task \ {t} : ~InConsole(u)) /\ Settled
      BY <1>1, <1>5, <2>1, <3>1, Alone DEF Clean
    <3>3. Clean' => Settled'
      BY <1>5, <3>2 DEF Settled, EndOffset, Linear
    <3>. QED
      BY <1>2, <2>1, <3>1, <3>2, <3>3, CursorFrame
  <2>3. CASE pc'[t] = "selectUpper"
    <3>0. Name(t) = "SetCursor" /\ called[t] \in {"printf", "SetCursor"}
      BY <1>12, <1>15, <2>3
    <3>1. InConsole(t) /\ InConsole(t)' /\ WillMove(t) /\ Moves(t)' /\ ~WillMove(t)'
      BY <1>3, <1>5, <2>3, <3>0, ConsoleCallIs DEF InConsole, Moves, WillMove, Setting
    <3>2. Clean' => offset'[t] = Linear(P[0].value, P[1].value)
      <4>1. offset' = [offset EXCEPT ![t] = Linear(P[0].value, P[1].value)]
        BY <1>6, <1>7, <3>0 DEF MessageCall
      <4>. QED
        BY <1>1, <1>5, <4>1 DEF ScreenInv, Clean
    <3>3. Clean' => (\A u \in Task \ {t} : ~InConsole(u)) /\ WillMoveOK(t)
      BY <1>1, <1>5, <3>1, Alone DEF Clean
    <3>4. Clean' => MovesOK(t)'
      BY <1>5, <2>3, <3>0, <3>2, <3>3 DEF MovesOK, WillMoveOK, EndOffset, Linear, P
    <3>. QED
      BY <1>2, <2>1, <3>1, <3>3, <3>4, CursorFrame
  <2>4. CASE pc'[t] = "clear"
    <3>0. Name(t) = "ClearScreen" /\ called[t] = "ClearScreen" /\ Name(t)' = "ClearScreen"
      BY <1>5, <1>12, <1>15, <2>4 DEF Name
    <3>1. InConsole(t) /\ InConsole(t)' /\ WillMove(t) /\ WillMove(t)'
      BY <1>3, <1>5, <2>4, <3>0, ConsoleCallIs DEF InConsole, WillMove
    <3>1a. ~Moves(t)'
      <4>1. ~printing'[t]
        BY <1>12, <1>15a, <3>0 DEF MessageCall
      <4>. QED
        BY <2>4, <4>1 DEF Moves, Setting
    <3>2. Clean' => (\A u \in Task \ {t} : ~InConsole(u)) /\ WillMoveOK(t)
      BY <1>1, <1>5, <3>1, Alone DEF Clean
    <3>3. Clean' => WillMoveOK(t)'
      BY <1>5, <3>0, <3>2 DEF WillMoveOK, EndOffset, Linear
    <3>. QED
      BY <1>2, <3>1, <3>1a, <3>2, <3>3, CursorAsked
  <2>5. CASE pc'[t] \in {"ended", "sysret"}
    <3>0. Name(t) \notin {"ConsolePrintString", "SetCursor", "ClearScreen"} \cup MessageCall
      BY <1>15, <2>5 DEF MessageCall
    <3>1. called[t] \notin ConsoleCall
      BY <1>12, <3>0, ConsoleCallIs
    <3>2. ~InConsole(t) /\ ~InConsole(t)'
      BY <1>5, <3>1 DEF InConsole
    <3>3. offset' = offset
      BY <1>15, <2>5
    <3>. QED
      BY <1>1, <1>2, <1>5, <3>2, <3>3, CursorUntouched
  <2>. QED
    BY <1>14, <2>2, <2>3, <2>4, <2>5
<1>. QED
  BY <1>13, <1>13s, <1>17, <1>18 DEF IInv

\* The shell takes a character back.
LEMMA BackspaceKeeps ==
    ASSUME IInv, Backspace
    PROVE  IInv'
<1>0. Shell \in Task /\ Shell \in KernelTask /\ Shell \notin UserTask
  BY TaskAssumption DEF Task
<1>1. ConsoleTypeOK /\ CallInv /\ CursorInv /\ (~strayed => ScreenInv)
  BY DEF IInv
<1>2. OthersStand(Shell)
  BY <1>0, <1>1 DEF OthersStand, ConsoleTypeOK, locals, shared, ghosts, Backspace, Goto, Begin
<1>3. PlaceOK(Shell)
  BY <1>0, <1>1 DEF CallInv
<1>4. /\ pc[Shell] = "run" /\ pc'[Shell] = "column" /\ called'[Shell] = "Backspace"
      /\ overlap' = (\/ overlap
                     \/ "Backspace" \in ConsoleCall /\ \E u \in Task \ {Shell} : InConsole(u))
      /\ DOMAIN called' = Task /\ strayed' = strayed /\ (strayed => strayed')
      /\ UNCHANGED <<iCurrentPrintOffset, crtc, request, served, string, offset, printing, expected>>
  BY <1>0, <1>1 DEF ConsoleTypeOK, Backspace, Goto, Begin, shared
<1>4a. ~printing[Shell]
  BY <1>0, <1>1, <1>3, <1>4 DEF PlaceOK
<1>4b. overlap' = (overlap \/ \E u \in Task \ {Shell} : InConsole(u)) /\ overlap' \in BOOLEAN
  BY <1>1, <1>4, ConsoleCallIs DEF ConsoleTypeOK
<1>5. ConsoleTypeOK'
  <2>1. pc' \in [Task -> Place]
    BY <1>0, <1>1 DEF ConsoleTypeOK, Place, Setting, Shelled, Backspace, Goto
  <2>. QED
    BY <1>0, <1>1, <1>4, <1>4b, <2>1 DEF ConsoleTypeOK
<1>5s. ~strayed' => ScreenInv'
  BY <1>0, <1>1, <1>2, <1>4, ScreenFrame DEF ScreenInv
<1>6. PlaceOK(Shell)'
  BY <1>0, <1>3, <1>4, <1>4a DEF PlaceOK, Setting, Shelled
<1>7. ServiceOK(Shell)'
  BY <1>0 DEF ServiceOK
<1>8. (pc[Shell] = "syscall" => RequestOK(Shell))'
  BY <1>4
<1>9. CallInv'
  BY <1>0, <1>1, <1>2, <1>4, <1>6, <1>7, <1>8, CallFrame
<1>10. CursorInv'
  <2>1. ~InConsole(Shell) /\ InConsole(Shell)' /\ ~Moves(Shell)' /\ ~WillMove(Shell)'
    BY <1>4, ConsoleCallIs DEF InConsole, Moves, WillMove, Setting
  <2>2. Clean' => Clean /\ \A u \in Task : ~InConsole(u)
    BY <1>1, <1>4, <1>4b, <2>1 DEF ConsoleTypeOK, Clean
  <2>3. Clean' => Settled
    BY <1>1, <2>2, Nobody
  <2>4. Clean' => Settled'
    BY <1>4, <2>3 DEF Settled, EndOffset, Linear
  <2>5. Clean' => \A u \in Task \ {Shell} : ~InConsole(u)
    BY <2>2
  <2>. QED
    BY <1>0, <1>2, <1>4, <2>1, <2>4, <2>5, CursorFrame
<1>. QED
  BY <1>5, <1>5s, <1>9, <1>10 DEF IInv

\* It reads the column, ...
LEMMA ReadColumnKeeps ==
    ASSUME IInv, ReadColumn
    PROVE  IInv'
<1>0. Shell \in Task /\ Shell \in KernelTask /\ Shell \notin UserTask
  BY TaskAssumption DEF Task
<1>1. ConsoleTypeOK /\ CallInv /\ CursorInv /\ (~strayed => ScreenInv)
  BY DEF IInv
<1>2. OthersStand(Shell)
  BY <1>0, <1>1 DEF OthersStand, ConsoleTypeOK, locals, shared, ghosts, ReadColumn, Goto
<1>3. PlaceOK(Shell)
  BY <1>0, <1>1 DEF CallInv
<1>4. /\ pc[Shell] = "column" /\ pc'[Shell] = "row"
      /\ offset' = [offset EXCEPT ![Shell] = Rem(iCurrentPrintOffset, CONSOLE_WIDTH)]
      /\ UNCHANGED <<iCurrentPrintOffset, crtc, request, served, string, printing, called, expected,
                     overlap, strayed>>
  BY <1>0, <1>1 DEF ConsoleTypeOK, ReadColumn, Goto, shared, ghosts
<1>4a. ~strayed => /\ Rem(iCurrentPrintOffset, CONSOLE_WIDTH) \in 0 .. CONSOLE_WIDTH - 1
                   /\ Rem(iCurrentPrintOffset, CONSOLE_WIDTH) \in Position
  <2> SUFFICES ASSUME ~strayed
               PROVE  /\ Rem(iCurrentPrintOffset, CONSOLE_WIDTH) \in 0 .. CONSOLE_WIDTH - 1
                      /\ Rem(iCurrentPrintOffset, CONSOLE_WIDTH) \in Position
    OBVIOUS
  <2>1. iCurrentPrintOffset \in Position
    BY <1>1 DEF ScreenInv
  <2> DEFINE x == Rem(iCurrentPrintOffset, CONSOLE_WIDTH)
  <2>2. x \in 0 .. CONSOLE_WIDTH - 1
    BY <2>1, RowAndColumn
  <2> HIDE DEF x
  <2>3. 0 \in 0 .. CONSOLE_HEIGHT - 1 /\ x \in Int /\ CONSOLE_WIDTH \in Int
    BY <2>2, Screen
  <2>4. Linear(x, 0) \in Position
    BY <2>2, <2>3, LinearInScreen
  <2>5. Linear(x, 0) = x
    BY <2>3 DEF Linear
  <2>. QED
    BY <2>2, <2>4, <2>5 DEF x
<1>5. ConsoleTypeOK'
  <2>1. pc' \in [Task -> Place]
    BY <1>0, <1>1 DEF ConsoleTypeOK, Place, Setting, Shelled, ReadColumn, Goto
  <2>. QED
    BY <1>0, <1>1, <1>4, <2>1 DEF ConsoleTypeOK
<1>5s. ~strayed' => ScreenInv'
  <2> SUFFICES ASSUME ~strayed' PROVE ScreenInv'
    OBVIOUS
  <2>0. ScreenInv /\ ~strayed
    BY <1>1, <1>4
  <2> DEFINE x == Rem(iCurrentPrintOffset, CONSOLE_WIDTH)
  <2>1. x \in 0 .. CONSOLE_WIDTH - 1 /\ x \in Position /\ offset' = [offset EXCEPT ![Shell] = x]
    BY <1>4, <1>4a, <2>0
  <2> HIDE DEF x
  <2>2. /\ offset' \in [Task -> Position] /\ \A u \in Task \ {Shell} : offset'[u] = offset[u]
        /\ offset'[Shell] \in 0 .. CONSOLE_WIDTH - 1
    BY <1>0, <2>0, <2>1 DEF ScreenInv
  <2>. QED
    BY <1>0, <1>2, <1>4, <2>0, <2>2, ScreenFrame DEF ScreenInv
<1>6. PlaceOK(Shell)'
  BY <1>0, <1>3, <1>4 DEF PlaceOK, Setting, Shelled
<1>7. ServiceOK(Shell)'
  BY <1>0 DEF ServiceOK
<1>8. (pc[Shell] = "syscall" => RequestOK(Shell))'
  BY <1>4
<1>9. CallInv'
  BY <1>0, <1>1, <1>2, <1>4, <1>6, <1>7, <1>8, CallFrame
<1>10. CursorInv'
  <2>1. InConsole(Shell) /\ InConsole(Shell)' /\ ~WillMove(Shell) /\ ~WillMove(Shell)'
    BY <1>3, <1>4, ConsoleCallIs DEF PlaceOK, InConsole, WillMove, Shelled
  <2>2. ~Moves(Shell) /\ ~Moves(Shell)'
    BY <1>4 DEF Moves, Setting
  <2>3. Clean' => (\A u \in Task \ {Shell} : ~InConsole(u)) /\ Settled
    BY <1>0, <1>1, <1>4, <2>1, <2>2, Alone DEF Clean
  <2>4. Clean' => Settled'
    BY <1>4, <2>3 DEF Settled, EndOffset, Linear
  <2>5. Clean' => offset'[Shell] = expected'.column
    <3> SUFFICES ASSUME Clean' PROVE offset'[Shell] = expected'.column
      OBVIOUS
    <3>0. ScreenInv
      BY <1>1, <1>4 DEF Clean
    <3>1. expected.column \in 0 .. CONSOLE_WIDTH - 1 /\ expected.row \in 0 .. CONSOLE_HEIGHT - 1
      BY <3>0 DEF ScreenInv, At
    <3>2. iCurrentPrintOffset = Linear(expected.column, expected.row)
      BY <2>3 DEF Settled, EndOffset
    <3>3. Linear(expected.column, expected.row) % CONSOLE_WIDTH = expected.column
      BY <3>1, LinearIsOne
    <3>4. Rem(iCurrentPrintOffset, CONSOLE_WIDTH) = iCurrentPrintOffset % CONSOLE_WIDTH
      BY <3>0, RowAndColumn DEF ScreenInv
    <3>5. offset'[Shell] = Rem(iCurrentPrintOffset, CONSOLE_WIDTH)
      BY <1>0, <1>4, <3>0 DEF ScreenInv
    <3>. QED
      BY <1>4, <3>2, <3>3, <3>4, <3>5
  <2>. QED
    BY <1>0, <1>2, <1>4, <2>1, <2>2, <2>3, <2>4, <2>5, CursorFrame
<1>. QED
  BY <1>5, <1>5s, <1>9, <1>10 DEF IInv

\* ... and the row: the place before is one of the screen, or it has strayed.
LEMMA ReadRowKeeps ==
    ASSUME IInv, ReadRow
    PROVE  IInv'
<1>0. Shell \in Task /\ Shell \in KernelTask /\ Shell \notin UserTask
  BY TaskAssumption DEF Task
<1>1. ConsoleTypeOK /\ CallInv /\ CursorInv /\ (~strayed => ScreenInv)
  BY DEF IInv
<1>2. OthersStand(Shell)
  BY <1>0, <1>1 DEF OthersStand, ConsoleTypeOK, locals, shared, ghosts, ReadRow, Goto
<1>3. PlaceOK(Shell)
  BY <1>0, <1>1 DEF CallInv
<1> DEFINE before == Linear(offset[Shell] - 1, Quot(iCurrentPrintOffset, CONSOLE_WIDTH))
<1>4. /\ pc[Shell] = "row" /\ pc'[Shell] = "erase"
      /\ offset' = [offset EXCEPT ![Shell] = before]
      /\ strayed' = (strayed \/ before < 0) /\ (strayed => strayed')
      /\ expected' = Before(expected)
      /\ UNCHANGED <<iCurrentPrintOffset, crtc, request, served, string, printing, called, overlap>>
      /\ strayed' \in BOOLEAN
  BY <1>0, <1>1 DEF ConsoleTypeOK, ReadRow, Goto, shared
<1>4a. ASSUME ~strayed'
       PROVE  ScreenInv /\ ~strayed /\ before \in Position
  <2>1. ScreenInv /\ ~strayed /\ ~(before < 0)
    BY <1>1, <1>4, <1>4a
  <2>2. offset[Shell] \in 0 .. CONSOLE_WIDTH - 1 /\ iCurrentPrintOffset \in Position
    BY <1>4, <2>1 DEF ScreenInv
  <2>3. before \in Int
    <3>1. Quot(iCurrentPrintOffset, CONSOLE_WIDTH) \in 0 .. CONSOLE_HEIGHT - 1
      BY <2>2, RowAndColumn
    <3> DEFINE y == Quot(iCurrentPrintOffset, CONSOLE_WIDTH)
    <3>2. y \in Int /\ CONSOLE_WIDTH \in Int /\ offset[Shell] \in Int
      BY <2>2, <3>1, Screen
    <3> HIDE DEF y
    <3>3. y * CONSOLE_WIDTH \in Int
      BY <3>2
    <3>4. Linear(offset[Shell] - 1, y) \in Int
      BY <3>2, <3>3 DEF Linear
    <3>. QED
      BY <3>4 DEF y
  <2>4. before >= 0
    BY <2>1, <2>3
  <2>. QED
    BY <2>1, <2>2, <2>4, BeforeInScreen
<1> HIDE DEF before
<1>5. ConsoleTypeOK'
  <2>1. pc' \in [Task -> Place]
    BY <1>0, <1>1 DEF ConsoleTypeOK, Place, Setting, Shelled, ReadRow, Goto
  <2>. QED
    BY <1>0, <1>1, <1>4, <2>1 DEF ConsoleTypeOK
<1>5s. ~strayed' => ScreenInv'
  <2> SUFFICES ASSUME ~strayed' PROVE ScreenInv'
    OBVIOUS
  <2>0. ScreenInv /\ before \in Position
    BY <1>4a
  <2>1. offset' \in [Task -> Position] /\ \A u \in Task \ {Shell} : offset'[u] = offset[u]
    BY <1>0, <1>4, <2>0 DEF ScreenInv
  <2>2. expected' \in At
    BY <1>4, <2>0, BeforeIs DEF ScreenInv
  <2>. QED
    BY <1>0, <1>2, <1>4, <2>0, <2>1, <2>2, ScreenFrame DEF ScreenInv
<1>6. PlaceOK(Shell)'
  BY <1>0, <1>3, <1>4 DEF PlaceOK, Setting, Shelled
<1>7. ServiceOK(Shell)'
  BY <1>0 DEF ServiceOK
<1>8. (pc[Shell] = "syscall" => RequestOK(Shell))'
  BY <1>4
<1>9. CallInv'
  BY <1>0, <1>1, <1>2, <1>4, <1>6, <1>7, <1>8, CallFrame
<1>10. CursorInv'
  <2>1. InConsole(Shell) /\ InConsole(Shell)' /\ ~WillMove(Shell) /\ ~WillMove(Shell)'
    BY <1>3, <1>4, ConsoleCallIs DEF PlaceOK, InConsole, WillMove, Shelled
  <2>2. ~Moves(Shell) /\ Moves(Shell)'
    <3>1. ~printing[Shell]
      BY <1>1, <1>0, <1>3, <1>4 DEF PlaceOK, Shelled, MessageCall
    <3>. QED
      BY <1>4, <3>1 DEF Moves, Setting
  <2>3. Clean' => (\A u \in Task \ {Shell} : ~InConsole(u)) /\ Settled /\ offset[Shell] = expected.column
    BY <1>0, <1>1, <1>4, <2>1, <2>2, Alone DEF Clean
  <2>4. Clean' => MovesOK(Shell)'
    <3> SUFFICES ASSUME Clean' PROVE MovesOK(Shell)'
      OBVIOUS
    <3>0. ScreenInv /\ before \in Position
      BY <1>4a DEF Clean
    <3>1. /\ expected \in At /\ expected.column \in 0 .. CONSOLE_WIDTH - 1
          /\ expected.row \in 0 .. CONSOLE_HEIGHT - 1
      BY <3>0 DEF ScreenInv, At
    <3>2. iCurrentPrintOffset = Linear(expected.column, expected.row)
      BY <2>3 DEF Settled, EndOffset
    <3>3. Linear(expected.column, expected.row) \div CONSOLE_WIDTH = expected.row
      BY <3>1, LinearIsOne
    <3>4. Quot(iCurrentPrintOffset, CONSOLE_WIDTH) = expected.row
      BY <3>0, <3>2, <3>3, RowAndColumn DEF ScreenInv
    <3>5. before = Linear(expected.column - 1, expected.row)
      BY <2>3, <3>4 DEF before
    <3>6. before >= 0
      BY <3>0, Screen DEF Position
    <3>7. Linear(expected.column - 1, expected.row) >= 0 =>
            Linear(expected.column - 1, expected.row)
              = Linear(Before(expected).column, Before(expected).row)
      BY <3>1, BeforeIs
    <3>8. before = Linear(Before(expected).column, Before(expected).row)
      BY <3>5, <3>6, <3>7
    <3>9. offset'[Shell] = EndOffset'
      BY <1>0, <1>4, <3>0, <3>8 DEF ScreenInv, EndOffset, Linear
    <3>. QED
      BY <1>4, <3>9 DEF MovesOK
  <2>. QED
    BY <1>0, <1>2, <1>4, <2>1, <2>2, <2>3, <2>4, CursorFrame
<1>. QED
  BY <1>5, <1>5s, <1>9, <1>10 DEF IInv

\* It prints a blank there, which moves nothing.
LEMMA kPrintStringXYKeeps ==
    ASSUME IInv, kPrintStringXY
    PROVE  IInv'
<1>0. Shell \in Task /\ Shell \in KernelTask /\ Shell \notin UserTask
  BY TaskAssumption DEF Task
<1>1. ConsoleTypeOK /\ CallInv /\ CursorInv /\ (~strayed => ScreenInv)
  BY DEF IInv
<1>2. OthersStand(Shell)
  BY <1>0, <1>1 DEF OthersStand, ConsoleTypeOK, locals, shared, ghosts, kPrintStringXY, Goto
<1>3. PlaceOK(Shell)
  BY <1>0, <1>1 DEF CallInv
<1>4. /\ pc[Shell] = "erase" /\ pc'[Shell] = "selectUpper"
      /\ UNCHANGED <<iCurrentPrintOffset, crtc, request, served, string, offset, printing, called,
                     expected, overlap, strayed>>
  BY <1>0, <1>1 DEF ConsoleTypeOK, kPrintStringXY, Goto, shared, locals, ghosts
<1>5. ConsoleTypeOK'
  <2>1. pc' \in [Task -> Place]
    BY <1>0, <1>1 DEF ConsoleTypeOK, Place, Setting, Shelled, kPrintStringXY, Goto
  <2>. QED
    BY <1>0, <1>1, <1>4, <2>1 DEF ConsoleTypeOK
<1>5s. ~strayed' => ScreenInv'
  BY <1>0, <1>1, <1>2, <1>4, ScreenFrame DEF ScreenInv
<1>6. PlaceOK(Shell)'
  BY <1>0, <1>3, <1>4 DEF PlaceOK, Setting, Shelled
<1>7. ServiceOK(Shell)'
  BY <1>0 DEF ServiceOK
<1>8. (pc[Shell] = "syscall" => RequestOK(Shell))'
  BY <1>4
<1>9. CallInv'
  BY <1>0, <1>1, <1>2, <1>4, <1>6, <1>7, <1>8, CallFrame
<1>10. CursorInv'
  <2>1. InConsole(Shell) /\ InConsole(Shell)' /\ ~WillMove(Shell) /\ ~WillMove(Shell)'
    BY <1>3, <1>4, ConsoleCallIs DEF PlaceOK, InConsole, WillMove, Shelled
  <2>2. Moves(Shell) /\ Moves(Shell)'
    BY <1>4 DEF Moves, Setting
  <2>3. Clean' => (\A u \in Task \ {Shell} : ~InConsole(u)) /\ MovesOK(Shell)
    BY <1>0, <1>1, <1>4, <2>1, <2>2, Alone DEF Clean
  <2>4. Clean' => MovesOK(Shell)'
    BY <1>4, <2>3 DEF MovesOK, EndOffset, Linear
  <2>. QED
    BY <1>0, <1>2, <1>4, <2>1, <2>2, <2>3, <2>4, CursorFrame
<1>. QED
  BY <1>5, <1>5s, <1>9, <1>10 DEF IInv

\* Every step of a program, of the kernel or of the shell keeps the invariant.
LEMMA NextInv == IInv /\ [Next]_vars => IInv'
<1> SUFFICES ASSUME IInv, [Next]_vars PROVE IInv'
  OBVIOUS
<1>1. CASE UNCHANGED vars
  <2>1. ConsoleTypeOK'
    BY <1>1 DEF IInv, ConsoleTypeOK, vars, shared, locals, ghosts
  <2>2. CallInv'
    BY <1>1 DEF IInv, CallInv, PlaceOK, ServiceOK, RequestOK, Name, Linear, vars, locals, ghosts
  <2>3. CursorInv'
    BY <1>1 DEF IInv, CursorInv, Clean, InConsole, Moves, MovesOK, WillMove, WillMoveOK, Name,
                Settled, EndOffset, Linear, vars, shared, locals, ghosts
  <2>4. (~strayed => ScreenInv)'
    BY <1>1 DEF IInv, ScreenInv, vars, shared, locals, ghosts
  <2>. QED
    BY <2>1, <2>2, <2>3, <2>4 DEF IInv
<1>t. /\ Text \subseteq Seq(Character) /\ <<"char">> \in Seq(Character)
      /\ <<"\n">> \in Seq(Character) /\ Shell \in Task
  BY TextAssumption, TaskAssumption DEF Character, Task
<1>2. ASSUME NEW t \in Task, Program(t) PROVE IInv'
  <2>1. ASSUME NEW point \in Point, SetCursor(t, point[1], point[2]) PROVE IInv'
    <3>1. point[1] \in Int /\ point[2] \in Int
      BY PointAssumption
    <3>. QED
      BY <2>1, <3>1, SetCursorKeeps
  <2>2. ASSUME NEW text \in Text, kPrintf(t, text) PROVE IInv'
    BY <1>t, <2>2, kPrintfKeeps
  <2>. QED
    BY <1>2, <2>1, <2>2, CallLibraryKeeps, printfKeeps, ConsolePrintStringKeeps,
       ClearScreenKeeps DEF Program
<1>3. ASSUME NEW t \in Task, kSetCursor(t) PROVE IInv'
  BY <1>3, SelectUpperKeeps, WriteUpperKeeps, SelectLowerKeeps, WriteLowerKeeps, StoreOffsetKeeps
     DEF kSetCursor
<1>4. ASSUME NEW t \in Task, Kernel(t) PROVE IInv'
  BY <1>3, <1>4, DispatchKeeps, SysretKeeps, SetCursorAfterKeeps, ReadOffsetKeeps,
     PrintCharacterKeeps, EndOfStringKeeps, kClearScreenKeeps DEF Kernel
<1>5. ASSUME ConsoleShell PROVE IInv'
  <2>1. ASSUME TypeKey PROVE IInv'
    BY <1>t, <2>1, kPrintfKeeps DEF TypeKey
  <2>2. ASSUME Enter PROVE IInv'
    BY <1>t, <2>2, kPrintfKeeps DEF Enter
  <2>. QED
    BY <1>5, <2>1, <2>2, BackspaceKeeps, ReadColumnKeeps, ReadRowKeeps, kPrintStringXYKeeps
       DEF ConsoleShell
<1>. QED
  BY <1>1, <1>2, <1>4, <1>5 DEF Next

\* IInv holds in every state that the shell and other tasks, any number of them with any
\* texts, any places for the cursor and a screen of any size, reach by system calls,
\* prints and keys.
THEOREM Invariance == Spec => []IInv
<1>1. Init => IInv
  BY InitInv
<1>2. IInv /\ [Next]_vars => IInv'
  BY NextInv
<1>. QED
  BY <1>1, <1>2, PTL DEF Spec

(***************************************************************************)
(* The properties                                                          *)
(***************************************************************************)
\* For every function of the library and the kernel's test task, and every interleaving:
\* what the kernel calls for it is the function it stands for, with its parameters in
\* the order of the kernel's declaration and none of them read from beyond what the
\* library has stored, exactly when it is not one of the fourteen of NotServed.
THEOREM CallsAreServedHolds == Spec => []CallsAreServed
<1>1. IInv => CallsAreServed
  <2> SUFFICES ASSUME IInv, NEW t \in UserTask, pc[t] \in {"sysret", "ended"},
                      called[t] # "printf"
               PROVE  Serves(served[t], called[t]) <=> called[t] \notin NotServed
    BY DEF CallsAreServed
  <2>. QED
    BY DEF IInv, CallInv, ServiceOK, Task
<1>. QED
  BY <1>1, Invariance, PTL

\* As long as no task sets the cursor off the screen and the shell takes no character
\* back at its origin, every offset that kConsolePrintString prints at or kSetCursor
\* stores is one of the screen: two tasks that print at once can spoil each other's
\* text, but not memory outside the screen.
THEOREM OutputIsOnScreenHolds == Spec => []OutputIsOnScreen
<1>1. IInv => OutputIsOnScreen
  BY DEF IInv, ScreenInv, OutputIsOnScreen
<1>. QED
  BY <1>1, Invariance, PTL

\* Unless that has happened or two tasks have used the console at once, the position,
\* the cursor of the CRT controller and the end of the text, with what the kernel itself
\* has printed for a service it does not know, agree whenever nobody is in the console.
THEOREM CursorFollowsTextHolds == Spec => []CursorFollowsText
<1>1. IInv => CursorFollowsText
  <2> SUFFICES ASSUME IInv, ~strayed, ~overlap, \A t \in Task : ~InConsole(t)
               PROVE  /\ iCurrentPrintOffset = Linear(expected.column, expected.row)
                      /\ crtc.upper * BYTE + crtc.lower = iCurrentPrintOffset
    BY DEF CursorFollowsText
  <2>0. CursorInv /\ Clean /\ ScreenInv
    BY DEF IInv, Clean
  <2>1. Settled
    BY <2>0, Nobody
  <2>2. EndOffset = iCurrentPrintOffset /\ iCurrentPrintOffset \in Position
    BY <2>0, <2>1 DEF ScreenInv, Settled
  <2>. QED
    BY <2>1, <2>2, Bytes DEF Settled, EndOffset
<1>. QED
  BY <1>1, Invariance, PTL
================================================================================
