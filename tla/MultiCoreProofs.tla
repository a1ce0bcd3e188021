--------------------------- MODULE MultiCoreProofs ---------------------------
(* Proofs about module MultiCore, for any machines and processors.  The first part:
   no two cores share a stack, and every interrupt is acknowledged where it came
   from.  The second part, which needs to know what is in the redirection tables:
   no interrupt is sent to a core that sleeps, and a routing is exact.  The third
   part: the kernel reaches the places that it is linked to, and the page tables
   and the mode of the processor are right when its 64-bit part is entered. *)
EXTENDS MultiCore, TLAPS, FiniteSetTheorems, WellFoundedInduction

(***************************************************************************)
(* Where a core is in its own code, also while it handles an interrupt.    *)
(***************************************************************************)
Handler == {"eoi", "counting", "balancing", "return"}

Where(c) == IF core[c].vector # None THEN core[c].back ELSE pc[c]

\* Before the 64-bit kernel has its stack; on the other processors; while they are
\* there; with the I/O APIC.
Early == {"reset", "read", "entry16", "main32", "memory", "area", "tables", "cpuid", "copy",
          "switch", "entry64"}
Symmetric == {"table", "enable", "balance", "idle"}
Application == {"count", "mainAP", "schedulerAP", "apicAP", "stiAP"}
Late == {"sent0", "send1", "sent1", "send2", "sent2", "restore", "wait", "sleep", "change",
         "mode"} \cup Symmetric

(***************************************************************************)
(* The inductive invariant                                                 *)
(***************************************************************************)
CoreRecord ==
    [flag : BOOLEAN, stack : {None} \cup Cores, tr : {None} \cup Cores, scheduler : BOOLEAN,
     apic : BOOLEAN, requests : SUBSET Vector, service : {None} \cup Vector,
     vector : {None} \cup Vector, back : Labels \ Handler, count : [0..(IRQS - 1) -> Nat]]

SharedRecord ==
    [idAddress : BOOLEAN, awake : Nat, saved : BOOLEAN, tick : BOOLEAN,
     symmetric : BOOLEAN, balancing : BOOLEAN, taskBalancing : BOOLEAN]

PICRecord == [masked : BOOLEAN, service : {None, 0, 1}]

TypeInv ==
    /\ core \in [Cores -> CoreRecord] /\ pc \in [Cores -> Labels]
    /\ shared \in SharedRecord /\ pic \in PICRecord

\* A core is in a handler exactly while it handles a vector, with interrupts off.
HandlerInv ==
    \A c \in Cores :
        /\ core[c].vector # None <=> pc[c] \in Handler
        /\ core[c].flag => core[c].vector = None

\* Until the address of the ID register is known the other cores do nothing.
AloneInv ==
    /\ ~shared.idAddress => \A c \in Cores \ {0} : pc[c] = "off" /\ core[c] = CoreInit
    /\ shared.idAddress => Where(0) \in Late

\* Until the kernel thinks it has the I/O APIC, nothing comes from there;
\* afterwards nothing comes from the PIC.
ModeInv ==
    /\ ~shared.symmetric =>
         /\ ~shared.balancing
         /\ \A base \in DOMAIN redirection : \A pin \in 0..(PINS - 1) :
               redirection[base][pin].low.mask
         /\ \A c \in Cores : core[c].requests = {} /\ route[c] = NotRouting
    /\ shared.symmetric => Where(0) \in Symmetric /\ pic.masked
    /\ Where(0) \in {"table", "enable", "balance"} => shared.symmetric
    /\ Where(0) = "mode" => pic.masked

\* What waits for an end of interrupt gets it from the handler it started.
EOIInv ==
    /\ pic.service # None => pc[0] = "eoi" /\ ~shared.symmetric
    /\ \A c \in Cores : core[c].service # None => pc[c] = "eoi" /\ shared.symmetric

\* A core that is ready for interrupts.
Ready(c) == core[c].tr = c /\ core[c].scheduler

\* How far each core has come tells which of its stacks it has.
StackInv ==
    /\ Where(0) \in Early => flag = 1
    /\ Where(0) \notin Application
    /\ Where(0) \in Early \cup {"halt"} \/ (core[0].stack = 0 /\ Ready(0))
    /\ \A c \in Cores :
          /\ core[c].stack \in {None, c}
          /\ Where(c) \in Application => core[c].stack = c
          /\ Where(c) \in {"schedulerAP", "apicAP", "stiAP"} => core[c].tr = c
          /\ Where(c) \in {"apicAP", "stiAP"} => core[c].scheduler
          /\ core[c].flag \/ core[c].vector # None => Ready(c)

IInv == TypeInv /\ HandlerInv /\ AloneInv /\ ModeInv /\ EOIInv /\ StackInv

LEMMA InitEstablishes == Init => IInv
<1> SUFFICES ASSUME Init PROVE IInv
  OBVIOUS
<1>0. 0 \in Cores /\ IRQS \in Nat
  BY LayoutAssumption, IOAPICAssumption
<1>1. TypeInv
  BY <1>0 DEF Init, TypeInv, CoreRecord, SharedRecord, PICRecord, CoreInit, LoaderInit, Labels,
         Handler, None
<1>2. HandlerInv
  BY DEF Init, HandlerInv, Handler, CoreInit, LoaderInit
<1>3. AloneInv
  BY DEF Init, AloneInv, LoaderInit
<1>4. ModeInv
  BY <1>0 DEF Init, ModeInv, LoaderInit, CoreInit, IOAPICInit, Reset, kSetIOAPICRedirectionEntry,
         Where, Symmetric
<1>5. EOIInv
  BY DEF Init, EOIInv, CoreInit, None
<1>6. StackInv
  BY <1>0 DEF Init, StackInv, Application, CoreInit, LoaderInit, Where, Early, Ready, None
<1> QED
  BY <1>1, <1>2, <1>3, <1>4, <1>5, <1>6 DEF IInv

(***************************************************************************)
(* What one core does by itself, outside of a handler                      *)
(***************************************************************************)
LEMMA CoresAre == 0 \in Cores /\ Cores \subseteq 0..15 /\ IRQS \in Nat
BY LayoutAssumption, IOAPICAssumption

\* A core goes on to another label, with a new record of its own; what else may
\* change, and when.
LEMMA OwnStep ==
    ASSUME IInv, NEW c \in Cores, NEW r \in CoreRecord, NEW label \in Labels \ Handler,
           core' = [core EXCEPT ![c] = r], pc' = [pc EXCEPT ![c] = label],
           pc[c] \notin Handler, r.vector = None,
           r.requests = core[c].requests, r.service = core[c].service,
           r.stack \in {None, c},
           label \in Application => r.stack = c,
           label \in {"schedulerAP", "apicAP", "stiAP"} => r.tr = c,
           label \in {"apicAP", "stiAP"} => r.scheduler,
           r.flag => r.tr = c /\ r.scheduler,
           shared' \in SharedRecord, shared'.idAddress = shared.idAddress,
           shared'.symmetric = shared.symmetric,
           shared'.balancing => shared.balancing \/ shared.symmetric,
           pic' \in PICRecord, pic'.service = pic.service, shared.symmetric => pic'.masked,
           ~shared.symmetric => UNCHANGED <<redirection, route>>,
           c # 0 => shared.idAddress /\ UNCHANGED <<pic, flag>>,
           c = 0 => /\ label \notin Application
                    /\ shared.idAddress => label \in Late
                    /\ shared.symmetric => label \in Symmetric
                    /\ label \in {"table", "enable", "balance"} => shared.symmetric
                    /\ label = "mode" => pic'.masked
                    /\ label \in Early => flag' = 1
                    /\ label \in Early \cup {"halt"} \/ (r.stack = 0 /\ r.tr = 0 /\ r.scheduler)
    PROVE  IInv'
<1>0. core \in [Cores -> CoreRecord] /\ pc \in [Cores -> Labels] /\ 0 \in Cores
  BY CoresAre DEF IInv, TypeInv
<1>1. /\ core'[c] = r /\ \A d \in Cores \ {c} : core'[d] = core[d]
      /\ pc'[c] = label /\ \A d \in Cores \ {c} : pc'[d] = pc[d]
      /\ core' \in [Cores -> CoreRecord] /\ pc' \in [Cores -> Labels]
  BY <1>0
<1>2. TypeInv'
  BY <1>1 DEF IInv, TypeInv
<1>3. HandlerInv'
  BY <1>1 DEF IInv, HandlerInv
<1>4. Where(c)' = label /\ \A d \in Cores \ {c} : Where(d)' = Where(d)
  BY <1>1 DEF Where
<1>5. AloneInv'
  BY <1>0, <1>1, <1>4 DEF IInv, AloneInv
<1>6. ModeInv'
  BY <1>0, <1>1, <1>4 DEF IInv, ModeInv
<1>7. EOIInv'
  BY <1>0, <1>1 DEF IInv, EOIInv, Handler
<1>8. StackInv'
  BY <1>0, <1>1, <1>4 DEF IInv, StackInv, Ready, Application
<1> QED
  BY <1>2, <1>3, <1>5, <1>6, <1>7, <1>8 DEF IInv

\* What the invariant says of a core outside of its handler.
LEMMA AtLabel ==
    ASSUME IInv, NEW c \in Cores, pc[c] \notin Handler
    PROVE  /\ core[c] \in CoreRecord /\ core[c].vector = None /\ Where(c) = pc[c]
           /\ core = [core EXCEPT ![c] = core[c]]
           /\ c # 0 /\ pc[c] # "off" => shared.idAddress
           /\ shared \in SharedRecord /\ pic \in PICRecord
           /\ shared.symmetric => pic.masked /\ (c = 0 => pc[c] \in Symmetric)
           /\ c = 0 => (shared.idAddress => pc[c] \in Late)
           /\ core[c].stack \in {None, c}
           /\ core[c].flag => core[c].tr = c /\ core[c].scheduler
BY CoresAre DEF IInv, TypeInv, HandlerInv, AloneInv, ModeInv, StackInv, Where, Ready

\* A step of the loader or of the 32-bit kernel.
LEMMA EarlyStep ==
    ASSUME IInv, NEW c \in Cores, NEW label \in Labels \ Handler,
           pc[c] \in Early, pc' = [pc EXCEPT ![c] = label],
           UNCHANGED <<core, shared, pic, redirection, route, flag>>,
           label \notin Application,
           c = 0 => label \in Early \cup {"halt"}
    PROVE  IInv'
<1>1. pc[c] \notin Handler /\ pc[c] # "off" /\ pc[c] \notin Late
  BY DEF Early, Handler, Late, Symmetric
<1>2. c = 0 => flag' = 1
  BY <1>1, AtLabel DEF IInv, StackInv
<1>3. c = 0 => ~shared.idAddress /\ ~shared.symmetric
  BY <1>1, AtLabel DEF Late
<1>4. c = 0 => label \notin {"table", "enable", "balance", "mode"}
  BY DEF Early
<1>5. core' = [core EXCEPT ![c] = core[c]]
  BY <1>1, AtLabel
<1> QED
  BY <1>1, <1>2, <1>3, <1>4, <1>5, AtLabel, OwnStep DEF Application

LEMMA StutterStep ==
    ASSUME IInv, UNCHANGED <<core, pc, shared, pic, redirection, route, flag>>
    PROVE  IInv'
BY DEF IInv, TypeInv, HandlerInv, AloneInv, ModeInv, EOIInv, StackInv, Where, Ready

LEMMA LoaderStep == ASSUME IInv, LoaderNext, UNCHANGED later PROVE IInv'
<1> USE DEF Early, Labels, Handler, Application
<1>0. 0 \in Cores /\ UNCHANGED <<core, shared, pic, redirection, route>>
  BY CoresAre DEF later, ioapicVars
<1>1. CASE ResetDisk
  <2>1. PICK label \in {"halt", "read"} : Goto(0, label) /\ UNCHANGED flag
    BY <1>1 DEF ResetDisk, HandleDiskError, loaderVars
  <2>2. pc[0] = "reset"
    BY <1>1 DEF ResetDisk
  <2> QED
    BY <1>0, <2>1, <2>2, EarlyStep DEF Goto
<1>2. CASE ReadData
  <2>1. CASE HandleDiskError
    <3>1. pc[0] = "read" /\ pc' = [pc EXCEPT ![0] = "halt"] /\ UNCHANGED flag
      BY <1>2, <2>1 DEF ReadData, HandleDiskError, Goto, loaderVars
    <3> QED
      BY <1>0, <3>1, EarlyStep
  <2>2. CASE UNCHANGED <<machine, pc, flag>>
    BY <1>0, <2>2, StutterStep
  <2> QED
    BY <1>2, <2>1, <2>2 DEF ReadData
<1>3. CASE ReadEnd
  <2>1. pc[0] = "read" /\ pc' = [pc EXCEPT ![0] = "entry16"] /\ UNCHANGED flag
    BY <1>3 DEF ReadEnd, Goto, loaderVars
  <2> QED
    BY <1>0, <2>1, EarlyStep
<1> QED
  BY <1>1, <1>2, <1>3 DEF LoaderNext

LEMMA Kernel32Step ==
    ASSUME IInv, UNCHANGED later,
           BootstrapKernel32Next \/ \E c \in Cores : SharedKernel32Next(c)
    PROVE  IInv'
<1> USE DEF Early, Labels, Handler, Application
<1>0. 0 \in Cores /\ UNCHANGED <<core, shared, pic, redirection, route>>
  BY CoresAre DEF later, ioapicVars
<1>1. ASSUME NEW c \in Cores, EntryPoint(c) PROVE IInv'
  BY <1>0, <1>1, EarlyStep DEF EntryPoint, Goto, loaderVars
<1>2. ASSUME NEW c \in Cores, Main(c) PROVE IInv'
  BY <1>0, <1>2, EarlyStep DEF Main, Goto, loaderVars
<1>3. ASSUME NEW c \in Cores, kSwitchAndExecute64bitKernel(c) PROVE IInv'
  <2>1. PICK label \in {"halt", "entry64"} : Goto(c, label)
    BY <1>3 DEF kSwitchAndExecute64bitKernel
  <2>2. pc[c] = "switch" /\ UNCHANGED flag
    BY <1>3 DEF kSwitchAndExecute64bitKernel, loaderVars
  <2> QED
    BY <1>0, <2>1, <2>2, EarlyStep DEF Goto
<1>4. CASE kIsMemoryEnough
  <2>1. PICK label \in {"halt", "area"} : Goto(0, label)
    BY <1>4 DEF kIsMemoryEnough
  <2>2. pc[0] = "memory" /\ UNCHANGED flag
    BY <1>4 DEF kIsMemoryEnough, loaderVars
  <2> QED
    BY <1>0, <2>1, <2>2, EarlyStep DEF Goto
<1>5. CASE kInitializeKernel64Area
  <2>1. PICK label \in {"halt", "tables"} : Goto(0, label)
    BY <1>5 DEF kInitializeKernel64Area
  <2>2. pc[0] = "area" /\ UNCHANGED flag
    BY <1>5 DEF kInitializeKernel64Area, loaderVars
  <2> QED
    BY <1>0, <2>1, <2>2, EarlyStep DEF Goto
<1>6. CASE kInitializePageTables
  <2>1. pc[0] = "tables" /\ pc' = [pc EXCEPT ![0] = "cpuid"] /\ UNCHANGED flag
    BY <1>6 DEF kInitializePageTables, Goto, loaderVars
  <2> QED
    BY <1>0, <2>1, EarlyStep
<1>7. CASE kReadCPUID
  <2>1. PICK label \in {"halt", "copy"} : Goto(0, label)
    BY <1>7 DEF kReadCPUID
  <2>2. pc[0] = "cpuid" /\ UNCHANGED flag
    BY <1>7 DEF kReadCPUID, loaderVars
  <2> QED
    BY <1>0, <2>1, <2>2, EarlyStep DEF Goto
<1>8. CASE kCopyKernel64ImageTo2Mbyte
  <2>1. pc[0] = "copy" /\ pc' = [pc EXCEPT ![0] = "switch"] /\ UNCHANGED flag
    BY <1>8 DEF kCopyKernel64ImageTo2Mbyte, Goto, loaderVars
  <2> QED
    BY <1>0, <2>1, EarlyStep
<1> QED
  BY <1>1, <1>2, <1>3, <1>4, <1>5, <1>6, <1>7, <1>8
     DEF SharedKernel32Next, BootstrapKernel32Next

(***************************************************************************)
(* The bootstrap processor                                                 *)
(***************************************************************************)
\* The bootstrap processor at a label of Main_64 or later.
LEMMA AtMain ==
    ASSUME IInv, pc[0] \notin Handler, pc[0] \notin Early \cup {"halt"}
    PROVE  /\ core[0] \in CoreRecord /\ core[0].vector = None
           /\ core[0].stack = 0 /\ core[0].tr = 0 /\ core[0].scheduler
BY CoresAre, AtLabel DEF IInv, StackInv, Ready

\* It goes on between two of those labels, with its interrupt flag and its local
\* APIC on or off.
LEMMA MainStep ==
    ASSUME IInv, NEW label \in Labels \ (Handler \cup Early), NEW f \in BOOLEAN, NEW a \in BOOLEAN,
           pc[0] \notin Handler, pc[0] \notin Early \cup {"halt"},
           core' = [core EXCEPT ![0] = [core[0] EXCEPT !.flag = f, !.apic = a]],
           pc' = [pc EXCEPT ![0] = label],
           label \notin Application,
           shared' \in SharedRecord, shared'.idAddress = shared.idAddress,
           shared'.symmetric = shared.symmetric,
           shared'.balancing => shared.balancing \/ shared.symmetric,
           pic' \in PICRecord, pic'.service = pic.service, shared.symmetric => pic'.masked,
           ~shared.symmetric => UNCHANGED <<redirection, route>>,
           shared.idAddress => label \in Late, shared.symmetric => label \in Symmetric,
           label \in {"table", "enable", "balance"} => shared.symmetric,
           label = "mode" => pic'.masked
    PROVE  IInv'
<1> DEFINE r == [core[0] EXCEPT !.flag = f, !.apic = a]
<1>0. 0 \in Cores /\ core[0] \in CoreRecord
  BY CoresAre, AtMain
<1>1. r \in CoreRecord
  BY <1>0 DEF CoreRecord
<1>2. /\ r.flag = f /\ r.vector = core[0].vector /\ r.requests = core[0].requests
      /\ r.service = core[0].service /\ r.stack = core[0].stack /\ r.tr = core[0].tr
      /\ r.scheduler = core[0].scheduler
  BY <1>0 DEF CoreRecord
<1> HIDE DEF r
<1> QED
  BY <1>0, <1>1, <1>2, AtMain, OwnStep DEF r

\* A core's record, written as one that changes.
LEMMA AsItIs ==
    ASSUME IInv
    PROVE  /\ core[0].flag \in BOOLEAN /\ core[0].apic \in BOOLEAN
           /\ core = [core EXCEPT ![0] = [core[0] EXCEPT !.flag = core[0].flag,
                                                        !.apic = core[0].apic]]
<1>1. core \in [Cores -> CoreRecord] /\ core[0] \in CoreRecord
  BY CoresAre DEF IInv, TypeInv
<1>2. core[0] = [core[0] EXCEPT !.flag = core[0].flag, !.apic = core[0].apic]
  BY <1>1 DEF CoreRecord
<1> QED
  BY <1>1, <1>2 DEF CoreRecord

LEMMA Main64Step == ASSUME IInv, Main_64 PROVE IInv'
<1> DEFINE r == [core[0] EXCEPT !.stack = 0, !.tr = 0, !.scheduler = TRUE]
<1>0. 0 \in Cores /\ pc[0] = "entry64" /\ core' = [core EXCEPT ![0] = r]
      /\ pc' = [pc EXCEPT ![0] = "devices"] /\ UNCHANGED <<shared, pic, redirection, route>>
  BY CoresAre DEF Main_64, At, Goto, ioapicVars
<1>1. pc[0] \notin Handler /\ "devices" \in Labels \ Handler /\ "devices" \notin Early \cup Application
  BY <1>0 DEF Handler, Labels, Early, Application
<1>2. core[0] \in CoreRecord /\ core[0].vector = None /\ ~shared.idAddress /\ ~shared.symmetric
      /\ shared \in SharedRecord /\ pic \in PICRecord
  BY <1>0, <1>1, AtLabel DEF Late, Symmetric
<1>3. r \in CoreRecord
  BY <1>0, <1>2 DEF CoreRecord
<1>4. r.flag = core[0].flag /\ r.vector = None /\ r.requests = core[0].requests
      /\ r.service = core[0].service /\ r.stack = 0 /\ r.tr = 0 /\ r.scheduler
  BY <1>2 DEF CoreRecord
<1> HIDE DEF r
<1> QED
  BY <1>0, <1>1, <1>2, <1>3, <1>4, OwnStep

\* A record of shared variables, of which no invariant speaks of what changes.
LEMMA SharedKeeps ==
    ASSUME shared \in SharedRecord, NEW x \in BOOLEAN, NEW y \in BOOLEAN, NEW n \in Nat
    PROVE  /\ [shared EXCEPT !.tick = x] \in SharedRecord
           /\ [shared EXCEPT !.saved = x, !.idAddress = TRUE] \in SharedRecord
           /\ [shared EXCEPT !.saved = x] \in SharedRecord
           /\ [shared EXCEPT !.symmetric = TRUE] \in SharedRecord
           /\ [shared EXCEPT !.balancing = TRUE, !.taskBalancing = TRUE] \in SharedRecord
           /\ [shared EXCEPT !.awake = n] \in SharedRecord
BY DEF SharedRecord

LEMMA UpToAPICStep ==
    ASSUME IInv, Devices \/ StartUp \/ kEnableSoftwareLocalAPIC
    PROVE  IInv'
<1> USE DEF Early, Labels, Handler, Late, Symmetric, Application
<1>0. 0 \in Cores
  BY CoresAre
<1>1. CASE Devices
  <2>1. pc[0] = "devices" /\ UNCHANGED <<shared, redirection, route, flag>>
    BY <1>1 DEF Devices, At, earlier, loaderVars, ioapicVars
  <2>2. core[0] \in CoreRecord /\ shared \in SharedRecord /\ pic \in PICRecord
        /\ ~shared.symmetric /\ ~shared.idAddress
    BY <1>0, <2>1, AtLabel
  <2>3. CASE machine.keyboard
    <3>1. core' = [core EXCEPT ![0] = [core[0] EXCEPT !.flag = TRUE, !.apic = core[0].apic]]
          /\ pc' = [pc EXCEPT ![0] = "analysis"] /\ core[0].apic \in BOOLEAN
      BY <1>1, <2>2, <2>3 DEF Devices, Goto, CoreRecord
    <3>2. pic' \in PICRecord /\ pic'.service = pic.service
      BY <1>1, <2>2, <2>3 DEF Devices, PICRecord
    <3> QED
      BY <2>1, <2>2, <3>1, <3>2, MainStep
  <2>4. CASE ~machine.keyboard
    <3>1. UNCHANGED <<core, pic>> /\ pc' = [pc EXCEPT ![0] = "halt"]
      BY <1>1, <2>4 DEF Devices, Goto
    <3> QED
      BY <2>1, <2>2, <3>1, AsItIs, MainStep
  <2> QED
    BY <2>3, <2>4
<1>2. CASE StartUp
  <2>1. pc[0] = "analysis" /\ UNCHANGED <<core, pic, shared, redirection, route, flag>>
    BY <1>2 DEF StartUp, At, earlier, loaderVars
  <2>2. core[0] \in CoreRecord /\ shared \in SharedRecord /\ pic \in PICRecord
        /\ ~shared.symmetric /\ ~shared.idAddress
    BY <1>0, <2>1, AtLabel
  <2>3. PICK label \in {"apic", "idle"} : pc' = [pc EXCEPT ![0] = label]
    BY <1>2 DEF StartUp, Goto
  <2> QED
    BY <2>1, <2>2, <2>3, AsItIs, MainStep
<1>3. CASE kEnableSoftwareLocalAPIC
  <2>1. pc[0] = "apic" /\ UNCHANGED <<pic, shared, redirection, route>>
    BY <1>3 DEF kEnableSoftwareLocalAPIC, Step, At, ioapicVars
  <2>2. core[0] \in CoreRecord /\ shared \in SharedRecord /\ pic \in PICRecord
        /\ ~shared.symmetric /\ ~shared.idAddress
    BY <1>0, <2>1, AtLabel
  <2>3. core' = [core EXCEPT ![0] = [core[0] EXCEPT !.flag = core[0].flag, !.apic = TRUE]]
        /\ pc' = [pc EXCEPT ![0] = "wakeup"] /\ core[0].flag \in BOOLEAN
    BY <1>3, <2>2 DEF kEnableSoftwareLocalAPIC, Step, Goto, CoreRecord
  <2> QED
    BY <2>1, <2>2, <2>3, MainStep
<1> QED
  BY <1>1, <1>2, <1>3

\* A core that turns interrupts off changes nothing else.
LEMMA FlagOff ==
    ASSUME NEW q \in CoreRecord
    PROVE  /\ [q EXCEPT !.flag = FALSE] \in CoreRecord
           /\ [q EXCEPT !.flag = FALSE].flag = FALSE
           /\ [q EXCEPT !.flag = FALSE].vector = q.vector
           /\ [q EXCEPT !.flag = FALSE].requests = q.requests
           /\ [q EXCEPT !.flag = FALSE].service = q.service
           /\ [q EXCEPT !.flag = FALSE].stack = q.stack
           /\ [q EXCEPT !.flag = FALSE].tr = q.tr
           /\ [q EXCEPT !.flag = FALSE].scheduler = q.scheduler
BY DEF CoreRecord

\* INIT: the others begin to wait, who were all off.
LEMMA SendInitStep == ASSUME IInv, SendInit PROVE IInv'
<1> USE DEF Early, Labels, Handler, Late, Symmetric, Application
<1> DEFINE r == [core[0] EXCEPT !.flag = FALSE]
<1>0. 0 \in Cores /\ pc[0] = "wakeup" /\ UNCHANGED <<pic, redirection, route, flag>>
      /\ core' = [core EXCEPT ![0] = r]
      /\ shared' = [shared EXCEPT !.saved = core[0].flag, !.idAddress = TRUE]
      /\ pc' = [c \in Cores |-> IF c = 0 THEN "sent0"
                                ELSE IF c \in machine.responding THEN "waiting" ELSE pc[c]]
  BY CoresAre DEF SendInit, At, earlier, loaderVars, ioapicVars
<1>1. core[0] \in CoreRecord /\ core[0].vector = None /\ ~shared.idAddress /\ ~shared.symmetric
      /\ shared \in SharedRecord /\ pic \in PICRecord
      /\ core[0].stack = 0 /\ core[0].tr = 0 /\ core[0].scheduler
      /\ core \in [Cores -> CoreRecord] /\ pc \in [Cores -> Labels]
  BY <1>0, AtLabel, AtMain DEF IInv, TypeInv
<1>2. r \in CoreRecord /\ r.flag = FALSE /\ r.vector = None /\ r.requests = core[0].requests
      /\ r.service = core[0].service /\ r.stack = 0 /\ r.tr = 0 /\ r.scheduler
  BY <1>1, FlagOff
<1>3. shared' \in SharedRecord /\ shared'.idAddress /\ ~shared'.symmetric
      /\ shared'.balancing = shared.balancing
  BY <1>0, <1>1 DEF SharedRecord, CoreRecord
<1>4. \A c \in Cores \ {0} : pc[c] = "off" /\ core[c] = CoreInit
  BY <1>1 DEF IInv, AloneInv
<1> HIDE DEF r
<1>5. /\ core'[0] = r /\ pc'[0] = "sent0"
      /\ \A c \in Cores \ {0} : core'[c] = CoreInit /\ pc'[c] \in {"off", "waiting"}
  BY <1>0, <1>1, <1>4
<1>6. Where(0)' = "sent0" /\ \A c \in Cores \ {0} : Where(c)' \in {"off", "waiting"}
  BY <1>2, <1>5 DEF Where, CoreInit
<1>7. TypeInv'
  BY <1>0, <1>1, <1>2, <1>3 DEF TypeInv
<1>8. HandlerInv'
  BY <1>2, <1>5 DEF HandlerInv, CoreInit
<1>9. AloneInv'
  BY <1>3, <1>6 DEF AloneInv
<1>10. ModeInv'
  BY <1>0, <1>1, <1>2, <1>3, <1>4, <1>5, <1>6 DEF ModeInv, IInv
<1>11. EOIInv'
  BY <1>0, <1>2, <1>3, <1>5 DEF EOIInv, IInv, CoreInit
<1>12. StackInv'
  BY <1>0, <1>2, <1>5, <1>6 DEF StackInv, Ready, CoreInit
<1> QED
  BY <1>7, <1>8, <1>9, <1>10, <1>11, <1>12 DEF IInv

\* STARTUP: those who wait begin.
LEMMA SendStartUpStep ==
    ASSUME IInv, NEW from, NEW to, SendStartUp(from, to),
           from \in {"send1", "send2"}, to \in {"sent1", "sent2"}
    PROVE  IInv'
<1> USE DEF Early, Labels, Handler, Late, Symmetric, Application
<1>0. 0 \in Cores /\ pc[0] = from /\ UNCHANGED <<core, shared, pic, redirection, route, flag>>
      /\ pc' = [c \in Cores |-> IF c = 0 THEN to
                                ELSE IF pc[c] = "waiting" THEN "entry16" ELSE pc[c]]
  BY CoresAre DEF SendStartUp, At, earlier, loaderVars, ioapicVars
<1>1. core[0].vector = None /\ ~shared.symmetric /\ core[0].stack = 0 /\ Ready(0)
      /\ shared \in SharedRecord /\ pic \in PICRecord
      /\ core \in [Cores -> CoreRecord] /\ pc \in [Cores -> Labels]
  BY <1>0, AtLabel, AtMain DEF IInv, TypeInv, Ready
<1>2. Where(0)' = to /\ \A c \in Cores \ {0} :
        Where(c)' = Where(c) \/ (Where(c) = "waiting" /\ Where(c)' = "entry16")
  BY <1>0, <1>1 DEF Where
<1>3. \A c \in Cores : (pc'[c] \in Handler <=> pc[c] \in Handler) /\ (pc'[c] = "eoi" <=> pc[c] = "eoi")
  BY <1>0
<1>4. TypeInv'
  BY <1>0, <1>1 DEF TypeInv
<1>5. HandlerInv'
  BY <1>0, <1>3 DEF HandlerInv, IInv
<1>6. AloneInv'
  BY <1>0, <1>2 DEF AloneInv, IInv, Where
<1>7. ModeInv'
  BY <1>0, <1>1, <1>2 DEF ModeInv, IInv
<1>8. EOIInv'
  BY <1>0, <1>3 DEF EOIInv, IInv
<1>9. StackInv'
  BY <1>0, <1>1, <1>2 DEF StackInv, Ready, IInv
<1> QED
  BY <1>4, <1>5, <1>6, <1>7, <1>8, <1>9 DEF IInv

\* The kernel may give the start-up up, or goes on.
LEMMA CheckPendingStep ==
    ASSUME IInv, NEW from, NEW to, CheckPending(from, to),
           from \in {"sent0", "sent1", "sent2"}, to \in {"send1", "send2", "restore"}
    PROVE  IInv'
<1> USE DEF Early, Labels, Handler, Late, Symmetric, Application
<1>0. 0 \in Cores /\ pc[0] = from /\ UNCHANGED <<pic, shared, redirection, route>>
  BY CoresAre DEF CheckPending, At, ioapicVars
<1>1. core[0] \in CoreRecord /\ shared \in SharedRecord /\ pic \in PICRecord /\ ~shared.symmetric
  BY <1>0, AtLabel
<1>2. core[0].apic \in BOOLEAN /\ shared.saved \in BOOLEAN
  BY <1>1 DEF CoreRecord, SharedRecord
<1>3. CASE /\ Goto(0, "idle") /\ core' = [core EXCEPT ![0].flag = shared.saved]
  <2>1. core' = [core EXCEPT ![0] = [core[0] EXCEPT !.flag = shared.saved, !.apic = core[0].apic]]
        /\ pc' = [pc EXCEPT ![0] = "idle"]
    BY <1>1, <1>3 DEF Goto, CoreRecord
  <2> QED
    BY <1>0, <1>1, <1>2, <2>1, MainStep
<1>4. CASE Goto(0, to) /\ UNCHANGED core
  BY <1>0, <1>1, <1>4, AsItIs, MainStep, ZenonT(60) DEF Goto
<1> QED
  BY <1>3, <1>4 DEF CheckPending

\* The flag is restored, processors are awaited, the PIC is cut off.
LEMMA UpToModeStep ==
    ASSUME IInv, RestoreAfterWakeUp \/ AwaitProcessors \/ MaskPIC
    PROVE  IInv'
<1> USE DEF Early, Labels, Handler, Late, Symmetric, Application
<1>0. 0 \in Cores
  BY CoresAre
<1>1. CASE RestoreAfterWakeUp
  <2>1. pc[0] = "restore" /\ UNCHANGED <<pic, shared, redirection, route>>
    BY <1>1 DEF RestoreAfterWakeUp, Step, At, ioapicVars
  <2>2. core[0] \in CoreRecord /\ shared \in SharedRecord /\ pic \in PICRecord /\ ~shared.symmetric
    BY <1>0, <2>1, AtLabel
  <2>3. core' = [core EXCEPT ![0] = [core[0] EXCEPT !.flag = shared.saved, !.apic = core[0].apic]]
        /\ pc' = [pc EXCEPT ![0] = "wait"] /\ core[0].apic \in BOOLEAN /\ shared.saved \in BOOLEAN
    BY <1>1, <2>2 DEF RestoreAfterWakeUp, Step, Goto, CoreRecord, SharedRecord
  <2> QED
    BY <2>1, <2>2, <2>3, MainStep
<1>2. CASE AwaitProcessors
  <2>1. pc[0] \in {"wait", "sleep"} /\ UNCHANGED <<core, pic, redirection, route>>
    BY <1>2 DEF AwaitProcessors, At, ioapicVars
  <2>2. core[0] \in CoreRecord /\ shared \in SharedRecord /\ pic \in PICRecord /\ ~shared.symmetric
    BY <1>0, <2>1, AtLabel
  <2>3. PICK label \in {"wait", "sleep", "change"} : pc' = [pc EXCEPT ![0] = label]
    BY <1>2 DEF AwaitProcessors, Goto
  <2>4. shared' = shared \/ shared' = [shared EXCEPT !.tick = FALSE]
    BY <1>2 DEF AwaitProcessors
  <2>5. shared' \in SharedRecord /\ shared'.idAddress = shared.idAddress
        /\ shared'.symmetric = shared.symmetric /\ shared'.balancing = shared.balancing
    BY <2>2, <2>4 DEF SharedRecord
  <2> QED
    BY <2>1, <2>2, <2>3, <2>5, AsItIs, MainStep, ZenonT(60)
<1>3. CASE MaskPIC
  <2>1. pc[0] = "change" /\ UNCHANGED <<redirection, route>>
    BY <1>3 DEF MaskPIC, Step, At, ioapicVars
  <2>2. core[0] \in CoreRecord /\ shared \in SharedRecord /\ pic \in PICRecord /\ ~shared.symmetric
    BY <1>0, <2>1, AtLabel
  <2>3. core' = [core EXCEPT ![0] = [core[0] EXCEPT !.flag = FALSE, !.apic = TRUE]]
        /\ pc' = [pc EXCEPT ![0] = "mode"]
    <3>1. [core[0] EXCEPT !.apic = TRUE, !.flag = FALSE]
            = [core[0] EXCEPT !.flag = FALSE, !.apic = TRUE]
      BY <2>2 DEF CoreRecord
    <3> QED
      BY <1>3, <3>1, ZenonT(60) DEF MaskPIC, Step, Goto
  <2>4. shared' \in SharedRecord /\ shared'.idAddress = shared.idAddress
        /\ shared'.symmetric = shared.symmetric /\ shared'.balancing = shared.balancing
    BY <1>3, <2>2 DEF MaskPIC, SharedRecord, CoreRecord
  <2>5. pic' \in PICRecord /\ pic'.masked /\ pic'.service = pic.service
    BY <1>3, <2>2 DEF MaskPIC, PICRecord
  <2> QED
    BY <2>1, <2>2, <2>3, <2>4, <2>5, MainStep
<1> QED
  BY <1>1, <1>2, <1>3

\* The mode changes when neither controller has anything in service: the PIC's
\* last interrupt was handled on this core, and is over.
LEMMA SymmetricStep == ASSUME IInv, kSetSymmetricIOMode PROVE IInv'
<1> USE DEF Early, Labels, Handler, Late, Symmetric, Application
<1>0. 0 \in Cores /\ pc[0] = "mode" /\ pc' = [pc EXCEPT ![0] = "table"]
      /\ UNCHANGED <<core, pic, redirection, route, flag>>
      /\ shared' = [shared EXCEPT !.symmetric = TRUE]
  BY CoresAre DEF kSetSymmetricIOMode, Step, At, Goto, ioapicVars, earlier, loaderVars
<1>1. core[0].vector = None /\ ~shared.symmetric /\ shared \in SharedRecord /\ pic \in PICRecord
      /\ core[0].stack = 0 /\ Ready(0) /\ Where(0) = "mode"
      /\ core \in [Cores -> CoreRecord] /\ pc \in [Cores -> Labels]
  BY <1>0, AtLabel, AtMain DEF IInv, TypeInv, Ready
<1>2. shared' \in SharedRecord /\ shared'.symmetric /\ shared'.idAddress = shared.idAddress
      /\ shared'.balancing = shared.balancing
  BY <1>0, <1>1 DEF SharedRecord
<1>3. pc'[0] = "table" /\ \A c \in Cores \ {0} : pc'[c] = pc[c]
  BY <1>0, <1>1
<1>4. Where(0)' = "table" /\ \A c \in Cores \ {0} : Where(c)' = Where(c)
  BY <1>0, <1>1, <1>3 DEF Where
<1>5. TypeInv'
  BY <1>0, <1>1, <1>2 DEF TypeInv
<1>6. HandlerInv'
  BY <1>0, <1>1, <1>3 DEF HandlerInv, IInv
<1>7. AloneInv'
  BY <1>0, <1>2, <1>3, <1>4 DEF AloneInv, IInv
<1>8. ModeInv'
  BY <1>0, <1>1, <1>2, <1>4 DEF ModeInv, IInv
<1>9. EOIInv'
  BY <1>0, <1>1, <1>2, <1>3 DEF EOIInv, IInv
<1>10. StackInv'
  BY <1>0, <1>1, <1>4 DEF StackInv, Ready, IInv
<1> QED
  BY <1>5, <1>6, <1>7, <1>8, <1>9, <1>10 DEF IInv

\* The I/O APIC is programmed, interrupts come on again and are balanced.
LEMMA UpToIdleStep ==
    ASSUME IInv, InitializeIOAPIC \/ RestoreAfterChange \/ StartBalancing
    PROVE  IInv'
<1> USE DEF Early, Labels, Handler, Late, Symmetric, Application
<1>0. 0 \in Cores
  BY CoresAre
<1>1. CASE InitializeIOAPIC
  <2>1. pc[0] = "table" /\ pc' = [pc EXCEPT ![0] = "enable"] /\ UNCHANGED <<core, pic, shared>>
    BY <1>1 DEF InitializeIOAPIC, Step, At, Goto
  <2>2. shared \in SharedRecord /\ pic \in PICRecord /\ shared.symmetric /\ pic.masked
    BY <1>0, <2>1, AtLabel DEF IInv, ModeInv
  <2> QED
    BY <2>1, <2>2, AsItIs, MainStep
<1>2. CASE RestoreAfterChange
  <2>1. pc[0] = "enable" /\ UNCHANGED <<pic, shared, redirection, route>>
    BY <1>2 DEF RestoreAfterChange, Step, At, ioapicVars
  <2>2. core[0] \in CoreRecord /\ shared \in SharedRecord /\ pic \in PICRecord
        /\ shared.symmetric /\ pic.masked
    BY <1>0, <2>1, AtLabel DEF IInv, ModeInv
  <2>3. core' = [core EXCEPT ![0] = [core[0] EXCEPT !.flag = shared.saved, !.apic = core[0].apic]]
        /\ pc' = [pc EXCEPT ![0] = "balance"] /\ core[0].apic \in BOOLEAN /\ shared.saved \in BOOLEAN
    BY <1>2, <2>2 DEF RestoreAfterChange, Step, Goto, CoreRecord, SharedRecord
  <2> QED
    BY <2>1, <2>2, <2>3, MainStep
<1>3. CASE StartBalancing
  <2>1. pc[0] = "balance" /\ pc' = [pc EXCEPT ![0] = "idle"]
        /\ UNCHANGED <<core, pic, redirection, route>>
    BY <1>3 DEF StartBalancing, Step, At, Goto, ioapicVars
  <2>2. shared \in SharedRecord /\ pic \in PICRecord /\ shared.symmetric /\ pic.masked
    BY <1>0, <2>1, AtLabel DEF IInv, ModeInv
  <2>3. shared' \in SharedRecord /\ shared'.idAddress = shared.idAddress
        /\ shared'.symmetric = shared.symmetric
    BY <1>3, <2>2 DEF StartBalancing, SharedRecord
  <2> QED
    BY <2>1, <2>2, <2>3, AsItIs, MainStep
<1> QED
  BY <1>1, <1>2, <1>3

LEMMA BootstrapStep == ASSUME IInv, BootstrapProcessor PROVE IInv'
BY Main64Step, UpToAPICStep, SendInitStep, SendStartUpStep, CheckPendingStep, UpToModeStep,
   SymmetricStep, UpToIdleStep DEF BootstrapProcessor

(***************************************************************************)
(* The application processors                                              *)
(***************************************************************************)
\* A core at a label of EntryPoint.s or MainForAP is not the first one.
LEMMA AtApplication ==
    ASSUME IInv, NEW c \in Cores, pc[c] \in Application
    PROVE  /\ c # 0 /\ pc[c] \notin Handler /\ shared.idAddress /\ APICID(c) = c
           /\ core[c] \in CoreRecord /\ core[c].vector = None /\ core[c].stack = c
           /\ shared \in SharedRecord /\ pic \in PICRecord /\ (shared.symmetric => pic.masked)
           /\ core[c].flag => core[c].tr = c /\ core[c].scheduler
           /\ pc[c] \in {"schedulerAP", "apicAP", "stiAP"} => core[c].tr = c
           /\ pc[c] \in {"apicAP", "stiAP"} => core[c].scheduler
<1>1. pc[c] \notin Handler /\ pc[c] # "off"
  BY DEF Application, Handler
<1>2. Where(c) = pc[c] /\ c # 0
  BY <1>1, AtLabel DEF IInv, StackInv
<1> QED
  BY <1>1, <1>2, AtLabel DEF IInv, StackInv, APICID

\* It goes on; its stack, what it has in service and its requests are the same.
LEMMA ApplicationGoesOn ==
    ASSUME IInv, NEW c \in Cores, pc[c] \in Application,
           NEW label \in Labels \ Handler, NEW r \in CoreRecord,
           core' = [core EXCEPT ![c] = r], pc' = [pc EXCEPT ![c] = label],
           UNCHANGED <<pic, redirection, route, flag>>,
           r.vector = None, r.requests = core[c].requests, r.service = core[c].service,
           r.stack = c,
           label \in {"schedulerAP", "apicAP", "stiAP"} => r.tr = c,
           label \in {"apicAP", "stiAP"} => r.scheduler,
           r.flag => r.tr = c /\ r.scheduler,
           shared' \in SharedRecord, shared'.idAddress = shared.idAddress,
           shared'.symmetric = shared.symmetric, shared'.balancing = shared.balancing
    PROVE  IInv'
BY AtApplication, OwnStep, ZenonT(60)

LEMMA ApplicationStep == ASSUME IInv, NEW c \in Cores, ApplicationProcessor(c) PROVE IInv'
<1> USE DEF Application
<1>1. CASE MoveStack(c)
  <2> DEFINE r == [core[c] EXCEPT !.stack = c]
  <2>1. pc[c] = "entry64" /\ flag # 1 /\ pc' = [pc EXCEPT ![c] = "count"]
        /\ UNCHANGED <<pic, shared, redirection, route, flag>>
    BY <1>1 DEF MoveStack, At, Goto, earlier, loaderVars, ioapicVars
  <2>2. pc[c] \notin Handler /\ pc[c] # "off" /\ pc[c] \in Early /\ "count" \in Labels \ Handler
    BY <2>1 DEF Handler, Labels, Early
  <2>3. c # 0
    BY <2>1, <2>2, AtLabel DEF IInv, StackInv
  <2>4. core[c] \in CoreRecord /\ core[c].vector = None /\ shared.idAddress
        /\ shared \in SharedRecord /\ pic \in PICRecord /\ (shared.symmetric => pic.masked)
        /\ (core[c].flag => core[c].tr = c /\ core[c].scheduler)
    BY <2>2, <2>3, AtLabel
  <2>5. core' = [core EXCEPT ![c] = r]
    BY <1>1, <2>4 DEF MoveStack
  <2>6. r \in CoreRecord
    BY <2>4 DEF CoreRecord
  <2>7. r.flag = core[c].flag /\ r.vector = None /\ r.requests = core[c].requests
        /\ r.service = core[c].service /\ r.stack = c /\ r.tr = core[c].tr
        /\ r.scheduler = core[c].scheduler
    BY <2>4 DEF CoreRecord
  <2> HIDE DEF r
  <2> QED
    BY <2>1, <2>2, <2>3, <2>4, <2>5, <2>6, <2>7, OwnStep
<1>2. CASE CountAwake(c)
  <2>1. pc[c] = "count" /\ pc' = [pc EXCEPT ![c] = "mainAP"]
        /\ UNCHANGED <<core, pic, redirection, route, flag>>
    BY <1>2 DEF CountAwake, Step, At, Goto, earlier, loaderVars, ioapicVars
  <2>2. "mainAP" \in Labels \ Handler /\ pc[c] \notin Handler
    BY <2>1 DEF Labels, Handler
  <2>3. shared' \in SharedRecord /\ shared'.idAddress = shared.idAddress
        /\ shared'.symmetric = shared.symmetric /\ shared'.balancing = shared.balancing
    BY <1>2, <2>1, AtApplication DEF CountAwake, SharedRecord
  <2>4. core' = [core EXCEPT ![c] = core[c]]
    BY <2>1, <2>2, AtLabel
  <2> QED
    BY <2>1, <2>2, <2>3, <2>4, AtApplication, ApplicationGoesOn, ZenonT(60)
<1>3. CASE LoadTables(c)
  <2> DEFINE r == [core[c] EXCEPT !.tr = c]
  <2>1. pc[c] = "mainAP" /\ pc' = [pc EXCEPT ![c] = "schedulerAP"]
        /\ UNCHANGED <<shared, pic, redirection, route, flag>>
    BY <1>3 DEF LoadTables, Step, At, Goto, earlier, loaderVars, ioapicVars
  <2>2. core[c] \in CoreRecord /\ APICID(c) = c /\ "schedulerAP" \in Labels \ Handler
    BY <2>1, AtApplication DEF Labels, Handler
  <2>3. core' = [core EXCEPT ![c] = r] /\ r \in CoreRecord
    BY <1>3, <2>2 DEF LoadTables, CoreRecord
  <2>4. r.vector = core[c].vector /\ r.requests = core[c].requests /\ r.flag = core[c].flag
        /\ r.service = core[c].service /\ r.stack = core[c].stack /\ r.tr = c
        /\ r.scheduler = core[c].scheduler
    BY <2>2 DEF CoreRecord
  <2> HIDE DEF r
  <2> QED
    BY <2>1, <2>2, <2>3, <2>4, AtApplication, ApplicationGoesOn, ZenonT(60)
<1>4. CASE kInitializeScheduler(c)
  <2> DEFINE r == [core[c] EXCEPT !.scheduler = TRUE]
  <2>1. pc[c] = "schedulerAP" /\ pc' = [pc EXCEPT ![c] = "apicAP"]
        /\ UNCHANGED <<shared, pic, redirection, route, flag>>
    BY <1>4 DEF kInitializeScheduler, Step, At, Goto, earlier, loaderVars, ioapicVars
  <2>2. core[c] \in CoreRecord /\ APICID(c) = c /\ "apicAP" \in Labels \ Handler
    BY <2>1, AtApplication DEF Labels, Handler
  <2>3. core' = [core EXCEPT ![c] = r] /\ r \in CoreRecord
    BY <1>4, <2>2 DEF kInitializeScheduler, CoreRecord
  <2>4. r.vector = core[c].vector /\ r.requests = core[c].requests /\ r.flag = core[c].flag
        /\ r.service = core[c].service /\ r.stack = core[c].stack /\ r.tr = core[c].tr
        /\ r.scheduler
    BY <2>2 DEF CoreRecord
  <2>5. core[c].vector = None /\ core[c].stack = c /\ core[c].tr = c
        /\ (pc[c] # "schedulerAP" => core[c].scheduler) /\ shared' \in SharedRecord
    BY <2>1, AtApplication
  <2> HIDE DEF r
  <2> QED
    BY <2>1, <2>2, <2>3, <2>4, <2>5, ApplicationGoesOn, ZenonT(60)
<1>5. CASE EnableAPIC(c)
  <2> DEFINE r == [core[c] EXCEPT !.apic = TRUE]
  <2>1. pc[c] = "apicAP" /\ pc' = [pc EXCEPT ![c] = "stiAP"]
        /\ UNCHANGED <<shared, pic, redirection, route, flag>>
    BY <1>5 DEF EnableAPIC, Step, At, Goto, earlier, loaderVars, ioapicVars
  <2>2. core[c] \in CoreRecord /\ "stiAP" \in Labels \ Handler
    BY <2>1, AtApplication DEF Labels, Handler
  <2>3. core' = [core EXCEPT ![c] = r] /\ r \in CoreRecord
    BY <1>5, <2>2 DEF EnableAPIC, CoreRecord
  <2>4. r.vector = core[c].vector /\ r.requests = core[c].requests /\ r.flag = core[c].flag
        /\ r.service = core[c].service /\ r.stack = core[c].stack /\ r.tr = core[c].tr
        /\ r.scheduler = core[c].scheduler
    BY <2>2 DEF CoreRecord
  <2>5. core[c].vector = None /\ core[c].stack = c /\ core[c].tr = c
        /\ (pc[c] # "schedulerAP" => core[c].scheduler) /\ shared' \in SharedRecord
    BY <2>1, AtApplication
  <2> HIDE DEF r
  <2> QED
    BY <2>1, <2>2, <2>3, <2>4, <2>5, ApplicationGoesOn, ZenonT(60)
<1>6. CASE kEnableInterrupt(c)
  <2> DEFINE r == [core[c] EXCEPT !.flag = TRUE]
  <2>1. pc[c] = "stiAP" /\ pc' = [pc EXCEPT ![c] = "idle"]
        /\ UNCHANGED <<shared, pic, redirection, route, flag>>
    BY <1>6 DEF kEnableInterrupt, Step, At, Goto, earlier, loaderVars, ioapicVars
  <2>2. core[c] \in CoreRecord /\ "idle" \in Labels \ Handler
    BY <2>1, AtApplication DEF Labels, Handler
  <2>3. core' = [core EXCEPT ![c] = r] /\ r \in CoreRecord
    BY <1>6, <2>2 DEF kEnableInterrupt, CoreRecord
  <2>4. r.vector = core[c].vector /\ r.requests = core[c].requests /\ r.flag
        /\ r.service = core[c].service /\ r.stack = core[c].stack /\ r.tr = core[c].tr
        /\ r.scheduler = core[c].scheduler
    BY <2>2 DEF CoreRecord
  <2>5. core[c].vector = None /\ core[c].stack = c /\ core[c].tr = c
        /\ (pc[c] # "schedulerAP" => core[c].scheduler) /\ shared' \in SharedRecord
    BY <2>1, AtApplication
  <2> HIDE DEF r
  <2> QED
    BY <2>1, <2>2, <2>3, <2>4, <2>5, ApplicationGoesOn, ZenonT(60)
<1> QED
  BY <1>1, <1>2, <1>3, <1>4, <1>5, <1>6 DEF ApplicationProcessor

(***************************************************************************)
(* Interrupts                                                              *)
(***************************************************************************)
\* A core that has interrupts on enters a handler, and is ready for it.
LEMMA EnterStep ==
    ASSUME IInv, NEW c \in Cores, NEW r \in CoreRecord, core[c].flag,
           core' = [core EXCEPT ![c] = r], pc' = [pc EXCEPT ![c] = "eoi"],
           r.vector # None, ~r.flag, r.back = pc[c], r.stack = core[c].stack,
           r.tr = core[c].tr, r.scheduler = core[c].scheduler,
           r.requests \subseteq core[c].requests,
           r.service = core[c].service \/ shared.symmetric,
           UNCHANGED <<shared, redirection, route, flag>>,
           pic' \in PICRecord, pic'.masked = pic.masked,
           pic'.service = pic.service \/ (c = 0 /\ ~shared.symmetric)
    PROVE  IInv'
<1>0. core \in [Cores -> CoreRecord] /\ pc \in [Cores -> Labels] /\ 0 \in Cores
      /\ core[c].vector = None /\ pc[c] \notin Handler /\ "eoi" \in Labels \cap Handler
  BY CoresAre DEF IInv, TypeInv, HandlerInv, Labels, Handler
<1>1. /\ core'[c] = r /\ \A d \in Cores \ {c} : core'[d] = core[d]
      /\ pc'[c] = "eoi" /\ \A d \in Cores \ {c} : pc'[d] = pc[d]
      /\ core' \in [Cores -> CoreRecord] /\ pc' \in [Cores -> Labels]
  BY <1>0
<1>2. \A d \in Cores : Where(d)' = Where(d)
  BY <1>0, <1>1 DEF Where
<1>3. TypeInv'
  BY <1>1 DEF IInv, TypeInv
<1>4. HandlerInv'
  BY <1>0, <1>1 DEF IInv, HandlerInv
<1>5. AloneInv'
  <2>1. c # 0 => shared.idAddress
    BY DEF IInv, AloneInv, CoreInit
  <2> QED
    BY <1>0, <1>1, <1>2, <2>1 DEF IInv, AloneInv
<1>6. ModeInv'
  BY <1>0, <1>1, <1>2 DEF IInv, ModeInv
<1>7. EOIInv'
  BY <1>0, <1>1 DEF IInv, EOIInv, Handler
<1>8. StackInv'
  BY <1>0, <1>1, <1>2 DEF IInv, StackInv, Ready
<1> QED
  BY <1>3, <1>4, <1>5, <1>6, <1>7, <1>8 DEF IInv

\* The record of a core that enters the handler of a vector.
LEMMA EnterType ==
    ASSUME IInv, NEW c \in Cores, core[c].flag, NEW v \in Vector
    PROVE  /\ Enter(c, v) \in CoreRecord /\ Enter(c, v).vector = v /\ ~Enter(c, v).flag
           /\ Enter(c, v).back = pc[c] /\ Enter(c, v).stack = core[c].stack
           /\ Enter(c, v).tr = core[c].tr /\ Enter(c, v).scheduler = core[c].scheduler
           /\ Enter(c, v).requests = core[c].requests /\ Enter(c, v).service = core[c].service
           /\ v # None
<1>1. core[c] \in CoreRecord /\ pc[c] \in Labels \ Handler
  BY DEF IInv, TypeInv, HandlerInv
<1>2. v # None
  BY DEF Vector, None
<1>3. Enter(c, v) = [core[c] EXCEPT !.flag = FALSE, !.vector = v, !.back = pc[c]]
  BY DEF Enter
<1>4. Enter(c, v) \in CoreRecord
  BY <1>1, <1>3 DEF CoreRecord
<1> QED
  BY <1>1, <1>2, <1>3, <1>4 DEF CoreRecord

LEMMA PICInterruptStep == ASSUME IInv, NEW irq \in {0, 1}, PICInterrupt(irq) PROVE IInv'
<1> DEFINE v == 32 + irq
<1> DEFINE r == Enter(0, v)
<1>1. 0 \in Cores /\ v \in Vector /\ core[0].flag /\ ~pic.masked /\ core' = [core EXCEPT ![0] = r]
      /\ pc' = [pc EXCEPT ![0] = "eoi"] /\ UNCHANGED <<shared, redirection, route, flag>>
      /\ pic' = [pic EXCEPT !.service = irq]
  BY CoresAre DEF PICInterrupt, Vector, Goto, earlier, loaderVars, ioapicVars
<1> HIDE DEF v
<1>2. ~shared.symmetric /\ pic \in PICRecord
  BY <1>1 DEF IInv, TypeInv, ModeInv
<1>3. pic' \in PICRecord /\ pic'.masked = pic.masked
  BY <1>1, <1>2 DEF PICRecord
<1>4. r \in CoreRecord /\ r.vector # None /\ ~r.flag /\ r.back = pc[0]
      /\ r.stack = core[0].stack /\ r.tr = core[0].tr /\ r.scheduler = core[0].scheduler
      /\ r.requests = core[0].requests /\ r.service = core[0].service
  BY <1>1, EnterType
<1> HIDE DEF r
<1> QED
  BY <1>1, <1>2, <1>3, <1>4, EnterStep

LEMMA TakeRequestStep == ASSUME IInv, NEW c \in Cores, TakeRequest(c) PROVE IInv'
<1>1. PICK v \in core[c].requests :
        core' = [core EXCEPT ![c] = [Enter(c, v) EXCEPT
                                       !.requests = @ \ {v}, !.service = v]]
  BY DEF TakeRequest
<1>2. core[c].flag /\ pc' = [pc EXCEPT ![c] = "eoi"]
      /\ UNCHANGED <<shared, pic, redirection, route, flag>>
  BY DEF TakeRequest, Goto, earlier, loaderVars, ioapicVars
<1>3. core[c] \in CoreRecord /\ pic \in PICRecord /\ shared.symmetric
  BY DEF IInv, TypeInv, ModeInv
<1>4. v \in Vector
  BY <1>3 DEF CoreRecord
<1> DEFINE e == Enter(c, v)
<1> DEFINE r == [e EXCEPT !.requests = @ \ {v}, !.service = v]
<1>5. e \in CoreRecord /\ e.vector # None /\ ~e.flag /\ e.back = pc[c]
      /\ e.stack = core[c].stack /\ e.tr = core[c].tr /\ e.scheduler = core[c].scheduler
      /\ e.requests = core[c].requests
  BY <1>2, <1>4, EnterType
<1>6. core' = [core EXCEPT ![c] = r]
  BY <1>1
<1> HIDE DEF e
<1>7. r \in CoreRecord /\ r.vector # None /\ ~r.flag /\ r.back = pc[c]
      /\ r.stack = core[c].stack /\ r.tr = core[c].tr /\ r.scheduler = core[c].scheduler
      /\ r.requests \subseteq core[c].requests
  BY <1>4, <1>5 DEF CoreRecord
<1> HIDE DEF r
<1> QED
  BY <1>2, <1>3, <1>6, <1>7, EnterStep

\* A step within a handler: counts, and what is in service, may change.
LEMMA WithinHandler ==
    ASSUME IInv, EOIInv', NEW c \in Cores, NEW label \in Handler \ {"eoi"}, pc[c] \in Handler,
           pc' = [pc EXCEPT ![c] = label], core' \in [Cores -> CoreRecord],
           \A d \in Cores :
              /\ core'[d].flag = core[d].flag /\ core'[d].vector = core[d].vector
              /\ core'[d].back = core[d].back /\ core'[d].stack = core[d].stack
              /\ core'[d].tr = core[d].tr /\ core'[d].scheduler = core[d].scheduler
              /\ core'[d].requests = core[d].requests,
           ~shared.idAddress => \A d \in Cores \ {0} : core'[d] = core[d],
           shared' \in SharedRecord, shared'.idAddress = shared.idAddress,
           shared'.symmetric = shared.symmetric, shared'.balancing = shared.balancing,
           pic' \in PICRecord, pic'.masked = pic.masked,
           ~shared.symmetric => UNCHANGED <<redirection, route>>, UNCHANGED flag
    PROVE  IInv'
<1>0. core \in [Cores -> CoreRecord] /\ pc \in [Cores -> Labels] /\ 0 \in Cores
      /\ core[c].vector # None /\ label \in Labels
      /\ (\A d \in Cores \ {0} : ~shared.idAddress => pc[d] = "off") /\ "off" \notin Handler
  BY CoresAre DEF IInv, TypeInv, HandlerInv, AloneInv, Labels, Handler
<1>1. /\ pc'[c] = label /\ \A d \in Cores \ {c} : pc'[d] = pc[d]
      /\ pc' \in [Cores -> Labels]
  BY <1>0
<1>2. \A d \in Cores : Where(d)' = Where(d)
  BY <1>0, <1>1 DEF Where
<1>3. TypeInv'
  BY <1>1 DEF IInv, TypeInv
<1>4. HandlerInv'
  BY <1>0, <1>1 DEF IInv, HandlerInv
<1>5. AloneInv'
  BY <1>0, <1>1, <1>2 DEF IInv, AloneInv
<1>6. ModeInv'
  BY <1>0, <1>2 DEF IInv, ModeInv
<1>7. StackInv'
  BY <1>0, <1>2 DEF IInv, StackInv, Ready
<1> QED
  BY <1>3, <1>4, <1>5, <1>6, <1>7 DEF IInv

\* The acknowledgement ends what is in service, whichever controller it goes to.
LEMMA SendEOIStep == ASSUME IInv, NEW c \in Cores, kSendEOI(c) PROVE IInv'
<1>1. pc[c] = "eoi" /\ pc' = [pc EXCEPT ![c] = "counting"]
      /\ UNCHANGED <<shared, redirection, route, flag>>
  BY DEF kSendEOI, Step, At, Goto, earlier, loaderVars, ioapicVars
<1>2. core \in [Cores -> CoreRecord] /\ shared \in SharedRecord /\ pic \in PICRecord
      /\ "counting" \in Handler \ {"eoi"} /\ pc[c] \in Handler /\ pc \in [Cores -> Labels]
      /\ (c # 0 => shared.idAddress)
  BY <1>1 DEF IInv, TypeInv, AloneInv, Handler
<1>3. \/ shared.symmetric /\ UNCHANGED pic /\ core' = [core EXCEPT ![c].service = None]
      \/ ~shared.symmetric /\ pic' = [pic EXCEPT !.service = None] /\ UNCHANGED core
  BY DEF kSendEOI
<1>4. /\ core' \in [Cores -> CoreRecord] /\ \A d \in Cores \ {c} : core'[d] = core[d]
      /\ \A d \in Cores :
              /\ core'[d].flag = core[d].flag /\ core'[d].vector = core[d].vector
              /\ core'[d].back = core[d].back /\ core'[d].stack = core[d].stack
              /\ core'[d].tr = core[d].tr /\ core'[d].scheduler = core[d].scheduler
              /\ core'[d].requests = core[d].requests
  BY <1>2, <1>3 DEF CoreRecord
<1>5. pic' \in PICRecord /\ pic'.masked = pic.masked
      /\ (~shared.symmetric => pic'.service = None) /\ (shared.symmetric => pic' = pic)
  BY <1>2, <1>3 DEF PICRecord
<1>6. EOIInv'
  <2>1. core'[c].service = None
    BY <1>2, <1>3 DEF IInv, EOIInv, CoreRecord
  <2>2. \A d \in Cores \ {c} : pc'[d] = pc[d]
    BY <1>1, <1>2
  <2>3. pic'.service = None
    BY <1>2, <1>5 DEF IInv, EOIInv
  <2> QED
    BY <1>1, <1>4, <2>1, <2>2, <2>3 DEF IInv, EOIInv
<1> QED
  BY <1>1, <1>2, <1>4, <1>5, <1>6, WithinHandler

\* While nothing is acknowledged, what is in service stays.
LEMMA ServiceStays ==
    ASSUME IInv, NEW c \in Cores, pc[c] # "eoi", NEW label, label # "eoi",
           pc' = [pc EXCEPT ![c] = label], UNCHANGED pic, shared'.symmetric = shared.symmetric,
           \A d \in Cores : core'[d].service = core[d].service
    PROVE  EOIInv'
<1>1. pc \in [Cores -> Labels]
  BY DEF IInv, TypeInv
<1> QED
  BY <1>1 DEF IInv, EOIInv

LEMMA CountsStayNumbers ==
    ASSUME NEW S, NEW f \in [S -> Nat], NEW i
    PROVE  [f EXCEPT ![i] = @ + 1] \in [S -> Nat]
<1>1. CASE i \in S
  <2>1. f[i] + 1 \in Nat
    BY <1>1
  <2> QED
    BY <2>1
<1>2. CASE i \notin S
  BY <1>2
<1> QED
  BY <1>1, <1>2

LEMMA CountStep == ASSUME IInv, NEW c \in Cores, kIncreaseInterruptCount(c) PROVE IInv'
<1> DEFINE irq == IRQOf(core[c].vector)
<1>1. pc[c] = "counting" /\ UNCHANGED <<pic, redirection, route, flag>>
      /\ shared' = [shared EXCEPT !.tick = @ \/ (irq = 0 /\ APICID(c) = 0)]
  BY DEF kIncreaseInterruptCount, Step, At, earlier, loaderVars, ioapicVars
<1>2. PICK label \in {"return", "balancing"} : pc' = [pc EXCEPT ![c] = label]
  BY DEF kIncreaseInterruptCount, Step, Goto
<1>3. core' = core \/ core' = [core EXCEPT ![APICID(c)].count[irq] = @ + 1]
  BY DEF kIncreaseInterruptCount
<1>4. core \in [Cores -> CoreRecord] /\ shared \in SharedRecord /\ pic \in PICRecord
      /\ label \in Handler \ {"eoi"} /\ pc[c] \in Handler
      /\ (c # 0 => shared.idAddress)
  BY <1>1 DEF IInv, TypeInv, AloneInv, Handler
<1>5. APICID(c) \in Cores /\ (~shared.idAddress => APICID(c) = 0)
  BY <1>4, CoresAre DEF APICID
<1> HIDE DEF irq
<1>6. \/ core' = core
      \/ \E k \in [0..(IRQS - 1) -> Nat] :
            core' = [core EXCEPT ![APICID(c)] = [core[APICID(c)] EXCEPT !.count = k]]
  <2>1. CASE core' = [core EXCEPT ![APICID(c)].count[irq] = @ + 1]
    <3> DEFINE old == core[APICID(c)]
    <3> DEFINE k == [old.count EXCEPT ![irq] = @ + 1]
    <3>1. old.count \in [0..(IRQS - 1) -> Nat]
      BY <1>4, <1>5 DEF CoreRecord
    <3> HIDE DEF old
    <3>2. k \in [0..(IRQS - 1) -> Nat]
      BY <3>1, CountsStayNumbers
    <3> USE DEF old
    <3>3. core' = [core EXCEPT ![APICID(c)] = [old EXCEPT !.count = k]]
      BY <1>4, <1>5, <2>1
    <3> QED
      BY <3>2, <3>3
  <2> QED
    BY <1>3, <2>1
<1>7. /\ core' \in [Cores -> CoreRecord] /\ \A d \in Cores \ {APICID(c)} : core'[d] = core[d]
      /\ \A d \in Cores :
              /\ core'[d].flag = core[d].flag /\ core'[d].vector = core[d].vector
              /\ core'[d].back = core[d].back /\ core'[d].stack = core[d].stack
              /\ core'[d].tr = core[d].tr /\ core'[d].scheduler = core[d].scheduler
              /\ core'[d].requests = core[d].requests
              /\ core'[d].service = core[d].service
  BY <1>4, <1>5, <1>6 DEF CoreRecord
<1>8. shared' \in SharedRecord /\ shared'.idAddress = shared.idAddress
      /\ shared'.symmetric = shared.symmetric /\ shared'.balancing = shared.balancing
  BY <1>1, <1>4 DEF SharedRecord
<1>9. EOIInv'
  BY <1>1, <1>2, <1>4, <1>7, <1>8, ServiceStays
<1>10. ~shared.idAddress => \A d \in Cores \ {0} : core'[d] = core[d]
  BY <1>5, <1>7
<1> QED
  BY <1>1, <1>2, <1>4, <1>7, <1>8, <1>9, <1>10, WithinHandler

LEMMA BalancingStep == ASSUME IInv, NEW c \in Cores, kProcessLoadBalancing(c) PROVE IInv'
<1>1. pc[c] = "balancing" /\ pc' = [pc EXCEPT ![c] = "return"]
      /\ UNCHANGED <<core, shared, pic, flag>>
  BY DEF kProcessLoadBalancing, Step, At, Goto, earlier, loaderVars
<1>2. shared.balancing \/ UNCHANGED <<redirection, route>>
  BY DEF kProcessLoadBalancing, ioapicVars
<1>3. core \in [Cores -> CoreRecord] /\ shared \in SharedRecord /\ pic \in PICRecord
      /\ "return" \in Handler \ {"eoi"} /\ pc[c] \in Handler
      /\ (~shared.symmetric => ~shared.balancing)
  BY <1>1 DEF IInv, TypeInv, ModeInv, Handler
<1>4. EOIInv'
  BY <1>1, <1>3, ServiceStays
<1> QED
  BY <1>1, <1>2, <1>3, <1>4, WithinHandler

\* The handler is left for where the core was.
LEMMA ReturnStep == ASSUME IInv, NEW c \in Cores, Return(c) PROVE IInv'
<1> DEFINE r == [core[c] EXCEPT !.flag = TRUE, !.vector = None]
<1>1. pc[c] = "return" /\ pc' = [pc EXCEPT ![c] = core[c].back]
      /\ UNCHANGED <<shared, pic, redirection, route, flag>>
  BY DEF Return, At, Goto, earlier, loaderVars, ioapicVars
<1>2. core \in [Cores -> CoreRecord] /\ core[c] \in CoreRecord /\ pc[c] \in Handler
      /\ pc \in [Cores -> Labels] /\ core[c].vector # None /\ Ready(c) /\ 0 \in Cores
      /\ (c # 0 => shared.idAddress)
  BY <1>1, CoresAre DEF IInv, TypeInv, HandlerInv, AloneInv, StackInv, Handler
<1>3. core[c].back \in Labels \ Handler
  BY <1>2 DEF CoreRecord
<1>4. core' = [core EXCEPT ![c] = r]
  BY <1>2 DEF Return
<1>5. r \in CoreRecord
  BY <1>2 DEF CoreRecord
<1>6. r.flag /\ r.vector = None /\ r.stack = core[c].stack /\ r.tr = core[c].tr
      /\ r.scheduler = core[c].scheduler /\ r.requests = core[c].requests
      /\ r.service = core[c].service
  BY <1>2 DEF CoreRecord
<1> HIDE DEF r
<1>7. /\ core'[c] = r /\ \A d \in Cores \ {c} : core'[d] = core[d]
      /\ pc'[c] = core[c].back /\ \A d \in Cores \ {c} : pc'[d] = pc[d]
      /\ core' \in [Cores -> CoreRecord] /\ pc' \in [Cores -> Labels]
  BY <1>1, <1>2, <1>3, <1>4, <1>5
<1>8. \A d \in Cores : Where(d)' = Where(d)
  BY <1>2, <1>6, <1>7 DEF Where
<1>9. TypeInv'
  BY <1>1, <1>7 DEF IInv, TypeInv
<1>10. HandlerInv'
  BY <1>3, <1>6, <1>7 DEF IInv, HandlerInv
<1>11. AloneInv'
  BY <1>1, <1>2, <1>7, <1>8 DEF IInv, AloneInv
<1>12. ModeInv'
  BY <1>1, <1>2, <1>6, <1>7, <1>8 DEF IInv, ModeInv
<1>13. EOIInv'
  BY <1>1, <1>6, <1>7 DEF IInv, EOIInv
<1>14. StackInv'
  <2>1. \A d \in Cores : core'[d].stack = core[d].stack /\ core'[d].tr = core[d].tr
                           /\ core'[d].scheduler = core[d].scheduler
    BY <1>6, <1>7
  <2>2. \A d \in Cores : core'[d].flag \/ core'[d].vector # None => Ready(d)
    BY <1>2, <1>7 DEF IInv, StackInv
  <2> QED
    BY <1>1, <1>2, <1>8, <2>1, <2>2 DEF IInv, StackInv, Ready
<1> QED
  BY <1>9, <1>10, <1>11, <1>12, <1>13, <1>14 DEF IInv

\* An access to the I/O APIC, which only a kernel that has it makes.
LEMMA RoutingStep ==
    ASSUME IInv, NEW c \in Cores, RouteStep(c), UNCHANGED <<earlier, pc, core, pic, shared>>
    PROVE  IInv'
<1>1. shared.symmetric /\ UNCHANGED flag
  BY DEF RouteStep, IInv, ModeInv, earlier, loaderVars
<1> QED
  BY <1>1 DEF IInv, TypeInv, HandlerInv, AloneInv, ModeInv, EOIInv, StackInv, Where, Ready

\* A line that is open leaves a request in local APICs that are on.
LEMMA RaisePinStep ==
    ASSUME IInv, NEW base \in DOMAIN redirection, NEW pin \in 0..(PINS - 1), RaisePin(base, pin)
    PROVE  IInv'
<1> DEFINE v == redirection[base][pin].low.vector
<1>1. v \in Vector /\ UNCHANGED <<pc, shared, pic, redirection, route, flag>>
  BY DEF RaisePin, earlier, loaderVars, ioapicVars
<1>2. shared.symmetric /\ core \in [Cores -> CoreRecord]
  BY DEF RaisePin, IInv, ModeInv, TypeInv
<1>3. \A c \in Cores : core[c] \in CoreRecord
  BY <1>2
<1>4. core' \in [Cores -> CoreRecord]
      /\ \A c \in Cores : \/ core'[c] = core[c]
                          \/ /\ core[c].apic
                             /\ core'[c] = [core[c] EXCEPT !.requests = @ \cup {v}]
  <2>1. \A c \in Cores : [core[c] EXCEPT !.requests = @ \cup {v}] \in CoreRecord
    BY <1>1, <1>3 DEF CoreRecord
  <2> HIDE DEF v
  <2> QED
    BY <1>3, <2>1 DEF RaisePin, v
<1> HIDE DEF v
<1>5. \A c \in Cores :
         /\ core'[c].flag = core[c].flag /\ core'[c].vector = core[c].vector
         /\ core'[c].back = core[c].back /\ core'[c].stack = core[c].stack
         /\ core'[c].tr = core[c].tr /\ core'[c].scheduler = core[c].scheduler
         /\ core'[c].service = core[c].service
  BY <1>3, <1>4 DEF CoreRecord
<1>6. \A c \in Cores : core[c] = CoreInit => core'[c] = CoreInit
  BY <1>4 DEF CoreInit
<1>7. \A c \in Cores : Where(c)' = Where(c)
  BY <1>1, <1>5 DEF Where
<1>8. TypeInv' /\ HandlerInv' /\ EOIInv'
  BY <1>1, <1>4, <1>5 DEF IInv, TypeInv, HandlerInv, EOIInv
<1>9. AloneInv' /\ ModeInv'
  BY <1>1, <1>2, <1>6, <1>7, CoresAre DEF IInv, AloneInv, ModeInv
<1>10. StackInv'
  BY <1>1, <1>5, <1>7, CoresAre DEF IInv, StackInv, Ready
<1> QED
  BY <1>8, <1>9, <1>10 DEF IInv

LEMMA StepPreserves == IInv /\ [Next]_vars => IInv'
<1> SUFFICES ASSUME IInv, [Next]_vars PROVE IInv'
  OBVIOUS
<1>1. CASE BootstrapNext
  BY <1>1, LoaderStep, Kernel32Step, BootstrapStep DEF BootstrapNext
<1>2. ASSUME NEW c \in Cores, CoreNext(c) PROVE IInv'
  <2>1. CASE SharedKernel32Next(c) /\ UNCHANGED later
    BY <2>1, Kernel32Step
  <2>2. CASE ApplicationProcessor(c)
    BY <2>2, ApplicationStep
  <2>3. CASE TakeRequest(c)
    BY <2>3, TakeRequestStep
  <2>4. CASE HandlerStep(c)
    BY <2>4, SendEOIStep, CountStep, BalancingStep, ReturnStep, RoutingStep DEF HandlerStep
  <2> QED
    BY <1>2, <2>1, <2>2, <2>3, <2>4 DEF CoreNext
<1>3. CASE Raise
  BY <1>3, PICInterruptStep, RaisePinStep DEF Raise
<1>4. CASE UNCHANGED vars
  BY <1>4, StutterStep DEF vars, loaderVars, ioapicVars
<1> QED
  BY <1>1, <1>2, <1>3, <1>4 DEF Next

LEMMA IInvHolds == Spec => []IInv
BY InitEstablishes, StepPreserves, PTL DEF Spec

(***************************************************************************)
(* Theorems                                                                *)
(***************************************************************************)
\* The pieces of 64 Kbyte are counted down from 0x6FFFF8 and from 0x7FFFFF.
LEMMA Pieces ==
    ASSUME NEW n \in 0..15
    PROVE  /\ (7340024 - 65536 * n) \div 65536 = 111 - n
           /\ (7340032 + 1048576 - 65536 * n) \div 65536 - 1 = 127 - n
OBVIOUS

\* No two cores share a stack, nor a stack of interrupt handlers, whatever order
\* they start in, and none takes an interrupt before it has one.
THEOREM CoresAreSeparateHolds == Spec => []CoresAreSeparate
<1>1. IInv => CoresAreSeparate
  <2> SUFFICES ASSUME IInv PROVE CoresAreSeparate
    OBVIOUS
  <2> DEFINE inC == {c \in Cores : pc[c] \in {"count", "mainAP"} \/ core[c].stack # None}
  <2> DEFINE handling == {c \in Cores : core[c].flag \/ core[c].vector # None}
  <2>1. \A c \in Cores : c \in 0..15 /\ c # None
    BY CoresAre DEF None
  <2>2. \A c \in inC : c \in Cores /\ core[c].stack = c
    <3> SUFFICES ASSUME NEW c \in inC PROVE core[c].stack = c
      OBVIOUS
    <3>1. CASE core[c].stack # None
      BY <3>1 DEF IInv, StackInv
    <3>2. CASE pc[c] \in {"count", "mainAP"}
      <4>1. pc[c] \in Application
        BY <3>2 DEF Application
      <4> QED
        BY <4>1, AtApplication
    <3> QED
      BY <3>1, <3>2
  <2>3. \A c \in inC : StackPiece(c) = 111 - c
    BY <2>1, <2>2, Pieces DEF StackPiece
  <2>4. \A c \in handling : c \in Cores /\ core[c].tr = c /\ core[c].scheduler
    BY DEF IInv, StackInv, Ready
  <2>5. \A c \in handling : ISTPiece(c) = 127 - c
    BY <2>1, <2>4, Pieces DEF ISTPiece
  <2>6. \A c \in inC : core[c].stack # None /\ StackPiece(c) \in 96..111
    BY <2>1, <2>2, <2>3
  <2>7. \A c, d \in inC : StackPiece(c) = StackPiece(d) => c = d
    BY <2>1, <2>2, <2>3
  <2>8. \A c \in handling : core[c].tr # None /\ core[c].scheduler /\ ISTPiece(c) \in 112..127
    BY <2>1, <2>4, <2>5
  <2>9. \A c, d \in handling : ISTPiece(c) = ISTPiece(d) => c = d
    BY <2>1, <2>4, <2>5
  <2> QED
    BY <2>6, <2>7, <2>8, <2>9 DEF CoresAreSeparate
<1> QED
  BY <1>1, IInvHolds, PTL

\* Every interrupt is acknowledged at the controller it came from, also across
\* the change from the PIC to the I/O APIC.
THEOREM EOIReachesControllerHolds == Spec => []EOIReachesController
<1>1. IInv => EOIReachesController
  BY DEF IInv, HandlerInv, EOIInv, EOIReachesController, Handler
<1> QED
  BY <1>1, IInvHolds, PTL

(***************************************************************************)
(* Natural numbers                                                         *)
(***************************************************************************)
\* A set of natural numbers has a least one.
LEMMA Least ==
    ASSUME NEW T \in SUBSET Nat, T # {}
    PROVE  \E x \in T : \A y \in T : x <= y
<1> DEFINE R == {ss \in Nat \X Nat : ss[1] < ss[2]}
<1>1. IsWellFoundedOn(R, Nat)
  BY NatLessThanWellFounded DEF OpToRel
<1> HIDE DEF R
<1>2. PICK x \in T : \A y \in T : ~(<<y, x>> \in R)
  BY <1>1, WFMin
<1>3. ASSUME NEW y \in T PROVE x <= y
  <2>1. x \in Nat /\ y \in Nat
    OBVIOUS
  <2>2. ~(<<y, x>> \in R)
    BY <1>2
  <2>3. ~(y < x)
    BY <2>1, <2>2 DEF R
  <2>. QED
    BY <2>1, <2>3
<1>. QED
  BY <1>3

\* A set that has 0, and with every number below n the next one, has all up to n.
LEMMA Induction ==
    ASSUME NEW n \in Nat, NEW S, 0 \in S, \A m \in 0 .. n - 1 : m \in S => m + 1 \in S
    PROVE  \A m \in 0 .. n : m \in S
<1> SUFFICES ASSUME NEW k \in 0 .. n, k \notin S PROVE FALSE
  OBVIOUS
<1> DEFINE T == {m \in 0 .. n : m \notin S}
<1>1. T \in SUBSET Nat /\ T # {}
  OBVIOUS
<1>2. PICK x \in T : \A y \in T : x <= y
  BY <1>1, Least
<1>3. x \in 0 .. n /\ x \notin S /\ x # 0
  OBVIOUS
<1>4. x - 1 \in 0 .. n - 1 /\ x - 1 \in 0 .. n /\ x - 1 + 1 = x /\ ~(x <= x - 1)
  BY <1>3
<1>5. x - 1 \in S
  BY <1>2, <1>4
<1>. QED
  BY <1>3, <1>4, <1>5

(***************************************************************************)
(* What the second part adds to the invariant: the redirection tables, who
   rewrites them, and which processors have been counted.                  *)
(***************************************************************************)
LowRecord == [vector : BYTE, level : BOOLEAN, mask : BOOLEAN]
EntryRecord == [dest : Nat, low : LowRecord]
RouteRecord == [step : 0..7, irq : 0..17, dest : Nat, line : Nat, low : {<<>>} \cup LowRecord]

Pins == 0..(PINS - 1)
Blanks == [pin \in Pins |-> Reset]

RegistersInv ==
    /\ machine \in Machines
    /\ DOMAIN selector = DOMAIN redirection
    /\ redirection \in [DOMAIN redirection -> [Pins -> EntryRecord]]
    /\ selector \in [DOMAIN redirection -> {"high", "low"} \X BYTE]
    /\ ioapic.map \in [0..(IRQS - 1) -> BYTE]
    /\ route \in [Cores -> RouteRecord]
    /\ \A c \in Cores : /\ route[c] # NotRouting => route[c].step # 0
                        /\ route[c].step >= 4 => route[c].low \in LowRecord
    /\ mp.table \in Seq(Entry) /\ mp.processors \in Nat

\* Nobody routes before lines are balanced, and until the tables are programmed
\* they are blank.
PhaseInv ==
    /\ ~shared.balancing => \A c \in Cores : route[c] = NotRouting
    /\ Where(0) \in {"table", "enable", "balance"} => ~shared.balancing
    /\ ~shared.symmetric \/ Where(0) = "table" =>
          \A base \in DOMAIN redirection : redirection[base] = Blanks

\* How far a core alone with the tables has come with one entry.
HalfWay(c, base, pin) ==
    /\ base \in DOMAIN redirection =>
          /\ route[c].step \in {2, 5} => selector[base] = <<"high", pin>>
          /\ route[c].step \in {3, 7} => selector[base] = <<"low", pin>>
    /\ Exists(base, pin) =>
          /\ route[c].step >= 4 => route[c].low = redirection[base][pin].low
          /\ route[c].step >= 6 => redirection[base][pin].dest = route[c].dest

RouteInv ==
    ~overlap => \A c \in Cores : route[c] # NotRouting =>
        /\ HalfWay(c, BaseOf(c), PinOf(c))
        /\ \A d \in Cores : route[d] # NotRouting => d = c

\* The lower halves are what a programming writes: a second one would write them
\* once more.
LowsInv ==
    shared.symmetric /\ Where(0) # "table" /\ ~overlap =>
        \A base \in DOMAIN redirection : \A pin \in Pins :
            redirection[base][pin].low = Programmed.registers[base][pin].low

\* Labels of a processor that has not started; one that has been counted.
Asleep == {"off", "waiting", "entry16", "main32", "switch", "entry64", "count"}
Counted(c) == Where(c) \in {"mainAP", "schedulerAP", "apicAP", "stiAP", "idle"}

AwakeInv ==
    /\ \A c \in Cores \ {0} : pc[c] # "off" => c \in machine.responding
    /\ \A c \in Cores \ {0} : core[c].flag \/ core[c].vector # None => Where(c) = "idle"
    /\ shared.awake = Cardinality({c \in Cores \ {0} : Counted(c)})
    /\ OrderlyProcessors /\ (shared.symmetric \/ Where(0) \in {"change", "mode"}) =>
          \A i \in 1..(mp.processors - 1) : i \in Cores /\ Counted(i)

DestInv ==
    OrderlyProcessors /\ shared.symmetric =>
        /\ \A base \in DOMAIN redirection : \A pin \in Pins :
              redirection[base][pin].dest = AllCores \/ Awake(redirection[base][pin].dest)
        /\ \A c \in Cores : Awake(route[c].dest)

RInv == RegistersInv /\ PhaseInv /\ RouteInv /\ LowsInv /\ AwakeInv /\ DestInv

(***************************************************************************)
(* Programming the redirection tables                                      *)
(***************************************************************************)
FirstManager ==
    [isa |-> kGetIOAPICBaseAddressOfISA, pci |-> kGetIOAPICBaseAddressOfPCI,
     map |-> [irq \in 0..(IRQS - 1) |-> NoPin],
     registers |-> kMaskAllInterruptInIOAPIC(
                     kMaskAllInterruptInIOAPIC(redirection, kGetIOAPICBaseAddressOfISA),
                     kGetIOAPICBaseAddressOfPCI)]

\* The manager after entry n, if f[m] is the one after entry m.
AfterEntry(f, n) ==
    IF n = 0 THEN FirstManager
    ELSE IF mp.table[n].type = "line" THEN Program(f[n - 1], mp.table[n]) ELSE f[n - 1]

\* The loop over the entries has a result after each of them.
LEMMA ProgramExists ==
    ASSUME Len(mp.table) \in Nat
    PROVE  \E f : f = [n \in 0..Len(mp.table) |-> AfterEntry(f, n)]
<1> DEFINE Up(k) == \E f : f = [n \in 0..k |-> AfterEntry(f, n)]
           S == {k \in Nat : Up(k)}
<1>1. 0 \in S
  <2> DEFINE f == [n \in 0..0 |-> FirstManager]
  <2>1. \A n \in 0..0 : f[n] = AfterEntry(f, n)
    BY DEF AfterEntry
  <2>2. f = [n \in 0..0 |-> f[n]]
    OBVIOUS
  <2> HIDE DEF f
  <2>3. f = [n \in 0..0 |-> AfterEntry(f, n)]
    BY <2>1, <2>2
  <2>4. Up(0)
    BY <2>3, Zenon
  <2> HIDE DEF Up
  <2> QED
    BY <2>4
<1>2. ASSUME NEW m \in Nat, m \in S PROVE m + 1 \in S
  <2>1. PICK f : f = [n \in 0..m |-> AfterEntry(f, n)]
    BY <1>2
  <2> DEFINE g == [n \in 0..(m + 1) |-> IF n = m + 1 THEN AfterEntry(f, n) ELSE f[n]]
  <2>2. \A n \in 0..m : g[n] = f[n]
    OBVIOUS
  <2>3. g[m + 1] = AfterEntry(f, m + 1)
    OBVIOUS
  <2>4. g = [n \in 0..(m + 1) |-> g[n]]
    OBVIOUS
  <2> HIDE DEF g
  <2>5. ASSUME NEW n \in 0..(m + 1) PROVE AfterEntry(g, n) = AfterEntry(f, n)
    <3>1. CASE n = 0
      BY <3>1 DEF AfterEntry
    <3>2. CASE n # 0
      <4>1. n - 1 \in 0..m
        BY <3>2
      <4>2. g[n - 1] = f[n - 1]
        BY <2>2, <4>1
      <4> QED
        BY <4>2 DEF AfterEntry
    <3> QED
      BY <3>1, <3>2
  <2>6. ASSUME NEW n \in 0..(m + 1) PROVE g[n] = AfterEntry(g, n)
    <3>1. CASE n = m + 1
      BY <2>3, <2>5, <3>1
    <3>2. CASE n # m + 1
      <4>1. n \in 0..m
        BY <3>2
      <4>2. f[n] = AfterEntry(f, n)
        BY <2>1, <4>1
      <4> QED
        BY <2>2, <2>5, <4>1, <4>2
    <3> QED
      BY <3>1, <3>2
  <2>7. g = [n \in 0..(m + 1) |-> AfterEntry(g, n)]
    BY <2>4, <2>6
  <2>8. Up(m + 1)
    BY <2>7, Zenon
  <2> HIDE DEF Up
  <2> QED
    BY <2>8
<1> HIDE DEF S
<1>3. Len(mp.table) \in S
  <2> DEFINE k == Len(mp.table)
  <2>1. k \in Nat
    OBVIOUS
  <2> HIDE DEF k
  <2>2. \A m \in 0..k - 1 : m \in S => m + 1 \in S
    BY <1>2, <2>1
  <2>3. \A m \in 0..k : m \in S
    BY <1>1, <2>1, <2>2, Induction
  <2>4. k \in S
    BY <2>1, <2>3
  <2> QED
    BY <2>4 DEF k
<1> QED
  BY <1>3 DEF S

LEMMA ProgrammedIs ==
    ASSUME Len(mp.table) \in Nat
    PROVE  \A n \in 0..Len(mp.table) : ProgrammedBy[n] = AfterEntry(ProgrammedBy, n)
<1>1. PICK f : f = [n \in 0..Len(mp.table) |-> AfterEntry(f, n)]
  BY ProgramExists
<1>2. ProgrammedBy = [n \in 0..Len(mp.table) |-> AfterEntry(ProgrammedBy, n)]
  BY <1>1, Zenon DEF ProgrammedBy, AfterEntry, FirstManager
<1> SUFFICES ASSUME NEW n \in 0..Len(mp.table)
             PROVE  ProgrammedBy[n] = AfterEntry(ProgrammedBy, n)
  OBVIOUS
<1> QED
  BY <1>2, Zenon

(***************************************************************************)
(* What a programming leaves                                               *)
(***************************************************************************)
ByISA(line) == line.type = "line" /\ line.bus = mp.isa /\ line.kind = "INT"
ByPCI(line) ==
    line.type = "line" /\ line.bus # mp.isa /\ line.bus = mp.pci /\ line.kind = "INT"

\* Entry i of the table programs this pin, with that.
Writes(i, base, pin) ==
    /\ mp.table[i].pin = pin
    /\ \/ ByISA(mp.table[i]) /\ base = kGetIOAPICBaseAddressOfISA
       \/ ByPCI(mp.table[i]) /\ base = kGetIOAPICBaseAddressOfPCI
Written(i) == IF ByISA(mp.table[i]) THEN ISAEntry(mp.table[i]) ELSE PCIEntry(mp.table[i])

\* What is in an entry before the lines are entered.
Start(base, pin) ==
    IF base \in {kGetIOAPICBaseAddressOfISA, kGetIOAPICBaseAddressOfPCI}
    THEN Masked(redirection[base][pin]) ELSE redirection[base][pin]

\* The last of the first n entries that programs a pin tells what is there.
Result(n, base, pin, entry) ==
    \/ \E i \in 1..n : /\ Writes(i, base, pin) /\ entry = Written(i)
                       /\ \A j \in (i + 1)..n : ~Writes(j, base, pin)
    \/ /\ entry = Start(base, pin)
       /\ \A j \in 1..n : ~Writes(j, base, pin)

ManagerRecord ==
    [isa : {kGetIOAPICBaseAddressOfISA}, pci : {kGetIOAPICBaseAddressOfPCI},
     map : [0..(IRQS - 1) -> BYTE],
     registers : [DOMAIN redirection -> [Pins -> EntryRecord]]]

ManagerOK(n, manager) ==
    /\ manager \in ManagerRecord
    /\ \A base \in DOMAIN redirection : \A pin \in Pins :
          Result(n, base, pin, manager.registers[base][pin])

\* An entry of the table is a record with bytes.
LEMMA LineIs ==
    ASSUME NEW line \in Entry, line.type = "line"
    PROVE  line.pin \in BYTE /\ line.irq \in BYTE /\ line.bus \in BYTE
BY DEF Entry

LEMMA MaskedIs ==
    ASSUME NEW entry \in EntryRecord
    PROVE  /\ Masked(entry) \in EntryRecord /\ Masked(entry).dest = entry.dest
           /\ Masked(entry).low = [entry.low EXCEPT !.mask = TRUE]
           /\ Masked(Masked(entry)) = Masked(entry)
BY DEF Masked, EntryRecord, LowRecord

LEMMA EntriesAre ==
    ASSUME NEW line, line.irq \in BYTE
    PROVE  /\ ISAEntry(line) \in EntryRecord /\ PCIEntry(line) \in EntryRecord
           /\ ISAEntry(line).dest \in {0, AllCores} /\ PCIEntry(line).dest = 0
<1>1. (32 + line.irq) % 256 \in BYTE /\ (48 + (line.irq % 4)) % 256 \in BYTE
  BY DEF BYTE
<1> QED
  BY <1>1 DEF ISAEntry, PCIEntry, kSetIOAPICRedirectionEntry, EntryRecord, LowRecord, AllCores

LEMMA MaskedRegisters ==
    ASSUME NEW D, NEW registers \in [D -> [Pins -> EntryRecord]], NEW base
    PROVE  LET r == kMaskAllInterruptInIOAPIC(registers, base)
           IN  /\ r \in [D -> [Pins -> EntryRecord]]
               /\ \A b \in D : \A pin \in Pins :
                     r[b][pin] = IF b = base THEN Masked(registers[b][pin])
                                 ELSE registers[b][pin]
<1>1. CASE base \notin D
  BY <1>1 DEF kMaskAllInterruptInIOAPIC
<1>2. CASE base \in D
  <2> DEFINE new == [pin \in Pins |-> Masked(registers[base][pin])]
             r == [registers EXCEPT ![base] = new]
  <2>1. registers[base] \in [Pins -> EntryRecord]
    BY <1>2
  <2>2. new \in [Pins -> EntryRecord]
    BY <2>1, MaskedIs
  <2>3. kMaskAllInterruptInIOAPIC(registers, base) = r
    <3>1. [registers EXCEPT ![base] = [pin \in DOMAIN @ |-> Masked(@[pin])]] = r
      BY <1>2, <2>1
    <3> QED
      BY <1>2, <3>1 DEF kMaskAllInterruptInIOAPIC
  <2>4. \A pin \in Pins : new[pin] = Masked(registers[base][pin])
    OBVIOUS
  <2> HIDE DEF new
  <2>5. r \in [D -> [Pins -> EntryRecord]]
    BY <2>2
  <2>6. \A b \in D : r[b] = IF b = base THEN new ELSE registers[b]
    OBVIOUS
  <2> HIDE DEF r
  <2> QED
    BY <2>3, <2>4, <2>5, <2>6
<1> QED
  BY <1>1, <1>2

LEMMA FirstOK ==
    ASSUME RegistersInv
    PROVE  ManagerOK(0, FirstManager)
<1> DEFINE D == DOMAIN redirection
           isa == kGetIOAPICBaseAddressOfISA
           pci == kGetIOAPICBaseAddressOfPCI
           r1 == kMaskAllInterruptInIOAPIC(redirection, isa)
           r2 == kMaskAllInterruptInIOAPIC(r1, pci)
<1>1. redirection \in [D -> [Pins -> EntryRecord]]
  BY DEF RegistersInv
<1> HIDE DEF D, isa, pci, r1, r2
<1>2. r1 \in [D -> [Pins -> EntryRecord]]
      /\ \A b \in D : \A pin \in Pins :
            r1[b][pin] = IF b = isa THEN Masked(redirection[b][pin]) ELSE redirection[b][pin]
  BY <1>1, MaskedRegisters DEF r1
<1>3. r2 \in [D -> [Pins -> EntryRecord]]
      /\ \A b \in D : \A pin \in Pins :
            r2[b][pin] = IF b = pci THEN Masked(r1[b][pin]) ELSE r1[b][pin]
  BY <1>2, MaskedRegisters DEF r2
<1>4. ASSUME NEW b \in D, NEW pin \in Pins PROVE r2[b][pin] = Start(b, pin)
  <2>1. redirection[b][pin] \in EntryRecord
    BY <1>1
  <2>2. r1[b][pin] = IF b = isa THEN Masked(redirection[b][pin]) ELSE redirection[b][pin]
    BY <1>2
  <2>3. r2[b][pin] = IF b = pci THEN Masked(r1[b][pin]) ELSE r1[b][pin]
    BY <1>3
  <2>4. Masked(Masked(redirection[b][pin])) = Masked(redirection[b][pin])
    BY <2>1, MaskedIs
  <2> QED
    BY <2>2, <2>3, <2>4 DEF Start, isa, pci
<1>5. FirstManager = [isa |-> isa, pci |-> pci, map |-> [irq \in 0..(IRQS - 1) |-> NoPin],
                      registers |-> r2]
  BY DEF FirstManager, isa, pci, r1, r2
<1>6. [irq \in 0..(IRQS - 1) |-> NoPin] \in [0..(IRQS - 1) -> BYTE]
  BY DEF NoPin, BYTE
<1>7. \A b \in D : \A pin \in Pins : Result(0, b, pin, r2[b][pin])
  BY <1>4 DEF Result
<1> QED
  BY <1>3, <1>5, <1>6, <1>7 DEF ManagerOK, ManagerRecord, isa, pci, D

\* A write to the register of one pin, where there is one
LEMMA WriteIs ==
    ASSUME NEW registers \in [DOMAIN redirection -> [Pins -> EntryRecord]],
           NEW base, NEW pin \in BYTE, NEW entry \in EntryRecord,
           NEW new, new = kWriteIOAPICRedirectionTable(registers, base, pin, entry)
    PROVE  /\ new \in [DOMAIN redirection -> [Pins -> EntryRecord]]
           /\ \A b \in DOMAIN redirection : \A p \in Pins :
                 new[b][p] = IF b = base /\ p = pin THEN entry ELSE registers[b][p]
<1>0. PINS \in Nat /\ pin \in Nat
  BY IOAPICAssumption DEF BYTE
<1>1. CASE Exists(base, pin)
  <2> DEFINE one == [registers[base] EXCEPT ![pin] = entry]
             r == [registers EXCEPT ![base] = one]
  <2>1. base \in DOMAIN redirection /\ pin \in Pins
    BY <1>0, <1>1 DEF Exists, Pins
  <2>2. registers[base] \in [Pins -> EntryRecord]
    BY <2>1
  <2>3. one \in [Pins -> EntryRecord]
        /\ \A p \in Pins : one[p] = IF p = pin THEN entry ELSE registers[base][p]
    BY <2>1, <2>2
  <2>4. new = r
    BY <1>1, <2>1 DEF kWriteIOAPICRedirectionTable
  <2> HIDE DEF one
  <2>5. r \in [DOMAIN redirection -> [Pins -> EntryRecord]]
        /\ \A b \in DOMAIN redirection : r[b] = IF b = base THEN one ELSE registers[b]
    BY <2>1, <2>3
  <2> HIDE DEF r
  <2> QED
    BY <2>3, <2>4, <2>5
<1>2. CASE ~Exists(base, pin)
  <2>1. \A b \in DOMAIN redirection : \A p \in Pins : ~(b = base /\ p = pin)
    BY <1>0, <1>2 DEF Exists, Pins
  <2> QED
    BY <1>2, <2>1 DEF kWriteIOAPICRedirectionTable
<1> QED
  BY <1>1, <1>2

\* A line of the table is entered, ...
LEMMA EnterOK ==
    ASSUME RegistersInv, NEW n \in Nat \ {0}, NEW manager, ManagerOK(n - 1, manager),
           mp.table[n].pin \in BYTE, NEW base, Written(n) \in EntryRecord,
           \A b, p : Writes(n, b, p) <=> (b = base /\ p = mp.table[n].pin),
           NEW new,
           new = [manager EXCEPT
                    !.registers = kWriteIOAPICRedirectionTable(@, base, mp.table[n].pin,
                                                               Written(n)),
                    !.map = [irq \in DOMAIN @ |-> IF irq = mp.table[n].irq
                                                  THEN mp.table[n].pin ELSE @[irq]]]
    PROVE  ManagerOK(n, new)
<1> DEFINE pin == mp.table[n].pin
           r == kWriteIOAPICRedirectionTable(manager.registers, base, pin, Written(n))
           m == [irq \in DOMAIN manager.map |-> IF irq = mp.table[n].irq THEN pin
                                                ELSE manager.map[irq]]
<1>1. manager.registers \in [DOMAIN redirection -> [Pins -> EntryRecord]]
      /\ manager.map \in [0..(IRQS - 1) -> BYTE]
      /\ \A b \in DOMAIN redirection : \A p \in Pins :
            Result(n - 1, b, p, manager.registers[b][p])
  BY DEF ManagerOK, ManagerRecord
<1>2. r \in [DOMAIN redirection -> [Pins -> EntryRecord]]
      /\ \A b \in DOMAIN redirection : \A p \in Pins :
            r[b][p] = IF b = base /\ p = pin THEN Written(n) ELSE manager.registers[b][p]
  <2>1. pin \in BYTE
    OBVIOUS
  <2> PICK registers : registers = manager.registers
    OBVIOUS
  <2>2. registers \in [DOMAIN redirection -> [Pins -> EntryRecord]]
    BY <1>1
  <2>3. r = kWriteIOAPICRedirectionTable(registers, base, pin, Written(n))
    BY DEF r
  <2> HIDE DEF pin, r
  <2> QED
    BY <2>1, <2>2, <2>3, WriteIs
<1>3. m \in [0..(IRQS - 1) -> BYTE]
  <2>1. DOMAIN manager.map = 0..(IRQS - 1)
        /\ \A irq \in 0..(IRQS - 1) : manager.map[irq] \in BYTE
    BY <1>1
  <2> QED
    BY <2>1
<1>4. new = [manager EXCEPT !.registers = r, !.map = m]
  OBVIOUS
<1> HIDE DEF r, m
<1>5. ASSUME NEW b \in DOMAIN redirection, NEW p \in Pins PROVE Result(n, b, p, r[b][p])
  <2>1. CASE Writes(n, b, p)
    <3>1. r[b][p] = Written(n)
      BY <1>2, <2>1
    <3>2. n \in 1..n /\ \A j \in (n + 1)..n : FALSE
      OBVIOUS
    <3> QED
      BY <2>1, <3>1, <3>2 DEF Result
  <2>2. CASE ~Writes(n, b, p)
    <3>1. r[b][p] = manager.registers[b][p]
      BY <1>2, <2>2
    <3>2. Result(n - 1, b, p, r[b][p])
      BY <1>1, <3>1
    <3>3. 1..n = (1..(n - 1)) \cup {n}
          /\ \A i \in 1..(n - 1) : (i + 1)..n = ((i + 1)..(n - 1)) \cup {n}
      OBVIOUS
    <3> QED
      BY <2>2, <3>2, <3>3 DEF Result
  <2> QED
    BY <2>1, <2>2
<1>6. new \in ManagerRecord /\ new.registers = r
  BY <1>2, <1>3, <1>4 DEF ManagerOK, ManagerRecord
<1> QED
  BY <1>5, <1>6 DEF ManagerOK

\* ... another entry is passed over.
LEMMA PassOK ==
    ASSUME NEW n \in Nat \ {0}, NEW manager, ManagerOK(n - 1, manager),
           \A b, p : ~Writes(n, b, p)
    PROVE  ManagerOK(n, manager)
<1>1. ASSUME NEW b, NEW p, NEW entry, Result(n - 1, b, p, entry) PROVE Result(n, b, p, entry)
  <2>1. 1..n = (1..(n - 1)) \cup {n}
        /\ \A i \in 1..(n - 1) : (i + 1)..n = ((i + 1)..(n - 1)) \cup {n}
    OBVIOUS
  <2> QED
    BY <1>1, <2>1 DEF Result
<1> QED
  BY <1>1 DEF ManagerOK

LEMMA EntryOK ==
    ASSUME RegistersInv, NEW n \in 1..Len(mp.table), NEW manager, ManagerOK(n - 1, manager)
    PROVE  ManagerOK(n, IF mp.table[n].type = "line" THEN Program(manager, mp.table[n])
                        ELSE manager)
<1> DEFINE line == mp.table[n]
<1>1. line \in Entry /\ n \in Nat \ {0}
  BY DEF RegistersInv
<1>2. manager.isa = kGetIOAPICBaseAddressOfISA /\ manager.pci = kGetIOAPICBaseAddressOfPCI
  BY DEF ManagerOK, ManagerRecord
<1>3. CASE ByISA(line)
  <2>1. line.pin \in BYTE /\ line.irq \in BYTE
    BY <1>1, <1>3, LineIs DEF ByISA
  <2>2. Written(n) = ISAEntry(line) /\ Written(n) \in EntryRecord
    BY <1>3, <2>1, EntriesAre DEF Written
  <2>3. \A b, p : Writes(n, b, p) <=> (b = manager.isa /\ p = line.pin)
    BY <1>2, <1>3 DEF Writes, ByISA, ByPCI
  <2> DEFINE new == Program(manager, line)
  <2>4. new = [manager EXCEPT
                 !.registers = kWriteIOAPICRedirectionTable(@, manager.isa, line.pin, Written(n)),
                 !.map = [irq \in DOMAIN @ |-> IF irq = line.irq THEN line.pin ELSE @[irq]]]
    BY <1>3, <2>2 DEF Program, ByISA
  <2> HIDE DEF new
  <2>5. ManagerOK(n, new)
    BY <1>1, <2>1, <2>2, <2>3, <2>4, EnterOK
  <2> QED
    BY <1>3, <2>5 DEF ByISA, new
<1>4. CASE ByPCI(line)
  <2>1. line.pin \in BYTE /\ line.irq \in BYTE
    BY <1>1, <1>4, LineIs DEF ByPCI
  <2>2. Written(n) = PCIEntry(line) /\ Written(n) \in EntryRecord
    BY <1>4, <2>1, EntriesAre DEF Written, ByISA, ByPCI
  <2>3. \A b, p : Writes(n, b, p) <=> (b = manager.pci /\ p = line.pin)
    BY <1>2, <1>4 DEF Writes, ByISA, ByPCI
  <2> DEFINE new == Program(manager, line)
  <2>4. new = [manager EXCEPT
                 !.registers = kWriteIOAPICRedirectionTable(@, manager.pci, line.pin, Written(n)),
                 !.map = [irq \in DOMAIN @ |-> IF irq = line.irq THEN line.pin ELSE @[irq]]]
    BY <1>4, <2>2 DEF Program, ByPCI
  <2> HIDE DEF new
  <2>5. ManagerOK(n, new)
    BY <1>1, <2>1, <2>2, <2>3, <2>4, EnterOK
  <2> QED
    BY <1>4, <2>5 DEF ByPCI, new
<1>5. CASE ~ByISA(line) /\ ~ByPCI(line)
  <2>1. \A b, p : ~Writes(n, b, p)
    BY <1>5 DEF Writes
  <2>2. line.type = "line" => Program(manager, line) = manager
    BY <1>5 DEF Program, ByISA, ByPCI
  <2> QED
    BY <1>1, <2>1, <2>2, PassOK
<1> QED
  BY <1>3, <1>4, <1>5

\* So the tables are what the last line of each pin says.
LEMMA ProgrammedOK ==
    ASSUME RegistersInv
    PROVE  ManagerOK(Len(mp.table), Programmed)
<1> DEFINE k == Len(mp.table)
           S == {n \in 0..k : ManagerOK(n, ProgrammedBy[n])}
<1>1. k \in Nat
  BY DEF RegistersInv
<1>2. \A n \in 0..k : ProgrammedBy[n] = AfterEntry(ProgrammedBy, n)
  BY <1>1, ProgrammedIs
<1>3. 0 \in S
  BY <1>1, <1>2, FirstOK DEF AfterEntry
<1>4. ASSUME NEW m \in 0..k - 1, m \in S PROVE m + 1 \in S
  <2>1. m + 1 \in 1..k /\ m + 1 \in 0..k /\ (m + 1) - 1 = m /\ m + 1 # 0
    BY <1>1
  <2>2. ManagerOK((m + 1) - 1, ProgrammedBy[m])
    BY <1>4, <2>1
  <2>3. ProgrammedBy[m + 1] = IF mp.table[m + 1].type = "line"
                              THEN Program(ProgrammedBy[m], mp.table[m + 1])
                              ELSE ProgrammedBy[m]
    BY <1>2, <2>1 DEF AfterEntry
  <2>4. ManagerOK(m + 1, ProgrammedBy[m + 1])
    BY <2>1, <2>2, <2>3, EntryOK
  <2> QED
    BY <2>1, <2>4
<1> HIDE DEF S, k
<1>5. k \in S
  BY <1>1, <1>3, <1>4, Induction
<1> QED
  BY <1>5 DEF S, k, Programmed

\* The lower halves do not change when the tables are programmed once more.
LEMMA ProgrammedTwice ==
    ASSUME RegistersInv, RegistersInv', mp' = mp, DOMAIN redirection' = DOMAIN redirection,
           \A base \in DOMAIN redirection : \A pin \in Pins :
               redirection'[base][pin].low = Programmed.registers[base][pin].low
    PROVE  \A base \in DOMAIN redirection : \A pin \in Pins :
               redirection'[base][pin].low = Programmed'.registers[base][pin].low
<1> SUFFICES ASSUME NEW base \in DOMAIN redirection, NEW pin \in Pins
             PROVE  redirection'[base][pin].low = Programmed'.registers[base][pin].low
  OBVIOUS
<1> PICK n : n = Len(mp.table)
  OBVIOUS
<1> PICK before : before = Programmed.registers[base][pin]
  OBVIOUS
<1> PICK after : after = Programmed'.registers[base][pin]
  OBVIOUS
<1>1. Result(n, base, pin, before)
  BY ProgrammedOK DEF ManagerOK
<1>2. ManagerOK(Len(mp.table), Programmed)'
  BY ProgrammedOK, PTL
<1>3. Len(mp'.table) = n /\ base \in DOMAIN redirection'
      /\ kGetIOAPICBaseAddressOfISA' = kGetIOAPICBaseAddressOfISA
      /\ kGetIOAPICBaseAddressOfPCI' = kGetIOAPICBaseAddressOfPCI
  BY DEF kGetIOAPICBaseAddressOfISA, kGetIOAPICBaseAddressOfPCI, kFindIOAPICEntryForISA,
         kFindIOAPICEntryForPCI
<1>4. Result(n, base, pin, after)'
  BY <1>2, <1>3 DEF ManagerOK
<1>5. \A i : (Writes(i, base, pin)' <=> Writes(i, base, pin)) /\ Written(i)' = Written(i)
  BY <1>3 DEF Writes, Written, ByISA, ByPCI
<1>6. redirection[base][pin] \in EntryRecord /\ redirection'[base][pin] \in EntryRecord
  BY <1>3 DEF RegistersInv
<1>7. n \in Nat
  BY DEF RegistersInv
<1>8. CASE \E i \in 1..n : Writes(i, base, pin)
  <2>1. PICK i \in 1..n : /\ Writes(i, base, pin) /\ before = Written(i)
                          /\ \A j \in (i + 1)..n : ~Writes(j, base, pin)
    BY <1>1, <1>8 DEF Result
  <2>2. PICK k \in 1..n : /\ Writes(k, base, pin) /\ after = Written(k)
                          /\ \A j \in (k + 1)..n : ~Writes(j, base, pin)
    BY <1>3, <1>4, <1>5, <1>8 DEF Result
  <2>3. i = k
    BY <1>7, <2>1, <2>2
  <2> QED
    BY <2>1, <2>2, <2>3
<1>9. CASE \A i \in 1..n : ~Writes(i, base, pin)
  <2>1. before = Start(base, pin)
    BY <1>1, <1>9 DEF Result
  <2>2. after = Start(base, pin)'
    BY <1>4, <1>5, <1>9 DEF Result
  <2>3. redirection'[base][pin].low = before.low
    OBVIOUS
  <2>4. CASE base \in {kGetIOAPICBaseAddressOfISA, kGetIOAPICBaseAddressOfPCI}
    <3>1. before.low = [redirection[base][pin].low EXCEPT !.mask = TRUE]
      BY <1>6, <2>1, <2>4, MaskedIs DEF Start
    <3>2. after.low = [redirection'[base][pin].low EXCEPT !.mask = TRUE]
      BY <1>3, <1>6, <2>2, <2>4, MaskedIs DEF Start
    <3>3. after.low = before.low
      BY <1>6, <2>3, <3>1, <3>2 DEF EntryRecord, LowRecord
    <3> QED
      BY <2>3, <3>3
  <2>5. CASE base \notin {kGetIOAPICBaseAddressOfISA, kGetIOAPICBaseAddressOfPCI}
    <3>1. after = redirection'[base][pin]
      BY <1>3, <2>2, <2>5 DEF Start
    <3> QED
      BY <3>1
  <2> QED
    BY <2>4, <2>5
<1> QED
  BY <1>8, <1>9

LEMMA ResetIs ==
    /\ Reset \in EntryRecord /\ Reset.dest = 0 /\ Reset.low.mask
    /\ Blanks \in [Pins -> EntryRecord]
BY DEF Reset, kSetIOAPICRedirectionEntry, EntryRecord, LowRecord, BYTE, Blanks

LEMMA NotRoutingIs ==
    NotRouting \in RouteRecord /\ NotRouting.step = 0 /\ NotRouting.dest = 0
BY DEF NotRouting, RouteRecord

LEMMA InitEstablishesR == Init => RInv
<1> SUFFICES ASSUME Init PROVE RInv
  OBVIOUS
<1>0. 0 \in Cores /\ core = [c \in Cores |-> CoreInit] /\ ~shared.symmetric /\ ~shared.balancing
      /\ shared.awake = 0 /\ pc = [c \in Cores |-> IF c = 0 THEN "reset" ELSE "off"]
      /\ CoreInit.vector = None /\ ~CoreInit.flag
  BY CoresAre DEF Init, LoaderInit, CoreInit
<1>1. Where(0) = "reset" /\ \A c \in Cores \ {0} : Where(c) = "off"
  BY <1>0 DEF Where
<1>2. RegistersInv
  <2> PICK bases : /\ redirection = [base \in bases |-> Blanks]
                   /\ selector = [base \in bases |-> <<"low", 0>>]
    BY DEF Init, IOAPICInit, Blanks, Pins
  <2>1. DOMAIN selector = DOMAIN redirection
        /\ redirection \in [DOMAIN redirection -> [Pins -> EntryRecord]]
    BY ResetIs
  <2>2. selector \in [DOMAIN redirection -> {"high", "low"} \X BYTE]
    BY DEF BYTE
  <2>3. ioapic.map \in [0..(IRQS - 1) -> BYTE]
    BY DEF Init, IOAPICInit, BYTE
  <2>4. route = [c \in Cores |-> NotRouting] /\ machine \in Machines /\ mp = NoConfiguration
    BY DEF Init, IOAPICInit, LoaderInit
  <2>5. mp.table \in Seq(Entry) /\ mp.processors \in Nat
    BY <2>4 DEF NoConfiguration
  <2> QED
    BY <2>1, <2>2, <2>3, <2>4, <2>5, NotRoutingIs DEF RegistersInv
<1>3. PhaseInv
  BY <1>0, <1>1 DEF PhaseInv, Init, IOAPICInit, Blanks, Pins
<1>4. RouteInv
  BY DEF RouteInv, Init, IOAPICInit
<1>5. LowsInv
  BY <1>0 DEF LowsInv
<1>6. AwakeInv
  <2>1. {c \in Cores \ {0} : Counted(c)} = {}
    BY <1>1 DEF Counted
  <2> QED
    BY <1>0, <1>1, <2>1, FS_EmptySet DEF AwakeInv
<1>7. DestInv
  BY <1>0 DEF DestInv
<1> QED
  BY <1>2, <1>3, <1>4, <1>5, <1>6, <1>7 DEF RInv

(***************************************************************************)
(* Steps that leave the I/O APIC alone                                     *)
(***************************************************************************)
LEMMA LowsStay ==
    ASSUME RInv, RegistersInv', UNCHANGED <<mp, redirection>>, shared'.symmetric = shared.symmetric,
           ~overlap' => ~overlap,
           shared'.symmetric /\ Where(0)' # "table" => Where(0) # "table"
    PROVE  LowsInv'
BY ProgrammedTwice DEF RInv, LowsInv

LEMMA OrderlyStays ==
    ASSUME UNCHANGED <<mp, machine>>
    PROVE  OrderlyProcessors' <=> OrderlyProcessors
BY DEF OrderlyProcessors

\* What a step may do that neither routes nor counts nor changes the mode.
LEMMA Frame ==
    ASSUME IInv, RInv, UNCHANGED <<machine, ioapicVars>>,
           shared'.balancing = shared.balancing, shared'.symmetric = shared.symmetric,
           shared'.awake = shared.awake,
           \A d \in Cores \ {0} :
               /\ Counted(d)' <=> Counted(d)
               /\ pc'[d] # "off" => pc[d] # "off" \/ d \in machine.responding
               /\ core'[d].flag \/ core'[d].vector # None => Where(d)' = "idle"
               /\ shared.symmetric => (pc'[d] \in Asleep => pc[d] \in Asleep),
           \/ Where(0)' = Where(0)
           \/ /\ Where(0)' \notin {"table", "enable", "balance", "change", "mode"}
              /\ Where(0) # "table" \/ ~shared.symmetric
           \/ Where(0) = "change" /\ Where(0)' = "mode"
           \/ Where(0) = "enable" /\ Where(0)' = "balance"
    PROVE  RInv'
<1>1. RegistersInv' /\ RouteInv'
  <2>1. RegistersInv'
    BY DEF RInv, RegistersInv, ioapicVars
  <2>2. \A c, base, pin : HalfWay(c, base, pin)' <=> HalfWay(c, base, pin)
    BY DEF HalfWay, Exists, ioapicVars
  <2>3. \A c : BaseOf(c)' = BaseOf(c) /\ PinOf(c)' = PinOf(c)
    BY DEF BaseOf, PinOf, ioapicVars
  <2>4. RouteInv'
    BY <2>2, <2>3 DEF RInv, RouteInv, ioapicVars
  <2> QED
    BY <2>1, <2>4
<1>2. PhaseInv'
  BY DEF RInv, PhaseInv, ioapicVars
<1>3. LowsInv'
  BY <1>1, LowsStay DEF ioapicVars
<1>4. AwakeInv'
  <2>1. {c \in Cores \ {0} : Counted(c)}' = {c \in Cores \ {0} : Counted(c)}
    OBVIOUS
  <2>2. OrderlyProcessors' => OrderlyProcessors
    BY OrderlyStays DEF ioapicVars
  <2>3. \A i \in 1..(mp.processors - 1) : i \in Cores => (Counted(i)' <=> Counted(i))
    BY DEF RInv, RegistersInv
  <2>4. OrderlyProcessors' /\ (shared'.symmetric \/ Where(0)' \in {"change", "mode"})
          => \A i \in 1..(mp.processors - 1) : i \in Cores /\ Counted(i)
    BY <2>2 DEF RInv, AwakeInv
  <2>5. mp' = mp
    BY DEF ioapicVars
  <2> QED
    BY <2>1, <2>3, <2>4, <2>5 DEF RInv, AwakeInv
<1>5. DestInv'
  <2>1. shared.symmetric => \A d : Awake(d) => Awake(d)'
    BY DEF Awake, Asleep
  <2>2. OrderlyProcessors' => OrderlyProcessors
    BY OrderlyStays DEF ioapicVars
  <2> QED
    BY <2>1, <2>2 DEF RInv, DestInv, ioapicVars
<1> QED
  BY <1>1, <1>2, <1>3, <1>4, <1>5 DEF RInv

\* One core goes on.
LEMMA Moved ==
    ASSUME IInv, RInv, NEW c \in Cores, NEW label, UNCHANGED <<machine, ioapicVars>>,
           shared'.balancing = shared.balancing, shared'.symmetric = shared.symmetric,
           shared'.awake = shared.awake,
           pc' = [pc EXCEPT ![c] = label],
           \A d \in Cores \ {c} :
               /\ core'[d].vector = core[d].vector /\ core'[d].back = core[d].back
               /\ core'[d].flag = core[d].flag,
           c # 0 =>
               /\ Counted(c)' <=> Counted(c)
               /\ label # "off" => pc[c] # "off"
               /\ core'[c].flag \/ core'[c].vector # None => Where(c)' = "idle"
               /\ label \in Asleep => pc[c] \in Asleep,
           c = 0 =>
               \/ Where(0)' = Where(0)
               \/ /\ Where(0)' \notin {"table", "enable", "balance", "change", "mode"}
                  /\ Where(0) # "table" \/ ~shared.symmetric
               \/ Where(0) = "change" /\ Where(0)' = "mode"
               \/ Where(0) = "enable" /\ Where(0)' = "balance"
    PROVE  RInv'
<1>0. pc \in [Cores -> Labels] /\ 0 \in Cores
  BY CoresAre DEF IInv, TypeInv
<1>1. pc'[c] = label /\ \A d \in Cores \ {c} : pc'[d] = pc[d] /\ Where(d)' = Where(d)
  BY <1>0 DEF Where
<1>2. \A d \in Cores \ {0, c} : Counted(d)' <=> Counted(d)
  BY <1>1 DEF Counted
<1>3. \A d \in Cores \ {0, c} : core'[d].flag \/ core'[d].vector # None => Where(d)' = "idle"
  BY <1>1 DEF RInv, AwakeInv
<1>4. \A d \in Cores \ {0} :
               /\ Counted(d)' <=> Counted(d)
               /\ pc'[d] # "off" => pc[d] # "off" \/ d \in machine.responding
               /\ core'[d].flag \/ core'[d].vector # None => Where(d)' = "idle"
               /\ shared.symmetric => (pc'[d] \in Asleep => pc[d] \in Asleep)
  BY <1>1, <1>2, <1>3
<1>5. c # 0 => Where(0)' = Where(0)
  BY <1>0, <1>1
<1> QED
  BY <1>4, <1>5, Frame

\* The bootstrap processor goes on.
LEMMA MovedFirst ==
    ASSUME IInv, RInv, NEW label \in Labels \ Handler, UNCHANGED <<machine, ioapicVars>>,
           shared'.balancing = shared.balancing, shared'.symmetric = shared.symmetric,
           shared'.awake = shared.awake,
           pc[0] \notin Handler, pc' = [pc EXCEPT ![0] = label],
           \/ UNCHANGED core
           \/ \E r : core' = [core EXCEPT ![0] = r] /\ r.vector = core[0].vector,
           \/ /\ label \notin {"table", "enable", "balance", "change", "mode"}
              /\ pc[0] # "table" \/ ~shared.symmetric
           \/ pc[0] = "change" /\ label = "mode"
           \/ pc[0] = "enable" /\ label = "balance"
    PROVE  RInv'
<1>0. pc \in [Cores -> Labels] /\ core \in [Cores -> CoreRecord] /\ 0 \in Cores
      /\ core[0].vector = None /\ Where(0) = pc[0]
  BY CoresAre, AtLabel DEF IInv, TypeInv
<1>1. core'[0].vector = None /\ \A d \in Cores \ {0} : core'[d] = core[d]
  BY <1>0
<1>2. Where(0)' = label
  BY <1>0, <1>1 DEF Where
<1> QED
  BY <1>0, <1>1, <1>2, Moved

LEMMA LoaderStepR == ASSUME IInv, RInv, LoaderNext, UNCHANGED later PROVE RInv'
<1>0. UNCHANGED <<core, shared, ioapicVars, machine>>
  BY DEF later, LoaderNext, ResetDisk, ReadData, ReadEnd, HandleDiskError, loaderVars
<1>1. pc[0] \in {"reset", "read"}
  BY DEF LoaderNext, ResetDisk, ReadData, ReadEnd
<1>2. \E label \in {"halt", "read", "entry16"} : pc' = [pc EXCEPT ![0] = label]
  <2>1. CASE ReadData
    <3>1. pc = [pc EXCEPT ![0] = "read"]
      BY <2>1, CoresAre DEF ReadData, IInv, TypeInv
    <3>2. pc' = pc \/ pc' = [pc EXCEPT ![0] = "halt"]
      BY <2>1 DEF ReadData, HandleDiskError, Goto
    <3> QED
      BY <3>1, <3>2
  <2>2. CASE ResetDisk \/ ReadEnd
    BY <2>2 DEF ResetDisk, ReadEnd, HandleDiskError, Goto
  <2> QED
    BY <2>1, <2>2 DEF LoaderNext
<1>3. PICK label \in {"halt", "read", "entry16"} : pc' = [pc EXCEPT ![0] = label]
  BY <1>2
<1>4. pc[0] \notin Handler /\ label \in Labels \ Handler
  BY <1>1 DEF Handler, Labels
<1> QED
  BY <1>0, <1>1, <1>3, <1>4, MovedFirst

LEMMA Kernel32StepR ==
    ASSUME IInv, RInv, UNCHANGED later,
           BootstrapKernel32Next \/ \E c \in Cores : SharedKernel32Next(c)
    PROVE  RInv'
<1>0. UNCHANGED <<core, shared, ioapicVars, machine>>
  BY DEF later, BootstrapKernel32Next, SharedKernel32Next, EntryPoint, Main,
         kSwitchAndExecute64bitKernel, kIsMemoryEnough, kInitializeKernel64Area,
         kInitializePageTables, kReadCPUID, kCopyKernel64ImageTo2Mbyte, loaderVars
<1>1. CASE BootstrapKernel32Next
  <2>1. pc[0] \in {"memory", "area", "tables", "cpuid", "copy"}
    BY <1>1 DEF BootstrapKernel32Next, kIsMemoryEnough, kInitializeKernel64Area,
         kInitializePageTables, kReadCPUID, kCopyKernel64ImageTo2Mbyte
  <2>2. PICK label \in {"halt", "area", "tables", "cpuid", "copy", "switch"} :
          pc' = [pc EXCEPT ![0] = label]
    BY <1>1 DEF BootstrapKernel32Next, kIsMemoryEnough, kInitializeKernel64Area,
         kInitializePageTables, kReadCPUID, kCopyKernel64ImageTo2Mbyte, Goto
  <2>3. pc[0] \notin Handler /\ label \in Labels \ Handler
    BY <2>1 DEF Handler, Labels
  <2> QED
    BY <1>0, <2>1, <2>2, <2>3, MovedFirst
<1>2. ASSUME NEW c \in Cores, SharedKernel32Next(c) PROVE RInv'
  <2>1. pc[c] \in {"entry16", "main32", "switch"}
    BY <1>2 DEF SharedKernel32Next, EntryPoint, Main, kSwitchAndExecute64bitKernel
  <2>2. PICK label \in {"main32", "switch", "memory", "halt", "entry64"} :
          pc' = [pc EXCEPT ![c] = label]
    BY <1>2 DEF SharedKernel32Next, EntryPoint, Main, kSwitchAndExecute64bitKernel, Goto
  <2>3. pc[c] \notin Handler /\ label \in Labels \ Handler
    BY <2>1 DEF Handler, Labels
  <2>4. CASE c = 0
    BY <1>0, <2>1, <2>2, <2>3, <2>4, MovedFirst
  <2>5. CASE c # 0
    <3>1. core[c].vector = None /\ Where(c) = pc[c] /\ pc \in [Cores -> Labels]
      BY <2>3, AtLabel DEF IInv, TypeInv
    <3>2. Where(c)' = label
      BY <1>0, <2>2, <3>1 DEF Where
    <3>3. Counted(c)' <=> Counted(c)
      BY <2>1, <3>1, <3>2 DEF Counted
    <3>4. ~core[c].flag
      BY <2>1, <2>5, <3>1 DEF RInv, AwakeInv
    <3>5. pc[c] \in Asleep /\ pc[c] # "off"
      BY <2>1 DEF Asleep
    <3> QED
      BY <1>0, <2>2, <2>5, <3>1, <3>3, <3>4, <3>5, Moved
  <2> QED
    BY <2>4, <2>5
<1> QED
  BY <1>1, <1>2

(***************************************************************************)
(* The bootstrap processor                                                 *)
(***************************************************************************)
LEMMA EasyStepsR ==
    ASSUME IInv, RInv,
           \/ Main_64 \/ Devices \/ kEnableSoftwareLocalAPIC \/ RestoreAfterWakeUp \/ MaskPIC
           \/ RestoreAfterChange
    PROVE  RInv'
<1>0. UNCHANGED <<ioapicVars, machine>> /\ shared'.balancing = shared.balancing
      /\ shared'.symmetric = shared.symmetric /\ shared'.awake = shared.awake
  BY DEF Main_64, Devices, kEnableSoftwareLocalAPIC, RestoreAfterWakeUp, MaskPIC,
         RestoreAfterChange, earlier, loaderVars, IInv, TypeInv, SharedRecord
<1>1. PICK label \in {"devices", "analysis", "halt", "wakeup", "wait", "mode", "balance"} :
        /\ pc' = [pc EXCEPT ![0] = label]
        /\ label = "mode" => pc[0] = "change"
        /\ label = "balance" => pc[0] = "enable"
  BY DEF Main_64, Devices, kEnableSoftwareLocalAPIC, RestoreAfterWakeUp, MaskPIC,
         RestoreAfterChange, Step, At, Goto
<1>2. pc[0] \in {"entry64", "devices", "apic", "restore", "change", "enable"}
  BY DEF Main_64, Devices, kEnableSoftwareLocalAPIC, RestoreAfterWakeUp, MaskPIC,
         RestoreAfterChange, Step, At
<1>3. core' = core \/ \E r : core' = [core EXCEPT ![0] = r] /\ r.vector = core[0].vector
  <2>0. core[0] \in CoreRecord
    BY CoresAre DEF IInv, TypeInv
  <2>1. \A f, a : [core[0] EXCEPT !.flag = f].vector = core[0].vector
                  /\ [core[0] EXCEPT !.apic = a].vector = core[0].vector
                  /\ [core[0] EXCEPT !.apic = a, !.flag = f].vector = core[0].vector
                  /\ [core[0] EXCEPT !.stack = 0, !.tr = 0, !.scheduler = TRUE].vector
                       = core[0].vector
    BY <2>0 DEF CoreRecord
  <2>2. \/ core' = core
        \/ \E f : core' = [core EXCEPT ![0] = [core[0] EXCEPT !.flag = f]]
        \/ \E a : core' = [core EXCEPT ![0] = [core[0] EXCEPT !.apic = a]]
        \/ \E f, a : core' = [core EXCEPT ![0] = [core[0] EXCEPT !.apic = a, !.flag = f]]
        \/ core' = [core EXCEPT ![0] = [core[0] EXCEPT !.stack = 0, !.tr = 0,
                                                       !.scheduler = TRUE]]
    <3>1. CASE Main_64
      BY <3>1 DEF Main_64
    <3>2. CASE Devices
      BY <3>2 DEF Devices
    <3>3. CASE kEnableSoftwareLocalAPIC
      BY <3>3 DEF kEnableSoftwareLocalAPIC
    <3>4. CASE RestoreAfterWakeUp \/ RestoreAfterChange
      BY <3>4 DEF RestoreAfterWakeUp, RestoreAfterChange
    <3>5. CASE MaskPIC
      BY <3>5 DEF MaskPIC
    <3> QED
      BY <3>1, <3>2, <3>3, <3>4, <3>5
  <2>3. ASSUME NEW f, core' = [core EXCEPT ![0] = [core[0] EXCEPT !.flag = f]]
        PROVE  \E r : core' = [core EXCEPT ![0] = r] /\ r.vector = core[0].vector
    BY <2>1, <2>3
  <2>4. ASSUME NEW a, core' = [core EXCEPT ![0] = [core[0] EXCEPT !.apic = a]]
        PROVE  \E r : core' = [core EXCEPT ![0] = r] /\ r.vector = core[0].vector
    BY <2>1, <2>4
  <2>5. ASSUME NEW f, NEW a,
               core' = [core EXCEPT ![0] = [core[0] EXCEPT !.apic = a, !.flag = f]]
        PROVE  \E r : core' = [core EXCEPT ![0] = r] /\ r.vector = core[0].vector
    BY <2>1, <2>5
  <2>6. CASE core' = [core EXCEPT ![0] = [core[0] EXCEPT !.stack = 0, !.tr = 0,
                                                        !.scheduler = TRUE]]
    BY <2>1, <2>6
  <2> QED
    BY <2>2, <2>3, <2>4, <2>5, <2>6, Zenon
<1>4. pc[0] \notin Handler /\ label \in Labels \ Handler
  BY <1>2 DEF Handler, Labels
<1>5. label \notin {"table", "enable", "balance", "change", "mode"}
      \/ label = "mode" \/ label = "balance"
  OBVIOUS
<1> QED
  BY <1>0, <1>1, <1>2, <1>3, <1>4, <1>5, MovedFirst

LEMMA CheckPendingR ==
    ASSUME IInv, RInv, NEW from, NEW to, CheckPending(from, to),
           from \in {"sent0", "sent1", "sent2"}, to \in {"send1", "send2", "restore"}
    PROVE  RInv'
<1>0. UNCHANGED <<ioapicVars, machine, shared>> /\ pc[0] = from
  BY DEF CheckPending, earlier, loaderVars, At
<1>1. PICK label \in {"idle", "send1", "send2", "restore"} : pc' = [pc EXCEPT ![0] = label]
  BY DEF CheckPending, Goto
<1>2. core' = core \/ \E r : core' = [core EXCEPT ![0] = r] /\ r.vector = core[0].vector
  <2>1. core[0] \in CoreRecord
    BY CoresAre DEF IInv, TypeInv
  <2>2. [core[0] EXCEPT !.flag = shared.saved].vector = core[0].vector
    BY <2>1 DEF CoreRecord
  <2> QED
    BY <2>2 DEF CheckPending
<1>3. pc[0] \notin Handler /\ label \in Labels \ Handler /\ pc[0] # "table"
  BY <1>0 DEF Handler, Labels
<1> QED
  BY <1>0, <1>1, <1>2, <1>3, MovedFirst

\* Counted processors, with those that have an ID that the kernel awaits.
LEMMA CountedIs ==
    ASSUME IInv, RInv, OrderlyProcessors
    PROVE  {c \in Cores \ {0} : Counted(c)} \subseteq 1..(mp.processors - 1)
<1> SUFFICES ASSUME NEW c \in Cores \ {0}, Counted(c) PROVE c \in 1..(mp.processors - 1)
  OBVIOUS
<1>1. pc[c] # "off"
  BY DEF Counted, Where, IInv, HandlerInv, Handler
<1>2. c \in machine.responding /\ c \in 0..15
  BY <1>1, CoresAre DEF RInv, AwakeInv
<1>3. machine.responding \subseteq 0..(mp.processors - 1)
  BY DEF OrderlyProcessors
<1> QED
  BY <1>2, <1>3 DEF RInv, RegistersInv

\* The wait is over when as many are awake as there are: so they are all awake.
LEMMA AwaitR == ASSUME IInv, RInv, AwaitProcessors PROVE RInv'
<1>0. UNCHANGED <<ioapicVars, machine, core>> /\ shared'.balancing = shared.balancing
      /\ shared'.symmetric = shared.symmetric /\ shared'.awake = shared.awake
  BY DEF AwaitProcessors, earlier, loaderVars, IInv, TypeInv, SharedRecord
<1>1. pc[0] \in {"wait", "sleep"}
  BY DEF AwaitProcessors, At
<1>2. pc[0] \notin Handler
  BY <1>1 DEF Handler
<1>3. CASE Goto(0, "sleep") \/ Goto(0, "wait")
  <2>1. PICK label \in {"sleep", "wait"} : pc' = [pc EXCEPT ![0] = label]
    BY <1>3 DEF Goto
  <2>2. label \in Labels \ Handler
    BY DEF Labels, Handler
  <2> QED
    BY <1>0, <1>1, <1>2, <2>1, <2>2, MovedFirst
<1>4. CASE Goto(0, "change") /\ shared.awake >= mp.processors - 1
  <2>0. pc \in [Cores -> Labels] /\ 0 \in Cores /\ core[0].vector = None /\ Where(0) = pc[0]
        /\ pc' = [pc EXCEPT ![0] = "change"]
    BY <1>2, <1>4, CoresAre, AtLabel DEF IInv, TypeInv, Goto
  <2>1. Where(0)' = "change" /\ \A d \in Cores \ {0} : Where(d)' = Where(d) /\ pc'[d] = pc[d]
    BY <1>0, <2>0 DEF Where
  <2>2. ~shared.symmetric
    BY <1>1, <2>0 DEF IInv, ModeInv, Symmetric
  <2>3. RegistersInv' /\ RouteInv'
    <3>1. RegistersInv'
      BY <1>0 DEF RInv, RegistersInv, ioapicVars
    <3>2. RouteInv'
      BY <1>0, <2>2 DEF RInv, RouteInv, ioapicVars, IInv, ModeInv
    <3> QED
      BY <3>1, <3>2
  <2>4. PhaseInv'
    BY <1>0, <2>1, <2>2 DEF RInv, PhaseInv, ioapicVars
  <2>5. LowsInv' /\ DestInv'
    BY <1>0, <2>2 DEF LowsInv, DestInv
  <2>6. AwakeInv'
    <3> DEFINE C == {c \in Cores \ {0} : Counted(c)}
               n == mp.processors
    <3>1. C' = C
      BY <2>1 DEF Counted
    <3>2. ASSUME OrderlyProcessors PROVE C = 1..(n - 1)
      <4>1. C \subseteq 1..(n - 1) /\ n \in Nat
        BY <3>2, CountedIs DEF RInv, RegistersInv
      <4>2. Cardinality(C) >= n - 1
        BY <1>4 DEF RInv, AwakeInv
      <4> HIDE DEF C, n
      <4>3. IsFiniteSet(1..(n - 1)) /\ Cardinality(1..(n - 1)) = IF n = 0 THEN 0 ELSE n - 1
        BY <4>1, FS_Interval
      <4>4. Cardinality(C) <= Cardinality(1..(n - 1)) /\ Cardinality(C) \in Nat
        BY <4>1, <4>3, FS_Subset, FS_CardinalityType
      <4>5. CASE n = 0
        BY <4>1, <4>5
      <4>6. CASE n # 0
        <5>1. Cardinality(C) = Cardinality(1..(n - 1))
          BY <4>1, <4>2, <4>3, <4>4, <4>6
        <5> QED
          BY <4>1, <4>3, <5>1, FS_Subset, Zenon
      <4> QED
        BY <4>5, <4>6
    <3>3. OrderlyProcessors' => OrderlyProcessors
      BY <1>0, OrderlyStays DEF ioapicVars
    <3>4. OrderlyProcessors' => \A i \in 1..(n - 1) : i \in Cores /\ Counted(i)'
      BY <3>1, <3>2, <3>3
    <3> QED
      BY <1>0, <2>1, <3>1, <3>4 DEF RInv, AwakeInv, ioapicVars
  <2> QED
    BY <2>3, <2>4, <2>5, <2>6 DEF RInv
<1> QED
  BY <1>3, <1>4 DEF AwaitProcessors

\* Before the mode changes the tables are blank and nobody routes.
LEMMA BeforeSymmetric ==
    ASSUME IInv, RInv, ~shared.symmetric, ~shared'.symmetric,
           shared'.balancing = shared.balancing, UNCHANGED <<route, redirection>>
    PROVE  PhaseInv' /\ RouteInv' /\ LowsInv' /\ DestInv'
<1>1. ~shared'.balancing /\ \A c \in Cores : route'[c] = NotRouting
  BY DEF IInv, ModeInv
<1> QED
  BY <1>1 DEF RInv, PhaseInv, RouteInv, LowsInv, DestInv

\* The table that the firmware left is a table.
LEMMA AnalysisIs ==
    ASSUME NEW m \in Machines, NEW picMode, NEW c,
           c = kAnalysisMPConfigurationTable(m.areas, picMode)
    PROVE  c.table \in Seq(Entry) /\ c.processors \in Nat
<1> DEFINE found == m.areas[1] \o m.areas[2] \o m.areas[3]
<1>1. found \in Seq(Seq(Entry))
  <2>1. m.areas[1] \in Seq(Seq(Entry)) /\ m.areas[2] \in Seq(Seq(Entry))
        /\ m.areas[3] \in Seq(Seq(Entry))
    BY TableAssumption
  <2> QED
    BY <2>1
<1> DEFINE enabled == {i \in DOMAIN found[1] : found[1][i].type = "processor" /\ found[1][i].enabled}
<1>2. found # <<>> => found[1] \in Seq(Entry) /\ Cardinality(enabled) \in Nat
  <2> HAVE found # <<>>
  <2> HIDE DEF found
  <2>1. found[1] \in Seq(Entry)
    BY <1>1
  <2>2. DOMAIN found[1] = 1..Len(found[1]) /\ Len(found[1]) \in Nat
    BY <2>1
  <2>3. IsFiniteSet(1..Len(found[1])) /\ enabled \in SUBSET (1..Len(found[1]))
    BY <2>2, FS_Interval
  <2> HIDE DEF enabled
  <2>4. Cardinality(enabled) \in Nat
    BY <2>3, FS_Subset, FS_CardinalityType
  <2> QED
    BY <2>1, <2>4
<1>3. CASE found = <<>>
  <2>1. c = [NoConfiguration EXCEPT !.isa = 255, !.pci = 255]
    BY <1>3 DEF kAnalysisMPConfigurationTable, kFindMPFloatingPointerAddress
  <2>2. c.table = <<>> /\ c.processors = 0
    BY <2>1 DEF NoConfiguration
  <2> QED
    BY <2>2
<1>4. CASE found # <<>>
  <2>1. c.table = found[1] /\ c.processors = Cardinality(enabled)
    BY <1>4 DEF kAnalysisMPConfigurationTable, kFindMPFloatingPointerAddress
  <2> QED
    BY <1>2, <1>4, <2>1
<1> QED
  BY <1>3, <1>4

LEMMA StartUpR == ASSUME IInv, RInv, StartUp PROVE RInv'
<1>0. pc[0] = "analysis" /\ 0 \in Cores
      /\ UNCHANGED <<machine, ioapic, redirection, selector, route, core, shared>>
  BY CoresAre DEF StartUp, At, earlier, loaderVars
<1>1. pc[0] \notin Handler
  BY <1>0 DEF Handler
<1>2. core[0].vector = None /\ Where(0) = pc[0] /\ ~shared.symmetric /\ pc \in [Cores -> Labels]
  BY <1>0, <1>1, AtLabel DEF Symmetric, IInv, TypeInv
<1>3. PICK label \in {"apic", "idle"} : pc' = [pc EXCEPT ![0] = label]
  BY DEF StartUp, Goto
<1>4. Where(0)' = label /\ \A d \in Cores \ {0} : Where(d)' = Where(d) /\ pc'[d] = pc[d]
  BY <1>0, <1>2, <1>3 DEF Where
<1>5. RegistersInv'
  <2> PICK config : config = kAnalysisMPConfigurationTable(machine.areas, machine.picMode)
    OBVIOUS
  <2>1. machine \in Machines /\ mp' = config
    BY DEF RInv, RegistersInv, StartUp
  <2>2. mp'.table \in Seq(Entry) /\ mp'.processors \in Nat
    BY <2>1, AnalysisIs
  <2> QED
    BY <1>0, <2>2 DEF RInv, RegistersInv
<1>6. PhaseInv' /\ RouteInv' /\ LowsInv' /\ DestInv'
  BY <1>0, <1>2, BeforeSymmetric
<1>7. AwakeInv'
  <2>1. {c \in Cores \ {0} : Counted(c)}' = {c \in Cores \ {0} : Counted(c)}
    BY <1>4 DEF Counted
  <2> QED
    BY <1>0, <1>2, <1>4, <2>1 DEF RInv, AwakeInv
<1> QED
  BY <1>5, <1>6, <1>7 DEF RInv

\* The messages find the others asleep.
LEMMA SendInitR == ASSUME IInv, RInv, SendInit PROVE RInv'
<1>0. 0 \in Cores /\ pc[0] = "wakeup" /\ UNCHANGED <<machine, ioapicVars>>
      /\ core' = [core EXCEPT ![0].flag = FALSE]
      /\ shared' = [shared EXCEPT !.saved = core[0].flag, !.idAddress = TRUE]
      /\ pc' = [c \in Cores |-> IF c = 0 THEN "sent0"
                                ELSE IF c \in machine.responding THEN "waiting" ELSE pc[c]]
  BY CoresAre DEF SendInit, At, earlier, loaderVars
<1>1. pc[0] \notin Handler
  BY <1>0 DEF Handler
<1>2. core[0] \in CoreRecord /\ core[0].vector = None /\ Where(0) = pc[0] /\ ~shared.symmetric
      /\ ~shared.idAddress /\ shared \in SharedRecord /\ core \in [Cores -> CoreRecord]
  BY <1>0, <1>1, AtLabel DEF Symmetric, Late, IInv, TypeInv
<1>3. \A d \in Cores \ {0} : pc[d] = "off" /\ core[d] = CoreInit
  BY <1>2 DEF IInv, AloneInv
<1>4. core'[0].vector = None /\ \A d \in Cores \ {0} : core'[d] = CoreInit
  BY <1>0, <1>2, <1>3 DEF CoreRecord
<1>5. shared'.balancing = shared.balancing /\ shared'.symmetric = shared.symmetric
      /\ shared'.awake = shared.awake
  BY <1>0, <1>2 DEF SharedRecord
<1>6. Where(0)' = "sent0"
  BY <1>0, <1>4 DEF Where
<1>7. \A d \in Cores \ {0} : /\ Where(d) = "off" /\ Where(d)' \in {"off", "waiting"}
                             /\ pc'[d] # "off" => d \in machine.responding
  BY <1>0, <1>3, <1>4 DEF Where, CoreInit
<1>8. \A d \in Cores \ {0} : Counted(d)' <=> Counted(d)
  BY <1>7 DEF Counted
<1>9. \A d \in Cores \ {0} : ~core'[d].flag /\ core'[d].vector = None
  BY <1>4 DEF CoreInit
<1> QED
  BY <1>0, <1>2, <1>5, <1>6, <1>7, <1>8, <1>9, Frame

LEMMA SendStartUpR ==
    ASSUME IInv, RInv, NEW from, NEW to, SendStartUp(from, to),
           from \in {"send1", "send2"}, to \in {"sent1", "sent2"}
    PROVE  RInv'
<1>0. 0 \in Cores /\ pc[0] = from /\ UNCHANGED <<machine, ioapicVars, core, shared>>
      /\ pc' = [c \in Cores |-> IF c = 0 THEN to
                                ELSE IF pc[c] = "waiting" THEN "entry16" ELSE pc[c]]
  BY CoresAre DEF SendStartUp, At, earlier, loaderVars
<1>1. pc[0] \notin Handler
  BY <1>0 DEF Handler
<1>2. core[0].vector = None /\ Where(0) = pc[0] /\ ~shared.symmetric
  BY <1>0, <1>1, AtLabel DEF Symmetric
<1>3. Where(0)' = to
  BY <1>0, <1>2 DEF Where
<1>4. \A d \in Cores \ {0} : \/ pc'[d] = pc[d] /\ Where(d)' = Where(d)
                             \/ pc[d] = "waiting" /\ pc'[d] = "entry16"
  BY <1>0 DEF Where
<1>5. \A d \in Cores \ {0} :
        pc[d] = "waiting" => core[d].vector = None /\ ~core[d].flag
  BY DEF IInv, HandlerInv, Handler, RInv, AwakeInv, Where
<1>6. \A d \in Cores \ {0} : Counted(d)' <=> Counted(d)
  BY <1>0, <1>4, <1>5 DEF Counted, Where
<1>7. \A d \in Cores \ {0} : core'[d].flag \/ core'[d].vector # None => Where(d)' = "idle"
  BY <1>0, <1>4, <1>5 DEF RInv, AwakeInv
<1>8. \A d \in Cores \ {0} : pc'[d] # "off" => pc[d] # "off"
  BY <1>4
<1> QED
  BY <1>0, <1>2, <1>3, <1>6, <1>7, <1>8, Frame

\* The mode changes while the tables are blank.
LEMMA SymmetricR == ASSUME IInv, RInv, kSetSymmetricIOMode PROVE RInv'
<1>0. 0 \in Cores /\ pc[0] = "mode" /\ pc' = [pc EXCEPT ![0] = "table"]
      /\ UNCHANGED <<core, ioapicVars, machine>> /\ shared' = [shared EXCEPT !.symmetric = TRUE]
  BY CoresAre DEF kSetSymmetricIOMode, Step, At, Goto, earlier, loaderVars
<1>1. pc[0] \notin Handler
  BY <1>0 DEF Handler
<1>2. core[0].vector = None /\ Where(0) = "mode" /\ ~shared.symmetric /\ ~shared.balancing
      /\ shared \in SharedRecord /\ pc \in [Cores -> Labels]
  BY <1>0, <1>1, AtLabel DEF Symmetric, IInv, TypeInv, ModeInv
<1>3. shared'.symmetric /\ ~shared'.balancing /\ shared'.awake = shared.awake
  BY <1>0, <1>2 DEF SharedRecord
<1>4. Where(0)' = "table" /\ \A d \in Cores \ {0} : Where(d)' = Where(d) /\ pc'[d] = pc[d]
  BY <1>0, <1>2 DEF Where
<1>5. RegistersInv'
  BY <1>0 DEF RInv, RegistersInv, ioapicVars
<1>6. \A c \in Cores : route'[c] = NotRouting
  BY <1>0, <1>2 DEF IInv, ModeInv, ioapicVars
<1>7. \A base \in DOMAIN redirection' : redirection'[base] = Blanks
  BY <1>0, <1>2 DEF RInv, PhaseInv, ioapicVars
<1>8. PhaseInv' /\ RouteInv' /\ LowsInv'
  BY <1>3, <1>4, <1>6, <1>7 DEF PhaseInv, RouteInv, LowsInv
<1>9. AwakeInv'
  <2>1. {c \in Cores \ {0} : Counted(c)}' = {c \in Cores \ {0} : Counted(c)}
    BY <1>4 DEF Counted
  <2>2. OrderlyProcessors' => OrderlyProcessors
    BY <1>0, OrderlyStays DEF ioapicVars
  <2>3. OrderlyProcessors' => \A i \in 1..(mp'.processors - 1) : i \in Cores /\ Counted(i)'
    <3>1. OrderlyProcessors' => \A i \in 1..(mp.processors - 1) : i \in Cores /\ Counted(i)
      BY <1>2, <2>2 DEF RInv, AwakeInv
    <3>2. \A i \in 1..(mp.processors - 1) : i # 0
      BY DEF RInv, RegistersInv
    <3>3. mp' = mp
      BY <1>0 DEF ioapicVars
    <3> QED
      BY <1>4, <3>1, <3>2, <3>3 DEF Counted
  <2> QED
    BY <1>0, <1>3, <1>4, <2>1, <2>3 DEF RInv, AwakeInv
<1>10. DestInv'
  <2>1. \A base \in DOMAIN redirection' : \A pin \in Pins : redirection'[base][pin].dest = 0
    BY <1>7, ResetIs DEF Blanks
  <2>2. Awake(0)' /\ \A c \in Cores : route'[c].dest = 0
    BY <1>0, <1>6, NotRoutingIs DEF Awake
  <2> QED
    BY <2>1, <2>2 DEF DestInv
<1> QED
  BY <1>5, <1>8, <1>9, <1>10 DEF RInv

\* While the tables are blank, what is programmed leads to the first core or to
\* all of them.
LEMMA ProgrammedDests ==
    ASSUME RInv, \A base \in DOMAIN redirection : redirection[base] = Blanks,
           NEW base \in DOMAIN redirection, NEW pin \in Pins
    PROVE  Programmed.registers[base][pin].dest \in {0, AllCores}
<1> PICK entry : entry = Programmed.registers[base][pin]
  OBVIOUS
<1>1. Result(Len(mp.table), base, pin, entry)
  BY ProgrammedOK DEF ManagerOK, RInv
<1>2. CASE \E i \in 1..Len(mp.table) : Writes(i, base, pin) /\ entry = Written(i)
  <2>1. PICK i \in 1..Len(mp.table) : Writes(i, base, pin) /\ entry = Written(i)
    BY <1>2
  <2>2. mp.table[i] \in Entry
    BY DEF RInv, RegistersInv
  <2>3. mp.table[i].irq \in BYTE
    BY <2>1, <2>2, LineIs DEF Writes, ByISA, ByPCI
  <2> QED
    BY <2>1, <2>3, EntriesAre DEF Written
<1>3. CASE entry = Start(base, pin)
  <2>1. redirection[base][pin] = Reset
    BY DEF Blanks
  <2>2. Masked(Reset).dest = 0 /\ Reset.dest = 0
    BY ResetIs, MaskedIs
  <2> QED
    BY <1>3, <2>1, <2>2 DEF Start
<1> QED
  BY <1>1, <1>2, <1>3 DEF Result

\* The tables are programmed.
LEMMA InitializeR == ASSUME IInv, RInv, InitializeIOAPIC PROVE RInv'
<1>0. 0 \in Cores /\ pc[0] = "table" /\ pc' = [pc EXCEPT ![0] = "enable"]
      /\ UNCHANGED <<core, shared, machine, mp, selector, route, overlap>>
      /\ ioapic' = [isa |-> Programmed.isa, pci |-> Programmed.pci, map |-> Programmed.map]
      /\ redirection' = Programmed.registers
  BY CoresAre DEF InitializeIOAPIC, kInitializeIORedirectionTable, Step, At, Goto, earlier,
                  loaderVars
<1>1. pc[0] \notin Handler
  BY <1>0 DEF Handler
<1>2. core[0].vector = None /\ Where(0) = "table" /\ shared.symmetric /\ pc \in [Cores -> Labels]
  BY <1>0, <1>1, AtLabel DEF IInv, TypeInv, ModeInv
<1>3. ~shared.balancing /\ (\A base \in DOMAIN redirection : redirection[base] = Blanks)
      /\ \A c \in Cores : route[c] = NotRouting
  BY <1>2 DEF RInv, PhaseInv
<1>4. Where(0)' = "enable" /\ \A d \in Cores \ {0} : Where(d)' = Where(d) /\ pc'[d] = pc[d]
  BY <1>0, <1>2 DEF Where
<1>5. Programmed \in ManagerRecord
  BY ProgrammedOK DEF ManagerOK, RInv
<1>6. redirection' \in [DOMAIN redirection -> [Pins -> EntryRecord]]
      /\ ioapic'.map \in [0..(IRQS - 1) -> BYTE]
  BY <1>0, <1>5 DEF ManagerRecord
<1>7. DOMAIN redirection' = DOMAIN redirection
  BY <1>6
<1>8. RegistersInv'
  BY <1>0, <1>6, <1>7 DEF RInv, RegistersInv
<1>9. PhaseInv' /\ RouteInv'
  BY <1>0, <1>2, <1>3, <1>4 DEF PhaseInv, RouteInv
<1>10. LowsInv'
  BY <1>0, <1>7, <1>8, ProgrammedTwice DEF RInv, LowsInv
<1>11. AwakeInv'
  <2>1. {c \in Cores \ {0} : Counted(c)}' = {c \in Cores \ {0} : Counted(c)}
    BY <1>4 DEF Counted
  <2>2. OrderlyProcessors' => OrderlyProcessors
    BY <1>0, OrderlyStays
  <2>3. OrderlyProcessors' => \A i \in 1..(mp.processors - 1) : i \in Cores /\ Counted(i)'
    <3>1. OrderlyProcessors' => \A i \in 1..(mp.processors - 1) : i \in Cores /\ Counted(i)
      BY <1>2, <2>2 DEF RInv, AwakeInv
    <3>2. \A i \in 1..(mp.processors - 1) : i # 0
      BY DEF RInv, RegistersInv
    <3> QED
      BY <1>4, <3>1, <3>2 DEF Counted
  <2> QED
    BY <1>0, <1>4, <2>1, <2>3 DEF RInv, AwakeInv
<1>12. DestInv'
  <2>1. \A base \in DOMAIN redirection' : \A pin \in Pins :
            redirection'[base][pin].dest \in {0, AllCores}
    BY <1>0, <1>3, <1>7, ProgrammedDests
  <2>2. Awake(0)' /\ \A c \in Cores : route'[c].dest = 0
    BY <1>0, <1>3, NotRoutingIs DEF Awake
  <2> QED
    BY <2>1, <2>2 DEF DestInv
<1> QED
  BY <1>8, <1>9, <1>10, <1>11, <1>12 DEF RInv

LEMMA StartBalancingR == ASSUME IInv, RInv, StartBalancing PROVE RInv'
<1>0. 0 \in Cores /\ pc[0] = "balance" /\ pc' = [pc EXCEPT ![0] = "idle"]
      /\ UNCHANGED <<core, ioapicVars, machine>>
      /\ shared' = [shared EXCEPT !.balancing = TRUE, !.taskBalancing = TRUE]
  BY CoresAre DEF StartBalancing, Step, At, Goto, earlier, loaderVars
<1>1. pc[0] \notin Handler
  BY <1>0 DEF Handler
<1>2. core[0].vector = None /\ Where(0) = "balance" /\ shared.symmetric
      /\ shared \in SharedRecord /\ pc \in [Cores -> Labels]
  BY <1>0, <1>1, AtLabel DEF IInv, TypeInv, ModeInv
<1>3. shared'.symmetric /\ shared'.balancing /\ shared'.awake = shared.awake
  BY <1>0, <1>2 DEF SharedRecord
<1>4. Where(0)' = "idle" /\ \A d \in Cores \ {0} : Where(d)' = Where(d) /\ pc'[d] = pc[d]
  BY <1>0, <1>2 DEF Where
<1>5. RegistersInv' /\ RouteInv'
  <2>1. RegistersInv'
    BY <1>0 DEF RInv, RegistersInv, ioapicVars
  <2>2. \A c \in Cores : route'[c] = NotRouting
    BY <1>0, <1>2 DEF RInv, PhaseInv, ioapicVars
  <2> QED
    BY <2>1, <2>2 DEF RouteInv
<1>6. PhaseInv'
  BY <1>3, <1>4 DEF PhaseInv
<1>7. LowsInv'
  BY <1>0, <1>2, <1>3, <1>5, LowsStay DEF ioapicVars
<1>8. AwakeInv'
  <2>1. {c \in Cores \ {0} : Counted(c)}' = {c \in Cores \ {0} : Counted(c)}
    BY <1>4 DEF Counted
  <2>2. OrderlyProcessors' => OrderlyProcessors
    BY <1>0, OrderlyStays DEF ioapicVars
  <2>3. mp' = mp
    BY <1>0 DEF ioapicVars
  <2>4. OrderlyProcessors' => \A i \in 1..(mp.processors - 1) : i \in Cores /\ Counted(i)'
    <3>1. OrderlyProcessors' => \A i \in 1..(mp.processors - 1) : i \in Cores /\ Counted(i)
      BY <1>2, <2>2 DEF RInv, AwakeInv
    <3>2. \A i \in 1..(mp.processors - 1) : i # 0
      BY DEF RInv, RegistersInv
    <3> QED
      BY <1>4, <3>1, <3>2 DEF Counted
  <2> QED
    BY <1>0, <1>3, <1>4, <2>1, <2>3, <2>4 DEF RInv, AwakeInv
<1>9. DestInv'
  <2>1. OrderlyProcessors' => OrderlyProcessors
    BY <1>0, OrderlyStays DEF ioapicVars
  <2>2. \A d : Awake(d)' <=> Awake(d)
    BY <1>4 DEF Awake
  <2> QED
    BY <1>0, <1>2, <2>1, <2>2 DEF RInv, DestInv, ioapicVars
<1> QED
  BY <1>5, <1>6, <1>7, <1>8, <1>9 DEF RInv

LEMMA BootstrapR == ASSUME IInv, RInv, BootstrapProcessor PROVE RInv'
BY EasyStepsR, CheckPendingR, AwaitR, StartUpR, SendInitR, SendStartUpR, SymmetricR,
   InitializeR, StartBalancingR DEF BootstrapProcessor

(***************************************************************************)
(* The application processors                                              *)
(***************************************************************************)
\* An application processor goes on, counted before and after or neither.
LEMMA MovedOther ==
    ASSUME IInv, RInv, NEW c \in Cores \ {0}, NEW label \in Labels \ Handler, NEW r,
           UNCHANGED <<machine, ioapicVars, shared>>,
           pc[c] \notin Handler \cup {"off"}, pc' = [pc EXCEPT ![c] = label],
           core' = [core EXCEPT ![c] = r], r.vector = None,
           r.flag => label = "idle",
           label \in Asleep => pc[c] \in Asleep,
           label \in {"mainAP", "schedulerAP", "apicAP", "stiAP", "idle"}
             <=> pc[c] \in {"mainAP", "schedulerAP", "apicAP", "stiAP", "idle"}
    PROVE  RInv'
<1>0. pc \in [Cores -> Labels] /\ core \in [Cores -> CoreRecord] /\ Where(c) = pc[c]
  BY AtLabel DEF IInv, TypeInv
<1>1. core'[c] = r /\ \A d \in Cores \ {c} : core'[d] = core[d]
  BY <1>0
<1>2. Where(c)' = label
  BY <1>0, <1>1 DEF Where
<1>3. Counted(c)' <=> Counted(c)
  BY <1>0, <1>2 DEF Counted
<1> QED
  BY <1>0, <1>1, <1>2, <1>3, Moved

LEMMA ApplicationR == ASSUME IInv, RInv, NEW c \in Cores, ApplicationProcessor(c) PROVE RInv'
<1>0. core \in [Cores -> CoreRecord] /\ core[c] \in CoreRecord /\ pc \in [Cores -> Labels]
      /\ shared \in SharedRecord
  BY DEF IInv, TypeInv
<1>1. CASE MoveStack(c)
  <2>1. pc[c] = "entry64" /\ flag # 1 /\ pc' = [pc EXCEPT ![c] = "count"]
        /\ UNCHANGED <<machine, shared, ioapicVars>>
    BY <1>1 DEF MoveStack, At, Goto, earlier, loaderVars
  <2>2. pc[c] \notin Handler \cup {"off"} /\ pc[c] \in Early /\ "count" \in Labels \ Handler
        /\ {pc[c], "count"} \subseteq Asleep
    BY <2>1 DEF Handler, Labels, Early, Asleep
  <2>3. Where(c) = pc[c] /\ core[c].vector = None
    BY <2>2, AtLabel
  <2>4. c # 0
    BY <2>1, <2>2, <2>3 DEF IInv, StackInv
  <2>5. ~core[c].flag
    BY <2>1, <2>3, <2>4 DEF RInv, AwakeInv
  <2> PICK s : s = IF shared.idAddress THEN c ELSE None
    OBVIOUS
  <2> DEFINE r == [core[c] EXCEPT !.stack = s]
  <2>6. core' = [core EXCEPT ![c] = r]
    BY <1>1 DEF MoveStack
  <2>7. r.vector = None /\ ~r.flag
    BY <1>0, <2>3, <2>5 DEF CoreRecord
  <2> HIDE DEF r
  <2> QED
    BY <2>1, <2>2, <2>4, <2>6, <2>7, MovedOther
<1>2. CASE CountAwake(c)
  <2>1. pc[c] = "count" /\ pc' = [pc EXCEPT ![c] = "mainAP"]
        /\ UNCHANGED <<machine, core, ioapicVars>> /\ shared' = [shared EXCEPT !.awake = @ + 1]
    BY <1>2 DEF CountAwake, Step, At, Goto, earlier, loaderVars
  <2>2. pc[c] \in Application /\ pc[c] \in Asleep /\ "mainAP" \notin Asleep
    BY <2>1 DEF Application, Asleep
  <2>3. c # 0 /\ core[c].vector = None /\ pc[c] \notin Handler
    BY <2>2, AtApplication
  <2>4. Where(c) = "count" /\ Where(c)' = "mainAP"
        /\ \A d \in Cores \ {c} : Where(d)' = Where(d) /\ pc'[d] = pc[d]
    BY <1>0, <2>1, <2>3 DEF Where
  <2>5. shared'.symmetric = shared.symmetric /\ shared'.balancing = shared.balancing
        /\ shared'.awake = shared.awake + 1
    BY <1>0, <2>1 DEF SharedRecord
  <2>6. 0 \in Cores /\ Where(0)' = Where(0)
    BY <2>3, <2>4, CoresAre
  <2>7. ~core[c].flag
    BY <2>3, <2>4 DEF RInv, AwakeInv
  <2>8. RegistersInv' /\ RouteInv'
    <3>1. RegistersInv'
      BY <2>1 DEF RInv, RegistersInv, ioapicVars
    <3>2. \A d, base, pin : HalfWay(d, base, pin)' <=> HalfWay(d, base, pin)
      BY <2>1 DEF HalfWay, Exists, ioapicVars
    <3>3. \A d : BaseOf(d)' = BaseOf(d) /\ PinOf(d)' = PinOf(d)
      BY <2>1 DEF BaseOf, PinOf, ioapicVars
    <3>4. RouteInv'
      BY <2>1, <3>2, <3>3 DEF RInv, RouteInv, ioapicVars
    <3> QED
      BY <3>1, <3>4
  <2>9. PhaseInv'
    BY <2>1, <2>5, <2>6 DEF RInv, PhaseInv, ioapicVars
  <2>10. LowsInv'
    BY <2>1, <2>5, <2>6, <2>8, LowsStay DEF ioapicVars
  <2>11. AwakeInv'
    <3> DEFINE C == {d \in Cores \ {0} : Counted(d)}
    <3>1. c \notin C /\ C' = C \cup {c}
      BY <2>3, <2>4 DEF Counted
    <3>2. IsFiniteSet(C)
      <4>1. IsFiniteSet(0..15)
        <5>1. \A n \in Int : IsFiniteSet(0..n)
          BY FS_Interval
        <5>2. 15 \in Int
          OBVIOUS
        <5> QED
          BY <5>1, <5>2, Zenon
      <4>2. C \subseteq 0..15
        <5>1. Cores \subseteq 0..15 /\ C \subseteq Cores
          BY CoresAre
        <5> QED
          BY <5>1, Zenon
      <4> HIDE DEF C
      <4>3. C \in SUBSET (0..15)
        BY <4>2
      <4> QED
        BY <4>1, <4>3, FS_Subset
    <3>3. shared.awake = Cardinality(C)
      BY DEF RInv, AwakeInv
    <3>4. shared'.awake = Cardinality(C')
      <4> HIDE DEF C
      <4>1. Cardinality(C \cup {c}) = Cardinality(C) + 1
        BY <3>1, <3>2, FS_AddElement
      <4> QED
        BY <2>5, <3>1, <3>3, <4>1
    <3>5. OrderlyProcessors' => OrderlyProcessors
      BY <2>1, OrderlyStays DEF ioapicVars
    <3>6. \A d \in Cores : Counted(d) => Counted(d)'
      BY <2>4 DEF Counted
    <3>7. mp' = mp
      BY <2>1 DEF ioapicVars
    <3>8. OrderlyProcessors' /\ (shared'.symmetric \/ Where(0)' \in {"change", "mode"})
          => \A i \in 1..(mp'.processors - 1) : i \in Cores /\ Counted(i)'
      BY <2>5, <2>6, <3>5, <3>6, <3>7 DEF RInv, AwakeInv
    <3>9. \A d \in Cores \ {0} : core'[d].flag \/ core'[d].vector # None => Where(d)' = "idle"
      BY <2>1, <2>3, <2>4, <2>7 DEF RInv, AwakeInv
    <3>10. \A d \in Cores \ {0} : pc'[d] # "off" => d \in machine'.responding
      BY <2>1, <2>4 DEF RInv, AwakeInv
    <3> QED
      BY <3>4, <3>8, <3>9, <3>10 DEF AwakeInv
  <2>12. DestInv'
    <3>1. OrderlyProcessors' => OrderlyProcessors
      BY <2>1, OrderlyStays DEF ioapicVars
    <3>2. \A d : Awake(d) => Awake(d)'
      BY <1>0, <2>1, <2>4 DEF Awake
    <3> QED
      BY <2>1, <2>5, <3>1, <3>2 DEF RInv, DestInv, ioapicVars
  <2> QED
    BY <2>8, <2>9, <2>10, <2>11, <2>12 DEF RInv
<1>3. CASE LoadTables(c) \/ kInitializeScheduler(c) \/ EnableAPIC(c) \/ kEnableInterrupt(c)
  <2>1. pc[c] \in {"mainAP", "schedulerAP", "apicAP", "stiAP"}
        /\ UNCHANGED <<machine, shared, ioapicVars>>
    BY <1>3 DEF LoadTables, kInitializeScheduler, EnableAPIC, kEnableInterrupt, Step, At, earlier,
                loaderVars
  <2>2. pc[c] \in Application /\ pc[c] # "off"
    BY <2>1 DEF Application
  <2>3. c # 0 /\ core[c].vector = None /\ pc[c] \notin Handler /\ APICID(c) = c
    BY <2>2, AtApplication
  <2>4. ~core[c].flag
    BY <2>1, <2>3 DEF RInv, AwakeInv, Where
  <2>5. PICK label \in {"schedulerAP", "apicAP", "stiAP", "idle"} :
          /\ pc' = [pc EXCEPT ![c] = label]
          /\ label = "idle" \/ ~kEnableInterrupt(c)
    BY <1>3 DEF LoadTables, kInitializeScheduler, EnableAPIC, kEnableInterrupt, Step, Goto
  <2>6. \E r : core' = [core EXCEPT ![c] = r] /\ r.vector = None /\ (r.flag => label = "idle")
    <3>1. CASE LoadTables(c)
      <4> DEFINE r == [core[c] EXCEPT !.tr = c]
      <4>1. core' = [core EXCEPT ![c] = r]
        BY <2>3, <3>1 DEF LoadTables
      <4>2. r.vector = None /\ ~r.flag
        BY <1>0, <2>3, <2>4 DEF CoreRecord
      <4> QED
        BY <4>1, <4>2
    <3>2. CASE kInitializeScheduler(c)
      <4> DEFINE r == [core[c] EXCEPT !.scheduler = TRUE]
      <4>1. core' = [core EXCEPT ![c] = r]
        BY <2>3, <3>2 DEF kInitializeScheduler
      <4>2. r.vector = None /\ ~r.flag
        BY <1>0, <2>3, <2>4 DEF CoreRecord
      <4> QED
        BY <4>1, <4>2
    <3>3. CASE EnableAPIC(c)
      <4> DEFINE r == [core[c] EXCEPT !.apic = TRUE]
      <4>1. core' = [core EXCEPT ![c] = r]
        BY <3>3 DEF EnableAPIC
      <4>2. r.vector = None /\ ~r.flag
        BY <1>0, <2>3, <2>4 DEF CoreRecord
      <4> QED
        BY <4>1, <4>2
    <3>4. CASE kEnableInterrupt(c)
      <4> DEFINE r == [core[c] EXCEPT !.flag = TRUE]
      <4>1. core' = [core EXCEPT ![c] = r]
        BY <3>4 DEF kEnableInterrupt
      <4>2. r.vector = None
        BY <1>0, <2>3 DEF CoreRecord
      <4> QED
        BY <2>5, <3>4, <4>1, <4>2
    <3> QED
      BY <1>3, <3>1, <3>2, <3>3, <3>4
  <2>7. PICK r : core' = [core EXCEPT ![c] = r] /\ r.vector = None /\ (r.flag => label = "idle")
    BY <2>6
  <2>8. label \in Labels \ Handler /\ label \notin Asleep
    BY DEF Labels, Handler, Asleep
  <2> QED
    BY <2>1, <2>2, <2>3, <2>5, <2>7, <2>8, MovedOther
<1> QED
  BY <1>1, <1>2, <1>3 DEF ApplicationProcessor

(***************************************************************************)
(* Interrupts                                                              *)
(***************************************************************************)
\* A core that takes, handles or leaves an interrupt is where it was.
LEMMA InHandler ==
    ASSUME IInv, RInv, UNCHANGED <<machine, ioapicVars>>,
           shared'.balancing = shared.balancing, shared'.symmetric = shared.symmetric,
           shared'.awake = shared.awake,
           NEW c \in Cores, NEW label, pc' = [pc EXCEPT ![c] = label],
           core[c].flag \/ core[c].vector # None, c # 0 => label \notin Asleep,
           \A d \in Cores : Where(d)' = Where(d),
           \A d \in Cores \ {0} :
               core'[d].flag \/ core'[d].vector # None => core[d].flag \/ core[d].vector # None
    PROVE  RInv'
<1>0. pc \in [Cores -> Labels] /\ 0 \in Cores
  BY CoresAre DEF IInv, TypeInv
<1>1. c # 0 => Where(c) = "idle"
  BY DEF RInv, AwakeInv
<1>2. c # 0 => pc[c] # "off"
  BY <1>1 DEF Where, IInv, HandlerInv, Handler
<1>3. \A d \in Cores \ {0} : Counted(d)' <=> Counted(d)
  BY DEF Counted
<1>4. \A d \in Cores \ {0} : core'[d].flag \/ core'[d].vector # None => Where(d)' = "idle"
  BY DEF RInv, AwakeInv
<1>5. \A d \in Cores \ {0} : /\ pc'[d] # "off" => pc[d] # "off"
                             /\ pc'[d] \in Asleep => pc[d] \in Asleep
  BY <1>0, <1>2
<1> QED
  BY <1>0, <1>3, <1>4, <1>5, Frame

LEMMA TakesR ==
    ASSUME IInv, RInv, NEW c \in Cores,
           TakeRequest(c) \/ (c = 0 /\ \E irq \in {0, 1} : PICInterrupt(irq))
    PROVE  RInv'
<1>0. UNCHANGED <<machine, ioapicVars, shared>> /\ core[c].flag /\ pc' = [pc EXCEPT ![c] = "eoi"]
  BY DEF TakeRequest, PICInterrupt, Goto, earlier, loaderVars
<1>1. core[c] \in CoreRecord /\ core \in [Cores -> CoreRecord] /\ pc \in [Cores -> Labels]
      /\ core[c].vector = None /\ Where(c) = pc[c]
  BY <1>0 DEF IInv, TypeInv, HandlerInv, Where
<1>2. PICK v \in Vector : \E q, s :
        core' = [core EXCEPT ![c] = [Enter(c, v) EXCEPT !.requests = q, !.service = s]]
  <2>1. CASE TakeRequest(c)
    <3>1. PICK v \in core[c].requests :
        core' = [core EXCEPT ![c] = [Enter(c, v) EXCEPT !.requests = @ \ {v}, !.service = v]]
      BY <2>1 DEF TakeRequest
    <3>2. v \in Vector
      BY <1>1 DEF CoreRecord
    <3> QED
      BY <3>1, <3>2
  <2>2. CASE c = 0 /\ \E irq \in {0, 1} : PICInterrupt(irq)
    <3>1. PICK irq \in {0, 1} : core' = [core EXCEPT ![0] = Enter(0, 32 + irq)]
      BY <2>2 DEF PICInterrupt
    <3>2. 32 + irq \in Vector
      BY DEF Vector
    <3> DEFINE e == Enter(0, 32 + irq)
    <3>3. e = [e EXCEPT !.requests = e.requests, !.service = e.service]
      BY <1>1, <2>2 DEF Enter, CoreRecord
    <3> QED
      BY <2>2, <3>1, <3>2, <3>3
  <2> QED
    BY <2>1, <2>2
<1>3. /\ core'[c].vector = v /\ core'[c].back = pc[c]
      /\ \A d \in Cores \ {c} : core'[d] = core[d] /\ pc'[d] = pc[d]
  BY <1>0, <1>1, <1>2 DEF Enter, CoreRecord
<1>4. v # None
  BY DEF Vector, None
<1>5. \A d \in Cores : Where(d)' = Where(d)
  BY <1>1, <1>3, <1>4 DEF Where
<1>6. \A d \in Cores \ {0} :
        core'[d].flag \/ core'[d].vector # None => core[d].flag \/ core[d].vector # None
  BY <1>0, <1>3
<1>7. "eoi" \notin Asleep
  BY DEF Asleep
<1> QED
  BY <1>0, <1>5, <1>6, <1>7, InHandler

LEMMA HandlesR ==
    ASSUME IInv, RInv, NEW c \in Cores, kSendEOI(c) \/ kIncreaseInterruptCount(c) \/ Return(c)
    PROVE  RInv'
<1>0. core \in [Cores -> CoreRecord] /\ pc \in [Cores -> Labels] /\ shared \in SharedRecord
      /\ 0 \in Cores
  BY CoresAre DEF IInv, TypeInv
<1>1. UNCHANGED <<machine, ioapicVars>> /\ pc[c] \in Handler
  BY DEF kSendEOI, kIncreaseInterruptCount, Return, Step, At, Handler, earlier, loaderVars
<1>2. core[c].vector # None
  BY <1>1 DEF IInv, HandlerInv
<1>3. shared'.balancing = shared.balancing /\ shared'.symmetric = shared.symmetric
      /\ shared'.awake = shared.awake
  BY <1>0 DEF kSendEOI, kIncreaseInterruptCount, Return, SharedRecord
<1>4. CASE kSendEOI(c) \/ kIncreaseInterruptCount(c)
  <2>1. PICK label \in {"counting", "return", "balancing"} : pc' = [pc EXCEPT ![c] = label]
    BY <1>4 DEF kSendEOI, kIncreaseInterruptCount, Step, Goto
  <2>2. \A d \in Cores : core'[d].flag = core[d].flag /\ core'[d].vector = core[d].vector
                         /\ core'[d].back = core[d].back
    <3>1. CASE kSendEOI(c)
      <4>1. core' = core \/ core' = [core EXCEPT ![c].service = None]
        BY <3>1 DEF kSendEOI
      <4> QED
        BY <1>0, <4>1 DEF CoreRecord
    <3>2. CASE kIncreaseInterruptCount(c)
      <4> PICK i : i = IRQOf(core[c].vector)
        OBVIOUS
      <4> PICK b : b = APICID(c)
        OBVIOUS
      <4>1. core' = core \/ core' = [core EXCEPT ![b].count[i] = @ + 1]
        BY <3>2 DEF kIncreaseInterruptCount
      <4> QED
        BY <1>0, <4>1 DEF CoreRecord
    <3> QED
      BY <1>4, <3>1, <3>2
  <2>3. \A d \in Cores : Where(d)' = Where(d)
    <3>1. \A d \in Cores \ {c} : pc'[d] = pc[d]
      BY <1>0, <2>1
    <3> QED
      BY <1>2, <2>2, <3>1 DEF Where
  <2>4. label \notin Asleep
    BY DEF Asleep
  <2> QED
    BY <1>1, <1>2, <1>3, <2>1, <2>2, <2>3, <2>4, InHandler
<1>5. CASE Return(c)
  <2>1. pc' = [pc EXCEPT ![c] = core[c].back]
        /\ core' = [core EXCEPT ![c].flag = TRUE, ![c].vector = None]
    BY <1>5 DEF Return, Goto
  <2>2. core'[c].vector = None /\ \A d \in Cores \ {c} : core'[d] = core[d] /\ pc'[d] = pc[d]
    BY <1>0, <2>1 DEF CoreRecord
  <2>3. \A d \in Cores : Where(d)' = Where(d)
    BY <1>0, <1>2, <2>1, <2>2 DEF Where
  <2>4. c # 0 => core[c].back = "idle"
    BY <1>2 DEF RInv, AwakeInv, Where
  <2>5. c # 0 => core[c].back \notin Asleep
    BY <2>4 DEF Asleep
  <2>6. \A d \in Cores \ {0} :
          core'[d].flag \/ core'[d].vector # None => core[d].flag \/ core[d].vector # None
    BY <1>2, <2>2
  <2> QED
    BY <1>1, <1>2, <1>3, <2>1, <2>3, <2>5, <2>6, InHandler
<1> QED
  BY <1>4, <1>5

LEMMA RaisePinR ==
    ASSUME IInv, RInv, NEW base \in DOMAIN redirection, NEW pin \in 0..(PINS - 1),
           RaisePin(base, pin)
    PROVE  RInv'
<1> PICK v : v = redirection[base][pin].low.vector
  OBVIOUS
<1>0. UNCHANGED <<machine, ioapicVars, shared, pc>>
  BY DEF RaisePin, earlier, loaderVars
<1>1. \A c \in Cores : core'[c] = core[c] \/ core'[c] = [core[c] EXCEPT !.requests = @ \cup {v}]
  BY DEF RaisePin
<1>2. \A c \in Cores : core[c] \in CoreRecord
  BY DEF IInv, TypeInv
<1>3. \A c \in Cores : core'[c].flag = core[c].flag /\ core'[c].vector = core[c].vector
                       /\ core'[c].back = core[c].back
  BY <1>1, <1>2 DEF CoreRecord
<1>4. \A c \in Cores : Where(c)' = Where(c)
  BY <1>0, <1>3 DEF Where
<1>5. \A d \in Cores \ {0} : Counted(d)' <=> Counted(d)
  BY <1>4 DEF Counted
<1>6. \A d \in Cores \ {0} : core'[d].flag \/ core'[d].vector # None => Where(d)' = "idle"
  BY <1>3, <1>4 DEF RInv, AwakeInv
<1> QED
  BY <1>0, <1>4, <1>5, <1>6, Frame, CoresAre

(***************************************************************************)
(* Balancing                                                               *)
(***************************************************************************)
LEMMA CountIs ==
    ASSUME RInv
    PROVE  kGetProcessorCount(mp) \in Nat \ {0}
BY DEF RInv, RegistersInv, kGetProcessorCount

\* A core with the fewest interrupts exists, and the first of them is chosen.
LEMMA FewestIs ==
    ASSUME IInv, RInv, NEW irq \in 0..(IRQS - 1)
    PROVE  Fewest(irq) \in 0..(kGetProcessorCount(mp) - 1)
<1> DEFINE n == kGetProcessorCount(mp)
           ids == 0..(n - 1)
           count(i) == IF i \in Cores THEN core[i].count[irq] ELSE 0
           all == {count(i) : i \in ids}
<1>1. n \in Nat \ {0}
  BY CountIs
<1>2. \A i : count(i) \in Nat
  <2>1. \A i \in Cores : core[i].count \in [0..(IRQS - 1) -> Nat]
    BY DEF IInv, TypeInv, CoreRecord
  <2> QED
    BY <2>1
<1> HIDE DEF n, count
<1>3. all \in SUBSET Nat /\ all # {}
  BY <1>1, <1>2
<1>4. PICK least \in all : \A x \in all : least <= x
  BY <1>3, Least
<1> DEFINE first == {i \in ids : count(i) = least}
<1>5. first \in SUBSET Nat /\ first # {}
  BY <1>1, <1>4
<1>6. PICK i \in first : \A j \in first : i <= j
  BY <1>5, Least
<1>7. i \in ids /\ count(i) = least
  OBVIOUS
<1>8. \A j \in ids : count(i) < count(j) \/ (count(i) = count(j) /\ i <= j)
  <2> SUFFICES ASSUME NEW j \in ids
               PROVE  count(i) < count(j) \/ (count(i) = count(j) /\ i <= j)
    OBVIOUS
  <2>1. least <= count(j) /\ count(j) \in Nat /\ least \in Nat
    BY <1>2, <1>3, <1>4
  <2>2. CASE count(j) = least
    BY <1>6, <1>7, <2>2
  <2>3. CASE count(j) # least
    BY <1>7, <2>1, <2>3
  <2> QED
    BY <2>2, <2>3
<1>9. Fewest(irq) = CHOOSE k \in ids : \A j \in ids :
                       count(k) < count(j) \/ (count(k) = count(j) /\ k <= j)
  BY DEF Fewest, n, count
<1> HIDE DEF ids
<1>10. Fewest(irq) \in ids
  BY <1>7, <1>8, <1>9
<1> QED
  BY <1>10 DEF ids, n

\* All processors that the kernel has counted are awake.
LEMMA OrderlyAwake ==
    ASSUME IInv, RInv, OrderlyProcessors, shared.symmetric,
           NEW i \in 0..(kGetProcessorCount(mp) - 1)
    PROVE  Awake(i)
<1>1. CASE i = 0
  BY <1>1, CoresAre DEF Awake
<1>2. CASE i # 0
  <2>1. i \in 1..(mp.processors - 1)
    BY <1>2 DEF kGetProcessorCount, RInv, RegistersInv
  <2>2. i \in Cores /\ Counted(i)
    BY <2>1 DEF RInv, AwakeInv
  <2>3. pc[i] \in {"mainAP", "schedulerAP", "apicAP", "stiAP", "idle"} \cup Handler
    BY <2>2 DEF Counted, Where, IInv, HandlerInv
  <2> QED
    BY <2>2, <2>3 DEF Awake, Handler
<1> QED
  BY <1>1, <1>2

LEMMA IRQIs ==
    ASSUME NEW vector \in Vector
    PROVE  IRQOf(vector) \in 0..17 /\ IRQOf(vector) \in 0..(IRQS - 1) /\ ~(IRQOf(vector) > IRQS)
BY MultiCoreAssumption, IOAPICAssumption DEF IRQOf, Vector

\* A core begins to route, towards a core that is awake.
LEMMA BalancingR == ASSUME IInv, RInv, NEW c \in Cores, kProcessLoadBalancing(c) PROVE RInv'
<1> DEFINE irq == IRQOf(core[c].vector)
           dest == Fewest(irq)
           new == [step |-> 1, irq |-> irq, dest |-> dest, line |-> 1, low |-> <<>>]
<1>0. pc[c] = "balancing" /\ pc' = [pc EXCEPT ![c] = "return"]
      /\ UNCHANGED <<core, shared, machine>>
  BY DEF kProcessLoadBalancing, Step, At, Goto, earlier, loaderVars
<1>1. core[c].vector # None /\ core[c].vector \in Vector /\ 0 \in Cores
      /\ pc \in [Cores -> Labels] /\ core \in [Cores -> CoreRecord]
  BY <1>0, CoresAre DEF IInv, HandlerInv, Handler, TypeInv, CoreRecord
<1>2. "return" \notin Asleep
  BY DEF Asleep
<1>3. \A d \in Cores : Where(d)' = Where(d)
  <2>1. \A d \in Cores \ {c} : pc'[d] = pc[d]
    BY <1>0, <1>1
  <2> QED
    BY <1>0, <1>1, <2>1 DEF Where
<1>4. CASE UNCHANGED ioapicVars
  BY <1>0, <1>1, <1>2, <1>3, <1>4, InHandler
<1>5. CASE ~UNCHANGED ioapicVars
  <2>1. shared.balancing /\ kRoutingIRQToAPICID(c, irq, dest)
    BY <1>5 DEF kProcessLoadBalancing
  <2>2. irq \in 0..17 /\ irq \in 0..(IRQS - 1)
    BY <1>1, IRQIs
  <2>3. dest \in 0..(kGetProcessorCount(mp) - 1)
    BY <2>2, FewestIs
  <2> HIDE DEF irq, dest
  <2>4. dest \in Nat
    BY <2>3, CountIs
  <2>5. /\ route' = [route EXCEPT ![c] = new]
        /\ overlap' = (overlap \/ \E other \in Cores : route[other] # NotRouting)
        /\ UNCHANGED <<mp, ioapic, redirection, selector>>
    BY <1>5, <2>1 DEF kRoutingIRQToAPICID
  <2>6. new \in RouteRecord /\ new.step = 1 /\ new.dest = dest
    BY <2>2, <2>4 DEF RouteRecord
  <2> HIDE DEF new
  <2>7. route \in [Cores -> RouteRecord]
    BY DEF RInv, RegistersInv
  <2>8. route' \in [Cores -> RouteRecord] /\ route'[c] = new
        /\ \A d \in Cores \ {c} : route'[d] = route[d]
    BY <2>5, <2>6, <2>7
  <2>9. RegistersInv'
    <3>1. \A d \in Cores : /\ route'[d] # NotRouting => route'[d].step # 0
                           /\ route'[d].step >= 4 => route'[d].low \in LowRecord
      <4>1. route'[c].step = 1 /\ ~(route'[c].step >= 4) /\ route'[c].step # 0
        BY <2>6, <2>8
      <4>2. \A d \in Cores : /\ route[d] # NotRouting => route[d].step # 0
                             /\ route[d].step >= 4 => route[d].low \in LowRecord
        BY DEF RInv, RegistersInv
      <4> QED
        BY <2>8, <4>1, <4>2
    <3> QED
      BY <1>0, <2>5, <2>8, <3>1 DEF RInv, RegistersInv
  <2>10. shared.symmetric /\ Where(0)' = Where(0)
    BY <1>1, <1>3, <2>1 DEF IInv, ModeInv
  <2>11. PhaseInv'
    BY <1>0, <2>1, <2>5, <2>10 DEF RInv, PhaseInv
  <2>12. RouteInv'
    <3> SUFFICES ASSUME ~overlap', NEW d \in Cores, route'[d] # NotRouting
                 PROVE  /\ HalfWay(d, BaseOf(d), PinOf(d))'
                        /\ \A e \in Cores : route'[e] # NotRouting => e = d
      BY DEF RouteInv
    <3>1. \A other \in Cores : route[other] = NotRouting
      BY <2>5
    <3>2. d = c /\ \A e \in Cores : route'[e] # NotRouting => e = d
      BY <2>8, <3>1
    <3>3. route'[d].step = 1
      BY <2>6, <2>8, <3>2
    <3> QED
      BY <3>2, <3>3 DEF HalfWay
  <2>13. LowsInv'
    BY <1>0, <2>5, <2>9, <2>10, LowsStay
  <2>14. AwakeInv'
    <3>1. {d \in Cores \ {0} : Counted(d)}' = {d \in Cores \ {0} : Counted(d)}
      BY <1>3 DEF Counted
    <3>2. OrderlyProcessors' => OrderlyProcessors
      BY <1>0, <2>5, OrderlyStays
    <3>3. \A d \in Cores \ {0} : pc'[d] # "off" => d \in machine'.responding
      <4>1. pc[c] # "off"
        BY <1>0
      <4> QED
        BY <1>0, <1>1, <4>1 DEF RInv, AwakeInv
    <3>4. \A d \in Cores \ {0} : core'[d].flag \/ core'[d].vector # None => Where(d)' = "idle"
      BY <1>0, <1>3 DEF RInv, AwakeInv
    <3>5. OrderlyProcessors' =>
            \A i \in 1..(mp'.processors - 1) : i \in Cores /\ Counted(i)'
      BY <1>3, <2>5, <2>10, <3>2 DEF RInv, AwakeInv, Counted
    <3> QED
      BY <1>0, <3>1, <3>3, <3>4, <3>5 DEF RInv, AwakeInv
  <2>15. DestInv'
    <3>1. OrderlyProcessors' => OrderlyProcessors
      BY <1>0, <2>5, OrderlyStays
    <3>2. \A d : Awake(d) => Awake(d)'
      BY <1>0, <1>1 DEF Awake
    <3>3. OrderlyProcessors => Awake(dest)
      BY <2>3, <2>10, OrderlyAwake
    <3>4. OrderlyProcessors => \A d \in Cores : Awake(route'[d].dest)
      BY <2>6, <2>8, <2>10, <3>3 DEF RInv, DestInv
    <3> QED
      BY <1>0, <2>5, <2>10, <3>1, <3>2, <3>4 DEF RInv, DestInv
  <2> QED
    BY <2>9, <2>11, <2>12, <2>13, <2>14, <2>15 DEF RInv
<1> QED
  BY <1>4, <1>5

(***************************************************************************)
(* Routing                                                                 *)
(***************************************************************************)
\* What an access to an I/O APIC has to respect.
LEMMA AccessR ==
    ASSUME IInv, RInv, NEW c \in Cores, route[c] # NotRouting,
           UNCHANGED <<machine, mp, ioapic, overlap, pc, core, shared>>,
           NEW r \in RouteRecord, route' = [route EXCEPT ![c] = r],
           r # NotRouting => r.step # 0, r.step >= 4 => r.low \in LowRecord,
           r.dest = route[c].dest \/ r.dest = 0,
           DOMAIN redirection' = DOMAIN redirection,
           redirection' \in [DOMAIN redirection -> [Pins -> EntryRecord]],
           selector' \in [DOMAIN redirection -> {"high", "low"} \X BYTE],
           \A base \in DOMAIN redirection : \A pin \in Pins :
               /\ redirection'[base][pin].dest \in {redirection[base][pin].dest, route[c].dest, 0}
               /\ ~overlap => redirection'[base][pin].low = redirection[base][pin].low,
           ~overlap /\ r # NotRouting => HalfWay(c, BaseOf(c), PinOf(c))'
    PROVE  RInv'
<1>1. route \in [Cores -> RouteRecord] /\ 0 \in Cores
  BY CoresAre DEF RInv, RegistersInv
<1>2. route' \in [Cores -> RouteRecord] /\ route'[c] = r
      /\ \A d \in Cores \ {c} : route'[d] = route[d]
  BY <1>1
<1>3. shared.balancing /\ shared.symmetric /\ Where(0) \notin {"table", "enable", "balance"}
  BY DEF RInv, PhaseInv, IInv, ModeInv
<1>4. Where(0)' = Where(0)
  BY DEF Where
<1>5. RegistersInv'
  <2>1. DOMAIN selector' = DOMAIN redirection'
    OBVIOUS
  <2>2. \A d \in Cores : /\ route'[d] # NotRouting => route'[d].step # 0
                         /\ route'[d].step >= 4 => route'[d].low \in LowRecord
    BY <1>2 DEF RInv, RegistersInv
  <2> QED
    BY <1>2, <2>1, <2>2 DEF RInv, RegistersInv
<1>6. PhaseInv'
  BY <1>3, <1>4 DEF PhaseInv
<1>7. RouteInv'
  <2> SUFFICES ASSUME ~overlap, NEW d \in Cores, route'[d] # NotRouting
               PROVE  /\ HalfWay(d, BaseOf(d), PinOf(d))'
                      /\ \A e \in Cores : route'[e] # NotRouting => e = d
    BY DEF RouteInv
  <2>1. \A e \in Cores : route[e] # NotRouting => e = c
    BY DEF RInv, RouteInv
  <2>2. \A e \in Cores : route'[e] # NotRouting => e = c
    BY <1>2, <2>1
  <2> QED
    BY <1>2, <2>2
<1>8. LowsInv'
  <2> SUFFICES ASSUME ~overlap
               PROVE  \A base \in DOMAIN redirection : \A pin \in Pins :
                          redirection'[base][pin].low = Programmed'.registers[base][pin].low
    BY DEF LowsInv
  <2>1. \A base \in DOMAIN redirection : \A pin \in Pins :
            redirection'[base][pin].low = Programmed.registers[base][pin].low
    BY <1>3 DEF RInv, LowsInv
  <2> QED
    BY <1>5, <2>1, ProgrammedTwice DEF RInv
<1>9. AwakeInv'
  <2>1. \A d : Counted(d)' <=> Counted(d)
    BY DEF Counted, Where
  <2>2. {d \in Cores \ {0} : Counted(d)}' = {d \in Cores \ {0} : Counted(d)}
    BY <2>1
  <2>3. OrderlyProcessors' <=> OrderlyProcessors
    BY OrderlyStays
  <2>4. \A d \in Cores \ {0} : core'[d].flag \/ core'[d].vector # None => Where(d)' = "idle"
    BY DEF RInv, AwakeInv, Where
  <2> QED
    BY <1>4, <2>1, <2>2, <2>3, <2>4 DEF RInv, AwakeInv
<1>10. DestInv'
  <2>1. OrderlyProcessors' <=> OrderlyProcessors
    BY OrderlyStays
  <2>2. \A d : Awake(d)' <=> Awake(d)
    BY DEF Awake
  <2>3. Awake(0)
    BY <1>1 DEF Awake
  <2> SUFFICES ASSUME OrderlyProcessors
               PROVE  /\ \A base \in DOMAIN redirection : \A pin \in Pins :
                           redirection'[base][pin].dest = AllCores
                           \/ Awake(redirection'[base][pin].dest)
                      /\ \A d \in Cores : Awake(route'[d].dest)
    BY <2>1, <2>2 DEF DestInv
  <2>4. \A d \in Cores : Awake(route[d].dest)
    BY <1>3 DEF RInv, DestInv
  <2>5. \A d \in Cores : Awake(route'[d].dest)
    BY <1>2, <2>3, <2>4
  <2>6. \A base \in DOMAIN redirection : \A pin \in Pins :
            redirection[base][pin].dest = AllCores \/ Awake(redirection[base][pin].dest)
    BY <1>3 DEF RInv, DestInv
  <2>7. \A base \in DOMAIN redirection : \A pin \in Pins :
            redirection'[base][pin].dest = AllCores \/ Awake(redirection'[base][pin].dest)
    BY <2>3, <2>4, <2>6
  <2> QED
    BY <2>5, <2>7
<1> QED
  BY <1>5, <1>6, <1>7, <1>8, <1>9, <1>10 DEF RInv

\* Where an access goes, and what it leaves of the others.
LEMMA PinIs ==
    ASSUME RInv, NEW c \in Cores
    PROVE  PinOf(c) \in BYTE /\ (PinOf(c) < PINS => PinOf(c) \in Pins)
<1>1. route[c].irq \in 0..(IRQS - 1)
  <2>1. route[c] \in RouteRecord
    BY DEF RInv, RegistersInv
  <2>2. route[c].irq \in 0..17
    BY <2>1 DEF RouteRecord
  <2>3. IRQS \in Nat /\ IRQS >= 18
    BY MultiCoreAssumption, IOAPICAssumption
  <2> QED
    BY <2>2, <2>3
<1>2. PinOf(c) \in BYTE
  BY <1>1 DEF PinOf, RInv, RegistersInv
<1> QED
  BY <1>2, IOAPICAssumption DEF BYTE, Pins

\* A core that selects a half.
LEMMA SelectR ==
    ASSUME IInv, RInv, NEW c \in Cores, route[c] # NotRouting,
           UNCHANGED <<machine, mp, ioapic, overlap, pc, core, shared, redirection>>,
           NEW half \in {"high", "low"}, Select(c, half), NextStep(c),
           \/ route[c].step \in {1, 4} /\ half = "high"
           \/ route[c].step \in {2, 6} /\ half = "low"
    PROVE  RInv'
<1> PICK base : base = BaseOf(c)
  OBVIOUS
<1> PICK pin : pin = PinOf(c)
  OBVIOUS
<1> DEFINE r == [route[c] EXCEPT !.step = @ + 1]
<1>1. route[c] \in RouteRecord /\ pin \in BYTE
  BY PinIs DEF RInv, RegistersInv
<1>2. /\ r \in RouteRecord /\ r.step = route[c].step + 1 /\ r.low = route[c].low
      /\ r.dest = route[c].dest /\ r.irq = route[c].irq /\ r.line = route[c].line
      /\ r.step # 0
  <2> PICK next : next = route[c].step + 1
    OBVIOUS
  <2>1. next \in 0..7 /\ next # 0 /\ r = [route[c] EXCEPT !.step = next]
    OBVIOUS
  <2> HIDE DEF r
  <2>2. r \in RouteRecord /\ r.step = next /\ r.low = route[c].low /\ r.dest = route[c].dest
        /\ r.irq = route[c].irq /\ r.line = route[c].line
    BY <1>1, <2>1 DEF RouteRecord
  <2> QED
    BY <2>1, <2>2
<1>3. route' = [route EXCEPT ![c] = r]
  BY DEF NextStep
<1> HIDE DEF r
<1>4. route \in [Cores -> RouteRecord] /\ DOMAIN selector = DOMAIN redirection
      /\ selector \in [DOMAIN redirection -> {"high", "low"} \X BYTE]
      /\ redirection \in [DOMAIN redirection -> [Pins -> EntryRecord]]
  BY DEF RInv, RegistersInv
<1>5. route'[c] = r
  BY <1>3, <1>4
<1>6. BaseOf(c)' = base /\ PinOf(c)' = pin
  BY <1>2, <1>5 DEF BaseOf, PinOf
<1>7. /\ selector' \in [DOMAIN redirection -> {"high", "low"} \X BYTE]
      /\ base \in DOMAIN redirection => selector'[base] = <<half, pin>>
  BY <1>1, <1>4 DEF Select
<1>8. r.step >= 4 => r.low \in LowRecord
  <2>1. r.step >= 4 => route[c].step >= 4
    BY <1>2
  <2> QED
    BY <1>2, <2>1 DEF RInv, RegistersInv
<1>9. ~overlap => HalfWay(c, BaseOf(c), PinOf(c))'
  <2> SUFFICES ASSUME ~overlap PROVE HalfWay(c, base, pin)'
    BY <1>6
  <2>1. HalfWay(c, base, pin)
    BY DEF RInv, RouteInv
  <2>2. route'[c].step \in {2, 5} => half = "high"
    BY <1>2, <1>5
  <2>3. route'[c].step \in {3, 7} => half = "low"
    BY <1>2, <1>5
  <2>4. route'[c].step >= 4 => route[c].step >= 4
    BY <1>2, <1>5
  <2>5. route'[c].step >= 6 => route[c].step >= 6
    BY <1>2, <1>5
  <2> QED
    BY <1>2, <1>5, <1>7, <2>1, <2>2, <2>3, <2>4, <2>5 DEF HalfWay, Exists
<1>10. \A b \in DOMAIN redirection : \A p \in Pins :
           /\ redirection'[b][p].dest \in {redirection[b][p].dest, route[c].dest, 0}
           /\ ~overlap => redirection'[b][p].low = redirection[b][p].low
  OBVIOUS
<1>11. r # NotRouting => r.step # 0
  BY <1>2
<1>12. r.dest = route[c].dest \/ r.dest = 0
  BY <1>2
<1>13. DOMAIN redirection' = DOMAIN redirection
       /\ redirection' \in [DOMAIN redirection -> [Pins -> EntryRecord]]
  BY <1>4
<1>14. r \in RouteRecord
  BY <1>2
<1> QED
  BY <1>3, <1>7, <1>8, <1>9, <1>10, <1>11, <1>12, <1>13, <1>14, AccessR

\* A core that reads the lower half.
LEMMA ReadR ==
    ASSUME IInv, RInv, NEW c \in Cores, route[c] # NotRouting, route[c].step = 3,
           UNCHANGED <<machine, mp, ioapic, overlap, pc, core, shared, redirection, selector>>,
           route' = [route EXCEPT ![c].step = 4, ![c].low = LowThroughWindow(c)]
    PROVE  RInv'
<1> PICK base : base = BaseOf(c)
  OBVIOUS
<1> PICK pin : pin = PinOf(c)
  OBVIOUS
<1> PICK low : low = LowThroughWindow(c)
  OBVIOUS
<1> DEFINE r1 == [route[c] EXCEPT !.step = 4]
           r == [r1 EXCEPT !.low = low]
<1>1. route \in [Cores -> RouteRecord] /\ DOMAIN selector = DOMAIN redirection
      /\ selector \in [DOMAIN redirection -> {"high", "low"} \X BYTE]
      /\ redirection \in [DOMAIN redirection -> [Pins -> EntryRecord]]
      /\ pin \in BYTE /\ (pin < PINS => pin \in Pins)
  BY PinIs DEF RInv, RegistersInv
<1>2. low \in LowRecord
  <2>1. CASE low = WrongHalf
    BY <2>1 DEF WrongHalf, LowRecord, BYTE
  <2>2. CASE low # WrongHalf
    <3>1. base \in DOMAIN redirection /\ ~(Shown(c)[2] >= PINS)
          /\ low = redirection[base][Shown(c)[2]].low
      BY <1>1, <2>2 DEF LowThroughWindow
    <3>2. Shown(c)[2] \in BYTE
      BY <1>1, <3>1 DEF Shown
    <3>3. Shown(c)[2] \in Pins
      BY <3>1, <3>2, IOAPICAssumption DEF Pins, BYTE
    <3> QED
      BY <1>1, <3>1, <3>3 DEF EntryRecord
  <2> QED
    BY <2>1, <2>2
<1>3. /\ r \in RouteRecord /\ r.step = 4 /\ r.low = low /\ r.dest = route[c].dest
      /\ r.irq = route[c].irq /\ r.line = route[c].line
  <2> PICK Lows : Lows = {<<>>} \cup LowRecord
    OBVIOUS
  <2>1. RouteRecord = [step : 0..7, irq : 0..17, dest : Nat, line : Nat, low : Lows]
        /\ route[c] \in RouteRecord /\ low \in Lows
    BY <1>1, <1>2 DEF RouteRecord
  <2>2. r1 \in RouteRecord /\ r1.step = 4 /\ r1.dest = route[c].dest
        /\ r1.irq = route[c].irq /\ r1.line = route[c].line
    <3> PICK four : four = 4
      OBVIOUS
    <3>1. four \in 0..7 /\ route[c] \in RouteRecord /\ r1 = [route[c] EXCEPT !.step = four]
      BY <2>1
    <3> HIDE DEF r1
    <3>2. r1 \in RouteRecord /\ r1.step = four /\ r1.dest = route[c].dest
          /\ r1.irq = route[c].irq /\ r1.line = route[c].line
      BY <3>1 DEF RouteRecord
    <3> QED
      BY <3>2
  <2> HIDE DEF r1
  <2> QED
    BY <2>1, <2>2
<1>4. route' = [route EXCEPT ![c] = r]
  BY <1>1
<1> HIDE DEF r
<1>5. route'[c] = r
  BY <1>1, <1>4
<1>6. BaseOf(c)' = base /\ PinOf(c)' = pin
  BY <1>3, <1>5 DEF BaseOf, PinOf
<1>7. ~overlap => HalfWay(c, BaseOf(c), PinOf(c))'
  <2> SUFFICES ASSUME ~overlap PROVE HalfWay(c, base, pin)'
    BY <1>6
  <2>1. HalfWay(c, base, pin)
    BY DEF RInv, RouteInv
  <2>2. base \in DOMAIN redirection => selector[base] = <<"low", pin>>
    BY <2>1 DEF HalfWay
  <2>3. Exists(base, pin) => low = redirection[base][pin].low
    <3> SUFFICES ASSUME Exists(base, pin) PROVE low = redirection[base][pin].low
      OBVIOUS
    <3>1. base \in DOMAIN selector /\ pin < PINS /\ Shown(c) = <<"low", pin>>
      BY <1>1, <2>2 DEF Exists, Shown
    <3>2. ~(Shown(c)[2] >= PINS) /\ Shown(c)[1] # "high" /\ Shown(c)[2] = pin
      BY <1>1, <3>1, IOAPICAssumption DEF BYTE
    <3> QED
      BY <3>1, <3>2 DEF LowThroughWindow
  <2> QED
    BY <1>3, <1>5, <2>3 DEF HalfWay, Exists
<1>8. \A b \in DOMAIN redirection : \A p \in Pins :
          /\ redirection'[b][p].dest \in {redirection[b][p].dest, route[c].dest, 0}
          /\ ~overlap => redirection'[b][p].low = redirection[b][p].low
  OBVIOUS
<1>9. r # NotRouting => r.step # 0
  BY <1>3
<1>10. r.dest = route[c].dest \/ r.dest = 0
  BY <1>3
<1>11. DOMAIN redirection' = DOMAIN redirection
       /\ redirection' \in [DOMAIN redirection -> [Pins -> EntryRecord]]
       /\ selector' \in [DOMAIN redirection -> {"high", "low"} \X BYTE]
  BY <1>1
<1>12. r \in RouteRecord /\ (r.step >= 4 => r.low \in LowRecord)
  BY <1>2, <1>3
<1> QED
  BY <1>4, <1>7, <1>8, <1>9, <1>10, <1>11, <1>12, AccessR

\* A store changes the half that the window shows, and nothing else.
LEMMA StoreIs ==
    ASSUME RInv, NEW c \in Cores, NEW dest \in Nat, NEW low \in LowRecord,
           StoreThroughWindow(c, dest, low)
    PROVE  /\ DOMAIN redirection' = DOMAIN redirection
           /\ redirection' \in [DOMAIN redirection -> [Pins -> EntryRecord]]
           /\ \A b \in DOMAIN redirection : \A p \in Pins :
                 /\ redirection'[b][p].dest =
                       IF b = BaseOf(c) /\ p = Shown(c)[2] /\ Shown(c)[1] = "high"
                       THEN dest ELSE redirection[b][p].dest
                 /\ redirection'[b][p].low =
                       IF b = BaseOf(c) /\ p = Shown(c)[2] /\ Shown(c)[1] # "high"
                       THEN low ELSE redirection[b][p].low
<1> PICK base : base = BaseOf(c)
  OBVIOUS
<1> PICK half, q : half = Shown(c)[1] /\ q = Shown(c)[2]
  OBVIOUS
<1>1. DOMAIN selector = DOMAIN redirection
      /\ selector \in [DOMAIN redirection -> {"high", "low"} \X BYTE]
      /\ redirection \in [DOMAIN redirection -> [Pins -> EntryRecord]]
  BY DEF RInv, RegistersInv
<1>2. CASE redirection' = redirection /\ (base \notin DOMAIN redirection \/ q >= PINS)
  <2>1. ASSUME NEW b \in DOMAIN redirection, NEW p \in Pins, b = base PROVE p # q
    <3>1. q >= PINS
      BY <1>2, <2>1
    <3> QED
      BY <3>1, IOAPICAssumption DEF Pins
  <2> QED
    BY <1>1, <1>2, <2>1
<1>3. CASE base \in DOMAIN redirection /\ ~(q >= PINS)
  <2>1. q \in BYTE /\ half \in {"high", "low"}
    BY <1>1, <1>3 DEF Shown
  <2>2. q \in Pins
    BY <1>3, <2>1, IOAPICAssumption DEF BYTE, Pins
  <2> DEFINE one == [redirection[base] EXCEPT ![q].dest = dest]
             two == [redirection[base] EXCEPT ![q].low = low]
  <2>3. \A e \in EntryRecord :
          /\ [e EXCEPT !.dest = dest] \in EntryRecord
          /\ [e EXCEPT !.dest = dest].dest = dest /\ [e EXCEPT !.dest = dest].low = e.low
          /\ [e EXCEPT !.low = low] \in EntryRecord
          /\ [e EXCEPT !.low = low].dest = e.dest /\ [e EXCEPT !.low = low].low = low
    BY DEF EntryRecord
  <2>4. redirection[base] \in [Pins -> EntryRecord]
    BY <1>1, <1>3
  <2>5. one \in [Pins -> EntryRecord] /\ two \in [Pins -> EntryRecord]
        /\ \A p \in Pins : /\ one[p].dest = IF p = q THEN dest ELSE redirection[base][p].dest
                           /\ one[p].low = redirection[base][p].low
                           /\ two[p].low = IF p = q THEN low ELSE redirection[base][p].low
                           /\ two[p].dest = redirection[base][p].dest
    BY <2>2, <2>3, <2>4
  <2>6. redirection' = IF half = "high" THEN [redirection EXCEPT ![base] = one]
                       ELSE [redirection EXCEPT ![base] = two]
    BY <1>1, <1>3 DEF StoreThroughWindow
  <2> HIDE DEF one, two
  <2>7. CASE half = "high"
    <3>1. redirection' = [redirection EXCEPT ![base] = one]
      BY <2>6, <2>7
    <3> QED
      BY <1>1, <1>3, <2>5, <2>7, <3>1
  <2>8. CASE half # "high"
    <3>1. redirection' = [redirection EXCEPT ![base] = two]
      BY <2>6, <2>8
    <3> QED
      BY <1>1, <1>3, <2>5, <2>8, <3>1
  <2> QED
    BY <2>7, <2>8
<1> QED
  BY <1>1, <1>2, <1>3 DEF StoreThroughWindow

\* A core that stores a half: the destination, or, at last, the lower one.
LEMMA StoreR ==
    ASSUME IInv, RInv, NEW c \in Cores, route[c] # NotRouting,
           UNCHANGED <<machine, mp, ioapic, overlap, pc, core, shared, selector>>,
           \/ /\ route[c].step = 5 /\ NextStep(c)
              /\ StoreThroughWindow(c, route[c].dest, WrongHalf)
           \/ /\ route[c].step = 7 /\ NextLine(c)
              /\ StoreThroughWindow(c, 0, route[c].low)
    PROVE  RInv'
<1> PICK base : base = BaseOf(c)
  OBVIOUS
<1> PICK pin : pin = PinOf(c)
  OBVIOUS
<1>1. route \in [Cores -> RouteRecord] /\ route[c] \in RouteRecord /\ route[c].dest \in Nat
      /\ DOMAIN selector = DOMAIN redirection
      /\ selector \in [DOMAIN redirection -> {"high", "low"} \X BYTE]
      /\ redirection \in [DOMAIN redirection -> [Pins -> EntryRecord]]
      /\ pin \in BYTE /\ (pin < PINS => pin \in Pins)
      /\ route[c].low \in LowRecord
  <2>1. route \in [Cores -> RouteRecord] /\ DOMAIN selector = DOMAIN redirection
        /\ selector \in [DOMAIN redirection -> {"high", "low"} \X BYTE]
        /\ redirection \in [DOMAIN redirection -> [Pins -> EntryRecord]]
    BY DEF RInv, RegistersInv
  <2>2. route[c].step >= 4
    OBVIOUS
  <2>3. route[c].low \in LowRecord
    BY <2>2 DEF RInv, RegistersInv
  <2>4. route[c].dest \in Nat
    BY <2>1 DEF RouteRecord
  <2> QED
    BY <2>1, <2>3, <2>4, PinIs
<1>2. ~overlap => HalfWay(c, base, pin)
  BY DEF RInv, RouteInv
<1>3. WrongHalf \in LowRecord
  BY DEF WrongHalf, LowRecord, BYTE
<1>4. selector' \in [DOMAIN redirection -> {"high", "low"} \X BYTE]
  BY <1>1
<1>5. CASE /\ route[c].step = 5 /\ NextStep(c)
           /\ StoreThroughWindow(c, route[c].dest, WrongHalf)
  <2> DEFINE r == [route[c] EXCEPT !.step = @ + 1]
  <2>1. /\ r \in RouteRecord /\ r.step = 6 /\ r.low = route[c].low /\ r.dest = route[c].dest
        /\ r.irq = route[c].irq /\ r.line = route[c].line
    <3>1. route[c].step + 1 = 6 /\ 6 \in 0..7
      BY <1>5
    <3> QED
      BY <1>1, <3>1 DEF RouteRecord
  <2>2. route' = [route EXCEPT ![c] = r]
    BY <1>5 DEF NextStep
  <2> HIDE DEF r
  <2>3. route'[c] = r
    BY <1>1, <2>2
  <2>4. BaseOf(c)' = base /\ PinOf(c)' = pin
    BY <2>1, <2>3 DEF BaseOf, PinOf
  <2>5. /\ DOMAIN redirection' = DOMAIN redirection
        /\ redirection' \in [DOMAIN redirection -> [Pins -> EntryRecord]]
        /\ \A b \in DOMAIN redirection : \A p \in Pins :
              /\ redirection'[b][p].dest =
                    IF b = base /\ p = Shown(c)[2] /\ Shown(c)[1] = "high"
                    THEN route[c].dest ELSE redirection[b][p].dest
              /\ redirection'[b][p].low =
                    IF b = base /\ p = Shown(c)[2] /\ Shown(c)[1] # "high"
                    THEN WrongHalf ELSE redirection[b][p].low
    BY <1>1, <1>3, <1>5, StoreIs
  <2>6. ~overlap => (base \in DOMAIN redirection => Shown(c)[1] = "high" /\ Shown(c)[2] = pin)
    BY <1>2, <1>5 DEF HalfWay, Shown
  <2>7. \A b \in DOMAIN redirection : \A p \in Pins :
           /\ redirection'[b][p].dest \in {redirection[b][p].dest, route[c].dest, 0}
           /\ ~overlap => redirection'[b][p].low = redirection[b][p].low
    BY <2>5, <2>6
  <2>8. ~overlap => HalfWay(c, BaseOf(c), PinOf(c))'
    <3> SUFFICES ASSUME ~overlap PROVE HalfWay(c, base, pin)'
      BY <2>4
    <3>1. Exists(base, pin) => base \in DOMAIN redirection /\ pin \in Pins
      BY <1>1 DEF Exists
    <3>2. Exists(base, pin)' <=> Exists(base, pin)
      BY <2>5 DEF Exists
    <3>3. Exists(base, pin) => route[c].low = redirection[base][pin].low
      BY <1>2, <1>5 DEF HalfWay
    <3>4. Exists(base, pin) => /\ r.low = redirection'[base][pin].low
                               /\ redirection'[base][pin].dest = r.dest
      BY <2>1, <2>5, <2>6, <2>7, <3>1, <3>3
    <3> QED
      BY <2>1, <2>3, <3>2, <3>4 DEF HalfWay
  <2>9. r.step # 0 /\ (r.step >= 4 => r.low \in LowRecord)
    BY <1>1, <2>1
  <2> QED
    BY <1>4, <2>1, <2>2, <2>5, <2>7, <2>8, <2>9, AccessR
<1>6. CASE /\ route[c].step = 7 /\ NextLine(c)
           /\ StoreThroughWindow(c, 0, route[c].low)
  <2> PICK lines : lines = Len(RoutedLines(mp))
    OBVIOUS
  <2> DEFINE next == [route[c] EXCEPT !.step = 1, !.line = @ + 1]
             r == IF route[c].line < lines THEN next ELSE NotRouting
  <2>1. next \in RouteRecord /\ next.step = 1 /\ next.dest = route[c].dest
    <3> PICK one, more : one = 1 /\ more = route[c].line + 1
      OBVIOUS
    <3> DEFINE first == [route[c] EXCEPT !.step = one]
    <3>1. route[c] \in RouteRecord /\ one \in 0..7 /\ more \in Nat
      BY <1>1 DEF RouteRecord
    <3>2. first \in RouteRecord /\ first.step = one /\ first.dest = route[c].dest
          /\ first.line = route[c].line
      BY <3>1 DEF RouteRecord
    <3>3. next = [first EXCEPT !.line = more]
      BY <3>1
    <3> HIDE DEF first, next
    <3> QED
      BY <3>1, <3>2, <3>3 DEF RouteRecord
  <2>2. route' = [route EXCEPT ![c] = r]
    BY <1>6 DEF NextLine
  <2> HIDE DEF next
  <2>3. /\ r \in RouteRecord /\ (r # NotRouting => r.step = 1) /\ r.step \in {0, 1}
        /\ (r.dest = route[c].dest \/ r.dest = 0)
    BY <2>1, NotRoutingIs
  <2> HIDE DEF r
  <2>4. route'[c] = r
    BY <1>1, <2>2
  <2>5. /\ DOMAIN redirection' = DOMAIN redirection
        /\ redirection' \in [DOMAIN redirection -> [Pins -> EntryRecord]]
        /\ \A b \in DOMAIN redirection : \A p \in Pins :
              /\ redirection'[b][p].dest =
                    IF b = base /\ p = Shown(c)[2] /\ Shown(c)[1] = "high"
                    THEN 0 ELSE redirection[b][p].dest
              /\ redirection'[b][p].low =
                    IF b = base /\ p = Shown(c)[2] /\ Shown(c)[1] # "high"
                    THEN route[c].low ELSE redirection[b][p].low
    <3> PICK none : none = 0
      OBVIOUS
    <3> PICK low : low = route[c].low
      OBVIOUS
    <3>1. none \in Nat /\ low \in LowRecord /\ StoreThroughWindow(c, none, low)
      BY <1>1, <1>6
    <3> QED
      BY <3>1, StoreIs
  <2>6. ASSUME ~overlap, base \in DOMAIN redirection, NEW p \in Pins, p = Shown(c)[2]
        PROVE  route[c].low = redirection[base][p].low
    <3>1. p = pin
      BY <1>2, <1>6, <2>6 DEF HalfWay, Shown
    <3>2. Exists(base, pin)
      BY <2>6, <3>1, IOAPICAssumption DEF Exists, Pins
    <3> QED
      BY <1>2, <1>6, <2>6, <3>1, <3>2 DEF HalfWay
  <2>7. \A b \in DOMAIN redirection : \A p \in Pins :
           /\ redirection'[b][p].dest \in {redirection[b][p].dest, route[c].dest, 0}
           /\ ~overlap => redirection'[b][p].low = redirection[b][p].low
    BY <2>5, <2>6
  <2>8. r # NotRouting => HalfWay(c, BaseOf(c), PinOf(c))'
    <3> SUFFICES ASSUME r # NotRouting PROVE HalfWay(c, BaseOf(c), PinOf(c))'
      OBVIOUS
    <3>1. route'[c].step = 1
      BY <2>3, <2>4
    <3> QED
      BY <3>1 DEF HalfWay
  <2>9. (r # NotRouting => r.step # 0) /\ ~(r.step >= 4)
    BY <2>3
  <2> QED
    BY <1>4, <2>2, <2>3, <2>5, <2>7, <2>8, <2>9, AccessR
<1> QED
  BY <1>5, <1>6

LEMMA RouteStepR ==
    ASSUME IInv, RInv, NEW c \in Cores, RouteStep(c),
           UNCHANGED <<earlier, pc, core, pic, shared, interrupts>>
    PROVE  RInv'
<1>0. UNCHANGED <<machine, mp, ioapic, overlap, pc, core, shared>> /\ route[c] # NotRouting
  BY DEF RouteStep, earlier, loaderVars
<1>1. route[c].step \in 1..7
  <2>1. route[c] \in RouteRecord /\ route[c].step # 0
    BY <1>0 DEF RInv, RegistersInv
  <2> QED
    BY <2>1 DEF RouteRecord
<1>2. CASE route[c].step \in {1, 4}
  <2>1. Select(c, "high") /\ NextStep(c) /\ UNCHANGED redirection
    <3>1. CASE route[c].step = 1
      BY <3>1 DEF RouteStep
    <3>2. CASE route[c].step = 4
      BY <3>2 DEF RouteStep
    <3> QED
      BY <1>2, <3>1, <3>2
  <2> QED
    BY <1>0, <1>2, <2>1, SelectR
<1>3. CASE route[c].step \in {2, 6}
  <2>1. Select(c, "low") /\ NextStep(c) /\ UNCHANGED redirection
    <3>1. CASE route[c].step = 2
      BY <3>1 DEF RouteStep
    <3>2. CASE route[c].step = 6
      BY <3>2 DEF RouteStep
    <3> QED
      BY <1>3, <3>1, <3>2
  <2> QED
    BY <1>0, <1>3, <2>1, SelectR
<1>4. CASE route[c].step = 3
  <2>1. /\ route' = [route EXCEPT ![c].step = 4, ![c].low = LowThroughWindow(c)]
        /\ UNCHANGED <<selector, redirection>>
    BY <1>4 DEF RouteStep
  <2> QED
    BY <1>0, <1>4, <2>1, ReadR
<1>5. CASE route[c].step = 5
  <2>1. StoreThroughWindow(c, route[c].dest, WrongHalf) /\ NextStep(c) /\ UNCHANGED selector
    BY <1>5 DEF RouteStep
  <2> QED
    BY <1>0, <1>5, <2>1, StoreR
<1>6. CASE route[c].step = 7
  <2>1. StoreThroughWindow(c, 0, route[c].low) /\ NextLine(c) /\ UNCHANGED selector
    BY <1>6 DEF RouteStep
  <2> QED
    BY <1>0, <1>6, <2>1, StoreR
<1> QED
  BY <1>1, <1>2, <1>3, <1>4, <1>5, <1>6

\* The second part of the invariant is inductive with the first.
LEMMA StepPreservesR == IInv /\ RInv /\ [Next]_vars => RInv'
<1> SUFFICES ASSUME IInv, RInv, [Next]_vars PROVE RInv'
  OBVIOUS
<1>1. CASE BootstrapNext
  <2>1. CASE LoaderNext /\ UNCHANGED <<kernel32Vars, later>>
    BY <2>1, LoaderStepR
  <2>2. CASE BootstrapKernel32Next /\ UNCHANGED later
    BY <2>2, Kernel32StepR
  <2> QED
    BY <1>1, <2>1, <2>2, BootstrapR DEF BootstrapNext
<1>2. ASSUME NEW c \in Cores, CoreNext(c) PROVE RInv'
  <2>1. CASE SharedKernel32Next(c) /\ UNCHANGED later
    BY <2>1, Kernel32StepR
  <2>2. CASE ApplicationProcessor(c)
    BY <2>2, ApplicationR
  <2>3. CASE TakeRequest(c)
    BY <2>3, TakesR
  <2>4. CASE HandlerStep(c)
    BY <2>4, HandlesR, BalancingR, RouteStepR DEF HandlerStep
  <2> QED
    BY <1>2, <2>1, <2>2, <2>3, <2>4 DEF CoreNext
<1>3. CASE Raise
  <2>1. CASE \E irq \in {0, 1} : PICInterrupt(irq)
    BY <2>1, TakesR, CoresAre
  <2>2. CASE \E base \in DOMAIN redirection : \E pin \in 0..(PINS - 1) : RaisePin(base, pin)
    BY <2>2, RaisePinR
  <2> QED
    BY <1>3, <2>1, <2>2 DEF Raise
<1>4. CASE UNCHANGED vars
  <2>1. UNCHANGED <<machine, ioapicVars, pc, core, shared>>
    BY <1>4 DEF vars, loaderVars
  <2>2. \A d : Where(d)' = Where(d)
    BY <2>1 DEF Where
  <2>3. \A d : Counted(d)' <=> Counted(d)
    BY <2>2 DEF Counted
  <2>4. \A d \in Cores \ {0} : core'[d].flag \/ core'[d].vector # None => Where(d)' = "idle"
    BY <2>1, <2>2 DEF RInv, AwakeInv
  <2> QED
    BY <2>1, <2>2, <2>3, <2>4, Frame
<1> QED
  BY <1>1, <1>2, <1>3, <1>4 DEF Next

\* Both parts hold in every state.
LEMMA RInvHolds == Spec => [](IInv /\ RInv)
<1>1. Init => IInv /\ RInv
  BY InitEstablishes, InitEstablishesR
<1>2. IInv /\ RInv /\ [Next]_vars => (IInv /\ RInv)'
  BY StepPreserves, StepPreservesR
<1> QED
  BY <1>1, <1>2, PTL DEF Spec

\* No interrupt is sent to a core that sleeps: the cores among which lines are
\* balanced have started, and so has every core that an open entry names.
THEOREM BalancedCoresAreAwakeHolds == Spec => []BalancedCoresAreAwake
<1>1. IInv /\ RInv => BalancedCoresAreAwake
  <2> SUFFICES ASSUME IInv, RInv, OrderlyProcessors
               PROVE  /\ shared.balancing => \A i \in 0..(kGetProcessorCount(mp) - 1) : Awake(i)
                      /\ \A base \in DOMAIN redirection : \A pin \in DOMAIN redirection[base] :
                            ~redirection[base][pin].low.mask =>
                                \/ redirection[base][pin].dest = AllCores
                                \/ Awake(redirection[base][pin].dest)
    BY DEF BalancedCoresAreAwake
  <2>1. shared.balancing => shared.symmetric
    BY DEF IInv, ModeInv
  <2>2. \A base \in DOMAIN redirection : DOMAIN redirection[base] = Pins
    BY DEF RInv, RegistersInv
  <2>3. ~shared.symmetric => \A base \in DOMAIN redirection : \A pin \in Pins :
                                redirection[base][pin].low.mask
    BY DEF IInv, ModeInv, Pins
  <2>4. shared.symmetric => \A base \in DOMAIN redirection : \A pin \in Pins :
                               \/ redirection[base][pin].dest = AllCores
                               \/ Awake(redirection[base][pin].dest)
    BY DEF RInv, DestInv
  <2>5. shared.balancing => \A i \in 0..(kGetProcessorCount(mp) - 1) : Awake(i)
    BY <2>1, OrderlyAwake
  <2> QED
    BY <2>2, <2>3, <2>4, <2>5
<1> QED
  BY <1>1, RInvHolds, PTL

\* A step that ends a routing is its last store.
LEMMA RoutingEnds ==
    ASSUME IInv, RInv, Next, NEW c \in Cores, route[c] # NotRouting, route'[c] = NotRouting
    PROVE  /\ RouteStep(c) /\ route[c].step = 7
           /\ UNCHANGED <<earlier, pc, core, pic, shared, interrupts>>
<1>1. route'[c] # route[c]
  OBVIOUS
<1>2. \A d \in Cores : route[d] \in RouteRecord
  BY DEF RInv, RegistersInv
<1>3. ~BootstrapNext
  BY <1>1 DEF BootstrapNext, BootstrapProcessor, later, ioapicVars, Main_64, Devices, StartUp,
     kEnableSoftwareLocalAPIC, SendInit, CheckPending, SendStartUp, RestoreAfterWakeUp,
     AwaitProcessors, MaskPIC, kSetSymmetricIOMode, InitializeIOAPIC,
     kInitializeIORedirectionTable, RestoreAfterChange, StartBalancing
<1>4. ~Raise
  BY <1>1 DEF Raise, PICInterrupt, RaisePin, ioapicVars
<1>5. PICK d \in Cores : CoreNext(d)
  BY <1>3, <1>4 DEF Next
<1>6. HandlerStep(d)
  BY <1>1, <1>5 DEF CoreNext, later, ioapicVars, ApplicationProcessor, MoveStack, CountAwake,
     LoadTables, kInitializeScheduler, EnableAPIC, kEnableInterrupt, TakeRequest
<1>7. ~kProcessLoadBalancing(d)
  <2> SUFFICES ASSUME kProcessLoadBalancing(d) PROVE FALSE
    OBVIOUS
  <2>1. PICK r : route' = [route EXCEPT ![d] = r] /\ r.step = 1
    <3> PICK irq, dest : kRoutingIRQToAPICID(d, irq, dest) \/ UNCHANGED ioapicVars
      BY DEF kProcessLoadBalancing
    <3> DEFINE new == [step |-> 1, irq |-> irq, dest |-> dest, line |-> 1, low |-> <<>>]
    <3>1. route' = [route EXCEPT ![d] = new]
      BY <1>1 DEF kRoutingIRQToAPICID, ioapicVars
    <3>2. new.step = 1
      OBVIOUS
    <3> HIDE DEF new
    <3> QED
      BY <3>1, <3>2
  <2>2. NotRouting.step = 0 /\ route \in [Cores -> RouteRecord]
    BY NotRoutingIs DEF RInv, RegistersInv
  <2> QED
    BY <1>1, <2>1, <2>2
<1>8. RouteStep(d) /\ UNCHANGED <<earlier, pc, core, pic, shared, interrupts>>
  BY <1>1, <1>6, <1>7 DEF HandlerStep, kSendEOI, kIncreaseInterruptCount, Return, ioapicVars
<1>9. route \in [Cores -> RouteRecord] /\ route[d].step \in 1..7 /\ route[d] # NotRouting
  <2>1. route \in [Cores -> RouteRecord] /\ route[d] # NotRouting /\ route[d].step # 0
    BY <1>8 DEF RInv, RegistersInv, RouteStep
  <2> QED
    BY <2>1 DEF RouteRecord
<1>10. PICK r : route' = [route EXCEPT ![d] = r] /\ (route[d].step # 7 => r.step # 0)
  <2>1. CASE route[d].step = 7
    BY <1>8, <2>1 DEF RouteStep, NextLine
  <2>2. CASE route[d].step = 3
    <3>1. route' = [route EXCEPT ![d].step = 4, ![d].low = LowThroughWindow(d)]
      BY <1>8, <2>2 DEF RouteStep
    <3> DEFINE r == [route[d] EXCEPT !.step = 4, !.low = LowThroughWindow(d)]
    <3>2. route' = [route EXCEPT ![d] = r]
      BY <1>9, <3>1
    <3>3. r.step # 0
      BY <1>9 DEF RouteRecord
    <3> HIDE DEF r
    <3> QED
      BY <3>2, <3>3
  <2>3. CASE route[d].step \notin {3, 7}
    <3>1. NextStep(d)
      <4>1. route[d].step \in {1, 2, 4, 5, 6}
        BY <1>9, <2>3
      <4>2. CASE route[d].step = 1
        BY <1>8, <4>2 DEF RouteStep
      <4>3. CASE route[d].step = 2
        BY <1>8, <4>3 DEF RouteStep
      <4>4. CASE route[d].step = 4
        BY <1>8, <4>4 DEF RouteStep
      <4>5. CASE route[d].step = 5
        BY <1>8, <4>5 DEF RouteStep
      <4>6. CASE route[d].step = 6
        BY <1>8, <4>6 DEF RouteStep
      <4> QED
        BY <4>1, <4>2, <4>3, <4>4, <4>5, <4>6
    <3> DEFINE r == [route[d] EXCEPT !.step = @ + 1]
    <3>2. route' = [route EXCEPT ![d] = r]
      BY <3>1 DEF NextStep
    <3>3. r.step = route[d].step + 1
      BY <1>9 DEF RouteRecord
    <3>4. r.step # 0
      BY <1>9, <3>3
    <3> QED
      BY <3>2, <3>4
  <2> QED
    BY <2>1, <2>2, <2>3
<1>11. c = d
  BY <1>1, <1>9, <1>10
<1>12. route[c].step = 7
  BY <1>9, <1>10, <1>11, NotRoutingIs
<1> QED
  BY <1>8, <1>11, <1>12

\* As long as no two cores route at once, a routing that is over has led the
\* entry to the new core and spoilt no entry.
THEOREM RoutingIsExactHolds == Spec => RoutingIsExact
<1> DEFINE Exact == \A c \in Cores :
         route[c] # NotRouting /\ route'[c] = NotRouting /\ ~overlap =>
           /\ Exists(BaseOf(c), PinOf(c)) =>
                 redirection'[BaseOf(c)][PinOf(c)].dest = route[c].dest
           /\ \A base \in DOMAIN redirection : \A pin \in DOMAIN redirection[base] :
                 redirection'[base][pin].low = Programmed.registers[base][pin].low
<1>1. IInv /\ RInv /\ [Next]_vars => [Exact]_vars
  <2> SUFFICES ASSUME IInv, RInv, Next, NEW c \in Cores,
                      route[c] # NotRouting, route'[c] = NotRouting, ~overlap
               PROVE  /\ Exists(BaseOf(c), PinOf(c)) =>
                           redirection'[BaseOf(c)][PinOf(c)].dest = route[c].dest
                      /\ \A base \in DOMAIN redirection : \A pin \in DOMAIN redirection[base] :
                           redirection'[base][pin].low = Programmed.registers[base][pin].low
    BY Zenon
  <2>1. /\ RouteStep(c) /\ route[c].step = 7
        /\ UNCHANGED <<earlier, pc, core, pic, shared, interrupts>>
    BY RoutingEnds
  <2>2. StoreThroughWindow(c, 0, route[c].low) /\ route[c] # NotRouting
    BY <2>1 DEF RouteStep
  <2> PICK base : base = BaseOf(c)
    OBVIOUS
  <2> PICK pin : pin = PinOf(c)
    OBVIOUS
  <2>3. HalfWay(c, base, pin)
    BY <2>2 DEF RInv, RouteInv
  <2> PICK none : none = 0
    OBVIOUS
  <2> PICK low : low = route[c].low
    OBVIOUS
  <2>4. none \in Nat /\ low \in LowRecord /\ StoreThroughWindow(c, none, low)
    <3>1. route[c].step >= 4
      BY <2>1
    <3> QED
      BY <2>2, <3>1 DEF RInv, RegistersInv
  <2>5. \A b \in DOMAIN redirection : \A p \in Pins :
           /\ redirection'[b][p].dest =
                 IF b = base /\ p = Shown(c)[2] /\ Shown(c)[1] = "high"
                 THEN none ELSE redirection[b][p].dest
           /\ redirection'[b][p].low =
                 IF b = base /\ p = Shown(c)[2] /\ Shown(c)[1] # "high"
                 THEN low ELSE redirection[b][p].low
    BY <2>4, StoreIs
  <2>6. base \in DOMAIN redirection => Shown(c)[1] = "low" /\ Shown(c)[2] = pin
    BY <2>1, <2>3 DEF HalfWay, Shown
  <2>7. Exists(base, pin) => base \in DOMAIN redirection /\ pin \in Pins
    BY PinIs DEF Exists
  <2>8. Exists(base, pin) => /\ redirection[base][pin].low = low
                             /\ redirection[base][pin].dest = route[c].dest
    BY <2>1, <2>3 DEF HalfWay
  <2>9. Exists(base, pin) => redirection'[base][pin].dest = route[c].dest
    BY <2>5, <2>6, <2>7, <2>8
  <2>10. \A b \in DOMAIN redirection : \A p \in Pins :
            redirection'[b][p].low = redirection[b][p].low
    <3> SUFFICES ASSUME NEW b \in DOMAIN redirection, NEW p \in Pins,
                        b = base, p = Shown(c)[2]
                 PROVE  redirection[b][p].low = low
      BY <2>5
    <3>1. p = pin /\ Exists(base, pin)
      BY <2>6, IOAPICAssumption DEF Exists, Pins
    <3> QED
      BY <2>8, <3>1
  <2>11. \A b \in DOMAIN redirection : \A p \in Pins :
            redirection[b][p].low = Programmed.registers[b][p].low
    BY <2>2 DEF RInv, LowsInv, PhaseInv, IInv, ModeInv
  <2>12. \A b \in DOMAIN redirection : DOMAIN redirection[b] = Pins
    BY DEF RInv, RegistersInv
  <2> QED
    BY <2>9, <2>10, <2>11, <2>12
<1>2. [][Exact]_vars => RoutingIsExact
  BY PTL DEF RoutingIsExact
<1> QED
  BY <1>1, <1>2, RInvHolds, PTL DEF Spec

(***************************************************************************)
(* What the third part adds to the invariant: the way of the kernel to     *)
(* memory, and of each core to the 64-bit mode.                            *)
(***************************************************************************)
Words == BYTESOFSECTOR \div 16
Total == SectorCount(machine.kernel32) + SectorCount(machine.kernel64)

\* Where the loader puts a sector; the first n have arrived.
SegmentOf(i) == LOAD_SEGMENT + i * Words
Arrived(n) == \A i \in 0..(n - 1) : SectorIn(SegmentOf(i)) = i + 1

DiskRecord == [left : Nat, segment : Nat, track : BYTE, head : {0, 1}, sector : 1..18]

LoaderInv ==
    /\ machine \in Machines /\ disk \in DiskRecord
    /\ pc[0] = "reset" => disk.track = 0 /\ disk.head = 0 /\ disk.sector = 2
    /\ Fits(machine) =>
         /\ pc[0] = "read" =>
              /\ disk.left \in 0..Total
              /\ disk.segment = SegmentOf(Total - disk.left)
              /\ SectorAt(disk) = (Total - disk.left) + 1
              /\ Arrived(Total - disk.left)
         /\ pc[0] \in Early \ {"reset", "read"} => Arrived(Total)

KernelInv ==
    /\ DOMAIN mbyte = 1..(MINIMUM_MB - 1)
    /\ pc[0] \in {"tables", "cpuid", "copy", "switch", "entry64"} =>
          \A mb \in 1..5 : mbyte[mb] = "zero"
    /\ pc[0] \in {"cpuid", "copy", "switch", "entry64"} => tables = PageTables
    /\ Fits(machine) /\ pc[0] \in {"switch", "entry64"} =>
          \A i \in 1..SectorCount(machine.kernel64) :
              kernel64[i] = SectorCount(machine.kernel32) + i

\* The bits of CR0 before and after the switch, on every core.
ModeBits == {"PE", "PG", "MP", "TS", "ET", "NE", "CD", "NW", "EM"}
LongMode == {"PE", "PG", "MP", "TS", "ET", "NE"}
ModeSwitchInv ==
    /\ cr0 \in [Cores -> SUBSET ModeBits]
    /\ \A c \in Cores :
          /\ pc[c] \in Early \ {"reset", "read", "entry16", "entry64"} => cr0[c] = ProtectedMode
          /\ pc[c] = "entry64" => cr0[c] = LongMode

\* The bootstrap processor takes no interrupt on its way.
QuietInv ==
    /\ pc[0] \in Early => ~core[0].flag
    /\ core[0].vector # None => core[0].back \notin Early

KInv == LoaderInv /\ KernelInv /\ ModeSwitchInv /\ QuietInv
(***************************************************************************)
(* Sectors, segments and pages                                             *)
(***************************************************************************)
LEMMA Divided ==
    ASSUME NEW y \in Nat, NEW w \in Nat \ {0}, NEW x \in 0..(w - 1)
    PROVE  (y * w + x) % w = x /\ (y * w + x) \div w = y
OBVIOUS

LEMMA Division ==
    ASSUME NEW o \in Nat, NEW w \in Nat \ {0}
    PROVE  /\ o % w \in 0..(w - 1) /\ o \div w \in Nat
           /\ o = (o \div w) * w + (o % w)
OBVIOUS

LEMMA Smaller ==
    ASSUME NEW x \in Nat, NEW y \in Nat, NEW w \in Nat \ {0}
    PROVE  (x * w < y * w <=> x < y) /\ x * w \in Nat
OBVIOUS

\* A quotient stays below a bound whose multiple the number stays below.
LEMMA Quotient ==
    ASSUME NEW o \in Nat, NEW n \in Nat, NEW w \in Nat \ {0}, o < n * w
    PROVE  o \div w \in 0..(n - 1)
<1> DEFINE q == o \div w
           r == o % w
<1>1. q \in Nat /\ r \in 0..(w - 1) /\ o = q * w + r
  BY Division
<1> HIDE DEF q, r
<1>2. q * w \in Nat /\ n * w \in Nat
  BY <1>1, Smaller
<1>3. q * w < n * w
  BY <1>1, <1>2
<1>4. q < n
  BY <1>1, <1>3, Smaller
<1> QED
  BY <1>1, <1>4 DEF q

\* Files are laid out in whole sectors.
LEMMA SectorCountIs ==
    ASSUME NEW size \in Nat
    PROVE  /\ SectorCount(size) \in Nat /\ AdjustInSectorSize(size) \in Nat
           /\ SectorCount(size) * BYTESOFSECTOR = size + AdjustInSectorSize(size)
           /\ AdjustInSectorSize(BYTESOFSECTOR) = 0
<1> DEFINE w == BYTESOFSECTOR
           q == size \div w
           r == size % w
<1>0. w \in Nat \ {0} /\ 1 \in Nat /\ 0 \in 0..(w - 1)
  BY LayoutAssumption
<1>1. q \in Nat /\ r \in 0..(w - 1) /\ size = q * w + r
  BY <1>0, Division
<1>2. AdjustInSectorSize(size) = IF r # 0 THEN w - r ELSE 0
  BY DEF AdjustInSectorSize
<1>3. AdjustInSectorSize(w) = 0
  <2>1. (1 * w + 0) % w = 0
    BY <1>0, Divided
  <2>2. w % w = 0
    BY <1>0, <2>1
  <2> QED
    BY <1>0, <2>2 DEF AdjustInSectorSize
<1>4. \A y \in Nat : (y * w + 0) \div w = y
  BY <1>0, Divided
<1> HIDE DEF q, r
<1>5. CASE r = 0
  <2>1. AdjustInSectorSize(size) = 0 /\ size = q * w + 0
    BY <1>0, <1>1, <1>2, <1>5, Smaller
  <2>2. SectorCount(size) = q
    BY <1>1, <1>4, <2>1 DEF SectorCount
  <2>3. SectorCount(size) * w = size + AdjustInSectorSize(size)
    <3>1. q * w \in Nat
      BY <1>0, <1>1, Smaller
    <3> QED
      BY <2>1, <2>2, <3>1
  <2> QED
    BY <1>1, <1>3, <2>1, <2>2, <2>3
<1>6. CASE r # 0
  <2>1. q + 1 \in Nat /\ (q + 1) * w = q * w + w /\ q * w \in Nat
    BY <1>0, <1>1, Smaller
  <2>2. AdjustInSectorSize(size) = w - r /\ w - r \in Nat
    BY <1>0, <1>1, <1>2, <1>6
  <2>3. size + AdjustInSectorSize(size) = (q + 1) * w + 0
    BY <1>0, <1>1, <2>1, <2>2
  <2>4. SectorCount(size) = q + 1
    BY <1>4, <2>1, <2>3 DEF SectorCount
  <2>5. SectorCount(size) * w = size + AdjustInSectorSize(size)
    BY <1>0, <1>1, <2>1, <2>2, <2>3, <2>4
  <2> QED
    BY <1>3, <2>1, <2>2, <2>4, <2>5
<1> QED
  BY <1>5, <1>6

\* The machine's files have so many sectors.
LEMMA CountsAre ==
    ASSUME machine \in Machines
    PROVE  /\ machine.kernel32 \in Nat /\ machine.kernel64 \in Nat
           /\ SectorCount(machine.kernel32) \in Nat /\ SectorCount(machine.kernel64) \in Nat
           /\ Total \in Nat /\ Words \in Nat \ {0}
<1>1. machine.kernel32 \in Nat /\ machine.kernel64 \in Nat
  BY FileAssumption
<1>2. BYTESOFSECTOR \in Nat \ {0} /\ BYTESOFSECTOR % 16 = 0
  BY LayoutAssumption
<1>3. Words \in Nat \ {0}
  BY <1>2 DEF Words
<1> QED
  BY <1>1, <1>3, SectorCountIs DEF Total

\* An image that fits is counted right, lies below the video memory and takes
\* few of the tracks.
LEMMA FitsMeans ==
    ASSUME machine \in Machines, Fits(machine)
    PROVE  /\ WriteKernelInformation(machine).total = Total
           /\ WriteKernelInformation(machine).kernel32 = SectorCount(machine.kernel32)
           /\ SegmentOf(Total) <= VIDEO_SEGMENT /\ Total < 256 * 2 * 18 - 1
<1> DEFINE n == Total
           w == Words
           v == VIDEO_SEGMENT - LOAD_SEGMENT
<1>1. n \in Nat /\ w \in Nat \ {0} /\ v \in Nat \ {0} /\ v < 65536
      /\ VIDEO_SEGMENT \in Nat /\ LOAD_SEGMENT \in Nat
  BY CountsAre, LayoutAssumption
<1>2. n <= v \div w /\ v \div w < 256 * 2 * 18 - 1
  BY LayoutAssumption DEF Fits, Total, Words
<1>3. v \div w \in Nat /\ v % w \in Nat /\ v = (v \div w) * w + (v % w)
  BY <1>1, Division
<1>4. SectorCount(machine.kernel32) \in Nat /\ SectorCount(machine.kernel64) \in Nat
      /\ n = SectorCount(machine.kernel32) + SectorCount(machine.kernel64)
  BY CountsAre DEF Total
<1>5. SegmentOf(n) = LOAD_SEGMENT + n * w
  BY DEF SegmentOf
<1>6. WriteKernelInformation(machine).total = n % 65536
      /\ WriteKernelInformation(machine).kernel32 = SectorCount(machine.kernel32) % 65536
  BY DEF WriteKernelInformation, Total
<1> DEFINE q == v \div w
           r == v % w
<1> HIDE DEF n, w, v, q, r
<1>7. n * w <= q * w
  <2>1. ~(q < n)
    BY <1>1, <1>2, <1>3 DEF q
  <2>2. ~(q * w < n * w) /\ q * w \in Nat /\ n * w \in Nat
    BY <1>1, <1>3, <2>1, Smaller DEF q
  <2> QED
    BY <2>2
<1>8. n * w \in Nat /\ q * w \in Nat /\ v = q * w + r
  BY <1>1, <1>3, Smaller DEF q, r
<1>9. n * w <= v
  BY <1>1, <1>3, <1>7, <1>8 DEF q, r
<1>10. SegmentOf(n) <= VIDEO_SEGMENT
  BY <1>1, <1>5, <1>8, <1>9 DEF v
<1>11. n < 256 * 2 * 18 - 1
  BY <1>1, <1>2, <1>3
<1>12. n % 65536 = n /\ SectorCount(machine.kernel32) % 65536 = SectorCount(machine.kernel32)
  BY <1>1, <1>4, <1>11
<1> QED
  BY <1>6, <1>10, <1>11, <1>12 DEF n

\* Sectors go to memory one behind the other.
LEMMA SegmentsAre ==
    ASSUME machine \in Machines, NEW i \in Nat
    PROVE  /\ SegmentOf(i) \in Nat /\ SegmentOf(i + 1) = SegmentOf(i) + Words
           /\ \A j \in Nat : j < i => SegmentOf(j) < SegmentOf(i)
<1> DEFINE w == Words
<1>1. w \in Nat \ {0} /\ LOAD_SEGMENT \in Nat
  BY CountsAre, LayoutAssumption
<1>2. \A j \in Nat : SegmentOf(j) = LOAD_SEGMENT + j * w /\ j * w \in Nat
  BY <1>1, Smaller DEF SegmentOf
<1> HIDE DEF w
<1>3. (i + 1) * w = i * w + w
  BY <1>1
<1>4. SegmentOf(i + 1) = LOAD_SEGMENT + (i + 1) * w
  BY <1>2
<1>5. \A j \in Nat : j < i => j * w < i * w
  BY <1>1, Smaller
<1> QED
  BY <1>1, <1>2, <1>3, <1>4, <1>5 DEF w

(***************************************************************************)
(* The loader                                                              *)
(***************************************************************************)
LEMMA InitEstablishesK == Init => KInv
<1> SUFFICES ASSUME Init PROVE KInv
  OBVIOUS
<1>0. 0 \in Cores /\ pc[0] = "reset" /\ machine \in Machines
      /\ \A c \in Cores \ {0} : pc[c] = "off"
  BY CoresAre DEF Init, LoaderInit
<1>1. LoaderInv
  BY <1>0 DEF LoaderInv, Init, LoaderInit, DiskRecord, Early, BYTE
<1>2. KernelInv
  BY <1>0 DEF KernelInv, Init, Kernel32Init
<1>3. ModeSwitchInv
  <2>1. cr0 = [c \in Cores |-> {}]
    BY DEF Init, Kernel32Init
  <2>2. \A c \in Cores : pc[c] \in {"reset", "off"}
    BY <1>0
  <2> QED
    BY <2>1, <2>2 DEF ModeSwitchInv, Early, ModeBits
<1>4. QuietInv
  BY <1>0 DEF QuietInv, Init, CoreInit
<1> QED
  BY <1>1, <1>2, <1>3, <1>4 DEF KInv

\* What has arrived stays when the memory stays.
LEMMA ArrivedStays ==
    ASSUME UNCHANGED memory, NEW n \in Nat, Arrived(n)
    PROVE  Arrived(n)'
BY DEF Arrived, SectorIn, SegmentOf, Words

\* Another position, or other counts, in the loader's variables.
PositionIn(d, track, head, sector) ==
    [d EXCEPT !.sector = sector, !.head = head, !.track = track]
CountsIn(d, left, segment) == [d EXCEPT !.left = left, !.segment = segment]

\* The number of the sector at a position.
Number(track, head, sector) == (track * 2 + head) * 18 + sector - 1

\* The tracks that the loader counts in a byte.
LEMMA TracksAre == \A x : x \in BYTE <=> x \in Nat /\ x < 256
BY DEF BYTE

\* The position after this one is that of the next sector, as long as there are
\* tracks.
LEMMA NextPositionIs ==
    ASSUME NEW d \in DiskRecord
    PROVE  /\ NextPosition(d) \in DiskRecord
           /\ NextPosition(d).left = d.left /\ NextPosition(d).segment = d.segment
           /\ SectorAt(d) < 256 * 2 * 18 - 1 => SectorAt(NextPosition(d)) = SectorAt(d) + 1
<1>t. PICK t : t = d.track
  OBVIOUS
<1>h. PICK h : h = d.head
  OBVIOUS
<1>s. PICK s : s = d.sector
  OBVIOUS
<1>0. /\ t \in BYTE /\ h \in {0, 1} /\ s \in 1..18 /\ d.left \in Nat /\ d.segment \in Nat
      /\ d = [left |-> d.left, segment |-> d.segment, track |-> t, head |-> h, sector |-> s]
  BY <1>t, <1>h, <1>s DEF DiskRecord
<1>00. t \in BYTE /\ h \in {0, 1}
  BY <1>0
<1>1. SectorAt(d) = Number(t, h, s)
  BY <1>t, <1>h, <1>s DEF SectorAt, Number
<1>p. PICK p : p = NextPosition(d)
  OBVIOUS
\* The new track, head and sector are enough.
<1>2. ASSUME NEW tt \in BYTE, NEW hh \in {0, 1}, NEW ss \in 1..18,
             p = PositionIn(d, tt, hh, ss),
             Number(t, h, s) < 9215 => Number(tt, hh, ss) = Number(t, h, s) + 1
      PROVE  /\ p \in DiskRecord /\ p.left = d.left /\ p.segment = d.segment
             /\ SectorAt(d) < 256 * 2 * 18 - 1 => SectorAt(p) = SectorAt(d) + 1
  <2>1. p = [left |-> d.left, segment |-> d.segment, track |-> tt, head |-> hh, sector |-> ss]
    <3>1. p = [d EXCEPT !.sector = ss, !.head = hh, !.track = tt]
      BY <1>2 DEF PositionIn
    <3> QED
      BY <3>1 DEF DiskRecord
  <2>2. SectorAt(p) = Number(tt, hh, ss)
    BY <2>1 DEF SectorAt, Number
  <2>3. p \in DiskRecord
    BY <1>0, <1>2, <2>1 DEF DiskRecord
  <2>4. SectorAt(d) < 256 * 2 * 18 - 1 => SectorAt(p) = SectorAt(d) + 1
    BY <1>0, <1>1, <1>2, <2>2, TracksAre
  <2> QED
    BY <2>1, <2>3, <2>4
<1>3. CASE s + 1 < 19
  <2>s. PICK ss : ss = s + 1
    OBVIOUS
  <2>1. p = [d EXCEPT !.sector = ss]
    BY <1>p, <1>s, <1>3, <2>s DEF NextPosition
  <2>2. p = PositionIn(d, t, h, ss)
    BY <1>t, <1>h, <2>1 DEF DiskRecord, PositionIn
  <2>3. ss \in 1..18 /\ (Number(t, h, s) < 9215 => Number(t, h, ss) = Number(t, h, s) + 1)
    BY <1>0, <1>3, <2>s, TracksAre DEF Number
  <2>4. /\ p \in DiskRecord /\ p.left = d.left /\ p.segment = d.segment
        /\ SectorAt(d) < 256 * 2 * 18 - 1 => SectorAt(p) = SectorAt(d) + 1
    BY <1>00, <1>2, <2>2, <2>3, SMT
  <2> QED
    BY <1>p, <2>4
<1>4. CASE ~(s + 1 < 19) /\ h = 0
  <2>1. p = PositionIn(d, t, 1, 1)
    BY <1>p, <1>t, <1>h, <1>s, <1>4 DEF NextPosition, PositionIn
  <2>2. Number(t, h, s) < 9215 => Number(t, 1, 1) = Number(t, h, s) + 1
    BY <1>0, <1>4, TracksAre DEF Number
  <2>3. 1 \in {0, 1} /\ 1 \in 1..18
    OBVIOUS
  <2>4. /\ p \in DiskRecord /\ p.left = d.left /\ p.segment = d.segment
        /\ SectorAt(d) < 256 * 2 * 18 - 1 => SectorAt(p) = SectorAt(d) + 1
    BY <1>00, <1>2, <2>1, <2>2, <2>3, SMT
  <2> QED
    BY <1>p, <2>4
<1>5. CASE ~(s + 1 < 19) /\ h = 1
  <2>t. PICK tt : tt = (t + 1) % 256
    OBVIOUS
  <2>1. p = PositionIn(d, tt, 0, 1)
    BY <1>p, <1>t, <1>h, <1>s, <1>5, <2>t DEF NextPosition, PositionIn
  <2>2. tt \in BYTE /\ (t # 255 => tt = t + 1)
    BY <1>0, <2>t, TracksAre
  <2>3. Number(t, h, s) < 9215 => Number(tt, 0, 1) = Number(t, h, s) + 1
    BY <1>0, <1>5, <2>2, TracksAre DEF Number
  <2>4. 0 \in {0, 1} /\ 1 \in 1..18
    OBVIOUS
  <2>5. /\ p \in DiskRecord /\ p.left = d.left /\ p.segment = d.segment
        /\ SectorAt(d) < 256 * 2 * 18 - 1 => SectorAt(p) = SectorAt(d) + 1
    BY <1>2, <2>1, <2>2, <2>3, <2>4, SMT
  <2> QED
    BY <1>p, <2>5
<1> QED
  BY <1>0, <1>3, <1>4, <1>5, <1>p

\* A step of the loader keeps what is not the loader's.
LEMMA LoaderKeeps ==
    ASSUME IInv, KInv, UNCHANGED <<machine, kernel32Vars, core>>,
           NEW label \in {"halt", "read", "entry16"}, pc[0] \in {"reset", "read"},
           pc' = [pc EXCEPT ![0] = label]
    PROVE  KernelInv' /\ ModeSwitchInv' /\ QuietInv'
<1>0. pc \in [Cores -> Labels] /\ 0 \in Cores
  BY CoresAre DEF IInv, TypeInv
<1>1. pc'[0] = label /\ \A c \in Cores \ {0} : pc'[c] = pc[c]
  BY <1>0
<1>2. KernelInv'
  BY <1>1 DEF KInv, KernelInv, kernel32Vars
<1>3. ModeSwitchInv'
  <2>1. \A c \in Cores : pc'[c] = pc[c] \/ pc'[c] \in {"halt", "read", "entry16"}
    BY <1>1
  <2>2. cr0' = cr0
    BY DEF kernel32Vars
  <2> QED
    BY <2>1, <2>2 DEF KInv, ModeSwitchInv, Early
<1>4. QuietInv'
  <2>1. pc[0] \in Early
    BY DEF Early
  <2> QED
    BY <2>1 DEF KInv, QuietInv
<1> QED
  BY <1>2, <1>3, <1>4

\* A sector is read: what the loader does to the memory and to its variables.
SectorIsRead ==
    /\ memory' = IF disk.segment < VIDEO_SEGMENT
                 THEN [segment \in DOMAIN memory \cup {disk.segment} |->
                         IF segment = disk.segment THEN SectorAt(disk) ELSE memory[segment]]
                 ELSE memory
    /\ disk' = [NextPosition(disk) EXCEPT
                  !.left = disk.left - 1,
                  !.segment = (disk.segment + BYTESOFSECTOR \div 16) % 65536]

LEMMA ReadDataK ==
    ASSUME IInv, KInv, UNCHANGED <<machine, kernel32Vars, core, pc>>, pc[0] = "read", disk.left # 0,
           SectorIsRead
    PROVE  KInv'
<1>0. pc \in [Cores -> Labels] /\ 0 \in Cores /\ disk \in DiskRecord /\ machine \in Machines
  BY CoresAre DEF IInv, TypeInv, KInv, LoaderInv
<1>1. KernelInv' /\ ModeSwitchInv' /\ QuietInv'
  <2>1. pc' = [pc EXCEPT ![0] = "read"]
    BY <1>0
  <2> QED
    BY <2>1, LoaderKeeps
<1>n. PICK n : n = NextPosition(disk)
  OBVIOUS
<1>l. PICK l : l = disk.left - 1
  OBVIOUS
<1>e. PICK e : e = disk.segment + BYTESOFSECTOR \div 16
  OBVIOUS
<1>s. PICK s : s = e % 65536
  OBVIOUS
<1>2. /\ disk' = [left |-> l, segment |-> s, track |-> n.track, head |-> n.head,
                  sector |-> n.sector]
      /\ l \in Nat /\ s \in Nat /\ e \in Nat /\ n \in DiskRecord /\ n.left = disk.left
      /\ disk.left \in Nat /\ disk' \in DiskRecord
      /\ SectorAt(disk) < 256 * 2 * 18 - 1 => SectorAt(n) = SectorAt(disk) + 1
  <2>1. /\ n \in DiskRecord /\ n.left = disk.left
        /\ SectorAt(disk) < 256 * 2 * 18 - 1 => SectorAt(n) = SectorAt(disk) + 1
    BY <1>0, <1>n, NextPositionIs
  <2>2. disk' = CountsIn(n, l, s)
    <3>1. disk' = CountsIn(NextPosition(disk), disk.left - 1,
                           (disk.segment + BYTESOFSECTOR \div 16) % 65536)
      BY DEF SectorIsRead, CountsIn
    <3> QED
      BY <1>n, <1>l, <1>e, <1>s, <3>1
  <2>3. disk' = [left |-> l, segment |-> s, track |-> n.track, head |-> n.head,
                 sector |-> n.sector]
    BY <2>1, <2>2 DEF DiskRecord, CountsIn
  <2>4. disk.left \in Nat /\ l \in Nat /\ e \in Nat /\ s \in Nat
    <3>1. disk.segment \in Nat /\ disk.left \in Nat /\ BYTESOFSECTOR \in Nat
      BY <1>0, LayoutAssumption DEF DiskRecord
    <3>2. l \in Nat /\ e \in Nat
      BY <1>l, <1>e, <3>1, CountsAre, <1>0 DEF Words
    <3> QED
      BY <1>s, <3>1, <3>2
  <2>5. disk' \in DiskRecord
    BY <2>1, <2>3, <2>4 DEF DiskRecord
  <2> QED
    BY <2>1, <2>3, <2>4, <2>5
<1>3. ASSUME Fits(machine)
      PROVE  /\ disk'.left \in 0..Total
             /\ disk'.segment = SegmentOf(Total - disk'.left)
             /\ SectorAt(disk)' = (Total - disk'.left) + 1
             /\ Arrived(Total - disk.left)'
  <2>1. PICK m : m = Total - disk.left
    OBVIOUS
  <2>2. /\ disk.left \in 1..Total /\ m \in Nat /\ disk.segment = SegmentOf(m)
        /\ SectorAt(disk) = m + 1 /\ Arrived(m) /\ Total \in Nat /\ Words \in Nat \ {0}
        /\ m + 1 <= Total
    BY <1>0, <1>3, <2>1, CountsAre DEF KInv, LoaderInv, DiskRecord
  <2>3. SegmentOf(Total) <= VIDEO_SEGMENT /\ Total < 9215 /\ VIDEO_SEGMENT < 65536
        /\ VIDEO_SEGMENT \in Nat
    BY <1>0, <1>3, FitsMeans, LayoutAssumption
  <2>4. /\ SegmentOf(m) \in Nat /\ SegmentOf(m + 1) = SegmentOf(m) + Words
        /\ \A j \in Nat : j < m => SegmentOf(j) < SegmentOf(m)
    BY <1>0, <2>2, SegmentsAre
  <2>5. SegmentOf(m + 1) <= SegmentOf(Total) /\ SegmentOf(m + 1) \in Nat /\ SegmentOf(Total) \in Nat
    <3>1. \A j \in Nat : j < Total => SegmentOf(j) < SegmentOf(Total)
      BY <1>0, <2>2, SegmentsAre
    <3>2. SegmentOf(Total) \in Nat /\ SegmentOf(m + 1) \in Nat /\ m + 1 \in Nat
      <4>1. m + 1 \in Nat /\ Total \in Nat /\ machine \in Machines
        BY <1>0, <2>2
      <4>2. \A i \in Nat : SegmentOf(i) \in Nat
        BY <4>1, SegmentsAre
      <4> QED
        BY <4>1, <4>2
    <3>3. CASE m + 1 = Total
      BY <3>2, <3>3
    <3>4. CASE m + 1 < Total
      BY <3>1, <3>2, <3>4
    <3> QED
      BY <2>2, <3>3, <3>4
  <2>6. SegmentOf(m) < VIDEO_SEGMENT /\ SegmentOf(m + 1) < 65536
    BY <2>2, <2>3, <2>4, <2>5
  <2>7. SectorAt(n) = m + 2
    <3>1. SectorAt(disk) < 256 * 2 * 18 - 1
      BY <2>2, <2>3
    <3> QED
      BY <1>2, <2>2, <3>1
  <2>8. s = SegmentOf(m + 1)
    <3>1. e = SegmentOf(m) + Words
      BY <1>e, <2>2 DEF Words
    <3>2. e = SegmentOf(m + 1) /\ e \in Nat /\ e < 65536
      BY <2>2, <2>4, <2>5, <2>6, <3>1
    <3>3. \A x \in Nat : x < 65536 => x % 65536 = x
      OBVIOUS
    <3> QED
      BY <1>s, <3>2, <3>3
  <2>9. disk'.left = disk.left - 1 /\ disk'.segment = s
    BY <1>2, <1>l
  <2>10. SectorAt(disk)' = SectorAt(n)
    <3>1. disk'.track = n.track /\ disk'.head = n.head /\ disk'.sector = n.sector
      BY <1>2
    <3> QED
      BY <3>1 DEF SectorAt
  <2>11. Total - disk'.left = m + 1 /\ disk'.left \in 0..Total
    BY <2>1, <2>2, <2>9
  <2>12. Arrived(m + 1)'
    <3>1. SegmentOf(m)' = SegmentOf(m) /\ \A i \in 0..(m - 1) : SegmentOf(i)' = SegmentOf(i)
      BY DEF SegmentOf, Words
    <3>2. memory' = [segment \in DOMAIN memory \cup {SegmentOf(m)} |->
                       IF segment = SegmentOf(m) THEN m + 1 ELSE memory[segment]]
      BY <2>2, <2>6 DEF SectorIsRead
    <3>3. SectorIn(SegmentOf(m))' = m + 1
      BY <3>1, <3>2 DEF SectorIn
    <3>4. ASSUME NEW i \in 0..(m - 1) PROVE SectorIn(SegmentOf(i))' = i + 1
      <4>1. SectorIn(SegmentOf(i)) = i + 1
        BY <2>2, <3>4 DEF Arrived
      <4>2. SegmentOf(i) # SegmentOf(m)
        <5>1. i \in Nat /\ i < m
          BY <2>2
        <5>2. SegmentOf(i) < SegmentOf(m) /\ SegmentOf(i) \in Nat
          BY <1>0, <2>4, <5>1, SegmentsAre
        <5> QED
          BY <2>4, <5>2
      <4>3. i + 1 # Lost
        BY DEF Lost
      <4>4. SegmentOf(i) \in DOMAIN memory /\ memory[SegmentOf(i)] = i + 1
        BY <4>1, <4>3 DEF SectorIn
      <4> QED
        BY <3>1, <3>2, <4>2, <4>4 DEF SectorIn
    <3>5. \A i \in 0..m : SectorIn(SegmentOf(i))' = i + 1
      <4>1. \A i \in 0..m : i \in 0..(m - 1) \/ i = m
        BY <2>2
      <4> QED
        BY <3>3, <3>4, <4>1
    <3>6. (m + 1) - 1 = m
      BY <2>2
    <3> QED
      BY <3>5, <3>6 DEF Arrived
  <2>13. disk'.segment = SegmentOf(Total - disk'.left)
    BY <2>8, <2>9, <2>11
  <2>14. SectorAt(disk)' = (Total - disk'.left) + 1
    BY <2>2, <2>7, <2>10, <2>11
  <2>15. Arrived(Total - disk.left)'
    <3>1. Total' = Total
      BY DEF Total
    <3> QED
      BY <2>11, <2>12, <3>1 DEF Arrived
  <2> QED
    BY <2>11, <2>13, <2>14, <2>15
<1>4. LoaderInv'
  <2>1. Total' = Total /\ (Fits(machine)' <=> Fits(machine))
        /\ SegmentOf(Total - disk.left)' = SegmentOf(Total - disk'.left)
    BY DEF Total, Fits, SegmentOf, Words
  <2>2. pc'[0] = "read" /\ machine' \in Machines
    BY <1>0
  <2> QED
    BY <1>2, <1>3, <2>1, <2>2 DEF LoaderInv
<1> QED
  BY <1>1, <1>4 DEF KInv

LEMMA LoaderStepK == ASSUME IInv, KInv, LoaderNext, UNCHANGED <<kernel32Vars, later>> PROVE KInv'
<1>0. pc \in [Cores -> Labels] /\ 0 \in Cores /\ disk \in DiskRecord /\ machine \in Machines
      /\ UNCHANGED <<core, kernel32Vars>>
  BY CoresAre DEF IInv, TypeInv, KInv, LoaderInv, later
<1>1. \A n : SegmentOf(n)' = SegmentOf(n)
  BY DEF SegmentOf, Words
<1>2. CASE HandleDiskError /\ pc[0] \in {"reset", "read"}
  <2>1. UNCHANGED <<machine, disk, memory>> /\ pc' = [pc EXCEPT ![0] = "halt"]
    BY <1>2 DEF HandleDiskError, Goto, loaderVars
  <2>2. KernelInv' /\ ModeSwitchInv' /\ QuietInv'
    BY <1>0, <1>2, <2>1, LoaderKeeps
  <2>3. LoaderInv'
    BY <1>0, <2>1 DEF LoaderInv, Early
  <2> QED
    BY <2>2, <2>3 DEF KInv
<1>3. CASE ResetDisk /\ ~HandleDiskError
  <2>1. /\ UNCHANGED <<machine, memory>> /\ pc[0] = "reset" /\ pc' = [pc EXCEPT ![0] = "read"]
        /\ disk' = [disk EXCEPT !.left = WriteKernelInformation(machine).total,
                                !.segment = LOAD_SEGMENT]
    BY <1>3 DEF ResetDisk, Goto
  <2>2. KernelInv' /\ ModeSwitchInv' /\ QuietInv'
    BY <1>0, <2>1, LoaderKeeps
  <2> PICK n : n = WriteKernelInformation(machine).total
    OBVIOUS
  <2>3. n \in Nat /\ LOAD_SEGMENT \in Nat /\ Total \in Nat
    <3>1. n = Total % 65536 /\ Total \in Nat
      BY <1>0, CountsAre DEF WriteKernelInformation, Total
    <3> QED
      BY <3>1, LayoutAssumption
  <2>4. disk.track = 0 /\ disk.head = 0 /\ disk.sector = 2
    BY <2>1 DEF KInv, LoaderInv
  <2>5. disk' = [left |-> n, segment |-> LOAD_SEGMENT, track |-> 0, head |-> 0, sector |-> 2]
    BY <1>0, <2>1, <2>4 DEF DiskRecord
  <2>6. disk' \in DiskRecord
    BY <2>3, <2>5, TracksAre DEF DiskRecord
  <2>7. ASSUME Fits(machine) PROVE n = Total
    BY <1>0, <2>7, FitsMeans
  <2>8. SegmentOf(0) = LOAD_SEGMENT
    BY <1>0, CountsAre, LayoutAssumption DEF SegmentOf
  <2>9. SectorAt(disk)' = 1
    BY <2>5 DEF SectorAt
  <2>10. Arrived(0)'
    BY DEF Arrived
  <2>11. Total' = Total /\ (Fits(machine)' <=> Fits(machine))
    BY <2>1 DEF Total, Fits
  <2>12. pc'[0] = "read" /\ machine' \in Machines
    BY <1>0, <2>1
  <2>13. disk'.left = n /\ disk'.segment = LOAD_SEGMENT
    BY <2>5
  <2>14. ASSUME Fits(machine)'
         PROVE  /\ disk'.left \in 0..Total'
                /\ disk'.segment = SegmentOf(Total - disk.left)'
                /\ SectorAt(disk)' = (Total' - disk'.left) + 1
                /\ Arrived(Total - disk.left)'
    <3>1. n = Total /\ Total - n = 0 /\ Total' = n
      BY <2>3, <2>7, <2>11, <2>14
    <3>2. Total' - disk'.left = 0
      BY <2>3, <2>13, <3>1
    <3>3. disk'.segment = SegmentOf(Total - disk.left)'
      <4>1. SegmentOf(Total - disk.left)' = LOAD_SEGMENT + (Total' - disk'.left) * Words
        BY DEF SegmentOf, Words
      <4>2. SegmentOf(0) = LOAD_SEGMENT + 0 * Words
        BY DEF SegmentOf
      <4> QED
        BY <2>8, <2>13, <3>2, <4>1, <4>2
    <3>4. Arrived(Total - disk.left)'
      BY <2>10, <3>2 DEF Arrived
    <3> QED
      BY <2>3, <2>9, <2>11, <2>13, <3>1, <3>2, <3>3, <3>4
  <2>15. LoaderInv'
    BY <2>6, <2>12, <2>14 DEF LoaderInv
  <2> QED
    BY <2>2, <2>15 DEF KInv
<1>4. CASE ReadData /\ ~HandleDiskError
  BY <1>0, <1>4, ReadDataK DEF ReadData, SectorIsRead
<1>5. CASE ReadEnd
  <2>1. UNCHANGED <<machine, disk, memory>> /\ pc' = [pc EXCEPT ![0] = "entry16"]
        /\ pc[0] = "read" /\ disk.left = 0
    BY <1>5 DEF ReadEnd, Goto, loaderVars
  <2>2. KernelInv' /\ ModeSwitchInv' /\ QuietInv'
    BY <1>0, <2>1, LoaderKeeps
  <2>3. Total' = Total /\ (Fits(machine)' <=> Fits(machine)) /\ Total \in Nat
    BY <1>0, <2>1, CountsAre DEF Total, Fits
  <2>4. ASSUME Fits(machine) PROVE Arrived(Total)'
    <3>1. Total - disk.left = Total
      BY <2>1, <2>3
    <3>2. Arrived(Total)
      BY <2>1, <2>4, <3>1 DEF KInv, LoaderInv
    <3>3. \A n \in Nat : Arrived(n) => \A i \in 0..(n - 1) : SectorIn(SegmentOf(i))' = i + 1
      BY <1>1, <2>1 DEF Arrived, SectorIn, SegmentOf, Words
    <3> QED
      BY <2>3, <3>2, <3>3 DEF Arrived
  <2>5. pc'[0] = "entry16"
    BY <1>0, <2>1
  <2>6. LoaderInv'
    BY <1>0, <2>1, <2>3, <2>4, <2>5 DEF LoaderInv
  <2> QED
    BY <2>2, <2>6 DEF KInv
<1> QED
  BY <1>2, <1>3, <1>4, <1>5 DEF LoaderNext, ResetDisk, ReadData

(***************************************************************************)
(* The 32-bit kernel                                                       *)
(***************************************************************************)
\* Labels of the 32-bit kernel; those where a core is in protected mode without
\* paging.
In32 == {"entry16", "main32", "memory", "area", "tables", "cpuid", "copy", "switch"}
Protected == In32 \ {"entry16"}

\* A step of the 32-bit kernel keeps what is the loader's.
LEMMA Kernel32Keeps ==
    ASSUME IInv, KInv, UNCHANGED <<loaderVars, core>>, NEW c \in Cores, NEW label,
           pc[c] \in In32, pc' = [pc EXCEPT ![c] = label], label \notin {"reset", "read"}
    PROVE  LoaderInv' /\ QuietInv'
<1>0. pc \in [Cores -> Labels] /\ 0 \in Cores /\ machine \in Machines
  BY CoresAre DEF IInv, TypeInv, KInv, LoaderInv
<1>1. pc'[c] = label /\ \A d \in Cores \ {c} : pc'[d] = pc[d]
  BY <1>0
<1>2. pc[c] \in Early \ {"reset", "read"}
  BY DEF Early, In32
<1>3. UNCHANGED <<machine, disk, memory>>
  BY DEF loaderVars
<1>4. Total' = Total /\ Total \in Nat /\ (Fits(machine)' <=> Fits(machine))
      /\ SectorAt(disk)' = SectorAt(disk) /\ \A n : SegmentOf(n)' = SegmentOf(n)
  BY <1>0, <1>3, CountsAre DEF Total, Fits, SectorAt, SegmentOf, Words
<1>5. \A n : Arrived(n)' <=> Arrived(n)
  BY <1>3 DEF Arrived, SectorIn, SegmentOf, Words
<1>6. LoaderInv'
  <2>1. CASE c = 0
    <3>1. pc'[0] \notin {"reset", "read"} /\ (Fits(machine) => Arrived(Total))
      BY <1>1, <1>2, <2>1 DEF KInv, LoaderInv
    <3>2. Arrived(Total)' <=> Arrived(Total)
      BY <1>3 DEF Arrived, SectorIn, SegmentOf, Words, Total
    <3> QED
      BY <1>3, <1>4, <3>1, <3>2 DEF KInv, LoaderInv
  <2>2. CASE c # 0
    <3>1. pc'[0] = pc[0]
      BY <1>0, <1>1, <2>2
    <3>2. (Arrived(Total)' <=> Arrived(Total))
          /\ (Arrived(Total - disk.left)' <=> Arrived(Total - disk.left))
          /\ SegmentOf(Total - disk.left)' = SegmentOf(Total - disk.left)
      BY <1>3 DEF Arrived, SectorIn, SegmentOf, Words, Total
    <3> QED
      BY <1>3, <1>4, <3>1, <3>2 DEF KInv, LoaderInv
  <2> QED
    BY <2>1, <2>2
<1>7. QuietInv'
  <2>1. pc'[0] \in Early => pc[0] \in Early
    BY <1>0, <1>1, <1>2
  <2> QED
    BY <2>1 DEF KInv, QuietInv
<1> QED
  BY <1>6, <1>7

\* A core in protected mode stays there, or halts.
LEMMA StaysProtected ==
    ASSUME IInv, KInv, UNCHANGED cr0, NEW c \in Cores, NEW label \in Protected \cup {"halt"},
           pc[c] \in Protected, pc' = [pc EXCEPT ![c] = label]
    PROVE  ModeSwitchInv'
<1>0. pc \in [Cores -> Labels]
  BY DEF IInv, TypeInv
<1>1. pc'[c] = label /\ \A d \in Cores \ {c} : pc'[d] = pc[d]
  BY <1>0
<1>2. cr0[c] = ProtectedMode /\ pc'[c] \notin {"entry64"}
  BY <1>1 DEF KInv, ModeSwitchInv, Protected, In32, Early
<1> QED
  BY <1>1, <1>2 DEF KInv, ModeSwitchInv

\* What another core does keeps what the bootstrap processor has prepared.
LEMMA KernelKeeps ==
    ASSUME KInv, UNCHANGED <<machine, mbyte, tables, kernel64>>,
           \/ pc'[0] = pc[0]
           \/ pc'[0] \notin {"tables", "cpuid", "copy", "switch", "entry64"}
    PROVE  KernelInv'
BY DEF KInv, KernelInv, Fits

LEMMA SharedStepK ==
    ASSUME IInv, KInv, NEW c \in Cores, SharedKernel32Next(c), UNCHANGED later
    PROVE  KInv'
<1>0. pc \in [Cores -> Labels] /\ 0 \in Cores /\ UNCHANGED <<core, loaderVars>>
      /\ UNCHANGED <<machine, mbyte, tables, kernel64>>
  BY CoresAre DEF IInv, TypeInv, later, SharedKernel32Next, EntryPoint, Main,
     kSwitchAndExecute64bitKernel, kernel32Vars, loaderVars
<1>1. CASE EntryPoint(c)
  <2>1. pc[c] = "entry16" /\ pc' = [pc EXCEPT ![c] = "main32"]
        /\ cr0' = [cr0 EXCEPT ![c] = ProtectedMode]
    BY <1>1 DEF EntryPoint, Goto
  <2>2. pc'[c] = "main32" /\ \A d \in Cores \ {c} : pc'[d] = pc[d]
    BY <1>0, <2>1
  <2>3. LoaderInv' /\ QuietInv'
    BY <1>0, <2>1, Kernel32Keeps DEF In32
  <2>4. KernelInv'
    BY <1>0, <2>2, KernelKeeps
  <2>5. ModeSwitchInv'
    <3>1. cr0 \in [Cores -> SUBSET ModeBits] /\ ProtectedMode \in SUBSET ModeBits
      BY DEF KInv, ModeSwitchInv, ModeBits, ProtectedMode
    <3>2. cr0' \in [Cores -> SUBSET ModeBits] /\ cr0'[c] = ProtectedMode
          /\ \A d \in Cores \ {c} : cr0'[d] = cr0[d]
      BY <2>1, <3>1
    <3> QED
      BY <2>2, <3>2 DEF KInv, ModeSwitchInv
  <2> QED
    BY <2>3, <2>4, <2>5 DEF KInv
<1>2. CASE Main(c)
  <2>0. pc' = [pc EXCEPT ![c] = IF flag = 0 THEN "switch" ELSE "memory"]
    BY <1>2 DEF Main, Goto
  <2>1. PICK label \in {"switch", "memory"} : pc' = [pc EXCEPT ![c] = label]
                                              /\ (flag = 1 => label = "memory")
    <3>1. CASE flag = 0
      BY <2>0, <3>1
    <3>2. CASE flag # 0
      BY <2>0, <3>2
    <3> QED
      BY <3>1, <3>2
  <2>2. pc[c] = "main32" /\ UNCHANGED cr0
    BY <1>2 DEF Main, kernel32Vars
  <2>3. LoaderInv' /\ QuietInv'
    BY <1>0, <2>1, <2>2, Kernel32Keeps DEF In32
  <2>4. c = 0 => label = "memory"
    <3>1. SUFFICES ASSUME c = 0 PROVE flag = 1
      BY <2>1
    <3>2. pc[0] \in Early /\ pc[0] \notin Handler
      BY <2>2, <3>1 DEF Early, Handler
    <3>3. Where(0) \in Early
      BY <1>0, <3>2, AtLabel
    <3> QED
      BY <3>3 DEF IInv, StackInv
  <2>5. KernelInv'
    <3>1. c = 0 => pc'[0] = "memory"
      BY <1>0, <2>1, <2>4
    <3>2. c # 0 => pc'[0] = pc[0]
      BY <1>0, <2>1
    <3> QED
      BY <1>0, <3>1, <3>2, KernelKeeps
  <2>6. ModeSwitchInv'
    BY <2>1, <2>2, StaysProtected DEF Protected, In32
  <2> QED
    BY <2>3, <2>5, <2>6 DEF KInv
<1>3. CASE kSwitchAndExecute64bitKernel(c)
  <2>1. PICK label \in {"halt", "entry64"} : pc' = [pc EXCEPT ![c] = label]
    BY <1>3 DEF kSwitchAndExecute64bitKernel, Goto
  <2>2. pc[c] = "switch"
        /\ cr0' = [cr0 EXCEPT ![c] = Toggle(cr0[c] \cup {"PG", "CD", "NW", "TS", "EM", "MP"},
                                            {"NW", "CD", "EM"})]
    BY <1>3 DEF kSwitchAndExecute64bitKernel
  <2>3. pc'[c] = label /\ \A d \in Cores \ {c} : pc'[d] = pc[d]
    BY <1>0, <2>1
  <2>4. LoaderInv' /\ QuietInv'
    <3>1. pc[c] \in In32 /\ label \notin {"reset", "read"}
      BY <2>2 DEF In32
    <3> QED
      BY <1>0, <2>1, <3>1, Kernel32Keeps
  <2>5. KernelInv'
    <3>1. CASE c = 0
      <4>1. pc[0] = "switch" /\ pc'[0] \in {"halt", "entry64"}
        BY <2>2, <2>3, <3>1
      <4> QED
        BY <1>0, <4>1 DEF KInv, KernelInv, Fits
    <3>2. CASE c # 0
      BY <1>0, <2>3, <3>2, KernelKeeps
    <3> QED
      BY <3>1, <3>2
  <2>6. ModeSwitchInv'
    <3>1. cr0 \in [Cores -> SUBSET ModeBits] /\ cr0[c] = ProtectedMode
      BY <2>2 DEF KInv, ModeSwitchInv, Early
    <3>2. Toggle(ProtectedMode \cup {"PG", "CD", "NW", "TS", "EM", "MP"}, {"NW", "CD", "EM"})
            = LongMode
      BY DEF Toggle, ProtectedMode, LongMode
    <3>3. LongMode \in SUBSET ModeBits
      BY DEF LongMode, ModeBits
    <3>4. cr0' = [cr0 EXCEPT ![c] = LongMode]
      BY <2>2, <3>1, <3>2
    <3>5. cr0' \in [Cores -> SUBSET ModeBits] /\ cr0'[c] = LongMode
          /\ \A d \in Cores \ {c} : cr0'[d] = cr0[d]
      BY <3>1, <3>3, <3>4
    <3>6. pc'[c] \in {"halt", "entry64"}
      BY <2>3
    <3>7. pc'[c] \notin Early \ {"entry64"}
      BY <3>6 DEF Early
    <3> QED
      BY <2>3, <3>5, <3>7 DEF KInv, ModeSwitchInv
  <2> QED
    BY <2>4, <2>5, <2>6 DEF KInv
<1> QED
  BY <1>1, <1>2, <1>3 DEF SharedKernel32Next

\* The bootstrap processor's own steps of the 32-bit kernel.
LEMMA OwnStepK ==
    ASSUME IInv, KInv, NEW label \in (Protected \ {"main32"}) \cup {"halt"},
           UNCHANGED <<loaderVars, core, cr0>>,
           pc[0] \in Protected, pc' = [pc EXCEPT ![0] = label], KernelInv'
    PROVE  KInv'
<1>1. 0 \in Cores /\ pc[0] \in In32 /\ label \notin {"reset", "read"}
  BY CoresAre DEF Protected, In32
<1>2. LoaderInv' /\ QuietInv'
  BY <1>1, Kernel32Keeps
<1>3. ModeSwitchInv'
  BY <1>1, StaysProtected
<1> QED
  BY <1>2, <1>3 DEF KInv

LEMMA BootstrapStepK ==
    ASSUME IInv, KInv, BootstrapKernel32Next, UNCHANGED later
    PROVE  KInv'
<1>0. pc \in [Cores -> Labels] /\ 0 \in Cores /\ UNCHANGED <<core, loaderVars, cr0>>
      /\ machine' = machine
  BY CoresAre DEF IInv, TypeInv, later, BootstrapKernel32Next, kIsMemoryEnough,
     kInitializeKernel64Area, kInitializePageTables, kReadCPUID, kCopyKernel64ImageTo2Mbyte,
     kernel32Vars, loaderVars
<1>1. DOMAIN mbyte = 1..(MINIMUM_MB - 1) /\ MINIMUM_MB \in Nat /\ MINIMUM_MB >= 6
  BY PagingAssumption DEF KInv, KernelInv
<1>2. CASE kIsMemoryEnough
  <2>1. PICK label \in {"halt", "area"} : pc' = [pc EXCEPT ![0] = label]
    BY <1>2 DEF kIsMemoryEnough, Goto
  <2>2. pc[0] = "memory" /\ UNCHANGED <<tables, kernel64>> /\ DOMAIN mbyte' = DOMAIN mbyte
    BY <1>2 DEF kIsMemoryEnough
  <2>3. pc'[0] = label
    BY <1>0, <2>1
  <2>4. KernelInv'
    BY <1>1, <2>2, <2>3 DEF KernelInv
  <2> QED
    BY <1>0, <2>1, <2>2, <2>4, OwnStepK DEF Protected, In32
<1>3. CASE kInitializeKernel64Area
  <2>1. PICK failing : failing = {mb \in 1..5 : ~Keeps(mb, "zero")}
    OBVIOUS
  <2>2. /\ pc[0] = "area" /\ UNCHANGED <<kernel64>>
        /\ mbyte' = [mb \in DOMAIN mbyte |->
                       IF mb > 5 \/ \E bad \in failing : bad <= mb THEN mbyte[mb] ELSE "zero"]
        /\ pc' = [pc EXCEPT ![0] = IF failing = {} THEN "tables" ELSE "halt"]
    BY <1>3, <2>1 DEF kInitializeKernel64Area, Goto
  <2>3. PICK label \in {"halt", "tables"} :
          pc' = [pc EXCEPT ![0] = label] /\ (label = "tables" => failing = {})
    BY <2>2
  <2>4. pc'[0] = label
    BY <1>0, <2>3
  <2>5. DOMAIN mbyte' = DOMAIN mbyte
    BY <2>2
  <2>6. label = "tables" => \A mb \in 1..5 : mbyte'[mb] = "zero"
    <3>1. \A mb \in 1..5 : mb \in DOMAIN mbyte /\ ~(mb > 5)
      BY <1>1
    <3> QED
      BY <2>2, <2>3, <3>1
  <2>7. KernelInv'
    BY <1>1, <2>4, <2>5, <2>6 DEF KernelInv
  <2> QED
    BY <1>0, <2>2, <2>3, <2>7, OwnStepK DEF Protected, In32
<1>4. CASE kInitializePageTables
  <2>1. /\ pc[0] = "tables" /\ UNCHANGED <<mbyte, kernel64>> /\ tables' = PageTables
        /\ pc' = [pc EXCEPT ![0] = "cpuid"]
    BY <1>4 DEF kInitializePageTables, Goto
  <2>2. pc'[0] = "cpuid"
    BY <1>0, <2>1
  <2>3. KernelInv'
    BY <1>1, <2>1, <2>2 DEF KInv, KernelInv
  <2> QED
    BY <1>0, <2>1, <2>3, OwnStepK DEF Protected, In32
<1>5. CASE kReadCPUID
  <2>1. PICK label \in {"halt", "copy"} : pc' = [pc EXCEPT ![0] = label]
    BY <1>5 DEF kReadCPUID, Goto
  <2>2. pc[0] = "cpuid" /\ UNCHANGED <<mbyte, tables, kernel64>>
    BY <1>5 DEF kReadCPUID, kernel32Vars
  <2>3. pc'[0] = label
    BY <1>0, <2>1
  <2>4. KernelInv'
    BY <1>1, <2>2, <2>3 DEF KInv, KernelInv
  <2> QED
    BY <1>0, <2>1, <2>2, <2>4, OwnStepK DEF Protected, In32
<1>6. CASE kCopyKernel64ImageTo2Mbyte
  <2>1. /\ pc[0] = "copy" /\ UNCHANGED <<mbyte, tables>> /\ pc' = [pc EXCEPT ![0] = "switch"]
    BY <1>6 DEF kCopyKernel64ImageTo2Mbyte, Goto
  <2>2. pc'[0] = "switch"
    BY <1>0, <2>1
  <2>3. ASSUME Fits(machine), NEW i \in 1..SectorCount(machine.kernel64)
        PROVE  kernel64'[i] = SectorCount(machine.kernel32) + i
    <3>1. PICK n32 : n32 = SectorCount(machine.kernel32)
      OBVIOUS
    <3>2. PICK n64 : n64 = SectorCount(machine.kernel64)
      OBVIOUS
    <3>3. n32 \in Nat /\ n64 \in Nat /\ Total = n32 + n64 /\ Words \in Nat \ {0} /\ i \in 1..n64
          /\ machine \in Machines /\ LOAD_SEGMENT \in Nat
      BY <2>3, <3>1, <3>2, CountsAre, LayoutAssumption DEF KInv, LoaderInv, Total
    <3>4. PICK info : info = WriteKernelInformation(machine)
      OBVIOUS
    <3>5. info.total - info.kernel32 = n64 /\ info.kernel32 = n32
      BY <2>3, <3>1, <3>3, <3>4, FitsMeans
    <3>6. kernel64' = [j \in 1..(info.total - info.kernel32) |->
                         SectorIn(LOAD_SEGMENT + info.kernel32 * Words + (j - 1) * Words)]
      BY <1>6, <3>4 DEF kCopyKernel64ImageTo2Mbyte, Words
    <3>7. kernel64'[i] = SectorIn(LOAD_SEGMENT + n32 * Words + (i - 1) * Words)
      BY <3>3, <3>5, <3>6
    <3>8. LOAD_SEGMENT + n32 * Words + (i - 1) * Words = SegmentOf(n32 + i - 1)
      <4>1. PICK w : w = Words
        OBVIOUS
      <4>2. \A x, y \in Nat : x * w + y * w = (x + y) * w /\ x * w \in Nat /\ y * w \in Nat
        BY <3>3, <4>1
      <4>3. i - 1 \in Nat /\ n32 + (i - 1) = n32 + i - 1
        BY <3>3
      <4>4. n32 * w + (i - 1) * w = (n32 + (i - 1)) * w /\ n32 * w \in Nat /\ (i - 1) * w \in Nat
        BY <3>3, <4>2, <4>3
      <4>5. PICK a : a = n32 * w
        OBVIOUS
      <4>6. PICK b : b = (i - 1) * w
        OBVIOUS
      <4>7. LOAD_SEGMENT + a + b = LOAD_SEGMENT + (a + b)
        BY <3>3, <4>4, <4>5, <4>6
      <4>8. a + b = (n32 + i - 1) * w
        BY <4>3, <4>4, <4>5, <4>6
      <4> QED
        BY <4>1, <4>5, <4>6, <4>7, <4>8 DEF SegmentOf
    <3>9. SectorIn(SegmentOf(n32 + i - 1)) = n32 + i - 1 + 1
      <4>1. Arrived(Total)
        BY <2>1, <2>3 DEF KInv, LoaderInv, Early
      <4>2. n32 + i - 1 \in 0..(Total - 1)
        BY <3>3
      <4> QED
        BY <4>1, <4>2 DEF Arrived
    <3> QED
      BY <3>1, <3>3, <3>7, <3>8, <3>9
  <2>4. KernelInv'
    BY <1>0, <1>1, <2>1, <2>2, <2>3 DEF KInv, KernelInv, Fits
  <2> QED
    BY <1>0, <2>1, <2>4, OwnStepK DEF Protected, In32
<1> QED
  BY <1>2, <1>3, <1>4, <1>5, <1>6 DEF BootstrapKernel32Next

(***************************************************************************)
(* What happens later                                                      *)
(***************************************************************************)
\* A step of the 64-bit kernel or of a handler, in which no core comes to the
\* 32-bit kernel but one that is started there.
LEMMA LaterK ==
    ASSUME IInv, KInv, UNCHANGED <<machine, disk, memory, kernel32Vars>>, QuietInv',
           \A c \in Cores : pc'[c] \in Early => pc'[c] = pc[c] \/ (c # 0 /\ pc'[c] = "entry16")
    PROVE  KInv'
<1>0. 0 \in Cores
  BY CoresAre
<1>1. pc'[0] = pc[0] \/ pc'[0] \notin Early
  BY <1>0
<1>2. LoaderInv'
  <2>1. (Fits(machine)' <=> Fits(machine)) /\ SectorAt(disk)' = SectorAt(disk)
        /\ (Arrived(Total)' <=> Arrived(Total)) /\ Total' = Total
        /\ (Arrived(Total - disk.left)' <=> Arrived(Total - disk.left))
        /\ SegmentOf(Total - disk.left)' = SegmentOf(Total - disk.left)
    BY DEF Fits, SectorAt, Arrived, SectorIn, SegmentOf, Words, Total
  <2>2. {"reset", "read"} \subseteq Early
    BY DEF Early
  <2> QED
    BY <1>1, <2>1, <2>2 DEF KInv, LoaderInv
<1>3. KernelInv'
  <2>1. {"tables", "cpuid", "copy", "switch", "entry64"} \subseteq Early
    BY DEF Early
  <2> QED
    BY <1>1, <2>1, KernelKeeps DEF kernel32Vars
<1>4. ModeSwitchInv'
  <2>1. "entry64" \in Early
    BY DEF Early
  <2> QED
    BY <2>1 DEF KInv, ModeSwitchInv, kernel32Vars
<1> QED
  BY <1>2, <1>3, <1>4 DEF KInv

\* The bootstrap processor, once it is in the 64-bit kernel, is where it handles
\* no interrupt.
LEMMA MainK == ASSUME IInv, KInv, BootstrapProcessor PROVE KInv'
<1>0. 0 \in Cores /\ pc \in [Cores -> Labels]
  BY CoresAre DEF IInv, TypeInv
<1>1. UNCHANGED <<machine, disk, memory, kernel32Vars>>
  BY DEF BootstrapProcessor, Main_64, Devices, StartUp, kEnableSoftwareLocalAPIC, SendInit,
     CheckPending, SendStartUp, RestoreAfterWakeUp, AwaitProcessors, MaskPIC,
     kSetSymmetricIOMode, InitializeIOAPIC, RestoreAfterChange, StartBalancing, earlier,
     loaderVars
<1>2. /\ pc'[0] \notin Early \cup Handler
      /\ \A c \in Cores \ {0} : pc'[c] = pc[c] \/ pc'[c] \in {"waiting", "entry16"}
  <2>1. CASE SendInit
    BY <1>0, <2>1 DEF SendInit, Early, Handler
  <2>2. CASE SendStartUp("send1", "sent1") \/ SendStartUp("send2", "sent2")
    BY <1>0, <2>2 DEF SendStartUp, Early, Handler
  <2>3. CASE ~SendInit /\ ~(SendStartUp("send1", "sent1") \/ SendStartUp("send2", "sent2"))
    <3>1. PICK label \in {"devices", "halt", "analysis", "apic", "idle", "wakeup", "send1",
                          "send2", "restore", "wait", "sleep", "change", "mode", "table",
                          "enable", "balance"} : pc' = [pc EXCEPT ![0] = label]
      BY <2>3 DEF BootstrapProcessor, Main_64, Devices, StartUp, kEnableSoftwareLocalAPIC,
         CheckPending, RestoreAfterWakeUp, AwaitProcessors, MaskPIC, kSetSymmetricIOMode,
         InitializeIOAPIC, RestoreAfterChange, StartBalancing, Step, Goto
    <3>2. pc'[0] = label /\ \A c \in Cores \ {0} : pc'[c] = pc[c]
      BY <1>0, <3>1
    <3> QED
      BY <3>2 DEF Early, Handler
  <2> QED
    BY <2>1, <2>2, <2>3
<1>3. QuietInv'
  <2>1. IInv'
    BY BootstrapStep
  <2>2. core'[0].vector = None
    BY <1>0, <1>2, <2>1 DEF IInv, HandlerInv
  <2> QED
    BY <1>2, <2>2 DEF QuietInv
<1>4. \A c \in Cores : pc'[c] \in Early => pc'[c] = pc[c] \/ (c # 0 /\ pc'[c] = "entry16")
  BY <1>2 DEF Early
<1> QED
  BY <1>1, <1>3, <1>4, LaterK

LEMMA ApplicationK == ASSUME IInv, KInv, NEW c \in Cores, ApplicationProcessor(c) PROVE KInv'
<1>0. 0 \in Cores /\ pc \in [Cores -> Labels] /\ core \in [Cores -> CoreRecord]
  BY CoresAre DEF IInv, TypeInv
<1>1. UNCHANGED <<machine, disk, memory, kernel32Vars>>
  BY DEF ApplicationProcessor, MoveStack, CountAwake, LoadTables, kInitializeScheduler,
     EnableAPIC, kEnableInterrupt, earlier, loaderVars
<1>2. PICK label \in Application \cup {"idle"} : pc' = [pc EXCEPT ![c] = label]
  BY DEF ApplicationProcessor, MoveStack, CountAwake, LoadTables, kInitializeScheduler,
     EnableAPIC, kEnableInterrupt, Step, Goto, Application
<1>3. label \notin Early
  BY DEF Application, Early
<1>4. c # 0
  <2>1. CASE pc[c] \in Application
    BY <2>1, AtApplication
  <2>2. CASE pc[c] \notin Application
    <3>1. pc[c] = "entry64" /\ flag # 1
      BY <2>2 DEF ApplicationProcessor, MoveStack, CountAwake, LoadTables, kInitializeScheduler,
         EnableAPIC, kEnableInterrupt, Step, At, Application
    <3>2. pc[c] \notin Handler /\ pc[c] \in Early
      BY <3>1 DEF Handler, Early
    <3> QED
      BY <3>1, <3>2, AtLabel DEF IInv, StackInv
  <2> QED
    BY <2>1, <2>2
<1>5. pc'[0] = pc[0]
  BY <1>0, <1>2, <1>4
<1>6. core'[0].flag = core[0].flag /\ core'[0].vector = core[0].vector
      /\ core'[0].back = core[0].back
  <2>1. PICK i : i = APICID(c)
    OBVIOUS
  <2>2. core'[0] = core[0] \/ core' = [core EXCEPT ![i].scheduler = TRUE]
    BY <1>0, <1>4, <2>1 DEF ApplicationProcessor, MoveStack, CountAwake, LoadTables,
       kInitializeScheduler, EnableAPIC, kEnableInterrupt
  <2> QED
    BY <1>0, <2>2 DEF CoreRecord
<1>7. QuietInv'
  BY <1>5, <1>6 DEF KInv, QuietInv
<1>8. \A d \in Cores : pc'[d] \in Early => pc'[d] = pc[d]
  BY <1>0, <1>2, <1>3
<1> QED
  BY <1>1, <1>7, <1>8, LaterK

\* An interrupt comes when the flag is set, so not on the way, and the core
\* remembers where it was.
LEMMA EnterK ==
    ASSUME IInv, KInv, NEW c \in Cores,
           TakeRequest(c) \/ (c = 0 /\ \E irq \in {0, 1} : PICInterrupt(irq))
    PROVE  KInv'
<1>0. 0 \in Cores /\ pc \in [Cores -> Labels] /\ core \in [Cores -> CoreRecord]
  BY CoresAre DEF IInv, TypeInv
<1>1. UNCHANGED <<machine, disk, memory, kernel32Vars>> /\ core[c].flag
      /\ pc' = [pc EXCEPT ![c] = "eoi"]
  BY DEF TakeRequest, PICInterrupt, Goto, earlier, loaderVars
<1>2. "eoi" \notin Early
  BY DEF Early
<1>3. QuietInv'
  <2>1. CASE c # 0
    <3>1. core'[0] = core[0] /\ pc'[0] = pc[0]
      BY <1>0, <1>1, <2>1 DEF TakeRequest
    <3> QED
      BY <3>1 DEF KInv, QuietInv
  <2>2. CASE c = 0
    <3>1. pc[0] \notin Early
      BY <1>1, <2>2 DEF KInv, QuietInv
    <3>2. core'[0].back = pc[0]
      <4>1. CASE TakeRequest(c)
        <5>1. PICK v \in core[0].requests :
                core' = [core EXCEPT ![0] = [Enter(0, v) EXCEPT !.requests = @ \ {v}, !.service = v]]
          BY <2>2, <4>1 DEF TakeRequest
        <5> QED
          BY <1>0, <5>1 DEF Enter, CoreRecord
      <4>2. CASE \E irq \in {0, 1} : PICInterrupt(irq)
        <5>1. PICK v : core' = [core EXCEPT ![0] = Enter(0, v)]
          BY <4>2 DEF PICInterrupt
        <5> QED
          BY <1>0, <5>1 DEF Enter, CoreRecord
      <4> QED
        BY <4>1, <4>2
    <3>3. pc'[0] = "eoi"
      BY <1>0, <1>1, <2>2
    <3> QED
      BY <1>2, <3>1, <3>2, <3>3 DEF QuietInv
  <2> QED
    BY <2>1, <2>2
<1>4. \A d \in Cores : pc'[d] \in Early => pc'[d] = pc[d]
  BY <1>0, <1>1, <1>2
<1> QED
  BY <1>1, <1>3, <1>4, LaterK

LEMMA HandlerK ==
    ASSUME IInv, RInv, KInv, NEW c \in Cores, HandlerStep(c)
    PROVE  KInv'
<1>0. 0 \in Cores /\ pc \in [Cores -> Labels] /\ core \in [Cores -> CoreRecord]
  BY CoresAre DEF IInv, TypeInv
<1>1. UNCHANGED <<machine, disk, memory, kernel32Vars>>
  BY DEF HandlerStep, kSendEOI, kIncreaseInterruptCount, kProcessLoadBalancing, Return, earlier,
     loaderVars
<1>2. CASE kSendEOI(c) \/ kIncreaseInterruptCount(c) \/ kProcessLoadBalancing(c)
  <2>1. PICK label \in {"counting", "return", "balancing"} : pc' = [pc EXCEPT ![c] = label]
    BY <1>2 DEF kSendEOI, kIncreaseInterruptCount, kProcessLoadBalancing, Step, Goto
  <2>2. label \notin Early
    BY DEF Early
  <2>3. core'[0].flag = core[0].flag /\ core'[0].back = core[0].back
        /\ core'[0].vector = core[0].vector
    <3>1. PICK i : i = IRQOf(core[c].vector)
      OBVIOUS
    <3>2. PICK b : b = APICID(c)
      OBVIOUS
    <3>3. \/ core' = core \/ core' = [core EXCEPT ![c].service = None]
          \/ core' = [core EXCEPT ![b].count[i] = @ + 1]
      BY <1>2, <3>1, <3>2 DEF kSendEOI, kIncreaseInterruptCount, kProcessLoadBalancing
    <3> QED
      BY <1>0, <3>3 DEF CoreRecord
  <2>4. pc'[0] \in Early => pc'[0] = pc[0]
    BY <1>0, <2>1, <2>2
  <2>5. QuietInv'
    BY <2>3, <2>4 DEF KInv, QuietInv
  <2>6. \A d \in Cores : pc'[d] \in Early => pc'[d] = pc[d]
    BY <1>0, <2>1, <2>2
  <2> QED
    BY <1>1, <2>5, <2>6, LaterK
<1>3. CASE Return(c)
  <2>1. pc' = [pc EXCEPT ![c] = core[c].back]
        /\ core' = [core EXCEPT ![c].flag = TRUE, ![c].vector = None]
    BY <1>3 DEF Return, Goto
  <2>2. pc[c] \in Handler
    BY <1>3 DEF Return, At, Handler
  <2>3. core[c].vector # None
    BY <2>2 DEF IInv, HandlerInv
  <2>4. core[c].back \notin Early
    <3>1. CASE c = 0
      BY <2>3, <3>1 DEF KInv, QuietInv
    <3>2. CASE c # 0
      <4>1. core[c].back = "idle"
        BY <2>3, <3>2 DEF RInv, AwakeInv, Where
      <4> QED
        BY <4>1 DEF Early
    <3> QED
      BY <3>1, <3>2
  <2>5. pc'[c] = core[c].back /\ core'[c].vector = None
        /\ \A d \in Cores \ {c} : pc'[d] = pc[d] /\ core'[d] = core[d]
    BY <1>0, <2>1 DEF CoreRecord
  <2>6. QuietInv'
    BY <1>0, <2>4, <2>5 DEF KInv, QuietInv
  <2>7. \A d \in Cores : pc'[d] \in Early => pc'[d] = pc[d]
    BY <2>4, <2>5
  <2> QED
    BY <1>1, <2>6, <2>7, LaterK
<1>4. CASE RouteStep(c) /\ UNCHANGED <<earlier, pc, core, pic, shared, interrupts>>
  <2>1. QuietInv'
    BY <1>4 DEF KInv, QuietInv
  <2> QED
    BY <1>1, <1>4, <2>1, LaterK
<1> QED
  BY <1>2, <1>3, <1>4 DEF HandlerStep

LEMMA RaisePinK ==
    ASSUME IInv, KInv, NEW base \in DOMAIN redirection, NEW pin \in 0..(PINS - 1),
           RaisePin(base, pin)
    PROVE  KInv'
<1>v. PICK v : v = redirection[base][pin].low.vector
  OBVIOUS
<1>1. UNCHANGED <<machine, disk, memory, kernel32Vars, pc>>
  BY DEF RaisePin, earlier, loaderVars
<1>2. core'[0] = core[0] \/ core'[0] = [core[0] EXCEPT !.requests = @ \cup {v}]
  BY <1>v, CoresAre DEF RaisePin
<1>3. core[0] \in CoreRecord
  BY CoresAre DEF IInv, TypeInv
<1>4. core'[0].flag = core[0].flag /\ core'[0].vector = core[0].vector
      /\ core'[0].back = core[0].back
  BY <1>2, <1>3 DEF CoreRecord
<1>5. QuietInv'
  BY <1>1, <1>4 DEF KInv, QuietInv
<1> QED
  BY <1>1, <1>5, LaterK

\* The third part of the invariant is inductive with the others.
LEMMA StepPreservesK == IInv /\ RInv /\ KInv /\ [Next]_vars => KInv'
<1> SUFFICES ASSUME IInv, RInv, KInv, [Next]_vars PROVE KInv'
  OBVIOUS
<1>1. CASE BootstrapNext
  BY <1>1, LoaderStepK, BootstrapStepK, MainK DEF BootstrapNext
<1>2. ASSUME NEW c \in Cores, CoreNext(c) PROVE KInv'
  BY <1>2, SharedStepK, ApplicationK, EnterK, HandlerK DEF CoreNext
<1>3. CASE Raise
  BY <1>3, EnterK, RaisePinK, CoresAre DEF Raise
<1>4. CASE UNCHANGED vars
  <2>1. UNCHANGED <<machine, disk, memory, kernel32Vars, pc, core>>
    BY <1>4 DEF vars, loaderVars
  <2>2. QuietInv'
    BY <2>1 DEF KInv, QuietInv
  <2> QED
    BY <2>1, <2>2, LaterK
<1> QED
  BY <1>1, <1>2, <1>3, <1>4 DEF Next

LEMMA KInvHolds == Spec => [](IInv /\ RInv /\ KInv)
<1>1. Init => IInv /\ RInv /\ KInv
  BY InitEstablishes, InitEstablishesR, InitEstablishesK
<1>2. IInv /\ RInv /\ KInv /\ [Next]_vars => (IInv /\ RInv /\ KInv)'
  BY StepPreserves, StepPreservesR, StepPreservesK
<1> QED
  BY <1>1, <1>2, PTL DEF Spec

(***************************************************************************)
(* The kernel is where it is linked to                                     *)
(***************************************************************************)
Bytes == {"boot", "kernel32", "kernel64", "zero"} \X Nat

LEMMA BytesAre ==
    /\ Zero \in Bytes
    /\ \A n \in Nat : <<"boot", n>> \in Bytes /\ <<"kernel32", n>> \in Bytes
                        /\ <<"kernel64", n>> \in Bytes
BY DEF Bytes, Zero

LEMMA PiecesAre ==
    ASSUME NEW file, NEW size \in Nat, \A n \in Nat : <<file, n>> \in Bytes
    PROVE  /\ CopyFile(file, size) \in Seq(Bytes) /\ Len(CopyFile(file, size)) = size
           /\ \A i \in 1..size : CopyFile(file, size)[i] = <<file, i - 1>>
           /\ Padding(size) \in Seq(Bytes) /\ Len(Padding(size)) = AdjustInSectorSize(size)
<1>1. \A i \in 1..size : i - 1 \in Nat
  OBVIOUS
<1>2. \A i \in 1..size : <<file, i - 1>> \in Bytes
  BY <1>1
<1>3. AdjustInSectorSize(size) \in Nat
  BY SectorCountIs
<1>4. CopyFile(file, size) \in [1..size -> Bytes]
  BY <1>2 DEF CopyFile
<1>5. Padding(size) \in [1..AdjustInSectorSize(size) -> Bytes]
  BY BytesAre DEF Padding
<1>6. \A i \in 1..size : CopyFile(file, size)[i] = <<file, i - 1>>
  BY DEF CopyFile
<1>7. \A n \in Nat : \A f \in [1..n -> Bytes] : f \in Seq(Bytes) /\ Len(f) = n
  OBVIOUS
<1>8. CopyFile(file, size) \in Seq(Bytes) /\ Len(CopyFile(file, size)) = size
  BY <1>4, <1>7
<1>9. Padding(size) \in Seq(Bytes) /\ Len(Padding(size)) = AdjustInSectorSize(size)
  BY <1>3, <1>5, <1>7
<1> QED
  BY <1>6, <1>8, <1>9

Joins(u, s, t) == u = s \o t

LEMMA Joined ==
    ASSUME NEW s \in Seq(Bytes), NEW t \in Seq(Bytes), NEW u, Joins(u, s, t),
           NEW m \in Nat, NEW n \in Nat, Len(s) = m, Len(t) = n
    PROVE  /\ u \in Seq(Bytes) /\ Len(u) = m + n
           /\ \A i \in 1..m : u[i] = s[i]
           /\ \A i \in 1..n : u[m + i] = t[i]
<1>1. /\ s \o t \in Seq(Bytes) /\ Len(s \o t) = Len(s) + Len(t)
      /\ \A i \in 1..Len(s) : (s \o t)[i] = s[i]
      /\ \A i \in 1..Len(t) : (s \o t)[Len(s) + i] = t[i]
  OBVIOUS
<1> QED
  BY <1>1 DEF Joins

\* What is joined to a sequence leaves the sequence as it is.
LEMMA JoinKeeps ==
    ASSUME NEW s \in Seq(Bytes), NEW t \in Seq(Bytes), NEW u, Joins(u, s, t),
           NEW m \in Nat, Len(s) = m
    PROVE  \A i \in 1..m : u[i] = s[i]
<1>1. PICK n : n = Len(t)
  OBVIOUS
<1>2. n \in Nat
  BY <1>1
<1> QED
  BY <1>1, <1>2, Joined

\* Behind the boot sector lie the bytes of the 32-bit kernel, and behind its
\* sectors those of the 64-bit kernel.
LEMMA ImageIs ==
    ASSUME machine \in Machines
    PROVE  /\ \A i \in 0..(machine.kernel32 - 1) :
                 DiskImage(machine)[BYTESOFSECTOR + i + 1] = <<"kernel32", i>>
           /\ \A i \in 0..(machine.kernel64 - 1) :
                 DiskImage(machine)[BYTESOFSECTOR
                   + SectorCount(machine.kernel32) * BYTESOFSECTOR + i + 1] = <<"kernel64", i>>
<1>w. PICK w : w = BYTESOFSECTOR
  OBVIOUS
<1>x. PICK x : x = machine.kernel32
  OBVIOUS
<1>y. PICK y : y = machine.kernel64
  OBVIOUS
<1>0. w \in Nat \ {0} /\ x \in Nat /\ y \in Nat /\ AdjustInSectorSize(w) = 0
      /\ AdjustInSectorSize(x) \in Nat /\ AdjustInSectorSize(y) \in Nat
      /\ SectorCount(x) * w = x + AdjustInSectorSize(x)
  BY <1>w, <1>x, <1>y, CountsAre, LayoutAssumption, SectorCountIs
<1>1. PICK p1 : p1 = CopyFile("boot", w)
  OBVIOUS
<1>2. PICK p2 : p2 = Padding(w)
  OBVIOUS
<1>3. PICK p3 : p3 = CopyFile("kernel32", x)
  OBVIOUS
<1>4. PICK p4 : p4 = Padding(x)
  OBVIOUS
<1>5. PICK p5 : p5 = CopyFile("kernel64", y)
  OBVIOUS
<1>6. PICK p6 : p6 = Padding(y)
  OBVIOUS
<1>7. DiskImage(machine) = ((((p1 \o p2) \o p3) \o p4) \o p5) \o p6
  BY <1>w, <1>x, <1>y, <1>1, <1>2, <1>3, <1>4, <1>5, <1>6 DEF DiskImage
<1>8. /\ p1 \in Seq(Bytes) /\ p2 \in Seq(Bytes) /\ Len(p1) = w /\ Len(p2) = 0
  BY <1>0, <1>1, <1>2, PiecesAre, BytesAre
<1>9. /\ p3 \in Seq(Bytes) /\ p4 \in Seq(Bytes) /\ Len(p3) = x /\ Len(p4) = AdjustInSectorSize(x)
      /\ \A i \in 1..x : p3[i] = <<"kernel32", i - 1>>
  BY <1>0, <1>3, <1>4, PiecesAre, BytesAre
<1>10. /\ p5 \in Seq(Bytes) /\ p6 \in Seq(Bytes) /\ Len(p5) = y
       /\ \A i \in 1..y : p5[i] = <<"kernel64", i - 1>>
  BY <1>0, <1>5, <1>6, PiecesAre, BytesAre
<1>11. PICK q2 : Joins(q2, p1, p2)
  BY DEF Joins
<1>12. q2 \in Seq(Bytes) /\ Len(q2) = w
  <2>1. q2 = p1 \o p2 /\ p1 \in Seq(Bytes) /\ p2 \in Seq(Bytes)
    BY <1>8, <1>11 DEF Joins
  <2>2. q2 \in Seq(Bytes) /\ Len(q2) = Len(p1) + Len(p2)
    BY <2>1
  <2> QED
    BY <1>0, <1>8, <2>2
<1>13. PICK q3 : Joins(q3, q2, p3)
  BY DEF Joins
<1>14. q3 \in Seq(Bytes) /\ Len(q3) = w + x /\ \A i \in 1..x : q3[w + i] = <<"kernel32", i - 1>>
  <2>1. q3 \in Seq(Bytes) /\ Len(q3) = w + x /\ \A i \in 1..x : q3[w + i] = p3[i]
    <3>1. p3 \in Seq(Bytes) /\ Len(p3) = x /\ q2 \in Seq(Bytes) /\ Len(q2) = w
          /\ w \in Nat /\ x \in Nat
      BY <1>0, <1>9, <1>12
    <3> QED
      BY <1>13, <3>1, Joined
  <2> QED
    BY <1>9, <2>1
<1>v. PICK v : v = w + x
  OBVIOUS
<1>k. PICK k : k = v + AdjustInSectorSize(x)
  OBVIOUS
<1>vk. v \in Nat /\ k \in Nat
  BY <1>0, <1>v, <1>k
<1>15. PICK q4 : Joins(q4, q3, p4)
  BY DEF Joins
<1>16. q4 \in Seq(Bytes) /\ Len(q4) = k /\ \A i \in 1..v : q4[i] = q3[i]
  <2>a. PICK a : a = AdjustInSectorSize(x)
    OBVIOUS
  <2>1. p4 \in Seq(Bytes) /\ Len(p4) = a /\ q3 \in Seq(Bytes) /\ Len(q3) = v
        /\ a \in Nat /\ v \in Nat
    BY <1>0, <1>9, <1>14, <1>v, <1>vk, <2>a
  <2>2. q4 \in Seq(Bytes) /\ Len(q4) = v + a /\ \A i \in 1..v : q4[i] = q3[i]
    BY <1>15, <2>1, Joined
  <2> QED
    BY <1>k, <2>a, <2>2
<1>17. PICK q5 : Joins(q5, q4, p5)
  BY DEF Joins
<1>18. /\ q5 \in Seq(Bytes) /\ Len(q5) = k + y
       /\ \A i \in 1..k : q5[i] = q4[i]
       /\ \A i \in 1..y : q5[k + i] = <<"kernel64", i - 1>>
  <2>1. /\ q5 \in Seq(Bytes) /\ Len(q5) = k + y
        /\ \A i \in 1..k : q5[i] = q4[i]
        /\ \A i \in 1..y : q5[k + i] = p5[i]
    <3>1. p5 \in Seq(Bytes) /\ Len(p5) = y /\ q4 \in Seq(Bytes) /\ Len(q4) = k
          /\ k \in Nat /\ y \in Nat
      BY <1>0, <1>10, <1>16, <1>vk
    <3> QED
      BY <1>17, <3>1, Joined
  <2> QED
    BY <1>10, <2>1
<1>19. PICK q6 : Joins(q6, q5, p6)
  BY DEF Joins
<1>20. \A i \in 1..(k + y) : q6[i] = q5[i]
  <2>1. /\ q5 \in Seq(Bytes) /\ Len(q5) = k + y /\ k + y \in Nat
        /\ p6 \in Seq(Bytes)
    BY <1>10, <1>18, <1>vk, <1>0
  <2> QED
    BY <1>19, <2>1, JoinKeeps
<1>21. DiskImage(machine) = q6
  BY <1>7, <1>11, <1>13, <1>15, <1>17, <1>19 DEF Joins
<1>22. ASSUME NEW i \in 0..(x - 1) PROVE q6[w + i + 1] = <<"kernel32", i>>
  <2>1. i + 1 \in 1..x /\ w + (i + 1) = w + i + 1 /\ (i + 1) - 1 = i
        /\ w + i + 1 \in 1..v /\ w + i + 1 \in 1..k /\ w + i + 1 \in 1..(k + y)
    BY <1>0, <1>v, <1>k
  <2>2. q3[w + i + 1] = <<"kernel32", i>>
    BY <1>14, <2>1
  <2>3. q6[w + i + 1] = q3[w + i + 1]
    BY <1>16, <1>18, <1>20, <2>1
  <2> QED
    BY <2>2, <2>3
<1>23. ASSUME NEW i \in 0..(y - 1)
       PROVE  q6[w + SectorCount(x) * w + i + 1] = <<"kernel64", i>>
  <2>1. w + SectorCount(x) * w + i + 1 = k + (i + 1)
    BY <1>0, <1>v, <1>k
  <2>2. i + 1 \in 1..y /\ (i + 1) - 1 = i /\ k + (i + 1) \in 1..(k + y)
    BY <1>0, <1>vk
  <2>3. q5[k + (i + 1)] = <<"kernel64", i>>
    BY <1>18, <2>2
  <2>4. q6[k + (i + 1)] = q5[k + (i + 1)]
    BY <1>20, <2>2
  <2> QED
    BY <2>1, <2>3, <2>4
<1> QED
  BY <1>w, <1>x, <1>y, <1>21, <1>22, <1>23

\* Byte i of a file lies in sector i \div BYTESOFSECTOR of it.
LEMMA ByteOf ==
    ASSUME NEW size \in Nat, NEW i \in 0..(size - 1), NEW first \in Nat
    PROVE  /\ i \div BYTESOFSECTOR \in 0..(SectorCount(size) - 1)
           /\ (first + i \div BYTESOFSECTOR) * BYTESOFSECTOR + (i % BYTESOFSECTOR) + 1
                = first * BYTESOFSECTOR + i + 1
<1>w. PICK w : w = BYTESOFSECTOR
  OBVIOUS
<1>0. w \in Nat \ {0} /\ i \in Nat /\ SectorCount(size) \in Nat /\ AdjustInSectorSize(size) \in Nat
      /\ SectorCount(size) * w = size + AdjustInSectorSize(size)
  BY <1>w, LayoutAssumption, SectorCountIs
<1>1. i < SectorCount(size) * w
  BY <1>0
<1>2. i \div w \in 0..(SectorCount(size) - 1)
  BY <1>0, <1>1, Quotient
<1>q. PICK q : q = i \div w
  OBVIOUS
<1>r. PICK r : r = i % w
  OBVIOUS
<1>3. q \in Nat /\ r \in Nat /\ i = q * w + r
  <2>1. i % w \in 0..(w - 1) /\ i \div w \in Nat /\ i = (i \div w) * w + (i % w)
    BY <1>0, Division
  <2>2. r \in 0..(w - 1)
    BY <1>r, <2>1
  <2>3. r \in Nat
    BY <1>0, <2>2
  <2> QED
    BY <1>q, <1>r, <2>1, <2>3
<1>4. (first + q) * w = first * w + q * w /\ first * w \in Nat /\ q * w \in Nat
  BY <1>0, <1>3
<1>5. (first + q) * w + r + 1 = first * w + i + 1
  BY <1>0, <1>3, <1>4
<1> QED
  BY <1>w, <1>q, <1>r, <1>2, <1>5

LEMMA InPlace == ASSUME IInv, KInv PROVE KernelIsInPlace
<1> SUFFICES ASSUME pc[0] = "entry64", Fits(machine)
             PROVE  KernelIsInPlace
  BY DEF KernelIsInPlace
<1>0. machine \in Machines
  BY DEF KInv, LoaderInv
<1>x. PICK x : x = machine.kernel32
  OBVIOUS
<1>y. PICK y : y = machine.kernel64
  OBVIOUS
<1>n. PICK n : n = SectorCount(x)
  OBVIOUS
<1>1. x \in Nat /\ y \in Nat /\ n \in Nat /\ SectorCount(y) \in Nat /\ Total = n + SectorCount(y)
  BY <1>0, <1>x, <1>y, <1>n, CountsAre DEF Total
<1>2. Arrived(Total)
  BY DEF KInv, LoaderInv, Early
<1>3. \A i \in 1..SectorCount(y) : kernel64[i] = n + i
  BY <1>x, <1>y, <1>n DEF KInv, KernelInv
<1>4. \A mb \in {1, 3, 5} : mbyte[mb] = "zero"
  BY DEF KInv, KernelInv
<1>5. ASSUME NEW i \in 0..(x - 1)
      PROVE  DiskImage(machine)[SectorIn(LOAD_SEGMENT + (i \div BYTESOFSECTOR) * (BYTESOFSECTOR \div 16))
               * BYTESOFSECTOR + (i % BYTESOFSECTOR) + 1] = <<"kernel32", i>>
  <2>q. PICK q : q = i \div BYTESOFSECTOR
    OBVIOUS
  <2>1. q \in 0..(n - 1) /\ (1 + q) * BYTESOFSECTOR + (i % BYTESOFSECTOR) + 1
                               = 1 * BYTESOFSECTOR + i + 1
    <3>1. 1 \in Nat
      OBVIOUS
    <3> QED
      BY <1>1, <1>n, <2>q, <3>1, ByteOf
  <2>2. SectorIn(SegmentOf(q)) = 1 + q
    <3>1. q \in 0..(Total - 1) /\ q + 1 = 1 + q
      BY <1>1, <2>1
    <3> QED
      BY <1>2, <3>1 DEF Arrived
  <2>3. LOAD_SEGMENT + (i \div BYTESOFSECTOR) * (BYTESOFSECTOR \div 16) = SegmentOf(q)
    BY <2>q DEF SegmentOf, Words
  <2>4. 1 * BYTESOFSECTOR = BYTESOFSECTOR
    BY LayoutAssumption
  <2>5. DiskImage(machine)[BYTESOFSECTOR + i + 1] = <<"kernel32", i>>
    BY <1>0, <1>x, ImageIs
  <2>6. (1 + q) * BYTESOFSECTOR + (i % BYTESOFSECTOR) + 1 = BYTESOFSECTOR + i + 1
    BY <2>1, <2>4
  <2> QED
    BY <2>2, <2>3, <2>5, <2>6
<1>6. ASSUME NEW i \in 0..(y - 1)
      PROVE  DiskImage(machine)[kernel64[(i \div BYTESOFSECTOR) + 1]
               * BYTESOFSECTOR + (i % BYTESOFSECTOR) + 1] = <<"kernel64", i>>
  <2>q. PICK q : q = i \div BYTESOFSECTOR
    OBVIOUS
  <2>f. PICK f : f = n + 1
    OBVIOUS
  <2>1. q \in 0..(SectorCount(y) - 1)
        /\ (f + q) * BYTESOFSECTOR + (i % BYTESOFSECTOR) + 1 = f * BYTESOFSECTOR + i + 1
    <3>1. f \in Nat
      BY <1>1, <2>f
    <3> QED
      BY <1>1, <2>q, <3>1, ByteOf
  <2>2. kernel64[q + 1] = f + q
    <3>1. q + 1 \in 1..SectorCount(y) /\ n + (q + 1) = f + q
      BY <1>1, <2>1, <2>f
    <3> QED
      BY <1>3, <3>1
  <2>3. f * BYTESOFSECTOR = BYTESOFSECTOR + n * BYTESOFSECTOR
    BY <1>1, <2>f, LayoutAssumption
  <2>4. DiskImage(machine)[BYTESOFSECTOR + n * BYTESOFSECTOR + i + 1] = <<"kernel64", i>>
    BY <1>0, <1>x, <1>y, <1>n, ImageIs
  <2>5. (f + q) * BYTESOFSECTOR + (i % BYTESOFSECTOR) + 1
          = BYTESOFSECTOR + n * BYTESOFSECTOR + i + 1
    BY <2>1, <2>3
  <2> QED
    BY <2>q, <2>2, <2>4, <2>5
<1> QED
  BY <1>x, <1>y, <1>4, <1>5, <1>6 DEF KernelIsInPlace

\* The entry for a page holds its address, the bits above the 32nd apart, and
\* opens it to user level from the dynamic memory on.
LEMMA EntryOf ==
    ASSUME NEW page \in 0..(DIRECTORIES * PAGE_MAXENTRYCOUNT - 1)
    PROVE  /\ {"P", "RW", "PS"} \subseteq PDEntry(page).flags
           /\ PDEntry(page).upper * DWORD_MB + PDEntry(page).lower = page * PAGE_MB
           /\ "US" \in PDEntry(page).flags <=> page * PAGE_MB >= DYNAMICMEMORY_MB
<1>n. PICK n : n = DIRECTORIES * PAGE_MAXENTRYCOUNT
  OBVIOUS
<1>p. PICK p : p = PAGE_MB
  OBVIOUS
<1>w. PICK w : w = DWORD_MB
  OBVIOUS
<1>y. PICK y : y = DYNAMICMEMORY_MB
  OBVIOUS
<1>0. /\ n \in Nat \ {0} /\ p \in Nat \ {0} /\ w \in Nat \ {0} /\ y \in Nat /\ y % p = 0
      /\ n * p <= 256 * w
  BY <1>n, <1>p, <1>w, <1>y, PagingAssumption
<1>1. page \in Nat /\ page < n
  BY <1>0, <1>n
<1>2. page * p \in Nat /\ page * p < n * p /\ n * p \in Nat
  BY <1>0, <1>1, Smaller
<1>a. PICK a : a = page * p
  OBVIOUS
<1>3. a \div w \in 0..(256 - 1)
  <2>1. 256 \in Nat /\ a < 256 * w
    BY <1>0, <1>2, <1>a
  <2> QED
    BY <1>0, <1>2, <1>a, <2>1, Quotient
<1>4. a % w \in Nat /\ a = (a \div w) * w + (a % w)
  <2>1. a % w \in 0..(w - 1) /\ a = (a \div w) * w + (a % w)
    BY <1>0, <1>2, <1>a, Division
  <2>2. \A z \in 0..(w - 1) : z \in Nat
    BY <1>0
  <2> QED
    BY <2>1, <2>2
<1>5. (a \div w) % 256 = a \div w
  <2>1. a \div w \in Nat /\ a \div w < 256
    BY <1>3
  <2> QED
    BY <2>1
<1>6. PDEntry(page) = [upper |-> (a \div w) % 256, lower |-> a % w,
                       flags |-> IF page < y \div p THEN {"P", "RW", "PS"}
                                 ELSE {"P", "RW", "PS", "US"}]
  BY <1>p, <1>w, <1>y, <1>a DEF PDEntry, PageEntry
<1>7. PDEntry(page).upper = (a \div w) % 256 /\ PDEntry(page).lower = a % w
  BY <1>6
<1>8. PDEntry(page).flags = IF page < y \div p THEN {"P", "RW", "PS"} ELSE {"P", "RW", "PS", "US"}
  BY <1>6
<1>9. page < y \div p <=> a < y
  <2>q. PICK q : q = y \div p
    OBVIOUS
  <2>1. q \in Nat /\ y = q * p + 0
    BY <1>0, <2>q, Division
  <2>2. q * p \in Nat /\ (page * p < q * p <=> page < q)
    BY <1>0, <1>1, <2>1, Smaller
  <2> QED
    BY <1>a, <2>q, <2>1, <2>2
<1>10. /\ {"P", "RW", "PS"} \subseteq PDEntry(page).flags
       /\ "US" \in PDEntry(page).flags <=> ~(page < y \div p)
  BY <1>8
<1>11. ~(a < y) <=> a >= y
  BY <1>0, <1>2, <1>a
<1>12. PDEntry(page).upper * w + PDEntry(page).lower = a
  BY <1>4, <1>5, <1>7
<1> QED
  BY <1>a, <1>p, <1>w, <1>y, <1>9, <1>10, <1>11, <1>12

LEMMA Mapped == ASSUME IInv, KInv PROVE IdentityMapped
<1>1. ASSUME pc[0] = "entry64", NEW page \in 0..(DIRECTORIES * PAGE_MAXENTRYCOUNT - 1)
      PROVE  LET path == Path(page)
             IN  /\ \A level \in 1..3 : {"P", "RW"} \subseteq path[level].flags
                 /\ "PS" \in path[3].flags
                 /\ path[3].upper * DWORD_MB + path[3].lower = page * PAGE_MB
                 /\ (\A level \in 1..3 : "US" \in path[level].flags)
                      <=> page * PAGE_MB >= DYNAMICMEMORY_MB
  <2>e. PICK e : e = PAGE_MAXENTRYCOUNT
    OBVIOUS
  <2>d. PICK d : d = page \div e
    OBVIOUS
  <2>s. PICK s : s = page % e
    OBVIOUS
  <2>1. e \in Nat \ {0} /\ DIRECTORIES \in Nat \ {0} /\ DIRECTORIES <= e
    BY <2>e, PagingAssumption
  <2>2. page \in Nat /\ page < DIRECTORIES * e
    BY <2>1, <2>e
  <2>3. d \in 0..(DIRECTORIES - 1)
    BY <2>1, <2>2, <2>d, Quotient
  <2>4. s \in 0..(e - 1) /\ page = d * e + s
    BY <2>1, <2>2, <2>d, <2>s, Division
  <2>5. d \div e = 0 /\ d % e = d
    <3>1. d \in 0..(e - 1) /\ 0 \in Nat
      BY <2>1, <2>3
    <3>2. (0 * e + d) % e = d /\ (0 * e + d) \div e = 0
      BY <2>1, <3>1, Divided
    <3>3. 0 * e + d = d
      BY <2>1, <3>1
    <3> QED
      BY <3>2, <3>3
  <2>6. tables = PageTables
    BY <1>1 DEF KInv, KernelInv
  <2>7. {0, d, s} \subseteq Slots
    BY <2>1, <2>3, <2>4, <2>e DEF Slots
  <2>8. {PML4, PDPT, PD + d} \subseteq PML4..(PD + DIRECTORIES - 1)
        /\ PDPT # PML4 /\ PD + d # PML4 /\ PD + d # PDPT /\ (PD + d) - PD = d
    BY <2>1, <2>3 DEF PML4, PDPT, PD
  <2>9. tables[PML4][0] = PageEntry(0, PDPT, {"P", "RW", "US"})
    BY <2>6, <2>7, <2>8 DEF PageTables
  <2>10. tables[PDPT][d] = PageEntry(0, PD + d, {"P", "RW", "US"})
    BY <2>3, <2>6, <2>7, <2>8, <2>1 DEF PageTables
  <2>11. tables[PD + d][s] = PDEntry(page)
    <3>1. tables[PD + d][s] = PDEntry(((PD + d) - PD) * PAGE_MAXENTRYCOUNT + s)
      BY <2>6, <2>7, <2>8 DEF PageTables
    <3> QED
      BY <2>4, <2>8, <2>e, <3>1
  <2>12. PageEntry(0, PDPT, {"P", "RW", "US"}).lower = PDPT
         /\ PageEntry(0, PDPT, {"P", "RW", "US"}).flags = {"P", "RW", "US"}
         /\ PageEntry(0, PD + d, {"P", "RW", "US"}).lower = PD + d
         /\ PageEntry(0, PD + d, {"P", "RW", "US"}).flags = {"P", "RW", "US"}
    BY DEF PageEntry
  <2>13. Path(page) = <<tables[PML4][0], tables[PDPT][d], tables[PD + d][s]>>
    BY <2>5, <2>9, <2>10, <2>12, <2>d, <2>s, <2>e DEF Path
  <2>14. Path(page)[1].flags = {"P", "RW", "US"} /\ Path(page)[2].flags = {"P", "RW", "US"}
         /\ Path(page)[3] = PDEntry(page)
    BY <2>9, <2>10, <2>11, <2>12, <2>13
  <2>15. /\ {"P", "RW", "PS"} \subseteq PDEntry(page).flags
         /\ PDEntry(page).upper * DWORD_MB + PDEntry(page).lower = page * PAGE_MB
         /\ "US" \in PDEntry(page).flags <=> page * PAGE_MB >= DYNAMICMEMORY_MB
    BY EntryOf
  <2>16. \A level \in 1..3 : level = 1 \/ level = 2 \/ level = 3
    OBVIOUS
  <2>17. \A level \in 1..3 : {"P", "RW"} \subseteq Path(page)[level].flags
    BY <2>14, <2>15, <2>16
  <2>18. (\A level \in 1..3 : "US" \in Path(page)[level].flags) <=> "US" \in PDEntry(page).flags
    BY <2>14, <2>16
  <2> QED
    BY <2>14, <2>15, <2>17, <2>18
<1>2. \A c \in Cores : pc[c] = "entry64" => cr0[c] = {"PE", "PG", "MP", "TS", "ET", "NE"}
  BY DEF KInv, ModeSwitchInv, LongMode
<1> QED
  BY <1>1, <1>2 DEF IdentityMapped

\* The kernel executes what the image holds: whenever the 64-bit kernel is entered,
\* the bytes of both kernels lie where they are linked to, the area is cleared, and
\* the page tables map every page to itself with the right flags.
THEOREM KernelIsReachableHolds == Spec => []KernelIsReachable
<1>1. IInv /\ RInv /\ KInv => KernelIsReachable
  BY InPlace, Mapped DEF KernelIsReachable
<1> QED
  BY <1>1, KInvHolds, PTL

=============================================================================
