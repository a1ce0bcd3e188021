----------------------------- MODULE MultiCore ------------------------------
(* The start of the 64-bit kernel: Main_64 on the bootstrap processor, which
   prepares the tables, turns interrupts on, wakes the application processors
   with INIT and STARTUP messages, waits until they have counted themselves and
   changes from the PIC to the I/O APIC; MainForAP on each processor that
   wakes; and the interrupts that arrive meanwhile and afterwards, which are
   acknowledged, counted and balanced over the cores.                      *)
EXTENDS IOAPIC

CONSTANTS
    MaxInterrupts,             \* bound: interrupts besides the timer's in kSleep
    INTERRUPT_LOADBALANCINGDIVIDOR,   \* 10 in the code
    MAXPROCESSORCOUNT          \* 16 in the code

ASSUME MultiCoreAssumption ==
    /\ MaxInterrupts \in Nat /\ INTERRUPT_LOADBALANCINGDIVIDOR \in Nat \ {0}
    /\ Cores \subseteq 0..(MAXPROCESSORCOUNT - 1)
    /\ IRQS >= 18   \* the handlers pass IRQs up to 17

VARIABLES
    core,        \* core |-> what it has of its own, see CoreInit
    pic,         \* the PIC: masked, and the IRQ in service
    shared,      \* the variables of the kernel that all cores see
    interrupts   \* bound: how many have been raised

vars == <<loaderVars, pc, kernel32Vars, ioapicVars, core, pic, shared, interrupts>>
earlier == <<loaderVars, kernel32Vars>>

None == -1

\* The vectors that a local APIC accepts.
Vector == 32..255

(***************************************************************************)
(* What a core has of its own: its interrupt flag, the 64-Kbyte piece of the
   stack area, the task register, whether its scheduler is initialised, its
   local APIC (on or off, requests, request in service), the vector that it is
   handling and where it goes on, and the number of interrupts per IRQ.    *)
(***************************************************************************)
CoreInit == [flag |-> FALSE, stack |-> None, tr |-> None, scheduler |-> FALSE,
             apic |-> FALSE, requests |-> {}, service |-> None,
             vector |-> None, back |-> "off", count |-> [irq \in 0..(IRQS - 1) |-> 0]]

Init ==
    /\ LoaderInit /\ Kernel32Init /\ IOAPICInit
    /\ core = [c \in Cores |-> CoreInit]
    /\ pic = [masked |-> TRUE, service |-> None]
    /\ shared = [idAddress |-> FALSE, awake |-> 0, saved |-> FALSE, tick |-> FALSE,
                 symmetric |-> FALSE, balancing |-> FALSE, taskBalancing |-> FALSE]
    /\ interrupts = 0

\* kGetAPICID: 0 before the MP table is known.
APICID(c) == IF shared.idAddress \/ mp.found THEN c ELSE 0

(***************************************************************************)
(* The bootstrap processor                                                 *)
(***************************************************************************)

At(c, label) == pc[c] = label

\* A step of core c from one label to another that touches only the core.
Step(c, from, to) == At(c, from) /\ Goto(c, to)

\* Main_64 up to the scheduler; the flag is cleared for those who come later.
Main_64 ==
    /\ At(0, "entry64") /\ flag = 1
    /\ Goto(0, "devices")
    /\ flag' = 0
    /\ core' = [core EXCEPT ![0].stack = 0, ![0].tr = 0, ![0].scheduler = TRUE]
    /\ UNCHANGED <<machine, disk, memory, kernel32Vars, ioapicVars, pic, shared, interrupts>>

\* Keyboard, PIC and the interrupt flag: the kernel hangs without a keyboard.
Devices ==
    /\ At(0, "devices")
    /\ IF machine.keyboard
       THEN /\ Goto(0, "analysis")
            /\ pic' = [pic EXCEPT !.masked = FALSE]
            /\ core' = [core EXCEPT ![0].flag = TRUE]
       ELSE Goto(0, "halt") /\ UNCHANGED <<pic, core>>
    /\ UNCHANGED <<earlier, ioapicVars, shared, interrupts>>

\* Without a table the kernel goes on with one core and the PIC.
StartUp ==
    /\ At(0, "analysis")
    /\ mp' = kAnalysisMPConfigurationTable(machine.areas, machine.picMode)
    /\ Goto(0, IF mp'.found THEN "apic" ELSE "idle")
    /\ UNCHANGED <<earlier, ioapic, redirection, selector, route, overlap,
                   core, pic, shared, interrupts>>

kEnableSoftwareLocalAPIC ==
    /\ Step(0, "apic", "wakeup")
    /\ core' = [core EXCEPT ![0].apic = TRUE]
    /\ UNCHANGED <<earlier, ioapicVars, pic, shared, interrupts>>

\* The address of the ID register is set for the others before INIT resets them.
SendInit ==
    /\ At(0, "wakeup")
    /\ shared' = [shared EXCEPT !.saved = core[0].flag, !.idAddress = TRUE]
    /\ core' = [core EXCEPT ![0].flag = FALSE]
    /\ pc' = [c \in Cores |-> IF c = 0 THEN "sent0"
                              ELSE IF c \in machine.responding THEN "waiting" ELSE pc[c]]
    /\ UNCHANGED <<earlier, ioapicVars, pic, interrupts>>

\* A STARTUP message starts the processors that wait for it at 0x10000.
SendStartUp(from, to) ==
    /\ At(0, from)
    /\ pc' = [c \in Cores |-> IF c = 0 THEN to
                              ELSE IF pc[c] = "waiting" THEN "entry16" ELSE pc[c]]
    /\ UNCHANGED <<earlier, ioapicVars, core, pic, shared, interrupts>>

\* The message may still be pending after the wait: the interrupt flag is
\* restored and the start-up given up.
CheckPending(from, to) ==
    /\ At(0, from)
    /\ \/ /\ machine.ipiPends
          /\ Goto(0, "idle")
          /\ core' = [core EXCEPT ![0].flag = shared.saved]
       \/ Goto(0, to) /\ UNCHANGED core
    /\ UNCHANGED <<earlier, ioapicVars, pic, shared, interrupts>>

\* Mutant: interrupts stay off after the wake-up.
RestoreNothing ==
    /\ Step(0, "restore", "wait")
    /\ UNCHANGED <<earlier, ioapicVars, core, pic, shared, interrupts>>

RestoreAfterWakeUp ==
    /\ Step(0, "restore", "wait")
    /\ core' = [core EXCEPT ![0].flag = shared.saved]
    /\ UNCHANGED <<earlier, ioapicVars, pic, shared, interrupts>>

\* Mutant: one processor too few is waited for.
AwaitOneLess ==
    /\ \/ /\ At(0, "wait") /\ shared.awake + 1 < mp.processors - 1
          /\ Goto(0, "sleep") /\ shared' = [shared EXCEPT !.tick = FALSE]
       \/ /\ At(0, "wait") /\ shared.awake + 1 >= mp.processors - 1
          /\ Goto(0, "change") /\ UNCHANGED shared
       \/ /\ At(0, "sleep") /\ shared.tick
          /\ Goto(0, "wait") /\ UNCHANGED shared
    /\ UNCHANGED <<earlier, ioapicVars, core, pic, interrupts>>

\* As long as too few have counted themselves the processor sleeps, for which
\* it needs the timer's interrupts.
AwaitProcessors ==
    /\ \/ /\ At(0, "wait") /\ shared.awake < mp.processors - 1
          /\ Goto(0, "sleep") /\ shared' = [shared EXCEPT !.tick = FALSE]
       \/ /\ At(0, "wait") /\ shared.awake >= mp.processors - 1
          /\ Goto(0, "change") /\ UNCHANGED shared
       \/ /\ At(0, "sleep") /\ shared.tick
          /\ Goto(0, "wait") /\ UNCHANGED shared
    /\ UNCHANGED <<earlier, ioapicVars, core, pic, interrupts>>

\* kChangeToMultiCoreMode: the PIC is cut off, then interrupts are turned off.
MaskPIC ==
    /\ Step(0, "change", "mode")
    /\ pic' = [pic EXCEPT !.masked = TRUE]
    /\ core' = [core EXCEPT ![0].apic = TRUE, ![0].flag = FALSE]
    /\ shared' = [shared EXCEPT !.saved = core[0].flag]
    /\ UNCHANGED <<earlier, ioapicVars, interrupts>>

\* Mutant: the mode of the interrupt handlers is not changed.
KeepPICMode ==
    /\ Step(0, "mode", "table")
    /\ UNCHANGED <<earlier, ioapicVars, core, pic, shared, interrupts>>

kSetSymmetricIOMode ==
    /\ Step(0, "mode", "table")
    /\ shared' = [shared EXCEPT !.symmetric = TRUE]
    /\ UNCHANGED <<earlier, ioapicVars, core, pic, interrupts>>

InitializeIOAPIC ==
    /\ Step(0, "table", "enable")
    /\ kInitializeIORedirectionTable
    /\ UNCHANGED <<earlier, core, pic, shared, interrupts>>

RestoreAfterChange ==
    /\ Step(0, "enable", "balance")
    /\ core' = [core EXCEPT ![0].flag = shared.saved]
    /\ UNCHANGED <<earlier, ioapicVars, pic, shared, interrupts>>

StartBalancing ==
    /\ Step(0, "balance", "idle")
    /\ shared' = [shared EXCEPT !.balancing = TRUE, !.taskBalancing = TRUE]
    /\ UNCHANGED <<earlier, ioapicVars, core, pic, interrupts>>

BootstrapProcessor ==
    \/ Main_64 \/ Devices \/ StartUp \/ kEnableSoftwareLocalAPIC
    \/ SendInit \/ CheckPending("sent0", "send1")
    \/ SendStartUp("send1", "sent1") \/ CheckPending("sent1", "send2")
    \/ SendStartUp("send2", "sent2") \/ CheckPending("sent2", "restore")
    \/ RestoreAfterWakeUp \/ AwaitProcessors \/ MaskPIC \/ kSetSymmetricIOMode
    \/ InitializeIOAPIC \/ RestoreAfterChange \/ StartBalancing

(***************************************************************************)
(* The application processors                                              *)
(***************************************************************************)

\* EntryPoint.s: the stack is moved by 64 Kbyte times the ID that is read where
\* g_qwAPICIDAddress points; None if it points nowhere.
MoveStack(c) ==
    /\ At(c, "entry64") /\ flag # 1
    /\ Goto(c, "count")
    /\ core' = [core EXCEPT ![c].stack = IF shared.idAddress THEN c ELSE None]
    /\ UNCHANGED <<earlier, ioapicVars, pic, shared, interrupts>>

\* lock inc of g_iWakeUpApplicationProcessorCount.
CountAwake(c) ==
    /\ Step(c, "count", "mainAP")
    /\ shared' = [shared EXCEPT !.awake = @ + 1]
    /\ UNCHANGED <<earlier, ioapicVars, core, pic, interrupts>>

\* Mutant: every core loads the first task state segment.
LoadFirstTable(c) ==
    /\ Step(c, "mainAP", "schedulerAP")
    /\ core' = [core EXCEPT ![c].tr = 0]
    /\ UNCHANGED <<earlier, ioapicVars, pic, shared, interrupts>>

\* The task state segment of the ID, whose IST entry is the handlers' stack.
LoadTables(c) ==
    /\ Step(c, "mainAP", "schedulerAP")
    /\ core' = [core EXCEPT ![c].tr = APICID(c)]
    /\ UNCHANGED <<earlier, ioapicVars, pic, shared, interrupts>>

kInitializeScheduler(c) ==
    /\ Step(c, "schedulerAP", "apicAP")
    /\ core' = [core EXCEPT ![APICID(c)].scheduler = TRUE]
    /\ UNCHANGED <<earlier, ioapicVars, pic, shared, interrupts>>

EnableAPIC(c) ==
    /\ Step(c, "apicAP", "stiAP")
    /\ core' = [core EXCEPT ![c].apic = TRUE]
    /\ UNCHANGED <<earlier, ioapicVars, pic, shared, interrupts>>

kEnableInterrupt(c) ==
    /\ Step(c, "stiAP", "idle")
    /\ core' = [core EXCEPT ![c].flag = TRUE]
    /\ UNCHANGED <<earlier, ioapicVars, pic, shared, interrupts>>

ApplicationProcessor(c) ==
    \/ MoveStack(c) \/ CountAwake(c) \/ LoadTables(c) \/ kInitializeScheduler(c)
    \/ EnableAPIC(c) \/ kEnableInterrupt(c)

(***************************************************************************)
(* Interrupts                                                              *)
(***************************************************************************)

\* The core stacks where it is, closes its interrupt flag and starts the
\* handler of the vector.
Enter(c, vector) ==
    [core[c] EXCEPT !.flag = FALSE, !.vector = vector, !.back = pc[c]]

\* The PIC interrupts the bootstrap processor: the timer for as long as it
\* sleeps, other lines within the bound.
PICInterrupt(irq) ==
    /\ core[0].flag /\ ~pic.masked /\ pic.service = None
    /\ IF irq = 0 THEN At(0, "sleep") /\ ~shared.tick /\ UNCHANGED interrupts
       ELSE interrupts < MaxInterrupts /\ interrupts' = interrupts + 1
    /\ pic' = [pic EXCEPT !.service = irq]
    /\ core' = [core EXCEPT ![0] = Enter(0, 32 + irq)]
    /\ Goto(0, "eoi")
    /\ UNCHANGED <<earlier, ioapicVars, shared>>

\* A pin of an I/O APIC requests its vector of the cores that its entry names;
\* a local APIC that is off does not notice, and none takes a vector below 32,
\* which only an entry spoilt by overlapping routings has.  The model raises no
\* more interrupts once routings have overlapped.
RaisePin(base, pin) ==
    LET entry == redirection[base][pin]
    IN  /\ interrupts < MaxInterrupts /\ ~overlap
        /\ ~entry.low.mask /\ entry.low.vector \in Vector
        /\ interrupts' = interrupts + 1
        /\ core' = [c \in Cores |->
                      IF entry.dest \in {AllCores, c} /\ core[c].apic
                      THEN [core[c] EXCEPT !.requests = @ \cup {entry.low.vector}]
                      ELSE core[c]]
        /\ UNCHANGED <<earlier, pc, ioapicVars, pic, shared>>

\* The core takes its highest request.
TakeRequest(c) ==
    /\ core[c].flag /\ core[c].service = None
    /\ \E vector \in core[c].requests :
         /\ \A other \in core[c].requests : vector >= other
         /\ core' = [core EXCEPT ![c] = [Enter(c, vector) EXCEPT
                                           !.requests = @ \ {vector}, !.service = vector]]
    /\ Goto(c, "eoi")
    /\ UNCHANGED <<earlier, ioapicVars, pic, shared, interrupts>>

\* The IRQ that a handler computes: all vectors from 49 on share one entry of
\* the interrupt table, which passes 49.
IRQOf(vector) == (IF vector >= 49 THEN 49 ELSE vector) - 32

\* kSendEOI: the controller is chosen by the mode the kernel thinks it is in.
kSendEOI(c) ==
    /\ Step(c, "eoi", "counting")
    /\ IF shared.symmetric
       THEN core' = [core EXCEPT ![c].service = None] /\ UNCHANGED pic
       ELSE pic' = [pic EXCEPT !.service = None] /\ UNCHANGED core
    /\ UNCHANGED <<earlier, ioapicVars, shared, interrupts>>

\* The timer is not balanced, and its count, which nothing but a display reads,
\* is left out; core 0 counts its tick.
kIncreaseInterruptCount(c) ==
    LET irq == IRQOf(core[c].vector)
    IN  /\ Step(c, "counting", IF irq = 0 THEN "return" ELSE "balancing")
        /\ core' = IF irq = 0 THEN core ELSE [core EXCEPT ![APICID(c)].count[irq] = @ + 1]
        /\ shared' = [shared EXCEPT !.tick = @ \/ (irq = 0 /\ APICID(c) = 0)]
        /\ UNCHANGED <<earlier, ioapicVars, pic, interrupts>>

\* The first of the counted cores with the fewest interrupts of the IRQ; the
\* counts of the model stay below the largest, at which all are reset.
Fewest(irq) ==
    LET ids == 0..(kGetProcessorCount(mp) - 1)
        count(i) == IF i \in Cores THEN core[i].count[irq] ELSE 0
    IN  CHOOSE i \in ids : \A j \in ids : \/ count(i) < count(j)
                                          \/ count(i) = count(j) /\ i <= j

\* Every INTERRUPT_LOADBALANCINGDIVIDOR-th interrupt moves the line.
kProcessLoadBalancing(c) ==
    LET irq  == IRQOf(core[c].vector)
        mine == core[APICID(c)].count[irq]
    IN  /\ Step(c, "balancing", "return")
        /\ IF mine # 0 /\ mine % INTERRUPT_LOADBALANCINGDIVIDOR = 0 /\ shared.balancing
           THEN kRoutingIRQToAPICID(c, irq, Fewest(irq))
           ELSE UNCHANGED ioapicVars
        /\ UNCHANGED <<earlier, core, pic, shared, interrupts>>

Return(c) ==
    /\ At(c, "return") /\ route[c] = NotRouting
    /\ Goto(c, core[c].back)
    /\ core' = [core EXCEPT ![c].flag = TRUE, ![c].vector = None]
    /\ UNCHANGED <<earlier, ioapicVars, pic, shared, interrupts>>

HandlerStep(c) ==
    \/ kSendEOI(c) \/ kIncreaseInterruptCount(c) \/ kProcessLoadBalancing(c) \/ Return(c)
    \/ RouteStep(c) /\ UNCHANGED <<earlier, pc, core, pic, shared, interrupts>>

Raise ==
    \/ \E irq \in {0, 1} : PICInterrupt(irq)
    \/ \E base \in DOMAIN redirection : \E pin \in 0..(PINS - 1) : RaisePin(base, pin)

(***************************************************************************)
(* The specification                                                       *)
(***************************************************************************)

later == <<ioapicVars, core, pic, shared, interrupts>>

\* What a core does by itself, once it runs.
CoreNext(c) ==
    \/ SharedKernel32Next(c) /\ UNCHANGED later
    \/ ApplicationProcessor(c) \/ TakeRequest(c) \/ HandlerStep(c)

\* What only the bootstrap processor does.
BootstrapNext ==
    \/ LoaderNext /\ UNCHANGED <<kernel32Vars, later>>
    \/ BootstrapKernel32Next /\ UNCHANGED later
    \/ BootstrapProcessor

Next == BootstrapNext \/ (\E c \in Cores : CoreNext(c)) \/ Raise

Spec == Init /\ [][Next]_vars

\* A processor that runs goes on, and the timer keeps ticking.
FairSpec ==
    /\ Spec
    /\ WF_vars(BootstrapNext) /\ WF_vars(PICInterrupt(0))
    /\ \A c \in Cores : WF_vars(CoreNext(c))

(***************************************************************************)
(* Correctness                                                             *)
(***************************************************************************)

Labels == {"reset", "read", "entry16", "main32", "memory", "area", "tables", "cpuid", "copy",
           "switch", "entry64", "devices", "analysis", "apic", "wakeup", "sent0", "send1",
           "sent1", "send2", "sent2", "restore", "wait", "sleep", "change", "mode", "table",
           "enable", "balance", "idle", "halt", "off", "waiting", "count", "mainAP",
           "schedulerAP", "apicAP", "stiAP", "eoi", "counting", "balancing", "return"}

\* Every variable keeps its type; a core handles an interrupt exactly while it
\* is at a handler's label, and only then routes.
TypeOK ==
    /\ machine \in Machines /\ pc \in [Cores -> Labels] /\ flag \in {0, 1}
    /\ disk \in [left : 0..65535, segment : 0..65535, track : 0..255, head : {0, 1},
                  sector : 1..18]
    /\ ioapic.map \in [0..(IRQS - 1) -> 0..255]
    /\ shared.awake \in 0..(MAXPROCESSORCOUNT - 1)
    /\ interrupts \in 0..MaxInterrupts /\ pic.service \in {None, 0, 1}
    /\ \A c \in Cores :
          /\ core[c].vector # None <=> pc[c] \in {"eoi", "counting", "balancing", "return"}
          /\ core[c].vector # None => ~core[c].flag
          /\ route[c] # NotRouting => pc[c] = "return"

\* An image that fits below the video memory arrives whole: when the 64-bit
\* kernel is entered, every byte of the 32-bit kernel lies from 0x10000 on and
\* every byte of the 64-bit kernel from 0x200000 on, whatever sectors, tracks
\* and heads they came from, and the rest of the kernel's area is cleared.
KernelIsInPlace ==
    pc[0] = "entry64" /\ Fits(machine) =>
        LET image == DiskImage(machine)
            byte(sector, i) == image[sector * BYTESOFSECTOR + (i % BYTESOFSECTOR) + 1]
            in32(i) == SectorIn(LOAD_SEGMENT + (i \div BYTESOFSECTOR) * (BYTESOFSECTOR \div 16))
        IN  /\ \A i \in 0..(machine.kernel32 - 1) : byte(in32(i), i) = <<"kernel32", i>>
            /\ \A i \in 0..(machine.kernel64 - 1) :
                  byte(kernel64[(i \div BYTESOFSECTOR) + 1], i) = <<"kernel64", i>>
            /\ \A mb \in {1, 3, 5} : mbyte[mb] = "zero"

\* When the 64-bit kernel is entered, the page tables map every page to itself,
\* those beyond 32 bits of address too, a page is open to user level if and only
\* if it lies in or behind the dynamic memory, the caches are on, and the first
\* FPU instruction will trap.
IdentityMapped ==
    /\ pc[0] = "entry64" =>
        \A page \in 0..(DIRECTORIES * PAGE_MAXENTRYCOUNT - 1) :
            LET path == Path(page)
            IN  /\ \A level \in 1..3 : {"P", "RW"} \subseteq path[level].flags
                /\ "PS" \in path[3].flags
                /\ path[3].upper * DWORD_MB + path[3].lower = page * PAGE_MB
                /\ (\A level \in 1..3 : "US" \in path[level].flags)
                     <=> page * PAGE_MB >= DYNAMICMEMORY_MB
    /\ \A c \in Cores :
          pc[c] = "entry64" => cr0[c] = {"PE", "PG", "MP", "TS", "ET", "NE"}

\* So the kernel executes what the image holds: its bytes lie at the addresses
\* they are linked to, and the page tables lead there.
KernelIsReachable == KernelIsInPlace /\ IdentityMapped

\* The 64-Kbyte pieces of a kernel stack and of a handlers' stack (IST).
StackPiece(c) == (7340024 - 65536 * core[c].stack) \div 65536          \* 0x6FFFF8
ISTPiece(c)   == (7340032 + 1048576 - 65536 * core[c].tr) \div 65536 - 1

\* No two cores share a stack: whoever runs the 64-bit kernel in C has a piece
\* of 0x600000 to 0x6FFFFF of its own, and a piece of 0x700000 to 0x7FFFFF of
\* its own for its handlers before an interrupt can arrive.
CoresAreSeparate ==
    LET inC == {c \in Cores : pc[c] \in {"count", "mainAP"} \/ core[c].stack # None}
        handling == {c \in Cores : core[c].flag \/ core[c].vector # None}
    IN  /\ \A c \in inC : core[c].stack # None /\ StackPiece(c) \in 96..111
        /\ \A c, d \in inC : StackPiece(c) = StackPiece(d) => c = d
        /\ \A c \in handling : core[c].tr # None /\ core[c].scheduler
                                /\ ISTPiece(c) \in 112..127
        /\ \A c, d \in handling : ISTPiece(c) = ISTPiece(d) => c = d

\* The firmware gave the processors the IDs 0, 1, ... and no processor answers
\* that it has disabled: what the kernel takes for granted.
OrderlyProcessors ==
    LET enabled == {e.id : e \in {f \in ValuesOf(mp.table) : f.type = "processor" /\ f.enabled}}
    IN  /\ enabled = 0..(mp.processors - 1)
        /\ machine.responding \subseteq enabled

Awake(c) ==
    c \in Cores /\ (c = 0 \/ pc[c] \notin {"off", "waiting", "entry16", "main32", "switch",
                                           "entry64", "count"})

\* No interrupt is sent to a core that sleeps: once lines are open, every core
\* that an entry names or that balancing may choose has started.
BalancedCoresAreAwake ==
    OrderlyProcessors =>
        /\ shared.balancing => \A i \in 0..(kGetProcessorCount(mp) - 1) : Awake(i)
        /\ ~overlap => \A base \in DOMAIN redirection : \A pin \in DOMAIN redirection[base] :
              ~redirection[base][pin].low.mask =>
                  redirection[base][pin].dest = AllCores \/ Awake(redirection[base][pin].dest)

\* Every interrupt is acknowledged at the controller it came from, also across
\* the change from the PIC to the I/O APIC: outside of a handler neither the PIC
\* nor a local APIC waits for an end of interrupt, which would close the line
\* for ever.
EOIReachesController ==
    \A c \in Cores : core[c].vector = None =>
        /\ core[c].service = None
        /\ c = 0 => pic.service = None

\* As long as no two cores route at once, a routing is exact: when it is over,
\* the entry of the IRQ leads to the new core, and no entry has lost its vector,
\* its trigger mode or its mask.
RoutingIsExact ==
    [][\A c \in Cores :
         route[c] # NotRouting /\ route'[c] = NotRouting /\ ~overlap =>
           /\ Exists(BaseOf(c), PinOf(c)) =>
                 redirection'[BaseOf(c)][PinOf(c)].dest = route[c].dest
           /\ \A base \in DOMAIN redirection : \A pin \in DOMAIN redirection[base] :
                 redirection'[base][pin].low = Programmed.registers[base][pin].low]_vars

\* What the boot needs from the machine, and that all enabled processors answer.
Bootable ==
    /\ ~machine.diskFails /\ Fits(machine) /\ machine.longMode /\ machine.keyboard
    /\ machine.ram >= MINIMUM_MB /\ machine.bad = {} /\ ~machine.ipiPends
    /\ LET table == kAnalysisMPConfigurationTable(machine.areas, FALSE).table
       IN  \A e \in ValuesOf(table) :
              e.type = "processor" /\ e.enabled => e.id \in machine.responding \cup {0}

\* The boot comes to its end: the wait for the processors is over at some time,
\* every one of them takes interrupts, and lines and tasks are balanced, or, if
\* the firmware has no table, the kernel goes on with one core and the PIC.
BootEnds ==
    Bootable => <>( \/ mp.found /\ shared.balancing
                       /\ \A c \in machine.responding : core[c].apic /\ core[c].flag
                    \/ kFindMPFloatingPointerAddress(machine.areas) = <<>>
                       /\ pc[0] = "idle" /\ core[0].flag)

=============================================================================
