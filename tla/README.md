# XenaOS in TLA+

Specifications, model-checking runs and machine-checked proofs for XenaOS, a
64-bit multi-core teaching kernel derived from MINT64: the way from the disk image
to a running multiprocessor, and the kernel itself (`src/02.Kernel64`, about 9,000
lines of C). What is hard about the kernel is concurrency: up to 16 cores, each
interrupted by its own timer and by devices, share spin locks, scheduler lists, a
pool of task control blocks, a heap, a keyboard and the I/O APIC, and tasks move
between cores while others look for them.

Paths below are relative to `src/02.Kernel64/Source/` unless they start with
`src/`.

| Module | Models | Checked by | Proved in |
| --- | --- | --- | --- |
| `ReentrantLock` | what a lock promises (abstract) | through its implementations | |
| `SpinLock` | `Synchronization.c`: the spin lock, with interrupt handlers | `MCSpinLock` | `SpinLockProofs` |
| `TaskSync` | `Synchronization.c`: mutex and semaphore | `MCTaskSync` | `TaskSyncProofs` |
| `Scheduler` | `Task.c`: lists, switching, load balancing, end and clean-up | `MCScheduler` | `SchedulerProofs` |
| `Allocator` | what the heap promises (abstract) | through `BuddyMemory` | |
| `BuddyMemory` | `DynamicMemory.c`: the buddy allocator | `MCBuddyMemory` | `BuddyMemoryProofs` |
| `BoundedFIFO` | what a queue promises (abstract) | through `Keyboard` | |
| `Queue` | `Queue.c`: the ring buffer | `MCKeyboard` | `KeyboardProofs` |
| `Keyboard` (uses `Queue`) | `Keyboard.c`, `kKeyboardHandler`, `kGetCh`, and the keyboard | `MCKeyboard` | `KeyboardProofs` |
| `Fpu` | the FPU part of `Task.c` and `InterruptHandler.c` | `MCFpu` | `FpuProofs` |
| `BootLoader` | `src/04.Utility/00.ImageMaker`, `src/00.BootLoader` | `MCBoot` | |
| `Kernel32` (extends `BootLoader`) | `src/01.Kernel32`: checks, page tables, mode switch | `MCBoot` | |
| `MPTable` | `MPConfigruationTable.c` | `MCBoot` | |
| `IOAPIC` (extends both) | `IOAPIC.c`: redirection tables and routing | `MCBoot` | |
| `MultiCore` (extends `IOAPIC`) | `Main.c`, `MultiProcessor.c`, `EntryPoint.s`, interrupts and their balancing | `MCBoot` | `MultiCoreProofs` |
| `SystemCall` | `SystemCall.c` and the user library's `SystemCallLibrary.c`: numbers and parameters | `MCConsole` | `ConsoleProofs` |
| `Console` (extends `SystemCall`) | `Console.c`, the user library's `printf`, SYSCALL and SYSRET | `MCConsole` | `ConsoleProofs` |

## 1. Inventory

**Spin lock** (`Synchronization.c`, `AssemblyUtility.asm: kTestAndSet`,
`Utility.c: kSetInterruptFlag`). *State*: flag, owner (local APIC ID), nesting
count, saved interrupt flag. *Operations*: `kInitializeSpinLock`,
`kLockForSpinLock`, `kUnlockForSpinLock`. *Used by* every other component for
its critical sections. *Hard*: cores race for the flag and then store owner and
count in separate steps; a core's own interrupt handler may want the lock its
task code has; locks nest. *Correct if*: one possessor at a time, no interrupt
while possessed, the outermost unlock gives back the interrupt flag of the
outermost lock, a core never waits for itself.

**Mutex and semaphore** (`Synchronization.c`). *State*: flag, owner (task ID),
count. *Operations*: `kLockMutex`, `kUnlockMutex`, `xLockSemaphore`,
`xUnlockSemaphore`. They call `kSchedule` to wait. *Hard*: the waiter may have
moved to another core when `kSchedule` returns; the semaphore's count is not
changed atomically. *Correct if*: the mutex records its real holder and only
that one unlocks it; the semaphore never gives out more than its initial value.

**Task scheduler** (`Task.c`, context switch in `AssemblyUtility.asm`, called by
the timer handler in `InterruptHandler.c`). *State*: the TCB pool (one global
lock); for every core the running task, five ready lists, a wait list of ended
tasks and executed counts (one lock each); in every TCB its ID, flags, core,
affinity, parent and child list. *Operations*: create, end, exit, yield, preempt,
change priority, change affinity, load balancing, the idle task's clean-up.
*Interacts with* the heap (stacks), the spin lock, the FPU handler. *Hard*:
everything: migration while being looked for, the window after an unlock in which
a task is in no list, unlocked reads of "my core", freeing a task that was just
switched from, reuse of a TCB slot. *Correct if*: a task is in exactly one place,
runs on one core, is not freed while it runs, is freed when it has ended, a
process outlives its threads, and no ready task starves.

**Dynamic memory** (`DynamicMemory.c`). *State*: one bitmap of free blocks per
size, a table of the sizes allocated, the used size, a spin lock. *Operations*:
`kAllocateMemory`, `kFreeMemory`. *Hard*: splitting and joining in a pool that is
no power of two; the size table and the used size are accessed outside the lock.
*Correct if*: blocks never overlap or get lost, freed memory is joined again,
nothing is refused that is there.

**Linked list** (`List.c`). Intrusive lists behind the scheduler: header, tail,
count; a link's `pvNext` and its 64-bit ID. *Correct if* header, tail, count and
the chain always describe one sequence.

**Queue and keyboard** (`Queue.c`, `Keyboard.c`, `kKeyboardHandler`,
`Console.c: kGetCh`). *State*: a ring buffer of 100 keys under a spin lock; shift
and lock keys, the pending prefix of extended keys, bytes to skip after Pause.
*Hard*: a lock key pressed makes the handler send an LED command and read the
data port until the ACK comes, converting the other bytes that arrive, which may
be lock keys again; with interrupt balancing two cores can be in the handler.
*Correct if* every key is queued once, in order, unless the queue is full, and
the LEDs show the state.

**FPU context switching** (`Task.c: kSetTS/kClearTS` at a switch,
`InterruptHandler.c: kDeviceNotAvailableHandler`). *State*: CR0.TS and the last
FPU user per core, the saved FPU context and `bFPUUsed` per task. *Hard*: lazy
saving combined with migration. *Correct if* a task always computes with its own
FPU registers.

**Boot loader and image** (`src/04.Utility/00.ImageMaker/ImageMaker.c`,
`src/00.BootLoader/BootLoader.asm`). *State*: the sector counts in the boot sector;
head, track and sector of the next read. *Hard*: rounding to sectors, the end of a
track, the end of the memory below 640 Kbyte. *Correct if* every byte of the kernel
arrives where it is executed.

**32-bit kernel** (`src/01.Kernel32`). *State*: the memory it clears, the page
tables it builds, CR0. *Hard*: 32-bit arithmetic for 64 Gbyte of pages; the same
code is the entry of all other processors, told apart by one byte. *Correct if*
the pages map to themselves with the right protection, the kernel is copied whole,
and a machine that lacks something is refused.

**Processor start-up** (`Main.c`, `MultiProcessor.c`, `EntryPoint.s`,
`LocalAPIC.c`). *State*: the address of the APIC ID register, the count of the
processors awake, each core's stack, task register and local APIC. *Hard*:
processors start in any number and order while the bootstrap processor waits.
*Correct if* no two cores share a stack, and the wait ends, after all have started.

**Interrupts** (`InterruptHandler.c`, `ISR.asm`, `PIC.c`, `IOAPIC.c`,
`MPConfigruationTable.c`). *State*: the mode (PIC or I/O APIC), counters per core
and IRQ, the redirection tables and the map from IRQs to pins. *Hard*: the change
from one controller to the other, entries rewritten half by half from several
cores. *Correct if* every interrupt is acknowledged where it came from, none is
sent to a processor that sleeps, and routing changes the destination and nothing
else.

**System calls** (`SystemCall.c`, `SystemCallEntryPoint.asm`,
`src/03.Application/UserLibrary/Source/SystemCallLibrary.c`). *State*: none of
their own; a service number in a register and a table of twenty parameters on the
user's stack. *Operations*: one function of the library and one case of the
kernel's `switch` per service. *Hard*: the two sides agree by position only, in two
files with two copies of the numbers. *Correct if* what the library declares is what
the kernel calls, with every parameter in its place.

**Console** (`Console.c`, `UserLibrary.c: printf`). *State*: the print position, the
two cursor registers behind an index port. *Operations*: `kPrintf`,
`kConsolePrintString`, `kSetCursor`, `kClearScreen`. *Hard*: the position is read
when a text begins and stored when it ends, without a lock, and a user task needs
two system calls for it. *Correct if* no character is written outside of the screen
and the cursor stays behind the text.

**The rest**: serial port (port I/O), console shell (commands that call the above,
and test commands), ACPI and PCI, disk drivers (mostly stubs), PIT and RTC,
descriptor tables, the library's formatting. These are not modelled: they keep no
state that interleaves, or are pure I/O.

The hazards this inventory turned up, each at its line and with the properties
that watch it, are in `PROJECT.json`.

## 2. Modules in detail

### 2.1 SpinLock

One action is one access to the lock record or to RFLAGS, so that the order of
the stores in `kLockForSpinLock` and `kUnlockForSpinLock` matters. A core has two
levels of code, task and handler; an interrupt may come wherever RFLAGS.IF is 1.
The environment takes locks in increasing rank and gives them back in reverse
order, as the kernel does, and calls unlock on locks it does not have, which the
code must refuse. `hold`, `calls` and `callerIF` are the callers' side.

This module is the justification for the others: it shows that a critical section
is exclusive, and not interruptible on its core, so `Scheduler` and `BuddyMemory`
make a critical section one action.

### 2.2 TaskSync

One action is one access to the MUTEX, the SEMAPHORE or the scheduler's running
task. The scheduler is reduced to what these functions see of it: which task runs
on a core, and that a ready task may be moved by preemption (only when it has
interrupts on) or by `kChangeProcessorAffinity` (whatever it is doing). As the
functions run with interrupts off, their own core cannot preempt them, but
`kSchedule` lets others in, and other cores run anyway. `holds` and `taken` count
what callers have, for the properties.

### 2.3 Scheduler

The lists are sequences of TCBs. A context is a task, or the handler of a core;
`pc` and `local` hold where it stands in a kernel function and its locals; a task
keeps both when another core loads it. Actions:

* `Yield`, `ScheduleCount`, `SchedulePick`, `SwitchContext`: `kSchedule` and the
  context switch after its unlock;
* `kScheduleInInterrupt`, `Preempted`, `AddTarget`, `AddInsert`,
  `InterruptReturn`: the timer, whose old task is in no list from its unlock
  until `AddInsert`;
* `Find`, `Moved`: `kFindSchedulerOfTaskAndLock` with its retry; the locked part
  of the call that began with it is `EndLocked`, `PriorityLocked`,
  `AffinityLocked` or `UnlinkLocked`;
* `kExitTask`, `ExitRead`: the unlocked reads before `kEndTask`; `EndSelf`: what
  `kEndTask` does after its unlock;
* `CreateTask`, `CreateStack`, `CreateLink`, `CreateSetUp`: `kCreateTask`;
* `Idle...`: the clean-up loop of the idle task.

`Asks` and `May` say which tasks make which calls, `MaxCalls` bounds how many.

### 2.4 BuddyMemory

`Exist` is the set of bits that are set in the bitmaps; a block is a list and an
offset. A bitmap search (a whole word at a time, then bit by bit), a split down to
the wanted list and the joining upwards are each one formula instead of the loop.
The critical sections (`kAllocationBuddyBlock`, `kFreeBuddyBlock`) are one action
each; the check of the used size, the size table and the read and the write of
`qwUsedSize += ...` are actions of their own because the code makes them without
the lock. `QWORD`, `QWORDBits` and `BYTEBits` stand for 2^64, 64 and 8. The size of
a list's blocks (`Size`) and the search are recursive functions, the used size that
ought to be (`UsedSize`) is the number of units in held blocks. `MarkAssumption` says
that a byte of the size table can hold the number of a list and one value more.

### 2.5 Queue and Keyboard

`Queue` is the ring buffer as operators on a record (indexes and the flag that
tells full from empty); `BoundedFIFO` is what it promises. `Keyboard` has the
8042's data port, the keyboard behind it (`Type`, `Emit`, `TakeCommand`, `TakeLEDs`,
`Answer`: external), the handler on every core, Main_64's first command and the
reader. A handler's calls are a stack of frames: `kConvertScanCodeAndPutQueue` may
call `kChangeKeyboardLED`, whose wait reads the port and converts again, so the
recursion of the code is there. One action is one access to the port, one
conversion (the kernel variables of the converter belong to whoever reads the
port) or one put. History variables mark the situations from which less is claimed: `nested`
(a lock key was read in a wait), `overlap` (a core entered the handler during
another's), `missed` (a byte came before interrupts did); `produced` is what was put.

### 2.6 Fpu

Tasks of two cores compute (`Compute`: new contents of the registers); the switches
`kSchedule` and `kScheduleInInterrupt` set or clear TS by comparing the next task
with the last FPU user; `kDeviceNotAvailableHandler` saves and loads;
`SaveBeforeMove` is the FPU part of load balancing. An ID is a slot with a
generation, so a slot that is reused is told from the task that was there. `mine`
is what a task's registers should hold. `movedUser` becomes true when a core's last
FPU user is moved to another core.

### 2.7 BootLoader, Kernel32, MPTable, IOAPIC, MultiCore

Five modules, each extending the one before, from the image to the balanced
kernel; `machine` is the kernel's files and the hardware, chosen at the start and
never changed. A byte of a file is named by file and offset, and memory is kept as
the disk sector that was read to each place, so `KernelIsReachable` compares places
and not contents. Addresses in page tables are counted in Mbyte, split where the
code splits them, at 32 bits. The MP table is a sequence of entries
(`Entry`: the structures of the header, with their widths) and `MPTable` the
functions that search it.

`pc` says where every core is. What a core does before it can meet another is one
action per function; the processors' way from STARTUP to their idle loop and the
bootstrap processor's way through `kChangeToMultiCoreMode` are one action per
access to something shared. Programming the redirection tables is one action
(interrupts are off and nobody else routes) whose loop over the table is the
recursive function `ProgrammedBy`; rewriting one in
`kRoutingIRQToAPICID` is seven: every access to the select register or the window.
A local APIC has requests and one in service, the PIC one in service. The timer
ticks as long as the bootstrap processor sleeps.

`OrderlyProcessors` and `overlap` limit two properties to what the code takes for
granted: IDs 0, 1, ... without gaps, no answer from a disabled processor, and one
routing at a time. The instance has machines that break each.

### 2.8 SystemCall and Console

`SystemCall` has no state: it is two relations, what each function of the library
stores and asks for, and what the kernel's `switch` makes of a number and a table.
A parameter is a name with a value, so that one in the wrong place shows; entries
of the table that nobody stored are `Garbage`. `NotServed` names the functions the
kernel does not serve as the library declares them: files and directories are
commented out, the disk's functions take one parameter less, and
`ChangeProcessorAffinity` is served by `kChangePriority`.

`Console` runs tasks through these: a kernel task prints with `kPrintf`, a user task
with `printf` (print, then set the cursor where the print said it ended), and both
may be preempted between any two accesses to the position or to a port.
`PrintCharacter` is one turn of the loop with its line feed, tab and scroll.
`expected` is where the text ends, by row and column instead of by offset; `overlap`
becomes true when two tasks use the console at once, which is where the code promises
nothing about the cursor any more.

## 3. What the runs check

| Run | Instance | Shows |
| --- | --- | --- |
| `spin_lock` | 2 cores with handlers, 2 nested locks, 2 calls per section | all safety properties, `ImplementsReentrantLock`, and that the innermost lock is always released |
| `mutex_and_semaphore` | 2 cores, 2 tasks on the mutex (nesting 2), 2 on the semaphore, 1 other that is moved | the mutex records its holder, is clear when free, implements the reentrant lock; the semaphore counts exactly |
| `mutex_waiter_moved` (violation) | 2 cores, 3 tasks | `HolderIsOwner` fails when a waiter's affinity is changed |
| `scheduler_one_core` | shell, idle, a process with a thread, a free TCB, 2 calls, fairness | no task is lost or doubled, threads have their process, no ended task executes; every ready task runs and every ended task is freed |
| `scheduler_two_cores` | 2 cores with load balancing, 3 application tasks, 2 calls | one place and one core per task, lists agree with TCBs, ended tasks have stopped |
| `move_other_task` (violation) | the shell moves a task that is being preempted | the task is in the ready lists twice |
| `exit_after_migration` (violation) | a task without affinity exits | another task is ended |
| `buddy_memory` | pool of 5 units, 2 tasks with up to 2 blocks, one lost update | blocks partition the pool, free buddies are joined, the used size is right unless an update was lost, nothing available is refused; implements `Allocator` |
| `keyboard` | 2 cores, queue of 2, 5 bytes of typing with shift, lock, extended and Pause keys | keys arrive once, in order and rightly converted, LEDs follow the locks; the queue implements `BoundedFIFO`; handlers return and bytes are read |
| `fpu` | 2 cores, 3 tasks in slots that are reused | a task finds its own registers until a last FPU user is moved; a last user is never on another core |
| `boot` | 16 machines: 1 to 3 processors, MP tables with gaps, two I/O APICs and colliding lines, dead and disabled processors, pending messages, failing disks, too large kernels, missing hardware; 2 device interrupts | the kernel is in place, mapped to itself, on stacks of its own on every core; acknowledgements reach their controller; routing is exact; the boot ends |
| `system_calls` | a kernel task and two user tasks, screen of 3 rows of 4, tabs of 2, texts with line feeds and tabs, 2 calls | every served call reaches its function with its parameters; nothing is written outside of the screen; while one task prints at a time the cursor is behind the text |

**Bounds.** Two cores are enough for every race of the code, which is always
between a core and one other that moves, ends or picks up its task; two levels of
code per core are all there are, because handlers run with interrupts off. Two
priorities of the five show the rounds of `kGetNextTaskToRun` (one list served,
one not). Two calls let one call overtake another. Three ready tasks are the
fewest for which load balancing moves one. A pool of 5 has a list with an odd
number of blocks, two joins in a row and a search of one word and one bit. Two
nested locks and two calls cover nesting, re-entry and a refused unlock.
The keyboard's five bytes make a prefix, a lock key and another key within one LED
command, on a queue that is full after two. Two generations of a TCB slot show
that an old ID is not taken for a new one. A boot sector of 16 bytes and 44 sectors
below the video memory make a kernel cross two tracks, page tables of 4 entries and
32-bit addresses up to 8 Mbyte make an address pass both ends; two device
interrupts let a second one come in the middle of a routing, on the same core and
on another. On a screen of three rows of four, texts of up to three characters wrap,
scroll and end at the last place, and an offset needs both registers of the cursor
(`BYTE` is 4); the second call starts where the first one ended. `MaxDepth`, `MaxCalls`, `MaxBlocks`, `MaxLost`, `MaxBytes`,
`MaxGeneration` and `MaxInterrupts` are the bounds in the guards.

**Fairness.** `SpinLock!Fairness`: a core executes the instructions of a call, and
a caller that holds a lock unlocks it (every path in the kernel does). Nothing is
assumed of who wins a lock, so only the innermost lock is claimed to be released
always, and no core is claimed to get one. `Scheduler!Fairness`: a handler runs to
its end; the timer keeps coming, so an interrupt that is off and on again is taken
in the end (strong fairness); a task that is loaded again and again executes its
next kernel step. No fairness is assumed of the calls tasks make.
`Keyboard!FairSpec`: a core that handles an interrupt goes on, pending interrupts
are taken, and the keyboard answers a command it has read; nothing is assumed of
the user. `MultiCore!FairSpec`: a processor that runs goes on, and the timer
ticks; a disk, a processor or a message that fails does so for good, and `BootEnds`
is claimed for machines without (`Bootable`).

**Violations.** Each of the three is what a comment of the source rules out and the
code allows; the findings in `PROJECT.json` quote the comment. All need a task to
change cores between reading "my core" and using it, or in the window of
`kScheduleInInterrupt`.

* `Task.c:1142`: `kChangeProcessorAffinity` finds the task neither running nor
  ready, because it is between lists, and inserts it; its own core does so too.
* `Task.c:851`: `kExitTask` reads the core and then its running task.
* `Synchronization.c:80`: `kLockMutex` uses the core ID from before it waited.

One more has no comment that rules it out: `kEndTask` (`Task.c:804`) compares the
target's core with its own, after it may have been moved there.

The passing runs leave these calls out: in `scheduler_two_cores` tasks end, move
and reprioritise themselves (the shell reprioritises another), and in
`mutex_and_semaphore` no user of the mutex has its affinity changed.

**What the properties exclude, because the code does not keep it.** A lock key
that is read while the handler waits for the ACK of another makes the converter see
bytes that are no keys, and the LEDs end wrong; Caps and Num pressed while
`kActivateKeyboard` waits make it fail and the kernel stop. Two handlers at once
(after a rerouting) read each other's bytes. When a core's last FPU user is moved,
its registers are saved, but TS may be left clear for a task whose registers are
not loaded. A disabled processor that answers STARTUP is counted in place of one
that has not started; with a gap in the IDs lines are sent to nobody. Two routings
at once leave entries without vector or mask. Two tasks that print at once overwrite
each other's text, and the cursor shows the place of either. The image is not checked to fit below
the video memory. Each of these is a hazard in `PROJECT.json`, and a variable or
premise of the property names it.

## 4. What is proved

Eight modules of theorems and lemmas, each about every value of the constants that
the named assumptions of its module allow. Each has an inductive invariant `IInv`,
one lemma per action (or per kind of action) that shows the action keeps it, and
theorems that follow from it.

**`SpinLockProofs`**, for every set of cores, every set of ranked locks and every
number of calls: `TypeCorrect`, `MutualExclusionHolds`,
`NoInterruptWhileHeldHolds`, `InterruptFlagRestoredHolds` (together
`InterruptsAreControlledHolds`), `NoSelfDeadlockHolds`.
`IInv` (at the end of `SpinLock`) is inductive; mutual exclusion alone is not,
because the code decides by the *owner field*, which is stored after the flag and
cleared before it. `OwnerInv` says when the field names the possessor, `CountInv`
that the count is the depth, `RankInv` that locks are nested by rank (the
environment's assumption), `FlagInv` and `KeptInv` which of the saved copies holds
the outermost caller's flag. Assumptions: the owner of a free lock is no core
(`NoAPICIDAssumption`); ranks are numbers (`LockAssumption`).

The same module shows `ImplementsReentrantLockHolds`. Seen through the callers'
depth, every step is a step of `ReentrantLock` or a stutter. The step that takes
the lock is the test-and-set's for the outermost call, and the owner's comparison
for a nested one; that nobody else has it then is `OwnerInv`, so the refinement
rests on `Invariance`.

**`TaskSyncProofs`**, for every set of tasks and cores, any start and any
semaphore users: `HolderIsOwnerHolds`, `FreeMutexIsClearHolds` and
`ImplementsReentrantLockHolds`, provided `NoWaiterMoved`:
`kChangeProcessorAffinity` is called for no user of the mutex. The proviso is
needed: without it run `mutex_waiter_moved` violates the first property. Where it
is used is `StaysOnCore`: until it has recorded itself, a task in `kLockMutex` is
on the core whose ID it read. `OneHasFlag` (from the test-and-set that succeeds to
the store that clears), `OwnerIsHolder` and `CountIsRight` (the values between the
stores) complete the inductive invariant. The semaphore has one of its own, `SInv`:
`CountIsAccurateHolds` says that what its users have taken and what is left add up to
the initial value, provided `OneSemaphoreCore`, that its users are on one core and
are not moved. The argument is that between the test and the store of the new count
interrupts are off, so no other user of that core can be there
(`NobodyComesBetween`); the sum
over the users changes by one summand per step. Between two cores the property fails.
`TypeCorrect` needs both provisos.

**`SchedulerProofs`**, for any cores, tasks, priorities, affinities and number of
calls, every start `BootAssumption` allows, and every interleaving of preemption,
balancing, changes of priority (also of other tasks), `kEndTask` and
`kChangeProcessorAffinity` on oneself and the idle tasks' clean-up: `TypeCorrect`,
`NoTaskLost`, `ReadyLists`, `Execution`, `NoFreedTask`, `EndedTask` and `Families`.
The properties are not inductive, because in the windows after an unlock a task is
in no list and only a local variable of some context knows it. So the invariant says
that every TCB has a *kind* (free, run, ready, wait, held) and every held task a
*holder*, and ties all of the state to these two functions: `ListInv` says that each
list is exactly the tasks of its kind, core and priority, each once; `RunInv` and
`ExecInv` that the scheduler's running task is what the core executes, except
between `kSchedule`'s unlock and the context switch, where the old task is already
ready or waiting; `HeldInv` that a context holds at most one task and a task has at
most one holder; `EndInv`, `TaskInv` and `HandlerInv` what a context at a given
place in the code may rely on (a task that has ended is on its way out, a handler
that holds a task is on the core it took it from, an ended task is held only by an
idle task). Kinds and holders are existentially quantified, they are no state of the
kernel; each step lemma names the new ones. `TypeCorrect` adds what this leaves out
(`RestInv`): that `iUseCount` is the number of TCBs in use, so it never falls below
zero, and that child lists hold a thread once.

Two more invariants are inductive together with `IInv`. For `EndedTask` (which
states `EndedTaskNeverRuns`) they are `IdleInv` and `DeadInv`: an idle task bound to
its core is given back to that core by every handler that takes it, is in
`kIdleTask` for ever, and has not ended. So when `kEndTask` switches away from a
task, the core's idle task is ready, `kSchedule` finds a successor, and the loop
behind the call is not reached (`Task.c:807`). For `Families` (`FamilyIsConsistent`)
it is `FamilyInv`: who is in a child list is a thread in use whose TCB names that
parent, and every thread in use is in its parent's list (`ChildrenInv`,
`ParentInv`), except one which an idle task has just unlinked and is about to free
(`Leaving`). A process is freed only when its child list is empty, and no thread
enters it later, which is why a thread that is being freed finds it
(`ThreadFindsProcess`). Both were checked by TLC on 2.2 million states of two cores
before.

Assumptions: every core has a task to start with (`BootAssumption`) and an idle task
bound to it (`IdleAssumption`: `Main.c:139` and `kInitializeScheduler` give it one),
a thread's process is in use (`FamilyAssumption`), affinities are cores or none
(`CallAssumption`), cores and tasks differ (`DisjointAssumption`). Proviso
`OwnCallsOnly`: tasks end and move only themselves, a task that may end has no
threads, none is created, `kExitTask` is not called and priority 5 is not asked for.
`move_other_task` shows that `NoTaskLost` fails when another task is moved,
`exit_after_migration` that another task ends when one exits; the rest of the
proviso keeps the proof within its size and is covered by `scheduler_one_core`.
Lists are sequences (section 5).

**`FpuProofs`**, for any number of cores, TCBs, computations and reuses:
`TypeCorrect`, `LastUserIsLocalHolds`, `ComputationsAreKeptHolds`. The registers of
a task are in one of two places, its TCB or the FPU of its core (`KeptInv`); which
one, the code decides by `qwLastFPUUsedTaskID` and TS. `TSInv` says that a clear TS
belongs to the last user, `IdInv` that no core remembers an ID which
`kCreateTask` has yet to give (so a reused slot is not mistaken for the task
before), `UnusedInv` that a task without FPU registers is no last user. `TSInv` and
`KeptInv` hold until a last user is moved (`movedUser`), which is what the code
allows. Assumption: a slot can be used at least once (`BoundsAssumption`).

**`KeyboardProofs`**, for any cores, scripts of bytes and capacity. Its first part is
about `Queue`: the count of a ring buffer, computed from its two indexes and the
record of the last operation, is that of the sequence it holds; a put appends to it
and a get takes its first. Indexes wrap, so the lemmas rest on two about remainders
(`ModSmall`, `ModWrapped`). Then `TypeCorrect` (also over the frames of a conversion
within a conversion, and over the redirection to the core with the fewest interrupts,
which needs that a smallest number exists) and `ImplementsFIFOHolds`: whatever two
cores and the reader do, the key queue is a `BoundedFIFO`.

`KeysAreTypedKeysHolds` and `LEDsFollowLocksHolds` are about histories: as long as
nothing has disturbed the driver (`Undisturbed`), what has been put into the queue
is what converting the handled bytes one after the other gives (`OneByOne`), and
between two bytes the LEDs show the locks. The invariant `KInv` has four parts.
`Shape`: at most one core has calls of the driver, and which frames can lie on each
other, since a conversion that changes the LEDs waits for the keyboard with
interrupts on and may be interrupted by the next byte. `AckInv`: the keyboard owes
an ACK exactly while the driver waits for one. `LEDInv`: how far the LEDs have
followed the manager's locks at each place. `KeyInv`: manager and keys are what
`OneByOne` makes of the handled bytes, with the byte under way not yet or just now
counted. That `OneByOne` of a longer history is one conversion more is a lemma about
a recursive function (`Induction`).

Assumptions: core 0 is there, bytes are 0 to 255 and include the answers, and no key's
scan code is the ACK (`BootCore`, `ByteAssumption`, `ScriptAssumption`,
`CountAssumption`).

**`BuddyMemoryProofs`**, for a pool of any number of units, any tasks, any number of
blocks and any interleaving: `TypeCorrect`, `PoolIsConsistentHolds`,
`RefusedOnlyWhenFullHolds` and `ImplementsAllocatorHolds`. That a set of numbers has a
least one (`Least`, from the library's theorem on well-founded relations) gives
induction over numbers without a theorem that takes an operator (`Induction`); with it
the recursive functions for the size of a list's blocks and for the search have the
solution the code computes, and powers of two are handled as what they do: a size is
twice the one before. The invariant speaks of *blocks*, whoever has them: those set
in the bitmaps, those held, those a task has just taken or is about to give. `Apart`
and `Covers` say that they partition the pool, `FreeBuddiesMerged` that no two free
buddies are left, `Records` that the size table knows each held block, `Counts` that
the used size is theirs, less what lost updates took. Partition alone is not
inductive: joining a block with a buddy needs that the bit of the buddy means the
whole buddy, splitting needs that nothing inside the block exists, and the bit past the
end of an odd list is never set (`BlockOK`). A step is an exchange of blocks
between owners (`Exchange`), taking one and giving its rest back (`Taking`), or
giving one and joining it upwards (`Giving`). `RefusedOnlyWhenFull` then is counting:
if a free block of the size existed, the used size would leave room for it
(`RoomLeft`, by the pigeon-hole principle), so the check does not refuse, and the
search finds the block. `IInv` was checked by TLC on 339,037 states before.
Assumptions: `SizeAssumption`, `MarkAssumption`.

**`ConsoleProofs`**, for any tasks, texts, number of calls, and a screen of any size
that two registers can address: `CallsAreServedHolds`, `OutputIsOnScreenHolds`,
`CursorFollowsTextHolds`. The table of services is finite but its parameters are not:
a number is served in at most one way (`OneCase`), and what the library stores arrives
in the declared order (`EveryoneIsServed`). Offsets and pairs of row and column are
related by division (`RowAndColumn`); one turn of the kernel's loop, with scroll and
tab, is one step of the text on a screen (`AdvancedIs`). The invariant is
`ConsoleTypeOK`, `CallInv` (what a task at a given place of a call has in its request,
served by the right function) and `CursorInv` (while no two have been in the console
at once, how far the one task there has brought position and registers to the end of
the text). `OutputIsOnScreen` needs nothing of the last and holds in every case.
Assumptions: `ConsoleAssumption` (tabs divide the width), `TextAssumption`,
`TaskAssumption`.

**`MultiCoreProofs`**, for any set of machines with local APIC IDs 0 to 15, any MP
tables, lines and order of interrupts: `CoresAreSeparateHolds`,
`EOIReachesControllerHolds`, `BalancedCoresAreAwakeHolds`, `RoutingIsExactHolds`; and
for kernels of any size that fits, `KernelIsReachableHolds`.
`Where(c)` is the place of a core in its own code, also while it is in a handler.
`AloneInv` says that nobody else runs before the bootstrap processor has the address
of the ID register; `ModeInv` that before the mode changes every pin is masked and no
request waits, and that afterwards the PIC is masked; `EOIInv` that what is in service
is of the kind the handler will acknowledge, because the mode can only change while no
handler is there; `StackInv` how far a core with a stack or with interrupts on has
come. The stacks' addresses are computed as in the code, so that they do not overlap is
arithmetic (`Pieces`), and holds for 16 IDs and no more.

The last two theorems need a second part, `RInv`, which is inductive together with the
first. `AwakeInv`: the counter is the number of cores past `CountAwake`, so when it has
reached the number of enabled processors less one, and no others answer, it is all of
them (two sets, one in the other, of equal size). `DestInv`: every entry's destination,
and every destination a core is about to write, is such a core; balancing chooses one
because a core with the fewest interrupts exists among the counted (`FewestIs`).
`RouteInv`: as long as no two cores have routed at once, the one that routes is alone,
and `HalfWay` says what its window shows and which halves it has rewritten.
`LowsInv`: the lower halves are those a programming writes. A programming masks and
then overwrites, so done once more it would write the same (`ProgrammedTwice`); what it
writes to a pin is what the last line of the table with that pin says, whatever the
order of the lines and the I/O APICs they lead to (`ProgrammedOK`, by induction over
the entries). Steps that leave the I/O APIC alone are one lemma (`Frame`).

`KernelIsReachable` needs a third part, `KInv`, proved inductive together with the
other two. `LoaderInv`: after n sectors the next one lies on the track, head and sector
that n + 1 counts, goes to the n-th address, and all before it have arrived; that the
image has a kernel's bytes where the loader looks for them is a lemma about ImageMaker's
paddings (`ImageIs`). `KernelInv`: which megabytes are clear, that the tables are those
`PageTables` says, and which sectors the copy has moved; that those map every address
to itself is arithmetic on the two halves of an entry (`Mapped`). `ModeSwitchInv`: the
bits of CR0 before and after the switch, on every core. `QuietInv`: the bootstrap
processor takes no interrupt on its way, so no return leads back into the loader.

Assumptions: the bootstrap processor's ID is 0, a sector's size is a multiple
of a segment's 16 bytes and what fits below the video segment does not wrap the
loader's track number (`LayoutAssumption`),
files have sizes (`FileAssumption`), the mapped memory takes at most 40 bits of address
(`PagingAssumption`; the code maps 64 GB, and writes the upper halves of addresses as
one byte), a table is a sequence of entries of the header's widths
(`TableAssumption`), and the map of IRQs has room for those that handlers pass
(`MultiCoreAssumption`).

**Only model-checked**: liveness under fairness (`InnermostIsReleased`,
`ReadyTaskRuns`, `EndedTaskIsFreed`, `InputIsServed`, `BootEnds`), which the prover
does not do; and what `OwnCallsOnly` leaves out of the scheduler's proofs: tasks that
are created later, tasks that end others, and processes that end before their threads,
on one core (`scheduler_one_core`). Every other property of a passing run is stated by
a theorem.

## 5. What is left out

* `Scheduler`: processor time and load accounting (they only shorten slices, which
  the timer may do at any time), the FPU part of a switch (see `Fpu`), stacks and
  process memory, the registers themselves (a context is where a task stands). The
  two passing multi-core questions exclude calls on other cores' tasks, see above.
* `TaskSync`: users of one semaphore are on one core, where having interrupts off
  makes its count atomic. On two cores its increments race, and the property does
  not hold. Tasks that hold the mutex do not end.
* `BuddyMemory`: how the metadata is laid out at the start of the pool. A caller
  frees what it holds, or an address nobody holds any more.
* `Keyboard`: `kEnableA20Gate` and `kReboot` (commands to the controller with no
  state of their own), the texts of keys beyond the instance's; the loops of 0xFFFF
  reads that wait for a port give up when the model chooses.
* `Fpu`: the registers are one value, exceptions of the FPU itself do not happen,
  and a switch is one step, as it runs with interrupts off.
* The boot: messages on the screen, the choice of a video mode, A20; ACPI and PCI,
  which only store what they read; the slave PIC and its priorities; the reset of
  interrupt counts that reach 2^64; exception handlers, which print and stop.
* `List.c`: the scheduler's lists are sequences; header, tail, count and links are
  not modelled. They describe a sequence while only present items are removed.
  `kRemoveList` of the last item (112 to 115) leaves the link of its predecessor, the
  new tail, so the search for an absent item goes on behind the tail. The only
  calls with an absent item are those of `kRemoveTaskFromReadyList` for a task the
  timer handler holds: if that task was last taken out of the same list from its
  end and nothing has been appended there since, `kChangePriority` finds it once
  more, and it is inserted twice. What is checked and proved about lists of
  `Scheduler` is to be read without this case.
* `Console`: the characters in the video memory (what is shown is lost where tasks
  overlap anyway), the cursor of the boot messages, `kPrintStringXY`. `SystemCall`: the
  machine registers that are set once, and what the called functions do.
* Shell, serial port, timers, clock, disks, descriptors, the library's formatting:
  commands that call what is modelled, port I/O, stubs that do nothing, and static
  tables. They keep no state that interleaves.
* Three defects of single lines, which a model does not need: `kCreateTask` tests the
  uninitialised parameter for the stack (`Task.c:142`), `kChangePriority` accepts the
  priority past the last list (`Task.c:532`; `Priorities` leaves it out), and a test of
  flags lacks parentheses (`Task.c:1279`), so the wrong flag decides whether a
  process's memory is freed.
* Memory is sequentially consistent in all modules: x86 orders the stores of a
  core, and the test-and-set is a locked instruction.

## 6. Plan

Done: `SpinLock`, `TaskSync`, `Queue`, `Keyboard`, `Fpu`, `Scheduler`, `BuddyMemory`,
`Console` with the system calls, and the boot from the image to the balanced
multiprocessor, all with proofs. What is left, in this order:

1. `SchedulerProofs` with creation, on one core also with tasks that end others.
2. `TaskList`: `List.c` with its pointers, shown to implement a sequence as long as
   only present items are removed, and the scheduler's absent one with it.

No module uses a RECURSIVE operator, so all of them can be proved about; loops are
recursive functions, whose induction rests on the least element of a set of numbers.
