------------------------------- MODULE SpinLock -------------------------------
(***************************************************************************)
(* The kernel's spin lock (02.Kernel64/Source/Synchronization.c): it is    *)
(* reentrant per core, it switches interrupts off before it touches the    *)
(* lock, remembers the interrupt flag the outermost caller had, and gives  *)
(* that value back when the outermost caller unlocks.                      *)
(*                                                                         *)
(* Every core runs task code that a hardware interrupt may suspend at any  *)
(* point at which RFLAGS.IF is 1; the handler uses the same locks.  One    *)
(* action is one access to the lock or to RFLAGS.  A core takes the locks  *)
(* in increasing rank and gives them back in the reverse order: that is    *)
(* how the kernel nests them (a scheduler's lock outermost, the TCB pool's *)
(* or the heap's inside it, Task.c:149-159).                               *)
(***************************************************************************)
EXTENDS Naturals

CONSTANTS Core,      \* the cores, named by their local APIC ID
          Lock,      \* the locks, named by their rank
          NoAPICID,  \* 0xFF, the owner of a free lock
          MaxCalls   \* bound: calls one outermost critical section makes

ASSUME LockAssumption == Lock \subseteq Nat /\ Lock # {}
ASSUME NoAPICIDAssumption == NoAPICID \notin Core
ASSUME MaxCallsAssumption == MaxCalls \in Nat

VARIABLES
    bLockFlag, bAPICID, dwLockCount, bInterruptFlag, \* the SPINLOCK of each lock
    rflagsIF,   \* rflagsIF[c]: the interrupt flag of core c
    inIrq,      \* inIrq[c]: core c runs an interrupt handler
    pc,         \* pc[c][v]: where the code of level v is in lock or unlock
    arg,        \* arg[c][v]: the lock it was called with
    saved,      \* saved[c][v]: its local bInterruptFlag
    hold,       \* hold[c][v][l]: locks minus unlocks of l that have returned
    calls,      \* calls[c][v]: calls made since level v held nothing
    callerIF    \* callerIF[c][v]: the flag the code of level v runs with

lockRecord == <<bLockFlag, bAPICID, dwLockCount, bInterruptFlag>>
caller == <<hold, calls, callerIF>>
vars == <<lockRecord, rflagsIF, inIrq, pc, arg, saved, caller>>

Level == {"task", "irq"}

\* Where a call can stand; every other label is one access to the lock.
Acquiring == {"setCount", "setOwner", "saveIF"}
Clearing == {"clearOwner", "clearCount", "clearIF", "clearFlag"}
PC == {"idle", "tryLock", "checkOwner", "nest", "spin",
       "checkUnlock", "restoreIF"} \cup Acquiring \cup Clearing

\* The code that core c executes: its handler while one runs.
Running(c, v) == v = IF inIrq[c] THEN "irq" ELSE "task"

HoldsNothing(c, v) == \A l \in Lock : hold[c][v][l] = 0

(***************************************************************************)
(* kInitializeSpinLock, for every lock, before any core uses one.          *)
(***************************************************************************)
Init ==
    /\ bLockFlag = [l \in Lock |-> FALSE]
    /\ dwLockCount = [l \in Lock |-> 0]
    /\ bAPICID = [l \in Lock |-> NoAPICID]
    /\ bInterruptFlag = [l \in Lock |-> FALSE]
    /\ rflagsIF = [c \in Core |-> TRUE]
    /\ inIrq = [c \in Core |-> FALSE]
    /\ pc = [c \in Core |-> [v \in Level |-> "idle"]]
    /\ arg = [c \in Core |-> [v \in Level |-> CHOOSE l \in Lock : TRUE]]
    /\ saved = [c \in Core |-> [v \in Level |-> FALSE]]
    /\ hold = [c \in Core |-> [v \in Level |-> [l \in Lock |-> 0]]]
    /\ calls = [c \in Core |-> [v \in Level |-> 0]]
    /\ callerIF = [c \in Core |-> [v \in Level |-> v = "task"]]

(***************************************************************************)
(* kSetInterruptFlag(b): set RFLAGS.IF, the old value is saved.            *)
(***************************************************************************)
kSetInterruptFlag(c, v, b) ==
    /\ saved' = [saved EXCEPT ![c][v] = rflagsIF[c]]
    /\ rflagsIF' = [rflagsIF EXCEPT ![c] = b]

\* Control passes from label p to label q in the code of level v on core c.
Goto(c, v, p, q) ==
    /\ Running(c, v)
    /\ pc[c][v] = p
    /\ pc' = [pc EXCEPT ![c][v] = q]

(***************************************************************************)
(* kLockForSpinLock                                                        *)
(***************************************************************************)
\* Mutant of CallLock: interrupts stay as they are.
CallLockKeepsIF(c, v, l) ==
    /\ \A m \in Lock : hold[c][v][m] > 0 => m <= l
    /\ calls[c][v] < MaxCalls
    /\ Goto(c, v, "idle", "tryLock")
    /\ arg' = [arg EXCEPT ![c][v] = l]
    /\ calls' = [calls EXCEPT ![c][v] = @ + 1]
    /\ kSetInterruptFlag(c, v, rflagsIF[c])
    /\ UNCHANGED <<lockRecord, inIrq, hold, callerIF>>

\* A caller locks l: no lock it holds ranks above l.  Interrupts go off first.
CallLock(c, v, l) ==
    /\ \A m \in Lock : hold[c][v][m] > 0 => m <= l
    /\ calls[c][v] < MaxCalls
    /\ Goto(c, v, "idle", "tryLock")
    /\ arg' = [arg EXCEPT ![c][v] = l]
    /\ calls' = [calls EXCEPT ![c][v] = @ + 1]
    /\ kSetInterruptFlag(c, v, FALSE)
    /\ UNCHANGED <<lockRecord, inIrq, hold, callerIF>>

\* The first kTestAndSet.
TryLock(c, v) ==
    LET l == arg[c][v] IN
    /\ \/ ~bLockFlag[l] /\ Goto(c, v, "tryLock", "setCount")
       \/ bLockFlag[l] /\ Goto(c, v, "tryLock", "checkOwner")
    /\ bLockFlag' = [bLockFlag EXCEPT ![l] = TRUE]
    /\ UNCHANGED <<bAPICID, dwLockCount, bInterruptFlag, rflagsIF, inIrq, arg,
                   saved, caller>>

\* The lock is taken: by this core?
CheckOwner(c, v) ==
    LET l == arg[c][v] IN
    /\ \/ bAPICID[l] = c /\ Goto(c, v, "checkOwner", "nest")
       \/ bAPICID[l] # c /\ Goto(c, v, "checkOwner", "spin")
    /\ UNCHANGED <<lockRecord, rflagsIF, inIrq, arg, saved, caller>>

\* Mutant of Nest: a nested lock overwrites the outermost caller's flag.
NestOverwritesIF(c, v) ==
    LET l == arg[c][v] IN
    /\ Goto(c, v, "nest", "idle")
    /\ dwLockCount' = [dwLockCount EXCEPT ![l] = @ + 1]
    /\ bInterruptFlag' = [bInterruptFlag EXCEPT ![l] = saved[c][v]]
    /\ hold' = [hold EXCEPT ![c][v][l] = @ + 1]
    /\ UNCHANGED <<bLockFlag, bAPICID, rflagsIF, inIrq, arg, saved, calls,
                   callerIF>>

\* It is: count the nested lock and return with interrupts still off.
Nest(c, v) ==
    LET l == arg[c][v] IN
    /\ Goto(c, v, "nest", "idle")
    /\ dwLockCount' = [dwLockCount EXCEPT ![l] = @ + 1]
    /\ hold' = [hold EXCEPT ![c][v][l] = @ + 1]
    /\ UNCHANGED <<bLockFlag, bAPICID, bInterruptFlag, rflagsIF, inIrq, arg,
                   saved, calls, callerIF>>

\* It is not: spin until a kTestAndSet finds the flag clear.
Spin(c, v) ==
    LET l == arg[c][v] IN
    /\ ~bLockFlag[l]
    /\ Goto(c, v, "spin", "setCount")
    /\ bLockFlag' = [bLockFlag EXCEPT ![l] = TRUE]
    /\ UNCHANGED <<bAPICID, dwLockCount, bInterruptFlag, rflagsIF, inIrq, arg,
                   saved, caller>>

SetCount(c, v) ==
    /\ Goto(c, v, "setCount", "setOwner")
    /\ dwLockCount' = [dwLockCount EXCEPT ![arg[c][v]] = 1]
    /\ UNCHANGED <<bLockFlag, bAPICID, bInterruptFlag, rflagsIF, inIrq, arg,
                   saved, caller>>

SetOwner(c, v) ==
    /\ Goto(c, v, "setOwner", "saveIF")
    /\ bAPICID' = [bAPICID EXCEPT ![arg[c][v]] = c]
    /\ UNCHANGED <<bLockFlag, dwLockCount, bInterruptFlag, rflagsIF, inIrq, arg,
                   saved, caller>>

\* The flag the outermost caller had goes into the lock; the call returns.
SaveIF(c, v) ==
    LET l == arg[c][v] IN
    /\ Goto(c, v, "saveIF", "idle")
    /\ bInterruptFlag' = [bInterruptFlag EXCEPT ![l] = saved[c][v]]
    /\ hold' = [hold EXCEPT ![c][v][l] = @ + 1]
    /\ UNCHANGED <<bLockFlag, bAPICID, dwLockCount, rflagsIF, inIrq, arg, saved,
                   calls, callerIF>>

(***************************************************************************)
(* kUnlockForSpinLock                                                      *)
(***************************************************************************)
\* A caller unlocks l: the last lock it took, or one it does not hold (the
\* code tolerates that; the call counts against the bound inside a section).
CallUnlock(c, v, l) ==
    /\ hold[c][v][l] > 0 => \A m \in Lock : hold[c][v][m] > 0 => m <= l
    /\ hold[c][v][l] = 0 => HoldsNothing(c, v) \/ calls[c][v] < MaxCalls
    /\ Goto(c, v, "idle", "checkUnlock")
    /\ arg' = [arg EXCEPT ![c][v] = l]
    /\ calls' = [calls EXCEPT ![c][v] =
                   IF hold[c][v][l] > 0 \/ HoldsNothing(c, v) THEN @ ELSE @ + 1]
    /\ kSetInterruptFlag(c, v, FALSE)
    /\ UNCHANGED <<lockRecord, inIrq, hold, callerIF>>

\* Free, or somebody else's: refuse, and restore the flag.
RefuseUnlock(c, v) ==
    LET l == arg[c][v] IN
    /\ ~bLockFlag[l] \/ bAPICID[l] # c
    /\ Goto(c, v, "checkUnlock", "idle")
    /\ rflagsIF' = [rflagsIF EXCEPT ![c] = saved[c][v]]
    /\ UNCHANGED <<lockRecord, inIrq, arg, saved, caller>>

\* Mutant of UnlockNested: also taken for the last unlock.
UnlockNestedAlways(c, v) ==
    LET l == arg[c][v] IN
    /\ bLockFlag[l] /\ bAPICID[l] = c
    /\ Goto(c, v, "checkUnlock", "idle")
    /\ dwLockCount' = [dwLockCount EXCEPT ![l] = @ - 1]
    /\ hold' = [hold EXCEPT ![c][v][l] = @ - 1]
    /\ UNCHANGED <<bLockFlag, bAPICID, bInterruptFlag, rflagsIF, inIrq, arg,
                   saved, calls, callerIF>>

\* Locked more than once: only count, interrupts stay off.
UnlockNested(c, v) ==
    LET l == arg[c][v] IN
    /\ bLockFlag[l] /\ bAPICID[l] = c /\ dwLockCount[l] > 1
    /\ Goto(c, v, "checkUnlock", "idle")
    /\ dwLockCount' = [dwLockCount EXCEPT ![l] = @ - 1]
    /\ hold' = [hold EXCEPT ![c][v][l] = @ - 1]
    /\ UNCHANGED <<bLockFlag, bAPICID, bInterruptFlag, rflagsIF, inIrq, arg,
                   saved, calls, callerIF>>

\* Mutant of FetchIF: whoever unlocks frees the lock.
FetchIFOfAnyOwner(c, v) ==
    LET l == arg[c][v] IN
    /\ bLockFlag[l] /\ ~(dwLockCount[l] > 1)
    /\ Goto(c, v, "checkUnlock", "clearOwner")
    /\ saved' = [saved EXCEPT ![c][v] = bInterruptFlag[l]]
    /\ UNCHANGED <<lockRecord, rflagsIF, inIrq, arg, caller>>

\* The outermost unlock: fetch the outermost caller's flag, then clear.
FetchIF(c, v) ==
    LET l == arg[c][v] IN
    /\ bLockFlag[l] /\ bAPICID[l] = c /\ ~(dwLockCount[l] > 1)
    /\ Goto(c, v, "checkUnlock", "clearOwner")
    /\ saved' = [saved EXCEPT ![c][v] = bInterruptFlag[l]]
    /\ UNCHANGED <<lockRecord, rflagsIF, inIrq, arg, caller>>

\* Mutant of ClearOwner: the owner is never reset.
ClearOwnerForgotten(c, v) ==
    /\ Goto(c, v, "clearOwner", "clearCount")
    /\ UNCHANGED <<lockRecord, rflagsIF, inIrq, arg, saved, caller>>

ClearOwner(c, v) ==
    /\ Goto(c, v, "clearOwner", "clearCount")
    /\ bAPICID' = [bAPICID EXCEPT ![arg[c][v]] = NoAPICID]
    /\ UNCHANGED <<bLockFlag, dwLockCount, bInterruptFlag, rflagsIF, inIrq, arg,
                   saved, caller>>

ClearCount(c, v) ==
    /\ Goto(c, v, "clearCount", "clearIF")
    /\ dwLockCount' = [dwLockCount EXCEPT ![arg[c][v]] = 0]
    /\ UNCHANGED <<bLockFlag, bAPICID, bInterruptFlag, rflagsIF, inIrq, arg,
                   saved, caller>>

ClearIF(c, v) ==
    /\ Goto(c, v, "clearIF", "clearFlag")
    /\ bInterruptFlag' = [bInterruptFlag EXCEPT ![arg[c][v]] = FALSE]
    /\ UNCHANGED <<bLockFlag, bAPICID, dwLockCount, rflagsIF, inIrq, arg, saved,
                   caller>>

\* Mutant of ClearFlag: the unlock returns with the flag still set.
ClearFlagForgotten(c, v) ==
    LET l == arg[c][v] IN
    /\ Goto(c, v, "clearFlag", "restoreIF")
    /\ hold' = [hold EXCEPT ![c][v][l] = @ - 1]
    /\ UNCHANGED <<lockRecord, rflagsIF, inIrq, arg, saved, calls, callerIF>>

\* From here on another core may take the lock.
ClearFlag(c, v) ==
    LET l == arg[c][v] IN
    /\ Goto(c, v, "clearFlag", "restoreIF")
    /\ bLockFlag' = [bLockFlag EXCEPT ![l] = FALSE]
    /\ hold' = [hold EXCEPT ![c][v][l] = @ - 1]
    /\ UNCHANGED <<bAPICID, dwLockCount, bInterruptFlag, rflagsIF, inIrq, arg,
                   saved, calls, callerIF>>

RestoreIF(c, v) ==
    /\ Goto(c, v, "restoreIF", "idle")
    /\ rflagsIF' = [rflagsIF EXCEPT ![c] = saved[c][v]]
    /\ calls' = [calls EXCEPT ![c][v] = IF HoldsNothing(c, v) THEN 0 ELSE @]
    /\ UNCHANGED <<lockRecord, inIrq, arg, saved, hold, callerIF>>

(***************************************************************************)
(* The callers.  Task code that holds no lock may switch interrupts itself *)
(* (kLockMutex and kSchedule do).  An interrupt gate clears IF, and iretq  *)
(* restores it when the handler, which has given back its locks, is done.  *)
(***************************************************************************)
SwitchInterrupts(c) ==
    /\ Running(c, "task") /\ pc[c]["task"] = "idle" /\ HoldsNothing(c, "task")
    /\ rflagsIF' = [rflagsIF EXCEPT ![c] = ~@]
    /\ callerIF' = [callerIF EXCEPT ![c]["task"] = ~rflagsIF[c]]
    /\ UNCHANGED <<lockRecord, inIrq, pc, arg, saved, hold, calls>>

Interrupt(c) ==
    /\ rflagsIF[c] /\ ~inIrq[c]
    /\ inIrq' = [inIrq EXCEPT ![c] = TRUE]
    /\ rflagsIF' = [rflagsIF EXCEPT ![c] = FALSE]
    /\ UNCHANGED <<lockRecord, pc, arg, saved, caller>>

EndOfInterrupt(c) ==
    /\ inIrq[c] /\ pc[c]["irq"] = "idle" /\ HoldsNothing(c, "irq")
    /\ inIrq' = [inIrq EXCEPT ![c] = FALSE]
    /\ rflagsIF' = [rflagsIF EXCEPT ![c] = TRUE]
    /\ UNCHANGED <<lockRecord, pc, arg, saved, caller>>

\* One step of a lock or unlock call in progress.
Step(c, v) ==
    \/ TryLock(c, v) \/ CheckOwner(c, v) \/ Nest(c, v) \/ Spin(c, v)
    \/ SetCount(c, v) \/ SetOwner(c, v) \/ SaveIF(c, v)
    \/ RefuseUnlock(c, v) \/ UnlockNested(c, v) \/ FetchIF(c, v)
    \/ ClearOwner(c, v) \/ ClearCount(c, v) \/ ClearIF(c, v)
    \/ ClearFlag(c, v) \/ RestoreIF(c, v)

CallStep(c, v) == \E l \in Lock : CallLock(c, v, l) \/ CallUnlock(c, v, l)

CoreStep(c) ==
    \/ \E v \in Level : Step(c, v) \/ CallStep(c, v)
    \/ SwitchInterrupts(c) \/ Interrupt(c) \/ EndOfInterrupt(c)

Next == \E c \in Core : CoreStep(c)

Spec == Init /\ [][Next]_vars

(***************************************************************************)
(* Fairness: a core executes the instructions of a call, and every caller  *)
(* in the kernel has an unlock on each path out of its critical section.   *)
(* Nothing makes a spinning core win the race for a lock.                  *)
(***************************************************************************)
ReleaseCall(c, v) == \E l \in Lock : hold[c][v][l] > 0 /\ CallUnlock(c, v, l)

Fairness ==
    \A c \in Core, v \in Level :
        WF_vars(Step(c, v)) /\ WF_vars(ReleaseCall(c, v))

FairSpec == Spec /\ Fairness

-------------------------------------------------------------------------------
(***************************************************************************)
(* Properties                                                              *)
(***************************************************************************)
TypeOK ==
    /\ bLockFlag \in [Lock -> BOOLEAN]
    /\ bAPICID \in [Lock -> Core \cup {NoAPICID}]
    /\ dwLockCount \in [Lock -> Nat]
    /\ bInterruptFlag \in [Lock -> BOOLEAN]
    /\ rflagsIF \in [Core -> BOOLEAN]
    /\ inIrq \in [Core -> BOOLEAN]
    /\ pc \in [Core -> [Level -> PC]]
    /\ arg \in [Core -> [Level -> Lock]]
    /\ saved \in [Core -> [Level -> BOOLEAN]]
    /\ hold \in [Core -> [Level -> [Lock -> Nat]]]
    /\ calls \in [Core -> [Level -> Nat]]
    /\ callerIF \in [Core -> [Level -> BOOLEAN]]

\* The code of level v on core c is between winning l and being told so, or
\* holds l.
Possesses(c, v, l) ==
    \/ hold[c][v][l] > 0
    \/ pc[c][v] \in Acquiring /\ arg[c][v] = l

\* At most one core possesses a lock, however its own handlers and the other
\* cores interleave with kLockForSpinLock and kUnlockForSpinLock.
MutualExclusion ==
    \A c, d \in Core, v, w \in Level, l \in Lock :
        Possesses(c, v, l) /\ Possesses(d, w, l) => c = d /\ v = w

\* A core that possesses a lock cannot be interrupted: kLockForSpinLock clears
\* IF first, and neither a nested nor a refused unlock sets it.
NoInterruptWhileHeld ==
    \A c \in Core, v \in Level, l \in Lock :
        Possesses(c, v, l) => ~rflagsIF[c]

\* When the outermost unlock has returned, the interrupt flag is the one its
\* caller had before the outermost lock, whatever nested in between.
InterruptFlagRestored ==
    \A c \in Core, v \in Level :
        Running(c, v) /\ pc[c][v] = "idle" /\ HoldsNothing(c, v)
            => rflagsIF[c] = callerIF[c][v]

\* Interrupts stay off from the first lock to the last unlock and come back as
\* they were.
InterruptsAreControlled == NoInterruptWhileHeld /\ InterruptFlagRestored

\* A core never spins on a lock that its own task code, its handler or the
\* call itself possesses: nobody could ever clear the flag.
NoSelfDeadlock ==
    \A c \in Core, v, w \in Level, l \in Lock :
        pc[c][v] \in {"checkOwner", "spin"} /\ arg[c][v] = l /\ Possesses(c, w, l)
            => v = w /\ pc[c][v] = "checkOwner" /\ bAPICID[l] = c

\* kLockForSpinLock and kUnlockForSpinLock implement the reentrant lock the
\* callers see: hold is the abstract depth, an unlock by another core does
\* nothing.
Depth(c, l) == hold[c]["task"][l] + hold[c]["irq"][l]
HeldBy(l) == {c \in Core : Depth(c, l) > 0}

Abstract == INSTANCE ReentrantLock WITH
    Owner <- Core, NoOwner <- NoAPICID,
    owner <- [l \in Lock |-> IF HeldBy(l) = {} THEN NoAPICID
                             ELSE CHOOSE c \in HeldBy(l) : TRUE],
    depth <- [l \in Lock |-> IF HeldBy(l) = {} THEN 0
                             ELSE Depth(CHOOSE c \in HeldBy(l) : TRUE, l)]

ImplementsReentrantLock == Abstract!Spec

\* A lock inside which no other is taken always becomes free again.
InnermostIsReleased ==
    \A l \in Lock : (\A m \in Lock : m <= l) =>
        (bLockFlag[l] ~> ~bLockFlag[l])

(***************************************************************************)
(* The inductive invariant behind the theorems of SpinLockProofs.          *)
(***************************************************************************)
Locking == {"tryLock", "checkOwner", "nest", "spin"} \cup Acquiring

\* Only the running level is inside a call, and a suspended or finished level
\* possesses nothing.
LevelInv ==
    \A c \in Core :
        /\ \A v \in Level : ~Running(c, v) => pc[c][v] = "idle" /\ HoldsNothing(c, v)
        /\ inIrq[c] => ~rflagsIF[c] /\ callerIF[c]["task"]
        /\ ~callerIF[c]["irq"]

\* Who owns l, and where a call that acquires or clears l stands.
OwnerAt(c, v, l) ==
    /\ Possesses(c, v, l) => bLockFlag[l]
    /\ bAPICID[l] = c /\ Running(c, v) =>
           hold[c][v][l] > 0 \/ (pc[c][v] = "saveIF" /\ arg[c][v] = l)
    /\ hold[c][v][l] > 0 =>
           \/ bAPICID[l] = c
           \/ pc[c][v] \in Clearing \ {"clearOwner"} /\ arg[c][v] = l
    /\ arg[c][v] = l =>
           /\ pc[c][v] = "saveIF" => bAPICID[l] = c
           /\ pc[c][v] \in Clearing \ {"clearOwner"} => bAPICID[l] # c
           /\ pc[c][v] = "nest" => bAPICID[l] = c /\ hold[c][v][l] > 0
           /\ pc[c][v] \in Acquiring \cup {"spin"} => hold[c][v][l] = 0

OwnerInv == \A c \in Core, v \in Level, l \in Lock : OwnerAt(c, v, l)

\* dwLockCount is the number of times the possessor holds the lock.
CountAt(c, v, l) ==
    /\ hold[c][v][l] > 0 =>
           \/ dwLockCount[l] = hold[c][v][l]
           \/ pc[c][v] \in {"clearIF", "clearFlag"} /\ arg[c][v] = l
    /\ arg[c][v] = l =>
           /\ pc[c][v] \in Clearing => hold[c][v][l] = 1
           /\ pc[c][v] \in {"setOwner", "saveIF"} => dwLockCount[l] = 1

CountInv == \A c \in Core, v \in Level, l \in Lock : CountAt(c, v, l)

\* Code that works on a lock holds none of a higher rank.
RankAt(c, v, m) ==
    /\ hold[c][v][m] > 0
    /\ \/ pc[c][v] \in Locking \cup Clearing
       \/ pc[c][v] = "checkUnlock" /\ hold[c][v][arg[c][v]] > 0
    => m <= arg[c][v]

RankInv == \A c \in Core, v \in Level, m \in Lock : RankAt(c, v, m)

\* No lock of a smaller rank is held: l is the outermost one.
Outermost(c, v, l) == \A m \in Lock : hold[c][v][m] > 0 => l <= m

\* What the interrupt flag of a core and its copy in a call in progress are.
FlagAt(c, v) ==
    /\ Running(c, v) =>
           (rflagsIF[c] <=> callerIF[c][v] /\ HoldsNothing(c, v) /\ pc[c][v] = "idle")
    /\ pc[c][v] \in (Locking \ {"nest"}) \cup {"checkUnlock", "restoreIF"} =>
           (saved[c][v] <=> callerIF[c][v] /\ HoldsNothing(c, v))
    /\ \A l \in Lock : pc[c][v] \in Clearing /\ arg[c][v] = l =>
           (saved[c][v] <=> callerIF[c][v] /\ Outermost(c, v, l))

FlagInv == \A c \in Core, v \in Level : FlagAt(c, v)

\* The copy in a lock: only the outermost one keeps the caller's flag.
KeptAt(c, v, l) ==
    hold[c][v][l] > 0 =>
        \/ bInterruptFlag[l] <=> callerIF[c][v] /\ Outermost(c, v, l)
        \/ pc[c][v] = "clearFlag" /\ arg[c][v] = l

KeptInv == \A c \in Core, v \in Level, l \in Lock : KeptAt(c, v, l)

IInv ==
    /\ TypeOK
    /\ LevelInv
    /\ MutualExclusion
    /\ OwnerInv
    /\ CountInv
    /\ RankInv
    /\ FlagInv
    /\ KeptInv
===============================================================================
