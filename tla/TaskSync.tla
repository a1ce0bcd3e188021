------------------------------- MODULE TaskSync -------------------------------
(***************************************************************************)
(* The mutex and the counting semaphore (02.Kernel64/Source/               *)
(* Synchronization.c).  Unlike the spin lock they are waited for by        *)
(* tasks: a task that does not get one calls kSchedule and tries again     *)
(* when it next runs.  Each access to the mutex, the semaphore or the      *)
(* scheduler is one action; the functions run with interrupts off, which   *)
(* keeps the tasks of the same core out but not those of another.          *)
(***************************************************************************)
EXTENDS Naturals

CONSTANTS
    Core,           \* local APIC IDs
    Task,           \* the tasks, by their ID
    TASK_INVALIDID,
    Start,          \* [Task -> Core]: where the tasks are at the start
    FirstRunning,   \* [Core -> Task]: what the cores run then
    MutexUser,      \* the tasks that use the mutex
    SemaphoreUser,  \* the tasks that use the semaphore
    LoadBalanced,   \* the tasks that have no affinity
    Moved,          \* the tasks kChangeProcessorAffinity is called for
    value,          \* what the semaphore is initialised with
    DWORD,          \* 2^32: a DWORD wraps around
    MaxDepth        \* bound: how deep a task nests the mutex

ASSUME StartAssumption ==
    /\ Start \in [Task -> Core]
    /\ FirstRunning \in [Core -> Task]
    /\ \A c \in Core : Start[FirstRunning[c]] = c
ASSUME InvalidAssumption == TASK_INVALIDID \notin Task
ASSUME ValueAssumption ==
    DWORD \in Nat /\ value \in 1 .. DWORD - 1    \* else -1 is returned

VARIABLES
    bLockFlag, dwLockCount, qwTaskID,   \* the MUTEX
    semCount,                           \* dwLockCount of the SEMAPHORE
    running,        \* running[c]: the running task of core c
    core,           \* core[t]: the core t runs on, or is ready on
    rflagsIF,       \* rflagsIF[t]: are interrupts on while t runs?
    pc,             \* where task t stands
    bCurrentAPICID, \* the variable of that name in kLockMutex
    count,          \* the semaphore's count as t has read it
    holds,          \* holds[t]: how often t has taken the mutex (for properties)
    taken           \* how often the semaphore is taken (for properties)

mutex == <<bLockFlag, dwLockCount, qwTaskID>>
schedule == <<running, core>>
ghosts == <<holds, taken>>
vars == <<mutex, semCount, schedule, rflagsIF, pc, bCurrentAPICID, count, ghosts>>

Label == {"idle", "return",
          "test", "owner", "nest", "again", "wait", "setCount", "setID",
          "flag", "check", "dec", "clearCount", "clearFlag",
          "semTest", "semWait", "semRead", "semWrite", "semFull", "semInc", "semStore"}

TypeOK ==
    /\ bLockFlag \in BOOLEAN
    /\ dwLockCount \in Nat
    /\ qwTaskID \in Task \cup {TASK_INVALIDID}
    /\ semCount \in 0 .. DWORD - 1
    /\ running \in [Core -> Task]
    /\ core \in [Task -> Core]
    /\ rflagsIF \in [Task -> BOOLEAN]
    /\ pc \in [Task -> Label]
    /\ bCurrentAPICID \in [Task -> Core]
    /\ count \in [Task -> 0 .. DWORD - 1]
    /\ holds \in [Task -> Nat] /\ taken \in Nat

\* kInitializeMutex and xInitializeSemaphore
Init ==
    /\ bLockFlag = FALSE /\ dwLockCount = 0 /\ qwTaskID = TASK_INVALIDID
    /\ semCount = value
    /\ running = FirstRunning /\ core = Start
    /\ rflagsIF = [t \in Task |-> TRUE]
    /\ pc = [t \in Task |-> "idle"]
    /\ bCurrentAPICID = Start
    /\ count = [t \in Task |-> 0]
    /\ holds = [t \in Task |-> 0] /\ taken = 0

(***************************************************************************)
(* The scheduler, as these functions see it (module Scheduler)             *)
(***************************************************************************)
Runs(t) == running[core[t]] = t
Goto(t, from, to) == Runs(t) /\ pc[t] = from /\ pc' = [pc EXCEPT ![t] = to]

\* kSchedule: the next task of the core runs.  When there is none it returns.
kSchedule(t, from, to) ==
    /\ Goto(t, from, to)
    /\ \E u \in Task : core[u] = core[t] /\ running' = [running EXCEPT ![core[t]] = u]
    /\ UNCHANGED <<mutex, semCount, core, rflagsIF, bCurrentAPICID, count, ghosts>>

\* The timer switches to another task and puts t into the ready list of some
\* core; a task with an affinity stays.
Preempt(t, c) ==
    /\ Runs(t) /\ rflagsIF[t]
    /\ c = core[t] \/ t \in LoadBalanced
    /\ \E u \in Task \ {t} :
         /\ core[u] = core[t]
         /\ running' = [running EXCEPT ![core[t]] = u]
    /\ core' = [core EXCEPT ![t] = c]
    /\ UNCHANGED <<mutex, semCount, rflagsIF, pc, bCurrentAPICID, count, ghosts>>

\* kChangeProcessorAffinity moves a task from one ready list to another,
\* whatever it is doing.
Move(t, c) ==
    /\ t \in Moved /\ ~Runs(t)
    /\ core' = [core EXCEPT ![t] = c]
    /\ UNCHANGED <<mutex, semCount, running, rflagsIF, pc, bCurrentAPICID, count,
                   ghosts>>

\* Mutant of Enter: interrupts stay on.
EnterInterruptible(t, to) ==
    /\ Goto(t, "idle", to)
    /\ UNCHANGED <<mutex, semCount, schedule, rflagsIF, count, ghosts>>

\* The functions begin and end with kSetInterruptFlag.
Enter(t, to) ==
    /\ Goto(t, "idle", to)
    /\ rflagsIF' = [rflagsIF EXCEPT ![t] = FALSE]
    /\ UNCHANGED <<mutex, semCount, schedule, count, ghosts>>
Return(t) ==
    /\ Goto(t, "return", "idle")
    /\ rflagsIF' = [rflagsIF EXCEPT ![t] = TRUE]
    /\ UNCHANGED <<mutex, semCount, schedule, bCurrentAPICID, count, ghosts>>

(***************************************************************************)
(* kLockMutex                                                              *)
(***************************************************************************)
kLockMutex(t) ==
    /\ t \in MutexUser /\ holds[t] < MaxDepth
    /\ Enter(t, "test")
    /\ bCurrentAPICID' = [bCurrentAPICID EXCEPT ![t] = core[t]]

kTestAndSet(t, from, failed) ==
    /\ Goto(t, from, IF bLockFlag THEN failed ELSE "setCount")
    /\ bLockFlag' = TRUE
    /\ UNCHANGED <<dwLockCount, qwTaskID, semCount, schedule, rflagsIF,
                   bCurrentAPICID, count, ghosts>>

\* Mutant of CheckOwner: a task that waits is taken for the owner.
CheckNoOwner(t) ==
    /\ Goto(t, "owner", "nest")
    /\ rflagsIF' = [rflagsIF EXCEPT ![t] = TRUE]
    /\ UNCHANGED <<mutex, semCount, schedule, bCurrentAPICID, count, ghosts>>

\* Is the owner the running task of the core read at the start?
CheckOwner(t) ==
    /\ Goto(t, "owner", IF qwTaskID = running[bCurrentAPICID[t]] THEN "nest" ELSE "again")
    /\ rflagsIF' = [rflagsIF EXCEPT
                      ![t] = qwTaskID = running[bCurrentAPICID[t]]]
    /\ UNCHANGED <<mutex, semCount, schedule, bCurrentAPICID, count, ghosts>>

\* The count is incremented after interrupts have been restored.
Nest(t) ==
    /\ Goto(t, "nest", "idle")
    /\ dwLockCount' = dwLockCount + 1
    /\ holds' = [holds EXCEPT ![t] = @ + 1]
    /\ UNCHANGED <<bLockFlag, qwTaskID, semCount, schedule, rflagsIF,
                   bCurrentAPICID, count, taken>>

SetCount(t) ==
    /\ Goto(t, "setCount", "setID")
    /\ dwLockCount' = 1
    /\ UNCHANGED <<bLockFlag, qwTaskID, semCount, schedule, rflagsIF,
                   bCurrentAPICID, count, ghosts>>

\* The owner is the running task of the core read at the start.
SetID(t) ==
    /\ Goto(t, "setID", "return")
    /\ qwTaskID' = running[bCurrentAPICID[t]]
    /\ holds' = [holds EXCEPT ![t] = 1]
    /\ UNCHANGED <<bLockFlag, dwLockCount, semCount, schedule, rflagsIF,
                   bCurrentAPICID, count, taken>>

(***************************************************************************)
(* kUnlockMutex                                                            *)
(***************************************************************************)
kUnlockMutex(t) ==
    /\ t \in MutexUser
    /\ Enter(t, "flag") /\ UNCHANGED bCurrentAPICID

CheckFlag(t) ==
    /\ Goto(t, "flag", IF bLockFlag THEN "check" ELSE "return")
    /\ UNCHANGED <<mutex, semCount, schedule, rflagsIF, bCurrentAPICID, count, ghosts>>

\* Mutant of CheckID: any task may unlock.
CheckNothing(t) ==
    /\ Goto(t, "check", "dec")
    /\ UNCHANGED <<mutex, semCount, schedule, rflagsIF, bCurrentAPICID, count, ghosts>>

\* Fail unless the owner is the running task of this core.
CheckID(t) ==
    /\ Goto(t, "check", IF qwTaskID = running[core[t]] THEN "dec" ELSE "return")
    /\ UNCHANGED <<mutex, semCount, schedule, rflagsIF, bCurrentAPICID, count, ghosts>>

Unnest(t) ==
    /\ dwLockCount > 1
    /\ Goto(t, "dec", "return")
    /\ dwLockCount' = dwLockCount - 1
    /\ holds' = [holds EXCEPT ![t] = @ - 1]
    /\ UNCHANGED <<bLockFlag, qwTaskID, semCount, schedule, rflagsIF,
                   bCurrentAPICID, count, taken>>

ClearID(t) ==
    /\ dwLockCount <= 1
    /\ Goto(t, "dec", "clearCount")
    /\ qwTaskID' = TASK_INVALIDID
    /\ holds' = [holds EXCEPT ![t] = 0]
    /\ UNCHANGED <<bLockFlag, dwLockCount, semCount, schedule, rflagsIF,
                   bCurrentAPICID, count, taken>>

\* Mutant of ClearCount: the flag is cleared too early.
ClearFlagFirst(t) ==
    /\ Goto(t, "clearCount", "clearFlag")
    /\ bLockFlag' = FALSE
    /\ UNCHANGED <<dwLockCount, qwTaskID, semCount, schedule, rflagsIF,
                   bCurrentAPICID, count, ghosts>>

ClearCount(t) ==
    /\ Goto(t, "clearCount", "clearFlag")
    /\ dwLockCount' = 0
    /\ UNCHANGED <<bLockFlag, qwTaskID, semCount, schedule, rflagsIF,
                   bCurrentAPICID, count, ghosts>>

\* The flag must come last.
ClearFlag(t) ==
    /\ Goto(t, "clearFlag", "return")
    /\ bLockFlag' = FALSE
    /\ UNCHANGED <<dwLockCount, qwTaskID, semCount, schedule, rflagsIF,
                   bCurrentAPICID, count, ghosts>>

(***************************************************************************)
(* xLockSemaphore: wait for a positive count, then decrement it            *)
(***************************************************************************)
xLockSemaphore(t) ==
    /\ t \in SemaphoreUser
    /\ Enter(t, "semTest") /\ UNCHANGED bCurrentAPICID

TestCount(t) ==
    /\ Goto(t, "semTest", IF semCount = 0 THEN "semWait" ELSE "semRead")
    /\ UNCHANGED <<mutex, semCount, schedule, rflagsIF, bCurrentAPICID, count, ghosts>>

\* dwLockCount-- and dwLockCount++ read, then write.
ReadCount(t, from, to) ==
    /\ Goto(t, from, to)
    /\ count' = [count EXCEPT ![t] = semCount]
    /\ UNCHANGED <<mutex, semCount, schedule, rflagsIF, bCurrentAPICID, ghosts>>

Decrement(t) ==
    /\ Goto(t, "semWrite", "return")
    /\ semCount' = (count[t] + DWORD - 1) % DWORD
    /\ taken' = taken + 1
    /\ UNCHANGED <<mutex, schedule, rflagsIF, bCurrentAPICID, count, holds>>

(***************************************************************************)
(* xUnlockSemaphore: -1 when the count is at its initial value             *)
(***************************************************************************)
xUnlockSemaphore(t) ==
    /\ t \in SemaphoreUser
    /\ Enter(t, "semFull") /\ UNCHANGED bCurrentAPICID

\* Mutant of TestFull: the initial value is no limit.
NeverFull(t) ==
    /\ Goto(t, "semFull", "semInc")
    /\ UNCHANGED <<mutex, semCount, schedule, rflagsIF, bCurrentAPICID, count, ghosts>>

TestFull(t) ==
    /\ Goto(t, "semFull", IF semCount < value THEN "semInc" ELSE "return")
    /\ UNCHANGED <<mutex, semCount, schedule, rflagsIF, bCurrentAPICID, count, ghosts>>

Increment(t) ==
    /\ Goto(t, "semStore", "return")
    /\ semCount' = (count[t] + 1) % DWORD
    /\ taken' = taken - 1
    /\ UNCHANGED <<mutex, schedule, rflagsIF, bCurrentAPICID, count, holds>>

(***************************************************************************)
(* The specification                                                       *)
(***************************************************************************)
LockMutex(t) ==
    \/ kLockMutex(t) \/ kTestAndSet(t, "test", "owner") \/ CheckOwner(t) \/ Nest(t)
    \/ kTestAndSet(t, "again", "wait") \/ kSchedule(t, "wait", "again")
    \/ SetCount(t) \/ SetID(t)

UnlockMutex(t) ==
    \/ kUnlockMutex(t) \/ CheckFlag(t) \/ CheckID(t) \/ Unnest(t)
    \/ ClearID(t) \/ ClearCount(t) \/ ClearFlag(t)

Semaphore(t) ==
    \/ xLockSemaphore(t) \/ TestCount(t) \/ kSchedule(t, "semWait", "semTest")
    \/ ReadCount(t, "semRead", "semWrite") \/ Decrement(t)
    \/ xUnlockSemaphore(t) \/ TestFull(t)
    \/ ReadCount(t, "semInc", "semStore") \/ Increment(t)

Next == \E t \in Task :
    \/ LockMutex(t) \/ UnlockMutex(t) \/ Semaphore(t) \/ Return(t)
    \/ \E c \in Core : Preempt(t, c) \/ Move(t, c)

Spec == Init /\ [][Next]_vars

(***************************************************************************)
(* Properties                                                              *)
(***************************************************************************)
\* The task that has taken the mutex is the one recorded in it, as often as it
\* took it, so that it (and no other task) can unlock it: "fail unless this is
\* the task that locked the mutex" (kUnlockMutex).
HolderIsOwner ==
    \A t \in Task : holds[t] > 0 => /\ bLockFlag
                                    /\ qwTaskID = t /\ dwLockCount = holds[t]

\* To its users the mutex is a reentrant lock: free, or taken n times by one
\* task, which must release it n times.
Holder == {t \in Task : holds[t] > 0}
Abstract == INSTANCE ReentrantLock WITH
    Owner <- Task, Lock <- {"mutex"}, NoOwner <- TASK_INVALIDID,
    owner <- [l \in {"mutex"} |-> IF Holder = {} THEN TASK_INVALIDID
                                  ELSE CHOOSE t \in Holder : TRUE],
    depth <- [l \in {"mutex"} |-> IF Holder = {} THEN 0
                                  ELSE holds[CHOOSE t \in Holder : TRUE]]
ImplementsReentrantLock == Abstract!Spec

\* The mutex is unlocked as a whole: whoever finds the flag clear finds no
\* owner and no count left over from the last one, and the next owner's are not
\* overwritten.
FreeMutexIsClear == ~bLockFlag => qwTaskID = TASK_INVALIDID /\ dwLockCount = 0

\* The semaphore is never taken more often than its initial value allows, and
\* every unlock gives back one count.
CountIsAccurate == semCount + taken = value
===============================================================================
