------------------------------ MODULE Scheduler -------------------------------
(***************************************************************************)
(* The task scheduler (02.Kernel64/Source/Task.c): a pool of task control  *)
(* blocks, and for every core the running task, ready lists by priority    *)
(* and a list of ended tasks that wait for the core's idle task to free    *)
(* them.  Tasks create, end, move and reprioritise tasks on any core, the  *)
(* timer preempts them, and preempted tasks are spread over the cores.     *)
(*                                                                         *)
(* A critical section under a scheduler's spin lock is one action (module  *)
(* SpinLock shows that it is exclusive and runs with interrupts off),      *)
(* unless it stores into a TCB that this lock does not protect: then the   *)
(* store is an action of its own, Mark, and the lock is held in between.   *)
(* So is each read made without a lock an action.  Everything between two  *)
(* actions may be interrupted and interleaves with the other cores.  The   *)
(* lists are sequences of TCBs; the flags of a TCB change in one step.     *)
(***************************************************************************)
EXTENDS Naturals, FiniteSets, SequencesExt

CONSTANTS
    Core,          \* local APIC IDs
    TCB,           \* the slots of the TCB pool
    NPriority,     \* TASK_MAXREADYLISTCOUNT
    WAIT,          \* TASK_FLAGS_WAIT, the priority of an ended task
    AnyCore,       \* TASK_LOADBALANCINGID, the affinity of a task without one
    None,          \* NULL
    Boot,          \* [TCB -> descr]: the tasks at the start, see Init
    BootRunning,   \* [Core -> TCB]: the task each core runs at the start
    May,           \* which tasks yield, exit and create tasks
    Asks,          \* which tasks ask to end, move or reprioritise which
    Priorities,    \* the priorities kChangePriority is asked for
    Affinities,    \* the affinities tasks are created with or moved to
    MaxCalls       \* bound: calls made in a behaviour

ASSUME DisjointAssumption == Core \cap TCB = {} /\ None \notin Core \cup TCB
ASSUME PriorityAssumption == NPriority \in Nat \ {0} /\ WAIT \notin 0 .. NPriority

Priority == 0 .. NPriority - 1

\* Every core has a task to start with, and tasks have a core and a priority.
ASSUME BootAssumption ==
    /\ IsFiniteSet(TCB) /\ BootRunning \in [Core -> TCB]
    /\ \A c \in Core : Boot[BootRunning[c]].used /\ Boot[BootRunning[c]].core = c
    /\ \A t \in TCB : /\ Boot[t].core \in Core /\ Boot[t].parent \in TCB
                      /\ Boot[t].priority \in Priority /\ Boot[t].process \in BOOLEAN
                      /\ Boot[t].affinity \in Core \cup {AnyCore}

\* Main and kInitializeScheduler give every core an idle task of its own, bound to
\* it.  Main's is a thread of the shell, and so has every thread its process.
IdleOf(c, t) == Boot[t].used /\ Boot[t].idle /\ Boot[t].core = c /\ Boot[t].affinity = c
ASSUME IdleAssumption == AnyCore \notin Core /\ \A c \in Core : \E t \in TCB : IdleOf(c, t)
ASSUME FamilyAssumption ==
    \A t \in TCB : Boot[t].used /\ ~Boot[t].process =>
        Boot[Boot[t].parent].used /\ Boot[Boot[t].parent].process

\* Callers name a core, or none, as affinity.
ASSUME CallAssumption == Affinities \subseteq Core \cup {AnyCore} /\ MaxCalls \in Nat

VARIABLES
    \* the TCB of each slot
    qwID,               \* upper half of the ID; 0: the slot is free
    bPriority, endTask, isProcess,                      \* qwFlags
    bAPICID, bAffinity, qwParentProcessID, stChildThreadList,
    \* the SCHEDULER of each core
    pstRunningTask, vstReadyList, stWaitList, viExecuteCount,
    \* the TCB pool manager
    iAllocatedCount, iUseCount,
    \* the processors
    executing,          \* executing[c]: whose registers core c has loaded
    pc, local,          \* where a task, or the handler of a core, stands
    calls,              \* calls made so far
    late                \* history: tasks that were changed late, when they were
                        \* neither running nor ready where they had been looked for

flags == <<bPriority, endTask, isProcess>>
links == <<qwParentProcessID, stChildThreadList>>
pool == <<qwID, iAllocatedCount, iUseCount>>
scheduler == <<pstRunningTask, vstReadyList, stWaitList, viExecuteCount>>
vars == <<pool, flags, links, bAPICID, bAffinity, scheduler, executing, pc,
          local, calls, late>>

Context == TCB \cup Core      \* task code, and the interrupt handler of a core

\* An ID names a slot and the use of it that it was given out for.
ID(t) == [slot |-> t, count |-> qwID[t]]
NoID == [slot |-> None, count |-> 0]
Names(id, t) == id.slot = t /\ id.count = qwID[t]

\* The local variables of the kernel function a context is in.
Blank == [op |-> "none", id |-> NoID, task |-> None, apic |-> None,
          arg |-> None, next |-> None, count |-> 0, ret |-> "run"]

\* Core c executes its handler while that runs, else a task.
Runs(c, x) == x = IF pc[c] = "none" THEN executing[c] ELSE c
At(c, x, label) == Runs(c, x) /\ pc[x] = label
Goto(x, label) == pc' = [pc EXCEPT ![x] = label]
Set(x, frame) == local' = [local EXCEPT ![x] = frame]
Return(x) == Goto(x, local[x].ret) /\ Set(x, Blank)

\* The lock of core d's scheduler can be taken: nobody is inside its critical
\* section.
Unlocked(d) == \A x \in TCB : ~(pc[x] = "mark" /\ local[x].apic = d)

\* Task x, in its own code, calls the kernel; op names another task's ID.
Call(c, x) ==
    /\ At(c, x, "run")
    /\ calls < MaxCalls
    /\ calls' = calls + 1
AskedOf(op, x) == {t \in TCB : <<x, t>> \in Asks[op] /\ qwID[t] # 0}

(***************************************************************************)
(* After kInitializeScheduler, kChangeToMultiCoreMode and the creation of  *)
(* the first tasks: every core runs its boot task, the other tasks of Boot *)
(* wait in their core's ready list.                                        *)
(***************************************************************************)
Used == {t \in TCB : Boot[t].used}

Init ==
    /\ qwID = [t \in TCB |-> IF t \in Used THEN 1 ELSE 0]
    /\ bPriority = [t \in TCB |-> Boot[t].priority]
    /\ endTask = [t \in TCB |-> FALSE]
    /\ isProcess = [t \in TCB |-> Boot[t].process]
    /\ bAPICID = [t \in TCB |-> Boot[t].core]
    /\ bAffinity = [t \in TCB |-> Boot[t].affinity]
    /\ qwParentProcessID =
         [t \in TCB |-> [slot |-> Boot[t].parent, count |-> 1]]
    /\ stChildThreadList =
         [t \in TCB |-> SetToSeq({u \in Used : Boot[u].parent = t
                                               /\ ~Boot[u].process})]
    /\ pstRunningTask = BootRunning
    /\ vstReadyList =
         [c \in Core |-> [p \in Priority |->
             SetToSeq({t \in Used : /\ Boot[t].core = c /\ Boot[t].priority = p
                                    /\ BootRunning[c] # t})]]
    /\ stWaitList = [c \in Core |-> <<>>]
    /\ viExecuteCount = [c \in Core |-> [p \in Priority |-> 0]]
    /\ iAllocatedCount = 2
    /\ iUseCount = Cardinality(Used)
    /\ executing = BootRunning
    /\ pc = [x \in Context |->
               IF x \in Core THEN "none" ELSE IF Boot[x].idle THEN "idle"
               ELSE IF Boot[x].used THEN "run" ELSE "stopped"]
    /\ local = [x \in Context |-> Blank]
    /\ calls = 0 /\ late = {}

(***************************************************************************)
(* The lists                                                               *)
(***************************************************************************)
\* kAddTaskToReadyList: a priority past the last list is not inserted.
kAddTaskToReadyList(lists, c, t) ==
    IF bPriority[t] \in Priority
    THEN [lists EXCEPT ![c][bPriority[t]] = Append(@, t)] ELSE lists
kAddTaskToWaitList(lists, c, t) ==
    IF bPriority[t] = WAIT THEN [lists EXCEPT ![c] = Append(@, t)] ELSE lists

\* kRemoveList: the link with this ID leaves the list, if it is there.  (The
\* code's search for one that is not there can run past the tail, into items
\* removed before; a sequence has nothing behind its tail.)
kRemoveList(list, t) ==
    IF Contains(list, t)
    THEN RemoveAt(list, CHOOSE i \in DOMAIN list : list[i] = t) ELSE list

\* kRemoveTaskFromReadyList looks in the list of the task's own priority.
InReadyList(c, id) ==
    /\ Names(id, id.slot)
    /\ bPriority[id.slot] \in Priority
    /\ Contains(vstReadyList[c][bPriority[id.slot]], id.slot)
RemoveNothing(c, t) == vstReadyList     \* a mutant: the link stays in the list
kRemoveTaskFromReadyList(c, t) ==
    [vstReadyList EXCEPT ![c][bPriority[t]] = kRemoveList(@, t)]

\* kGetNextTaskToRun: the highest priority whose list has not yet been served
\* as often as it has tasks; a served list yields to the lower ones.  When all
\* yield, the counts start over.
Least(S) == CHOOSE p \in S : \A q \in S : p <= q
Unserved(c) == {p \in Priority : viExecuteCount[c][p] < Len(vstReadyList[c][p])}
Waiting(c) == {p \in Priority : vstReadyList[c][p] # <<>>}
NextPriority(c) == IF Unserved(c) # {} THEN Least(Unserved(c)) ELSE Least(Waiting(c))
NoServedCount(c) == viExecuteCount[c]   \* a mutant: nothing is counted
ServedCount(c) ==
    LET n == NextPriority(c) IN
    IF Unserved(c) # {}
    THEN [p \in Priority |-> IF p < n THEN 0
                             ELSE viExecuteCount[c][p] + (IF p = n THEN 1 ELSE 0)]
    ELSE [p \in Priority |-> IF p \in Waiting(c) /\ p = n THEN 1 ELSE 0]
NextTask(c) == Head(vstReadyList[c][NextPriority(c)])

\* What kSchedule and kScheduleInInterrupt do first, under the lock of core c:
\* t becomes the running task, the counts are updated.
kGetNextTaskToRun(c, t) ==
    /\ Waiting(c) # {} /\ t = NextTask(c)
    /\ pstRunningTask' = [pstRunningTask EXCEPT ![c] = t]
    /\ viExecuteCount' = [viExecuteCount EXCEPT ![c] = ServedCount(c)]

\* Mutant of NoTaskToRun: no second round when every list has been served.
NoSecondRound(c) ==
    /\ Unserved(c) = {}
    /\ viExecuteCount' = [viExecuteCount EXCEPT ![c] = [p \in Priority |-> 0]]
    /\ UNCHANGED <<pstRunningTask, vstReadyList, stWaitList>>

\* ... and when there is none.
NoTaskToRun(c) ==
    /\ Waiting(c) = {}
    /\ viExecuteCount' = [viExecuteCount EXCEPT ![c] = ServedCount(c)]
    /\ UNCHANGED <<pstRunningTask, vstReadyList, stWaitList>>

NextStaysReady(c) == vstReadyList       \* a mutant: the next task is not removed
ReadyWithoutNext(c) == [vstReadyList EXCEPT ![c][NextPriority(c)] = Tail(@)]

(***************************************************************************)
(* kSchedule, called by task x on core c with interrupts off throughout    *)
(***************************************************************************)
\* kGetReadyTaskCount, a critical section of its own.
ScheduleCount(c, x) ==
    /\ At(c, x, "schedCount") /\ Unlocked(c)
    /\ IF Waiting(c) = {} THEN Return(x)
       ELSE Goto(x, "schedPick") /\ UNCHANGED local
    /\ UNCHANGED <<pool, flags, links, bAPICID, bAffinity, scheduler, executing,
                   calls, late>>

\* Choose the next task and put the running one into a list of this core.
SchedulePick(c, x) ==
    /\ At(c, x, "schedPick") /\ Unlocked(c)
    /\ \/ NoTaskToRun(c) /\ Return(x) /\ UNCHANGED late
       \/ \E t \in TCB :
            LET old == pstRunningTask[c] IN
            /\ kGetNextTaskToRun(c, t)
            /\ Set(x, [local[x] EXCEPT !.next = t])
            /\ IF endTask[old]
               THEN /\ stWaitList' = [stWaitList EXCEPT ![c] = Append(@, old)]
                    /\ vstReadyList' = ReadyWithoutNext(c)
                    /\ Goto(x, "switchNull") /\ UNCHANGED late
               ELSE /\ stWaitList' = kAddTaskToWaitList(stWaitList, c, old)
                    /\ vstReadyList' = kAddTaskToReadyList(ReadyWithoutNext(c), c, old)
                    /\ Goto(x, "switch") /\ late' = late \ {old}
    /\ UNCHANGED <<pool, flags, links, bAPICID, bAffinity, executing, calls>>

\* kSwitchContext, after the unlock: x continues from here when it runs again,
\* or never if its context was not saved.
SwitchContext(c, x) ==
    /\ Runs(c, x) /\ pc[x] \in {"switch", "switchNull"}
    /\ executing' = [executing EXCEPT ![c] = local[x].next]
    /\ Goto(x, IF pc[x] = "switch" THEN local[x].ret ELSE "stopped")
    /\ Set(x, Blank)
    /\ UNCHANGED <<pool, flags, links, bAPICID, bAffinity, scheduler, calls,
                   late>>

kSchedule(x, ret) == Goto(x, "schedCount") /\ Set(x, [Blank EXCEPT !.ret = ret])

Yield(c, x) ==
    /\ At(c, x, "run") /\ x \in May["yield"]
    /\ kSchedule(x, "run")
    /\ UNCHANGED <<pool, flags, links, bAPICID, bAffinity, scheduler, executing,
                   calls, late>>

(***************************************************************************)
(* kScheduleInInterrupt, in the timer's handler on core c                  *)
(***************************************************************************)
InterruptsOff == {"schedCount", "schedPick", "switch", "switchNull", "mark"}

kScheduleInInterrupt(c) ==
    /\ pc[c] = "none" /\ pc[executing[c]] \notin InterruptsOff /\ Unlocked(c)
    /\ \/ NoTaskToRun(c) /\ UNCHANGED <<pc, local>>
       \/ \E t \in TCB :
            LET old == pstRunningTask[c] IN
            /\ kGetNextTaskToRun(c, t)
            /\ vstReadyList' = ReadyWithoutNext(c)
            /\ stWaitList' = IF endTask[old]
                             THEN [stWaitList EXCEPT ![c] = Append(@, old)]
                             ELSE stWaitList
            /\ Set(c, [Blank EXCEPT !.next = t, !.ret = "iret",
                                    !.task = IF endTask[old] THEN None ELSE old])
            /\ pc' = [pc EXCEPT ![c] = IF endTask[old] THEN "iret" ELSE "preempted",
                                ![old] = IF endTask[old] THEN "stopped" ELSE @]
    /\ UNCHANGED <<pool, flags, links, bAPICID, bAffinity, executing, calls,
                   late>>

\* After the unlock the end flag is read once more: only a task that has not
\* ended is given back to a ready list.
Preempted(c) ==
    /\ At(c, c, "preempted")
    /\ IF endTask[local[c].task]
       THEN Goto(c, "iret") /\ Set(c, [local[c] EXCEPT !.task = None])
       ELSE Goto(c, "addTarget") /\ UNCHANGED local
    /\ UNCHANGED <<pool, flags, links, bAPICID, bAffinity, scheduler, executing,
                   calls, late>>

\* iretq loads the context of the next task.
InterruptReturn(c) ==
    /\ At(c, c, "iret")
    /\ executing' = [executing EXCEPT ![c] = local[c].next]
    /\ Goto(c, "none") /\ Set(c, Blank)
    /\ UNCHANGED <<pool, flags, links, bAPICID, bAffinity, scheduler, calls,
                   late>>

(***************************************************************************)
(* kAddTaskToSchedulerWithLoadBalancing(local[x].task)                     *)
(***************************************************************************)
\* kFindSchedulerOfMinumumTaskCount reads the other cores' lists unlocked: a
\* core with at least two tasks fewer at this priority, and the fewest.  The
\* priority of an ended task indexes past the lists and reads anything.
FewerTasks(t) ==
    {c \in Core \ {bAPICID[t]} :
        Len(vstReadyList[c][bPriority[t]]) + 2
            <= Len(vstReadyList[bAPICID[t]][bPriority[t]])}
MinimumTaskCount(t, c) ==
    \/ bPriority[t] \notin Priority /\ c \in Core
    \/ /\ bPriority[t] \in Priority
       /\ IF FewerTasks(t) = {} THEN c = bAPICID[t]
          ELSE /\ c \in FewerTasks(t)
               /\ \A d \in FewerTasks(t) : Len(vstReadyList[c][bPriority[t]])
                                           <= Len(vstReadyList[d][bPriority[t]])

\* Before the insertion the lock of the core that the task comes from is taken
\* and released once, to save its FPU registers (module Fpu).
AddTarget(c, x) ==
    LET t == local[x].task IN
    /\ At(c, x, "addTarget") /\ Unlocked(bAPICID[t])
    /\ \E d \in Core :
         /\ IF bAffinity[t] = AnyCore THEN MinimumTaskCount(t, d) ELSE d = bAffinity[t]
         /\ Set(x, [local[x] EXCEPT !.apic = d])
    /\ Goto(x, "addInsert")
    /\ UNCHANGED <<pool, flags, links, bAPICID, bAffinity, scheduler, executing,
                   calls, late>>

\* Mutant of AddInsert: the affinity is taken for the core's ID.
AddInsertAffinity(c, x) ==
    LET t == local[x].task  d == local[x].apic IN
    /\ At(c, x, "addInsert") /\ Unlocked(d)
    /\ bAPICID' = [bAPICID EXCEPT ![t] = bAffinity[t]]
    /\ vstReadyList' = kAddTaskToReadyList(vstReadyList, d, t)
    /\ stWaitList' = kAddTaskToWaitList(stWaitList, d, t)
    /\ late' = late \ {t}
    /\ IF x \in Core THEN Goto(x, "iret") /\ Set(x, [local[x] EXCEPT !.task = None])
                     ELSE Return(x)
    /\ UNCHANGED <<pool, flags, links, bAffinity, pstRunningTask, viExecuteCount,
                   executing, calls>>

\* Mutant of AddInsert: the task keeps the ID of the core it comes from.
AddInsertOldCore(c, x) ==
    LET t == local[x].task  d == local[x].apic IN
    /\ At(c, x, "addInsert") /\ Unlocked(d)
    /\ vstReadyList' = kAddTaskToReadyList(vstReadyList, d, t)
    /\ stWaitList' = kAddTaskToWaitList(stWaitList, d, t)
    /\ late' = late \ {t}
    /\ IF x \in Core THEN Goto(x, "iret") /\ Set(x, [local[x] EXCEPT !.task = None])
                     ELSE Return(x)
    /\ UNCHANGED <<pool, flags, links, bAPICID, bAffinity, pstRunningTask,
                   viExecuteCount, executing, calls>>

AddInsert(c, x) ==
    LET t == local[x].task  d == local[x].apic IN
    /\ At(c, x, "addInsert") /\ Unlocked(d)
    /\ bAPICID' = [bAPICID EXCEPT ![t] = d]
    /\ vstReadyList' = kAddTaskToReadyList(vstReadyList, d, t)
    /\ stWaitList' = kAddTaskToWaitList(stWaitList, d, t)
    /\ late' = late \ {t}
    /\ IF x \in Core THEN Goto(x, "iret") /\ Set(x, [local[x] EXCEPT !.task = None])
                     ELSE Return(x)
    /\ UNCHANGED <<pool, flags, links, bAffinity, pstRunningTask, viExecuteCount,
                   executing, calls>>

(***************************************************************************)
(* kFindSchedulerOfTaskAndLock and the calls that begin with it            *)
(***************************************************************************)
Begin(x, op, id, arg) ==
    /\ Goto(x, "find")
    /\ Set(x, [Blank EXCEPT !.op = op, !.id = id, !.arg = arg])

kEndTask(c, x) ==
    /\ Call(c, x)
    /\ \E t \in AskedOf("end", x) : Begin(x, "end", ID(t), None)
    /\ UNCHANGED <<pool, flags, links, bAPICID, bAffinity, scheduler, executing,
                   late>>

kChangePriority(c, x) ==
    /\ Call(c, x)
    /\ \E t \in AskedOf("priority", x), p \in Priorities :
         p <= NPriority /\ Begin(x, "priority", ID(t), p)
    /\ UNCHANGED <<pool, flags, links, bAPICID, bAffinity, scheduler, executing,
                   late>>

kChangeProcessorAffinity(c, x) ==
    /\ Call(c, x)
    /\ \E t \in AskedOf("affinity", x), a \in Affinities :
         Begin(x, "affinity", ID(t), a)
    /\ UNCHANGED <<pool, flags, links, bAPICID, bAffinity, scheduler, executing,
                   late>>

\* kExitTask reads its core, then that core's running task, without a lock.
kExitTask(c, x) ==
    /\ Call(c, x) /\ x \in May["exit"]
    /\ Goto(x, "exit") /\ Set(x, [Blank EXCEPT !.apic = c])
    /\ UNCHANGED <<pool, flags, links, bAPICID, bAffinity, scheduler, executing,
                   late>>

ExitRead(c, x) ==
    /\ At(c, x, "exit")
    /\ Begin(x, "end", ID(pstRunningTask[local[x].apic]), None)
    /\ UNCHANGED <<pool, flags, links, bAPICID, bAffinity, scheduler, executing,
                   calls, late>>

\* Which core is the task on?  (No lock yet.)
Find(c, x) ==
    LET id == local[x].id IN
    /\ At(c, x, "find")
    /\ IF Names(id, id.slot)
       THEN Goto(x, "lock") /\ Set(x, [local[x] EXCEPT !.apic = bAPICID[id.slot]])
       ELSE IF local[x].op = "unlink" THEN Goto(x, "free") /\ UNCHANGED local
       ELSE IF local[x].op = "endChild" THEN Goto(x, "kids") /\ UNCHANGED local
       ELSE Return(x)
    /\ UNCHANGED <<pool, flags, links, bAPICID, bAffinity, scheduler, executing,
                   calls, late>>

\* The lock of that core is taken, but the task has moved: look again.
Moved(c, x) ==
    /\ At(c, x, "lock") /\ Unlocked(local[x].apic)
    /\ bAPICID[local[x].id.slot] # local[x].apic
    /\ Goto(x, "find")
    /\ UNCHANGED <<pool, flags, links, bAPICID, bAffinity, scheduler, executing,
                   local, calls, late>>

\* Mutant of Locked: the core is not looked at again.
LockedUnchecked(c, x, op) ==
    At(c, x, "lock") /\ Unlocked(local[x].apic) /\ local[x].op \in op

Locked(c, x, op) ==
    /\ At(c, x, "lock") /\ Unlocked(local[x].apic) /\ local[x].op \in op
    /\ bAPICID[local[x].id.slot] = local[x].apic

\* Is the task the running one of the locked core?
IsRunning(x) == Names(local[x].id, pstRunningTask[local[x].apic])
IsReady(x) == ~IsRunning(x) /\ InReadyList(local[x].apic, local[x].id)

\* It is neither: it is on its way from this core to another, or not inserted yet,
\* or has ended.  What is stored next is stored without its lock.
Elsewhere(c, x) ==
    /\ Locked(c, x, {"end", "endChild", "priority", "affinity"})
    /\ ~IsRunning(x) /\ ~IsReady(x)
    /\ Goto(x, "mark")
    /\ UNCHANGED <<pool, flags, links, bAPICID, bAffinity, scheduler, executing,
                   local, calls, late>>

SetEndTask(t) ==
    /\ endTask' = [endTask EXCEPT ![t] = TRUE]
    /\ bPriority' = [bPriority EXCEPT ![t] = WAIT]
    /\ UNCHANGED isProcess

\* kEndTask: a running task is only marked, a ready one goes to the wait list.
EndLocked(c, x) ==
    LET t == local[x].id.slot  d == local[x].apic IN
    /\ Locked(c, x, {"end", "endChild"})
    /\ SetEndTask(t)
    /\ \/ /\ IsRunning(x)
          /\ Goto(x, "endSelf") /\ UNCHANGED <<vstReadyList, stWaitList, local>>
       \/ /\ IsReady(x)
          /\ vstReadyList' = kRemoveTaskFromReadyList(d, t)
          /\ stWaitList' = [stWaitList EXCEPT ![d] = Append(@, t)]
          /\ IF local[x].op = "endChild" THEN Goto(x, "kids") /\ UNCHANGED local
             ELSE Return(x)
    /\ UNCHANGED <<pool, links, bAPICID, bAffinity, pstRunningTask,
                   viExecuteCount, executing, calls, late>>

\* ... and any other is marked wherever it is by now (its slot is, whoever uses
\* it).
MarkEnd(c, x) ==
    LET t == local[x].id.slot IN
    /\ At(c, x, "mark") /\ local[x].op \in {"end", "endChild"}
    /\ SetEndTask(t)
    /\ late' = IF endTask[t] THEN late ELSE late \cup {t}
    /\ IF local[x].op = "endChild" THEN Goto(x, "kids") /\ UNCHANGED local
       ELSE Return(x)
    /\ UNCHANGED <<pool, links, bAPICID, bAffinity, scheduler, executing, calls>>

\* After the unlock: on the core whose running task was marked, switch away
\* and never come back.
EndSelf(c, x) ==
    /\ At(c, x, "endSelf")
    /\ IF local[x].apic = c
       THEN Goto(x, "schedCount") /\ Set(x, [local[x] EXCEPT !.ret = "dead"])
       ELSE IF local[x].op = "endChild" THEN Goto(x, "kids") /\ UNCHANGED local
       ELSE Return(x)
    /\ UNCHANGED <<pool, flags, links, bAPICID, bAffinity, scheduler, executing,
                   calls, late>>

PriorityLocked(c, x) ==
    LET t == local[x].id.slot  d == local[x].apic  p == local[x].arg IN
    /\ Locked(c, x, {"priority"})
    /\ bPriority' = [bPriority EXCEPT ![t] = p]
    /\ \/ IsRunning(x) /\ UNCHANGED <<vstReadyList, late>>
       \/ /\ IsReady(x)
          /\ LET rest == kRemoveTaskFromReadyList(d, t) IN
             vstReadyList' = IF p \in Priority THEN [rest EXCEPT ![d][p] = Append(@, t)]
                             ELSE rest
          /\ late' = late \ {t}
    /\ Return(x)
    /\ UNCHANGED <<pool, endTask, isProcess, links, bAPICID, bAffinity,
                   pstRunningTask, stWaitList, viExecuteCount, executing, calls>>

MarkPriority(c, x) ==
    LET t == local[x].id.slot IN
    /\ At(c, x, "mark") /\ local[x].op = "priority"
    /\ bPriority' = [bPriority EXCEPT ![t] = local[x].arg]
    /\ late' = IF bAPICID[t] = local[x].apic THEN late ELSE late \cup {t}
    /\ Return(x)
    /\ UNCHANGED <<pool, endTask, isProcess, links, bAPICID, bAffinity, scheduler,
                   executing, calls>>

\* Any task but the running one is then added to a scheduler.
AffinityLocked(c, x) ==
    LET t == local[x].id.slot  d == local[x].apic IN
    /\ Locked(c, x, {"affinity"})
    /\ bAffinity' = [bAffinity EXCEPT ![t] = local[x].arg]
    /\ \/ IsRunning(x) /\ Return(x) /\ UNCHANGED vstReadyList
       \/ /\ IsReady(x)
          /\ vstReadyList' = kRemoveTaskFromReadyList(d, t)
          /\ Goto(x, "addTarget") /\ Set(x, [Blank EXCEPT !.task = t])
    /\ UNCHANGED <<pool, flags, links, bAPICID, pstRunningTask, stWaitList,
                   viExecuteCount, executing, calls, late>>

MarkAffinity(c, x) ==
    LET t == local[x].id.slot IN
    /\ At(c, x, "mark") /\ local[x].op = "affinity"
    /\ bAffinity' = [bAffinity EXCEPT ![t] = local[x].arg]
    /\ Goto(x, "addTarget") /\ Set(x, [Blank EXCEPT !.task = t])
    /\ UNCHANGED <<pool, flags, links, bAPICID, scheduler, executing, calls, late>>

Mark(c, x) ==
    IF local[x].op = "priority" THEN MarkPriority(c, x)
    ELSE IF local[x].op = "affinity" THEN MarkAffinity(c, x)
    ELSE MarkEnd(c, x)

(***************************************************************************)
(* The TCB pool and kCreateTask                                            *)
(***************************************************************************)
\* kFreeTCB.  The context of the TCB is cleared: for a TCB that never ran it
\* is clear already.
kFreeTCB(t) ==
    /\ qwID' = [qwID EXCEPT ![t] = 0]
    /\ iUseCount' = iUseCount - 1
    /\ UNCHANGED iAllocatedCount

\* kAllocateTCB.  The local core ID of the creator is read here, for good.
CreateTask(c, x) ==
    /\ Call(c, x) /\ x \in May["create"]
    /\ iUseCount # Cardinality(TCB)
    /\ \E t \in TCB, thread \in BOOLEAN, a \in Affinities :
         /\ qwID[t] = 0
         /\ qwID' = [qwID EXCEPT ![t] = iAllocatedCount]
         /\ Set(x, [Blank EXCEPT !.op = IF thread THEN "thread" ELSE "process",
                                 !.task = t, !.apic = c, !.arg = a])
    /\ iUseCount' = iUseCount + 1
    /\ iAllocatedCount' = iAllocatedCount + 1
    /\ Goto(x, "stack")
    /\ UNCHANGED <<flags, links, bAPICID, bAffinity, scheduler, executing,
                   late>>

\* The variable tested after the stack's allocation was never assigned.
CreateStack(c, x) ==
    /\ At(c, x, "stack")
    /\ \/ Goto(x, "link") /\ UNCHANGED <<pool, local>>
       \/ kFreeTCB(local[x].task) /\ Return(x)
    /\ UNCHANGED <<flags, links, bAPICID, bAffinity, scheduler, executing,
                   calls, late>>

\* kGetProcessByThread
ProcessOf(t) ==
    IF isProcess[t] THEN t
    ELSE LET id == qwParentProcessID[t] IN
         IF Names(id, id.slot) THEN id.slot ELSE None

\* Mutant of CreateLink: a thread is not added to its process.
CreateUnlinked(c, x) ==
    LET t == local[x].task  p == ProcessOf(pstRunningTask[local[x].apic]) IN
    /\ At(c, x, "link") /\ Unlocked(local[x].apic)
    /\ p # None
    /\ qwParentProcessID' = [qwParentProcessID EXCEPT ![t] = ID(p)]
    /\ Goto(x, "setUp")
    /\ UNCHANGED <<pool, flags, stChildThreadList, bAPICID, bAffinity,
                   scheduler, executing, local, calls, late>>

\* Under the lock of the core read at the start: the process of the task that
\* runs there becomes the parent.
CreateLink(c, x) ==
    LET t == local[x].task  p == ProcessOf(pstRunningTask[local[x].apic]) IN
    /\ At(c, x, "link") /\ Unlocked(local[x].apic)
    /\ \/ p = None /\ kFreeTCB(t) /\ Return(x) /\ UNCHANGED links
       \/ /\ p # None
          /\ qwParentProcessID' = [qwParentProcessID EXCEPT ![t] = ID(p)]
          /\ stChildThreadList' = IF local[x].op = "thread"
                                  THEN [stChildThreadList EXCEPT ![p] = Append(@, t)]
                                  ELSE stChildThreadList
          /\ Goto(x, "setUp") /\ UNCHANGED <<pool, local>>
    /\ UNCHANGED <<flags, bAPICID, bAffinity, scheduler, executing, calls,
                   late>>

\* kSetUpTask and the fields set after it, without a lock.
CreateSetUp(c, x) ==
    LET t == local[x].task IN
    /\ At(c, x, "setUp")
    /\ \E p \in Priorities \cap Priority : bPriority' = [bPriority EXCEPT ![t] = p]
    /\ endTask' = [endTask EXCEPT ![t] = FALSE]
    /\ isProcess' = [isProcess EXCEPT ![t] = local[x].op = "process"]
    /\ stChildThreadList' = [stChildThreadList EXCEPT ![t] = <<>>]
    /\ bAPICID' = [bAPICID EXCEPT ![t] = local[x].apic]
    /\ bAffinity' = [bAffinity EXCEPT ![t] = local[x].arg]
    /\ pc' = [pc EXCEPT ![x] = "addTarget", ![t] = "run"]
    /\ local' = [local EXCEPT ![x] = [Blank EXCEPT !.task = t], ![t] = Blank]
    /\ UNCHANGED <<pool, qwParentProcessID, scheduler, executing, calls, late>>

(***************************************************************************)
(* kIdleTask: task x, which its core c runs when nothing else is ready     *)
(***************************************************************************)
\* Anything to free?  (No lock.)
Idle(c, x) ==
    /\ At(c, x, "idle")
    /\ IF stWaitList[c] = <<>> THEN kSchedule(x, "idle")
       ELSE Goto(x, "take") /\ UNCHANGED local
    /\ UNCHANGED <<pool, flags, links, bAPICID, bAffinity, scheduler, executing,
                   calls, late>>

IdleTake(c, x) ==
    /\ At(c, x, "take") /\ Unlocked(c)
    /\ IF stWaitList[c] = <<>> THEN kSchedule(x, "idle") /\ UNCHANGED stWaitList
       ELSE LET t == Head(stWaitList[c])
                n == Len(stChildThreadList[t])
            IN /\ stWaitList' = [stWaitList EXCEPT ![c] = Tail(@)]
               /\ Set(x, [Blank EXCEPT !.task = t, !.count = n])
               /\ Goto(x, IF isProcess[t] THEN "kids" ELSE "unlink")
    /\ UNCHANGED <<pool, flags, links, bAPICID, bAffinity, pstRunningTask,
                   vstReadyList, viExecuteCount, executing, calls, late>>

\* A process: end each child thread, which stays in the child list until it is
\* freed itself.
IdleEndChild(c, x) ==
    LET p == local[x].task  kids == stChildThreadList[p] IN
    /\ At(c, x, "kids") /\ local[x].count > 0 /\ Unlocked(c)
    /\ IF kids = <<>>
       THEN Set(x, [local[x] EXCEPT !.count = 0]) /\ UNCHANGED <<pc, stChildThreadList>>
       ELSE /\ stChildThreadList' = [stChildThreadList EXCEPT ![p] =
                                       Append(Tail(@), Head(@))]
            /\ Goto(x, "find")
            /\ Set(x, [local[x] EXCEPT !.op = "endChild", !.id = ID(Head(kids)),
                                       !.count = @ - 1])
    /\ UNCHANGED <<pool, flags, qwParentProcessID, bAPICID, bAffinity,
                   scheduler, executing, calls, late>>

\* It is freed once it has no children; until then it goes back to the list.
IdleProcess(c, x) ==
    LET p == local[x].task IN
    /\ At(c, x, "kids") /\ local[x].count = 0
    /\ IF stChildThreadList[p] = <<>>
       THEN Goto(x, "free") /\ UNCHANGED <<local, stWaitList>>
       ELSE /\ Unlocked(c)
            /\ stWaitList' = [stWaitList EXCEPT ![c] = Append(@, p)]
            /\ Goto(x, "take") /\ Set(x, Blank)
    /\ UNCHANGED <<pool, flags, links, bAPICID, bAffinity, pstRunningTask,
                   vstReadyList, viExecuteCount, executing, calls, late>>

\* A thread: leave the child list of its process, if that still exists.
IdleThread(c, x) ==
    LET p == ProcessOf(local[x].task) IN
    /\ At(c, x, "unlink")
    /\ IF p = None THEN Goto(x, "free") /\ UNCHANGED local
       ELSE /\ Goto(x, "find")
            /\ Set(x, [local[x] EXCEPT !.op = "unlink", !.id = ID(p)])
    /\ UNCHANGED <<pool, flags, links, bAPICID, bAffinity, scheduler, executing,
                   calls, late>>

\* Mutant of UnlinkLocked: the thread stays in the child list.
UnlinkNothing(c, x) ==
    /\ Locked(c, x, {"unlink"})
    /\ Goto(x, "free")
    /\ UNCHANGED <<pool, flags, links, bAPICID, bAffinity, scheduler, executing,
                   local, calls, late>>

UnlinkLocked(c, x) ==
    /\ Locked(c, x, {"unlink"})
    /\ stChildThreadList' = [stChildThreadList EXCEPT ![local[x].id.slot] =
                               kRemoveList(@, local[x].task)]
    /\ Goto(x, "free")
    /\ UNCHANGED <<pool, flags, qwParentProcessID, bAPICID, bAffinity,
                   scheduler, executing, local, calls, late>>

IdleFree(c, x) ==
    /\ At(c, x, "free")
    /\ LET t == local[x].task IN
         /\ kFreeTCB(t)
         /\ pc' = [pc EXCEPT ![x] = "take", ![t] = "stopped"]
         /\ local' = [local EXCEPT ![x] = Blank, ![t] = Blank]
    /\ UNCHANGED <<flags, links, bAPICID, bAffinity, scheduler, executing,
                   calls, late>>

(***************************************************************************)
(* The specification                                                       *)
(***************************************************************************)
Handler(c) ==
    Preempted(c) \/ AddTarget(c, c) \/ AddInsert(c, c) \/ InterruptReturn(c)

\* A step of the kernel function task x is in.
Kernel(c, x) ==
    \/ ScheduleCount(c, x) \/ SchedulePick(c, x) \/ SwitchContext(c, x)
    \/ Find(c, x) \/ Moved(c, x) \/ Elsewhere(c, x)
    \/ EndLocked(c, x) \/ EndSelf(c, x) \/ PriorityLocked(c, x)
    \/ AffinityLocked(c, x) \/ Mark(c, x)
    \/ AddTarget(c, x) \/ AddInsert(c, x) \/ ExitRead(c, x)
    \/ CreateStack(c, x) \/ CreateLink(c, x) \/ CreateSetUp(c, x)
    \/ Idle(c, x) \/ IdleTake(c, x) \/ IdleEndChild(c, x) \/ IdleProcess(c, x)
    \/ IdleThread(c, x) \/ UnlinkLocked(c, x) \/ IdleFree(c, x)

\* Task x calls the kernel.
UserCall(c, x) ==
    \/ Yield(c, x) \/ kExitTask(c, x) \/ CreateTask(c, x)
    \/ kEndTask(c, x) \/ kChangePriority(c, x) \/ kChangeProcessorAffinity(c, x)

Next == \E c \in Core :
    \/ kScheduleInInterrupt(c)
    \/ Handler(c)
    \/ \E x \in TCB : Kernel(c, x) \/ UserCall(c, x)

Spec == Init /\ [][Next]_vars

\* A handler runs to its end.  A timer interrupt that comes while a core has
\* interrupts off is delivered when they are on again, and comes again and
\* again: strong fairness.  So does the processor time a task gets: a task that
\* is loaded again and again executes its next instruction in the end.  No
\* fairness is assumed of the calls a task makes.
Fairness ==
    /\ \A c \in Core : WF_vars(Handler(c)) /\ SF_vars(kScheduleInInterrupt(c))
    /\ \A x \in TCB : SF_vars(\E c \in Core : Kernel(c, x))

FairSpec == Spec /\ Fairness

(***************************************************************************)
(* Properties                                                              *)
(***************************************************************************)
Label == {"none", "run", "idle", "dead", "stopped", "schedCount", "schedPick",
          "switch", "switchNull", "preempted", "iret", "addTarget", "addInsert",
          "exit", "find", "lock", "mark", "endSelf", "stack", "link", "setUp", "take",
          "kids", "unlink", "free"}
IDs == [slot : TCB \cup {None}, count : Nat]

\* Every variable of the kernel has its type; in particular every core runs a
\* task of the pool, and a list holds a task of the pool at most once.
TypeOK ==
    /\ qwID \in [TCB -> Nat]
    /\ bPriority \in [TCB -> 0 .. NPriority \cup {WAIT}]
    /\ endTask \in [TCB -> BOOLEAN]
    /\ isProcess \in [TCB -> BOOLEAN]
    /\ bAPICID \in [TCB -> Core]
    /\ bAffinity \in [TCB -> Core \cup {AnyCore}]
    /\ qwParentProcessID \in [TCB -> IDs]
    /\ \A t \in TCB : IsInjective(stChildThreadList[t])
    /\ pstRunningTask \in [Core -> TCB]
    /\ \A c \in Core, p \in Priority : Range(vstReadyList[c][p]) \subseteq TCB
    /\ \A c \in Core : Range(stWaitList[c]) \subseteq TCB
    /\ viExecuteCount \in [Core -> [Priority -> Nat]]
    /\ iAllocatedCount \in Nat /\ iUseCount \in Nat
    /\ executing \in [Core -> TCB]
    /\ pc \in [Context -> Label]
    /\ calls \in 0 .. MaxCalls /\ late \subseteq TCB

\* Where task t is: it runs on a core, is in a ready list or a wait list (once
\* for each time it is in), or some context is working on it outside the lists.
RunPlaces(t) == {<<"run", c>> : c \in {d \in Core : pstRunningTask[d] = t}}
ReadyPlaces(t) ==
    UNION {UNION {{<<"ready", c, p, i>> : i \in {j \in DOMAIN vstReadyList[c][p] :
                       vstReadyList[c][p][j] = t}} : p \in Priority} : c \in Core}
WaitPlaces(t) ==
    UNION {{<<"wait", c, i>> : i \in {j \in DOMAIN stWaitList[c] : stWaitList[c][j] = t}}
           : c \in Core}
HeldPlaces(t) == {<<"held", x>> : x \in {y \in Context : local[y].task = t}}
Places(t) == RunPlaces(t) \cup ReadyPlaces(t) \cup WaitPlaces(t) \cup HeldPlaces(t)

\* No task is lost and none is in two lists (or twice in one): from
\* kAllocateTCB to kFreeTCB a task is always in exactly one place, and a free
\* TCB is in none.  Except for a task that another core ends late, when the handler
\* has taken it from its core and not yet looked at the flag again: the handler
\* leaves it, and nobody frees it.
NoTaskLostOrDoubled ==
    \A t \in TCB :
        \/ Cardinality(Places(t)) = IF qwID[t] = 0 THEN 0 ELSE 1
        \/ t \in late /\ endTask[t] /\ Places(t) = {}

\* Two cores never execute one task: what kSchedule, kScheduleInInterrupt and
\* kAddTaskToSchedulerWithLoadBalancing do after an unlock never lets another
\* core load a context that is in use.
OneCoreExecutes ==
    \A c, d \in Core : c # d /\ pc[c] = "none" /\ pc[d] = "none"
                       => executing[c] # executing[d]

\* Outside a switch a core's scheduler knows what the core executes, and the
\* task carries that core's ID, by which kFindSchedulerOfTaskAndLock finds it.
RunningTaskIsKnown ==
    \A c \in Core :
        /\ bAPICID[pstRunningTask[c]] = c
        /\ pc[c] = "none" /\ pc[executing[c]] \notin {"switch", "switchNull"}
           => pstRunningTask[c] = executing[c]

\* kEndTask and kChangePriority find a ready task by the core ID and the
\* priority in its TCB: it is in the list these name, and it has not ended.
\* Except for a task that was changed, under the lock of the core it came from,
\* while it was being inserted: until it runs next it is in the list of one priority
\* and its TCB names the other, or it has ended and is still ready.
ReadyListsConsistent ==
    \A c \in Core, p \in Priority : \A t \in Range(vstReadyList[c][p]) :
        bAPICID[t] = c /\ (t \in late \/ (~endTask[t] /\ bPriority[t] = p))

\* The idle task frees the TCB and the stack of a task in a wait list, so such
\* a task has stopped for good, or is just being switched from on that core, which
\* executes no idle task until then.
WaitingTaskHasStopped ==
    \A c, d \in Core : \A t \in Range(stWaitList[c]) :
        /\ endTask[t]
        /\ pc[d] = "none" /\ executing[d] = t
           => c = d /\ pc[t] \in {"switch", "switchNull"}

\* What cores execute: never one task twice, never a task unknown to the core's
\* scheduler, never one that waits to be freed.
ExecutionIsConsistent == OneCoreExecutes /\ RunningTaskIsKnown /\ WaitingTaskHasStopped

\* The idle task never frees a task that a core executes or will load.
NoFreedTaskExecutes ==
    \A c \in Core : /\ qwID[pstRunningTask[c]] # 0
                    /\ pc[c] = "none" => qwID[executing[c]] # 0

\* Only living tasks are in a child list, and they name its owner as their
\* process: a process is not freed before its threads.
ChildListsConsistent ==
    \A p \in TCB : \A t \in Range(stChildThreadList[p]) :
        qwID[p] # 0 /\ qwID[t] # 0 /\ qwParentProcessID[t] = ID(p)

\* A thread that runs, or is ready to, has its process, whose memory it uses,
\* and is in its child list, so that it ends with the process.
ThreadHasItsProcess ==
    \A t \in TCB :
        /\ ~isProcess[t]
        /\ \E c \in Core : \/ pstRunningTask[c] = t
                           \/ \E p \in Priority : Contains(vstReadyList[c][p], t)
        => \E p \in TCB : /\ qwParentProcessID[t] = ID(p) /\ qwID[p] # 0
                          /\ Contains(stChildThreadList[p], t)

\* Processes and threads: neither does a process go before its threads, nor is a
\* thread left without its process.
FamilyIsConsistent == ChildListsConsistent /\ ThreadHasItsProcess

\* kExitTask ends the task that calls it and no other.
ExitEndsItself ==
    \A c \in Core, x \in May["exit"] :
        Runs(c, x) /\ pc[x] \in {"find", "lock"} => local[x].id = ID(x)

\* A task that has ended does not get to the loop at the end of kEndTask.
NoEndedTaskLoops == \A x \in TCB : pc[x] = "dead" => ~endTask[x]

\* A task that has ended never comes back: no core executes or will load it once it
\* has been freed, and until then it does not get into that loop, which its TCB and
\* stack would never leave.  (A task that ends another may: see Task.c:804.)
EndedTaskNeverRuns == NoFreedTaskExecutes /\ NoEndedTaskLoops

\* No starvation: whatever the priorities, every ready task runs in the end (or
\* is ended), because a list that has been served yields to the lower ones.
Ready(t) == \E c \in Core, p \in Priority : Contains(vstReadyList[c][p], t)
Loaded(t) == \E c \in Core : executing[c] = t /\ pc[c] = "none"
ReadyTaskRuns == \A t \in TCB : Ready(t) ~> (Loaded(t) \/ endTask[t])

\* The idle task frees every task that has ended, processes after their threads.
\* (A TCB that is given out again keeps its old flags until CreateSetUp.)
Ended(t) == endTask[t] /\ pc[t] # "stopped"
EndedTaskIsFreed == \A t \in TCB : Ended(t) ~> qwID[t] = 0
===============================================================================
