----------------------------------- MODULE Fpu -----------------------------------
(***************************************************************************)
(* Lazy switching of the FPU registers.  A task switch leaves them alone   *)
(* and sets CR0.TS unless the next task is the core's last FPU user; the   *)
(* first FPU instruction then traps, and the handler of the exception      *)
(* saves the registers of the last user and loads those of the running     *)
(* task (02.Kernel64/Source/Task.c, InterruptHandler.c).  A task that goes *)
(* to another core takes its registers along in its TCB.                   *)
(*                                                                         *)
(* Each action runs with interrupts off, so that nothing else happens on   *)
(* its core, and no other core touches what it uses: a TCB is freed by the *)
(* idle task of the core that its task belongs to.                         *)
(***************************************************************************)
EXTENDS Naturals

CONSTANTS
    Core,
    TCB,              \* the slots of the TCB pool
    FirstTask,        \* [Core -> TCB]: what the cores run at the start
    TASK_INVALIDID,
    MaxUse,           \* bound: how often a task computes
    MaxGeneration     \* bound: how often a slot is used

ASSUME FirstTaskAssumption ==
    /\ FirstTask \in [Core -> TCB]
    /\ \A c, d \in Core : FirstTask[c] = FirstTask[d] => c = d
\* An ID is the slot and a count of allocations, here those of the slot.
Id == TCB \X (1 .. MaxGeneration)
ASSUME InvalidAssumption == TASK_INVALIDID \notin Id
ASSUME BoundsAssumption == MaxUse \in Nat /\ MaxGeneration \in Nat \ {0}

VARIABLES
    generation,      \* the upper half of the slot's next or current task ID
    state,           \* state[t]: is the slot free, or its task ready, running, ended?
    core,            \* bAPICID
    bFPUUsed,
    vqwFPUContext,   \* the registers as saved in the TCB
    running,         \* pstRunningTask
    TS,              \* CR0.TS of every core
    registers,       \* the FPU registers of every core
    qwLastFPUUsedTaskID,
    mine,            \* what the registers should hold for a task (for properties)
    movedUser        \* was a core's last FPU user moved? (for properties)

tasks == <<generation, state, core, running>>
vars == <<tasks, bFPUUsed, vqwFPUContext, TS, registers, qwLastFPUUsedTaskID,
          mine, movedUser>>

\* What the registers may hold: what kInitializeFPU leaves (FINIT, which resets no
\* SSE register: a task has no claim on those yet), or the result of a task's
\* n-th computation.
Fresh == <<>>
Value == {Fresh} \cup Id \X (1 .. MaxUse)

qwID(t) == <<t, generation[t]>>
Live(t) == state[t] # "free"    \* kFreeTCB clears the ID

TypeOK ==
    /\ generation \in [TCB -> 0 .. MaxGeneration]
    /\ state \in [TCB -> {"free", "ready", "running", "ended"}]
    /\ core \in [TCB -> Core] /\ running \in [Core -> TCB]
    /\ bFPUUsed \in [TCB -> BOOLEAN]
    /\ vqwFPUContext \in [TCB -> Value] /\ mine \in [TCB -> Value]
    /\ TS \in [Core -> BOOLEAN] /\ registers \in [Core -> Value]
    /\ qwLastFPUUsedTaskID \in [Core -> Id \cup {TASK_INVALIDID}]
    /\ movedUser \in BOOLEAN

NoLastUser == [c \in Core |-> TASK_INVALIDID]

\* kInitializeScheduler of every core; the switch to long mode has set TS.
Init ==
    /\ generation = [t \in TCB |-> IF \E c \in Core : FirstTask[c] = t THEN 1 ELSE 0]
    /\ state = [t \in TCB |-> IF \E c \in Core : FirstTask[c] = t THEN "running" ELSE "free"]
    /\ core \in {f \in [TCB -> Core] : \A c \in Core : f[FirstTask[c]] = c}
    /\ running = FirstTask
    /\ bFPUUsed = [t \in TCB |-> FALSE]
    /\ vqwFPUContext = [t \in TCB |-> Fresh]
    /\ TS = [c \in Core |-> TRUE]
    /\ registers = [c \in Core |-> Fresh]
    /\ qwLastFPUUsedTaskID = NoLastUser
    /\ mine = [t \in TCB |-> Fresh]
    /\ movedUser = FALSE

(***************************************************************************)
(* The FPU                                                                 *)
(***************************************************************************)
\* An FPU instruction of the running task, with TS clear.
Compute(c) ==
    LET t == running[c] IN
    /\ ~TS[c]
    /\ \E n \in 1 .. MaxUse :
         /\ n = (IF mine[t] = Fresh THEN 1 ELSE mine[t][2] + 1)
         /\ registers' = [registers EXCEPT ![c] = <<qwID(t), n>>]
         /\ mine' = [mine EXCEPT ![t] = <<qwID(t), n>>]
    /\ UNCHANGED <<tasks, bFPUUsed, vqwFPUContext, TS, qwLastFPUUsedTaskID, movedUser>>

\* The last FPU user of c, if it still exists.
LastFPUUser(c) == {t \in TCB : Live(t) /\ qwLastFPUUsedTaskID[c] = qwID(t)}

\* An FPU instruction with TS set.
kDeviceNotAvailableHandler(c) ==
    LET t == running[c] IN
    /\ TS[c]
    /\ TS' = [TS EXCEPT ![c] = FALSE]
    /\ IF qwLastFPUUsedTaskID[c] = qwID(t)
       THEN UNCHANGED <<bFPUUsed, vqwFPUContext, registers, qwLastFPUUsedTaskID>>
       ELSE /\ vqwFPUContext' = [u \in TCB |-> IF u \in LastFPUUser(c) THEN registers[c]
                                               ELSE vqwFPUContext[u]]
            /\ registers' = [registers EXCEPT
                               ![c] = IF bFPUUsed[t] THEN vqwFPUContext'[t] ELSE Fresh]
            /\ bFPUUsed' = [bFPUUsed EXCEPT ![t] = TRUE]
            /\ qwLastFPUUsedTaskID' = [qwLastFPUUsedTaskID EXCEPT ![c] = qwID(t)]
    /\ UNCHANGED <<tasks, mine, movedUser>>

(***************************************************************************)
(* The scheduler, as far as the FPU is concerned (module Scheduler)        *)
(***************************************************************************)
\* TS on core c when task t is to run there.
TSFor(c, t) == qwLastFPUUsedTaskID[c] # qwID(t)

\* Another ready task of the core runs; the running one becomes s.
SwitchTo(c, u, s) ==
    /\ state[u] = "ready" /\ core[u] = c
    /\ state' = [state EXCEPT ![u] = "running", ![running[c]] = s]
    /\ running' = [running EXCEPT ![c] = u]

\* Mutant of kSchedule: TS stays as it is.
ScheduleWithoutTS(c, u, s) ==
    /\ SwitchTo(c, u, s)
    /\ UNCHANGED <<generation, core, TS, bFPUUsed, vqwFPUContext, registers,
                   qwLastFPUUsedTaskID, mine, movedUser>>

\* kSchedule: the running task gives up the processor, or has ended itself.
kSchedule(c, u, s) ==
    /\ SwitchTo(c, u, s)
    /\ TS' = [TS EXCEPT ![c] = TSFor(c, u)]
    /\ UNCHANGED <<generation, core, bFPUUsed, vqwFPUContext, registers,
                   qwLastFPUUsedTaskID, mine, movedUser>>

\* Mutant of SaveBeforeMove: the last user leaves without its registers.
MoveWithoutSaving(c, t, d, ts) ==
    /\ core' = [core EXCEPT ![t] = d]
    /\ TS' = ts
    /\ UNCHANGED <<vqwFPUContext, qwLastFPUUsedTaskID, movedUser>>

\* kAddTaskToSchedulerWithLoadBalancing on core c, for a task t that goes to core
\* d.  When t is the last FPU user of its core, the registers of core c are saved
\* for it, with TS clear, where it stays.
SaveBeforeMove(c, t, d, ts) ==
    /\ core' = [core EXCEPT ![t] = d]
    /\ IF core[t] # d /\ qwLastFPUUsedTaskID[core[t]] = qwID(t)
       THEN /\ TS' = [ts EXCEPT ![c] = FALSE]
            /\ vqwFPUContext' = [vqwFPUContext EXCEPT ![t] = registers[c]]
            /\ qwLastFPUUsedTaskID' = [qwLastFPUUsedTaskID EXCEPT ![core[t]] = TASK_INVALIDID]
            /\ movedUser' = TRUE
       ELSE TS' = ts /\ UNCHANGED <<vqwFPUContext, qwLastFPUUsedTaskID, movedUser>>

\* kScheduleInInterrupt sets TS for the next task and then finds a core for the
\* one that ran.
kScheduleInInterrupt(c, u, d) ==
    /\ SwitchTo(c, u, "ready")
    /\ SaveBeforeMove(c, running[c], d, [TS EXCEPT ![c] = TSFor(c, u)])
    /\ UNCHANGED <<generation, bFPUUsed, registers, mine>>

\* kChangeProcessorAffinity, called on core c for a task that is ready.
kChangeProcessorAffinity(c, t, d) ==
    /\ state[t] = "ready"
    /\ SaveBeforeMove(c, t, d, TS)
    /\ UNCHANGED <<generation, state, running, bFPUUsed, registers, mine>>

\* kCreateTask, with the core that balancing gives the new task.
kCreateTask(t, d) ==
    /\ state[t] = "free" /\ generation[t] < MaxGeneration
    /\ generation' = [generation EXCEPT ![t] = @ + 1]
    /\ state' = [state EXCEPT ![t] = "ready"]
    /\ core' = [core EXCEPT ![t] = d]
    /\ bFPUUsed' = [bFPUUsed EXCEPT ![t] = FALSE]
    /\ mine' = [mine EXCEPT ![t] = Fresh]
    /\ UNCHANGED <<running, vqwFPUContext, TS, registers, qwLastFPUUsedTaskID, movedUser>>

\* The idle task frees the TCB of a task that has ended.
kFreeTCB(t) ==
    /\ state[t] = "ended"
    /\ state' = [state EXCEPT ![t] = "free"]
    /\ UNCHANGED <<generation, core, running, bFPUUsed, vqwFPUContext, TS, registers,
                   qwLastFPUUsedTaskID, mine, movedUser>>

Next ==
    \/ \E c \in Core : Compute(c) \/ kDeviceNotAvailableHandler(c)
    \/ \E c \in Core, u \in TCB, s \in {"ready", "ended"} : kSchedule(c, u, s)
    \/ \E c, d \in Core, u \in TCB : \/ kScheduleInInterrupt(c, u, d)
                                     \/ kChangeProcessorAffinity(c, u, d)
    \/ \E t \in TCB, d \in Core : kCreateTask(t, d)
    \/ \E t \in TCB : kFreeTCB(t)

Spec == Init /\ [][Next]_vars

(***************************************************************************)
(* Properties                                                              *)
(***************************************************************************)
\* As long as no core's last FPU user has been moved to another core, a task
\* whose FPU instructions do not trap finds its own registers in the FPU, and no
\* computation is lost: the registers of a task that has used the FPU are in the
\* FPU of the core whose last user it is, or in its TCB.  (When one is
\* moved, TS is left clear on the core that moves it, and that core need not be the
\* one with the registers.)
ComputationsAreKept ==
    ~movedUser =>
        /\ \A c \in Core : TS[c] \/ registers[c] = mine[running[c]]
        /\ \A t \in TCB : state[t] \in {"ready", "running"} /\ bFPUUsed[t] =>
              \/ vqwFPUContext[t] = mine[t]
                 /\ \A c \in Core : qwLastFPUUsedTaskID[c] # qwID(t)
              \/ registers[core[t]] = mine[t] /\ qwLastFPUUsedTaskID[core[t]] = qwID(t)

\* In any case a core's last FPU user has not left it: no two cores take the
\* same task for their last user, and none saves registers into the TCB of a
\* task that computes elsewhere.
LastUserIsLocal ==
    \A c \in Core : \A t \in LastFPUUser(c) : core[t] = c
===============================================================================
