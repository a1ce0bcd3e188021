-------------------------------- MODULE FpuProofs --------------------------------
(***************************************************************************)
(* Proofs about module Fpu, for every number of cores, of TCBs and of      *)
(* computations.                                                           *)
(***************************************************************************)
EXTENDS Fpu, TLAPS

(***************************************************************************)
(* The inductive invariant                                                 *)
(***************************************************************************)
\* A core runs a task of its own, and a slot in use has an ID.
RunInv ==
    /\ \A c \in Core : state[running[c]] = "running" /\ core[running[c]] = c
    /\ \A t \in TCB : Live(t) => generation[t] # 0

\* No core remembers an ID that kCreateTask has yet to give.
IdInv ==
    \A c \in Core : qwLastFPUUsedTaskID[c] # TASK_INVALIDID =>
        qwLastFPUUsedTaskID[c][2] <= generation[qwLastFPUUsedTaskID[c][1]]

\* A task that has not used the FPU is no core's last user.
UnusedInv ==
    \A t \in TCB : Live(t) /\ ~bFPUUsed[t] =>
        \A c \in Core : qwLastFPUUsedTaskID[c] # qwID(t)

\* TS is clear only for the last user.
TSInv == ~movedUser => \A c \in Core : TS[c] \/ qwLastFPUUsedTaskID[c] = qwID(running[c])

\* The registers of a task that has used the FPU are in its TCB or in the FPU of
\* its core; one that has not has computed nothing.
Kept(t) ==
    \/ vqwFPUContext[t] = mine[t] /\ \A c \in Core : qwLastFPUUsedTaskID[c] # qwID(t)
    \/ registers[core[t]] = mine[t] /\ qwLastFPUUsedTaskID[core[t]] = qwID(t)
KeptInv ==
    ~movedUser =>
        \A t \in TCB : Live(t) => IF bFPUUsed[t] THEN Kept(t) ELSE mine[t] = Fresh

IInv ==
    /\ TypeOK /\ RunInv /\ IdInv /\ LastUserIsLocal
    /\ UnusedInv /\ TSInv /\ KeptInv

(***************************************************************************)
(* Lemmas                                                                  *)
(***************************************************************************)
\* A core runs one task, and a task runs on one core.
LEMMA RunningDiffer ==
    ASSUME TypeOK, RunInv, NEW c \in Core, NEW d \in Core, running[c] = running[d]
    PROVE  c = d
BY DEF TypeOK, RunInv

\* The ID of a task that exists is an ID.
LEMMA IdOfTask ==
    ASSUME TypeOK, RunInv, NEW t \in TCB, Live(t)
    PROVE  qwID(t) \in Id /\ qwID(t) # TASK_INVALIDID
<1>1. generation[t] \in 1 .. MaxGeneration
  BY BoundsAssumption DEF TypeOK, RunInv
<1> QED
  BY <1>1, InvalidAssumption DEF Id, qwID

\* Compute changes the registers of the core and what they should be.
LEMMA ComputeStep ==
    ASSUME IInv, NEW c \in Core, Compute(c)
    PROVE  IInv'
<1> DEFINE t == running[c]
<1> USE DEF IInv
<1>1. t \in TCB /\ Live(t) /\ core[t] = c
  BY DEF TypeOK, RunInv, Live
<1>2. PICK n \in 1 .. MaxUse : /\ registers' = [registers EXCEPT ![c] = <<qwID(t), n>>]
                               /\ mine' = [mine EXCEPT ![t] = <<qwID(t), n>>]
  BY DEF Compute
<1>3. UNCHANGED <<generation, state, core, running, bFPUUsed, vqwFPUContext, TS,
                  qwLastFPUUsedTaskID, movedUser>> /\ ~TS[c]
  BY DEF Compute, tasks
<1>4. <<qwID(t), n>> \in Value
  BY <1>1, <1>2, IdOfTask DEF Value
<1>5. TypeOK'
  BY <1>1, <1>2, <1>3, <1>4 DEF TypeOK
<1>6. RunInv' /\ IdInv' /\ TSInv' /\ LastUserIsLocal'
  BY <1>3 DEF RunInv, IdInv, TSInv, LastUserIsLocal, LastFPUUser, Live, qwID
<1>7. ~movedUser => qwLastFPUUsedTaskID[c] = qwID(t) /\ bFPUUsed[t]
  BY <1>1, <1>3 DEF TSInv, UnusedInv, TypeOK
<1>8. UnusedInv'
  BY <1>3 DEF UnusedInv, Live, qwID
<1>9. KeptInv'
  <2> SUFFICES ASSUME ~movedUser, NEW u \in TCB, Live(u)
               PROVE  (IF bFPUUsed[u] THEN Kept(u) ELSE mine[u] = Fresh)'
    BY <1>3 DEF KeptInv, Live
  <2>1. CASE u = t
    BY <1>1, <1>2, <1>3, <1>7, <2>1 DEF Kept, TypeOK, qwID
  <2>2. CASE u # t
    <3>1. mine'[u] = mine[u] /\ (core[u] = c => qwLastFPUUsedTaskID[c] # qwID(u))
      BY <1>2, <1>7, <2>2 DEF TypeOK, qwID
    <3> QED
      BY <1>2, <1>3, <3>1 DEF KeptInv, Kept, TypeOK, qwID
  <2> QED
    BY <2>1, <2>2
<1> QED
  BY <1>5, <1>6, <1>8, <1>9

\* The handler, when the running task is the last user: only TS is cleared.
LEMMA HandlerAgainStep ==
    ASSUME IInv, NEW c \in Core, kDeviceNotAvailableHandler(c),
           qwLastFPUUsedTaskID[c] = qwID(running[c])
    PROVE  IInv'
<1> USE DEF IInv
<1>1. TS' = [TS EXCEPT ![c] = FALSE]
  BY DEF kDeviceNotAvailableHandler
<1>2. UNCHANGED <<generation, state, core, running, bFPUUsed, vqwFPUContext, registers,
                  qwLastFPUUsedTaskID, mine, movedUser>>
  BY DEF kDeviceNotAvailableHandler, tasks
<1>3. TypeOK' /\ RunInv' /\ IdInv' /\ LastUserIsLocal'
  BY <1>1, <1>2 DEF TypeOK, RunInv, IdInv, LastUserIsLocal, LastFPUUser, Live, qwID
<1>4. UnusedInv' /\ KeptInv'
  BY <1>2 DEF UnusedInv, KeptInv, Kept, Live, qwID
<1>5. TSInv'
  BY <1>1, <1>2 DEF TSInv, qwID, TypeOK
<1> QED
  BY <1>3, <1>4, <1>5

\* The handler, when it is not: the last user's registers go to its TCB, and those
\* of the running task come from its own.
LEMMA HandlerStep ==
    ASSUME IInv, NEW c \in Core, kDeviceNotAvailableHandler(c),
           qwLastFPUUsedTaskID[c] # qwID(running[c])
    PROVE  IInv'
<1> DEFINE t == running[c]
<1> USE DEF IInv
<1>1. t \in TCB /\ Live(t) /\ core[t] = c /\ t \notin LastFPUUser(c)
  BY DEF TypeOK, RunInv, Live, LastFPUUser
<1>2. /\ vqwFPUContext' = [u \in TCB |-> IF u \in LastFPUUser(c) THEN registers[c]
                                         ELSE vqwFPUContext[u]]
      /\ registers' = [registers EXCEPT ![c] = IF bFPUUsed[t] THEN vqwFPUContext'[t]
                                               ELSE Fresh]
      /\ bFPUUsed' = [bFPUUsed EXCEPT ![t] = TRUE]
      /\ qwLastFPUUsedTaskID' = [qwLastFPUUsedTaskID EXCEPT ![c] = qwID(t)]
      /\ TS' = [TS EXCEPT ![c] = FALSE]
  BY DEF kDeviceNotAvailableHandler
<1>3. UNCHANGED <<generation, state, core, running, mine, movedUser>>
  BY DEF kDeviceNotAvailableHandler, tasks
<1>4. qwID(t) \in Id /\ qwID(t) # TASK_INVALIDID
  BY <1>1, IdOfTask
<1>5. vqwFPUContext'[t] = vqwFPUContext[t]
  BY <1>1, <1>2
<1>6. TypeOK'
  <2>1. vqwFPUContext' \in [TCB -> Value]
    BY <1>2 DEF TypeOK
  <2>2. registers' \in [Core -> Value]
    BY <1>1, <1>2, <2>1 DEF TypeOK, Value
  <2> QED
    BY <1>1, <1>2, <1>3, <1>4, <2>1, <2>2 DEF TypeOK
<1>7. RunInv'
  BY <1>3 DEF RunInv, Live
<1>8. IdInv'
  <2>1. qwID(t)[2] <= generation[qwID(t)[1]]
    BY <1>1, BoundsAssumption DEF qwID, TypeOK
  <2> QED
    BY <1>2, <1>3, <2>1 DEF IdInv, TypeOK
<1>9. \A u \in TCB \ {t} : qwID(u) # qwID(t)
  BY DEF qwID
<1>10. LastUserIsLocal'
  BY <1>1, <1>2, <1>3, <1>9 DEF LastUserIsLocal, LastFPUUser, Live, qwID, TypeOK
<1>11. UnusedInv'
  BY <1>1, <1>2, <1>3, <1>9 DEF UnusedInv, Live, qwID, TypeOK
<1>12. TSInv'
  BY <1>2, <1>3 DEF TSInv, qwID, TypeOK
<1>13. KeptInv'
  <2> SUFFICES ASSUME ~movedUser, NEW u \in TCB, Live(u)
               PROVE  (IF bFPUUsed[u] THEN Kept(u) ELSE mine[u] = Fresh)'
    BY <1>3 DEF KeptInv, Live
  <2>0. IF bFPUUsed[u] THEN Kept(u) ELSE mine[u] = Fresh
    BY DEF KeptInv
  <2>1. CASE u = t
    <3>1. registers'[c] = mine[t]
      BY <1>1, <1>2, <1>5, <2>0, <2>1 DEF Kept, TypeOK
    <3> QED
      BY <1>1, <1>2, <1>3, <2>1, <3>1 DEF Kept, qwID, TypeOK
  <2>2. CASE u # t /\ u \in LastFPUUser(c)
    <3>1. core[u] = c /\ qwLastFPUUsedTaskID[c] = qwID(u) /\ bFPUUsed[u]
      BY <2>2 DEF LastUserIsLocal, LastFPUUser, UnusedInv, TypeOK
    <3>2. vqwFPUContext'[u] = mine[u]
      BY <1>2, <2>0, <2>2, <3>1 DEF Kept
    <3>3. \A d \in Core : qwLastFPUUsedTaskID'[d] # qwID(u)
      BY <1>2, <1>9, <2>2, <3>1 DEF LastUserIsLocal, LastFPUUser, TypeOK
    <3> QED
      BY <1>2, <1>3, <2>2, <3>1, <3>2, <3>3 DEF Kept, qwID, TypeOK
  <2>3. CASE u # t /\ u \notin LastFPUUser(c)
    <3>1. qwLastFPUUsedTaskID[c] # qwID(u)
      BY <2>3 DEF LastFPUUser
    <3>2. bFPUUsed'[u] = bFPUUsed[u] /\ vqwFPUContext'[u] = vqwFPUContext[u]
      BY <1>2, <2>3 DEF TypeOK
    <3>3. core[u] \in Core /\ (core[u] # c =>
             registers'[core[u]] = registers[core[u]]
             /\ qwLastFPUUsedTaskID'[core[u]] = qwLastFPUUsedTaskID[core[u]])
      BY <1>2 DEF TypeOK
    <3>4. \A d \in Core : qwLastFPUUsedTaskID[d] # qwID(u) => qwLastFPUUsedTaskID'[d] # qwID(u)
      BY <1>2, <1>9, <2>3 DEF TypeOK
    <3> QED
      BY <1>3, <2>0, <3>1, <3>2, <3>3, <3>4 DEF Kept, qwID
  <2> QED
    BY <2>1, <2>2, <2>3
<1> QED
  BY <1>6, <1>7, <1>8, <1>10, <1>11, <1>12, <1>13

\* Giving the core c to u, its task becoming s, keeps the invariants of tasks.
LEMMA SwitchKeepsTasks ==
    ASSUME TypeOK, RunInv, NEW c \in Core, NEW u \in TCB, NEW s \in {"ready", "ended"},
           SwitchTo(c, u, s), UNCHANGED generation
    PROVE  /\ state' \in [TCB -> {"free", "ready", "running", "ended"}]
           /\ running' \in [Core -> TCB]
           /\ \A d \in Core : /\ state'[running'[d]] = "running"
                              /\ core[running'[d]] = d
           /\ \A t \in TCB : Live(t)' <=> Live(t)
           /\ Live(u) /\ core[u] = c /\ u # running[c]
<1>1. /\ state' = [state EXCEPT ![u] = "running", ![running[c]] = s]
      /\ running' = [running EXCEPT ![c] = u]
      /\ state[u] = "ready" /\ core[u] = c
  BY DEF SwitchTo
<1>2. running[c] \in TCB /\ state[running[c]] = "running" /\ u # running[c]
  BY <1>1 DEF TypeOK, RunInv
<1>3. \A t \in TCB : state'[t] = IF t = running[c] THEN s
                                 ELSE IF t = u THEN "running" ELSE state[t]
  BY <1>1, <1>2 DEF TypeOK
<1>4. state' \in [TCB -> {"free", "ready", "running", "ended"}]
      /\ running' \in [Core -> TCB]
  BY <1>1 DEF TypeOK
<1>5. ASSUME NEW d \in Core
      PROVE  state'[running'[d]] = "running" /\ core[running'[d]] = d
  <2>1. CASE d = c
    BY <1>1, <1>2, <1>3, <2>1 DEF TypeOK
  <2>2. CASE d # c
    <3>1. running'[d] = running[d] /\ running[d] \in TCB
      BY <1>1, <2>2 DEF TypeOK
    <3>2. running[d] # running[c] /\ state[running[d]] = "running" /\ core[running[d]] = d
      BY <2>2, RunningDiffer DEF RunInv
    <3> QED
      BY <1>3, <3>1, <3>2
  <2> QED
    BY <2>1, <2>2
<1>6. \A t \in TCB : Live(t)' <=> Live(t)
  BY <1>1, <1>2, <1>3 DEF Live
<1> QED
  BY <1>1, <1>2, <1>4, <1>5, <1>6 DEF Live

\* kSchedule sets TS by the last user, and no registers move.
LEMMA ScheduleStep ==
    ASSUME IInv, NEW c \in Core, NEW u \in TCB, NEW s \in {"ready", "ended"},
           kSchedule(c, u, s)
    PROVE  IInv'
<1> USE DEF IInv
<1>1. /\ TS' = [TS EXCEPT ![c] = TSFor(c, u)]
      /\ UNCHANGED <<generation, core, bFPUUsed, vqwFPUContext, registers,
                     qwLastFPUUsedTaskID, mine, movedUser>>
      /\ SwitchTo(c, u, s) /\ running' = [running EXCEPT ![c] = u]
  BY DEF kSchedule, SwitchTo
<1>2. /\ state' \in [TCB -> {"free", "ready", "running", "ended"}]
      /\ running' \in [Core -> TCB]
      /\ \A d \in Core : state'[running'[d]] = "running" /\ core[running'[d]] = d
      /\ \A t \in TCB : Live(t)' <=> Live(t)
  BY <1>1, SwitchKeepsTasks
<1>3. TSFor(c, u) \in BOOLEAN
  BY DEF TSFor
<1>4. TypeOK'
  BY <1>1, <1>2, <1>3 DEF TypeOK
<1>5. RunInv' /\ IdInv'
  BY <1>1, <1>2 DEF RunInv, IdInv
<1>6. LastUserIsLocal' /\ UnusedInv' /\ KeptInv'
  BY <1>1, <1>2 DEF LastUserIsLocal, LastFPUUser, UnusedInv, KeptInv, Kept, qwID
<1>7. TSInv'
  BY <1>1 DEF TSInv, TSFor, qwID, TypeOK
<1> QED
  BY <1>4, <1>5, <1>6, <1>7

\* SaveBeforeMove, when the task t that goes to d is the last user of its core.
\* Only what holds after a move is kept.
LEMMA MoveOfUser ==
    ASSUME IInv, NEW c \in Core, NEW t \in TCB, NEW d \in Core, NEW ts \in [Core -> BOOLEAN],
           Live(t), SaveBeforeMove(c, t, d, ts),
           core[t] # d /\ qwLastFPUUsedTaskID[core[t]] = qwID(t),
           \A u \in TCB : Live(u)' <=> Live(u),
           UNCHANGED <<generation, bFPUUsed, registers, mine>>
    PROVE  /\ core' = [core EXCEPT ![t] = d]
           /\ TS' \in [Core -> BOOLEAN] /\ vqwFPUContext' \in [TCB -> Value]
           /\ qwLastFPUUsedTaskID' \in [Core -> Id \cup {TASK_INVALIDID}]
           /\ movedUser' \in BOOLEAN
           /\ IdInv' /\ LastUserIsLocal' /\ UnusedInv' /\ TSInv' /\ KeptInv'
<1> USE DEF IInv
<1>1. /\ core' = [core EXCEPT ![t] = d]
      /\ TS' = [ts EXCEPT ![c] = FALSE]
      /\ vqwFPUContext' = [vqwFPUContext EXCEPT ![t] = registers[c]]
      /\ qwLastFPUUsedTaskID' = [qwLastFPUUsedTaskID EXCEPT ![core[t]] = TASK_INVALIDID]
      /\ movedUser' = TRUE
  BY DEF SaveBeforeMove
<1>2. /\ TS' \in [Core -> BOOLEAN] /\ vqwFPUContext' \in [TCB -> Value]
      /\ qwLastFPUUsedTaskID' \in [Core -> Id \cup {TASK_INVALIDID}]
  BY <1>1 DEF TypeOK
<1>3. \A e \in Core : qwLastFPUUsedTaskID'[e] = TASK_INVALIDID
                      \/ (e # core[t] /\ qwLastFPUUsedTaskID'[e] = qwLastFPUUsedTaskID[e])
  <2>1. ASSUME NEW e \in Core
        PROVE  qwLastFPUUsedTaskID'[e] = IF e = core[t] THEN TASK_INVALIDID
                                         ELSE qwLastFPUUsedTaskID[e]
    BY <1>1 DEF TypeOK
  <2> QED
    BY <2>1
<1>4. IdInv'
  BY <1>3 DEF IdInv
<1>5. \A u \in TCB : Live(u) => qwID(u) # TASK_INVALIDID
  BY IdOfTask
<1>6. LastUserIsLocal'
  <2> SUFFICES ASSUME NEW e \in Core, NEW u \in TCB, Live(u),
                      qwLastFPUUsedTaskID'[e] = qwID(u)
               PROVE  core'[u] = e
    BY DEF LastUserIsLocal, LastFPUUser, qwID
  <2>1. e # core[t] /\ qwLastFPUUsedTaskID[e] = qwID(u)
    BY <1>3, <1>5
  <2>2. core[u] = e
    BY <2>1 DEF LastUserIsLocal, LastFPUUser
  <2> QED
    BY <1>1, <2>1, <2>2 DEF TypeOK
<1>7. UnusedInv'
  BY <1>3, <1>5 DEF UnusedInv, qwID
<1>8. TSInv' /\ KeptInv'
  BY <1>1 DEF TSInv, KeptInv
<1> QED
  BY <1>1, <1>2, <1>4, <1>6, <1>7, <1>8

\* SaveBeforeMove, when it is not, or stays.
LEMMA MoveOfOther ==
    ASSUME IInv, NEW c \in Core, NEW t \in TCB, NEW d \in Core, NEW ts \in [Core -> BOOLEAN],
           Live(t), SaveBeforeMove(c, t, d, ts),
           core[t] = d \/ qwLastFPUUsedTaskID[core[t]] # qwID(t),
           \A u \in TCB : Live(u)' <=> Live(u),
           UNCHANGED <<generation, bFPUUsed, registers, mine>>
    PROVE  /\ core' = [core EXCEPT ![t] = d] /\ TS' = ts
           /\ UNCHANGED <<vqwFPUContext, qwLastFPUUsedTaskID, movedUser>>
           /\ IdInv' /\ LastUserIsLocal' /\ UnusedInv' /\ KeptInv'
<1> USE DEF IInv
<1>1. /\ core' = [core EXCEPT ![t] = d] /\ TS' = ts
      /\ UNCHANGED <<vqwFPUContext, qwLastFPUUsedTaskID, movedUser>>
  BY DEF SaveBeforeMove
<1>2. IdInv' /\ UnusedInv'
  BY <1>1 DEF IdInv, UnusedInv, qwID
<1>3. \A u \in TCB : core'[u] = IF u = t THEN d ELSE core[u]
  BY <1>1 DEF TypeOK
<1>4. core[t] # d => \A e \in Core : qwLastFPUUsedTaskID[e] # qwID(t)
  BY DEF LastUserIsLocal, LastFPUUser
<1>5. LastUserIsLocal'
  BY <1>1, <1>3, <1>4 DEF LastUserIsLocal, LastFPUUser, qwID
<1>6. KeptInv'
  BY <1>1, <1>3, <1>4, SMTT(30) DEF KeptInv, Kept, qwID
<1> QED
  BY <1>1, <1>2, <1>5, <1>6

\* An interrupt takes the core from its task, which may go to another core.
LEMMA InterruptStep ==
    ASSUME IInv, NEW c \in Core, NEW u \in TCB, NEW d \in Core,
           kScheduleInInterrupt(c, u, d)
    PROVE  IInv'
<1> DEFINE t == running[c]
           ts == [TS EXCEPT ![c] = TSFor(c, u)]
<1> USE DEF IInv
<1>1. /\ SwitchTo(c, u, "ready") /\ SaveBeforeMove(c, t, d, ts)
      /\ UNCHANGED <<generation, bFPUUsed, registers, mine>>
      /\ running' = [running EXCEPT ![c] = u]
  BY DEF kScheduleInInterrupt, SwitchTo
<1>2. ts \in [Core -> BOOLEAN]
  BY DEF TSFor, TypeOK
<1>3. /\ state' \in [TCB -> {"free", "ready", "running", "ended"}]
      /\ running' \in [Core -> TCB]
      /\ \A e \in Core : state'[running'[e]] = "running" /\ core[running'[e]] = e
      /\ \A v \in TCB : Live(v)' <=> Live(v)
      /\ u # t
  BY <1>1, SwitchKeepsTasks
<1>4. t \in TCB /\ Live(t) /\ state'[t] = "ready"
  BY <1>1, <1>3 DEF TypeOK, RunInv, Live, SwitchTo
<1>5. core' = [core EXCEPT ![t] = d] => RunInv'
  BY <1>1, <1>3, <1>4 DEF RunInv, TypeOK
<1> HIDE DEF t, ts
<1>6. CASE core[t] # d /\ qwLastFPUUsedTaskID[core[t]] = qwID(t)
  <2>1. /\ core' = [core EXCEPT ![t] = d]
        /\ TS' \in [Core -> BOOLEAN] /\ vqwFPUContext' \in [TCB -> Value]
        /\ qwLastFPUUsedTaskID' \in [Core -> Id \cup {TASK_INVALIDID}]
        /\ movedUser' \in BOOLEAN
        /\ IdInv' /\ LastUserIsLocal' /\ UnusedInv' /\ TSInv' /\ KeptInv'
    BY <1>1, <1>2, <1>3, <1>4, <1>6, MoveOfUser
  <2>2. TypeOK'
    BY <1>1, <1>3, <2>1 DEF TypeOK
  <2> QED
    BY <1>5, <2>1, <2>2
<1>7. CASE core[t] = d \/ qwLastFPUUsedTaskID[core[t]] # qwID(t)
  <2>1. /\ core' = [core EXCEPT ![t] = d] /\ TS' = ts
        /\ UNCHANGED <<vqwFPUContext, qwLastFPUUsedTaskID, movedUser>>
        /\ IdInv' /\ LastUserIsLocal' /\ UnusedInv' /\ KeptInv'
    BY <1>1, <1>2, <1>3, <1>4, <1>7, MoveOfOther
  <2>2. TypeOK'
    BY <1>1, <1>2, <1>3, <2>1 DEF TypeOK
  <2>3. TSInv'
    BY <1>1, <2>1 DEF ts, TSInv, TSFor, qwID, TypeOK
  <2> QED
    BY <1>5, <2>1, <2>2, <2>3
<1> QED
  BY <1>6, <1>7

\* A ready task is sent to another core.
LEMMA AffinityStep ==
    ASSUME IInv, NEW c \in Core, NEW t \in TCB, NEW d \in Core,
           kChangeProcessorAffinity(c, t, d)
    PROVE  IInv'
<1> USE DEF IInv
<1>1. /\ state[t] = "ready" /\ SaveBeforeMove(c, t, d, TS)
      /\ UNCHANGED <<generation, state, running, bFPUUsed, registers, mine>>
  BY DEF kChangeProcessorAffinity
<1>2. Live(t) /\ (\A v \in TCB : Live(v)' <=> Live(v)) /\ TS \in [Core -> BOOLEAN]
  BY <1>1 DEF Live, TypeOK
<1>3. core' = [core EXCEPT ![t] = d] => RunInv'
  BY <1>1, <1>2 DEF RunInv, TypeOK
<1>4. CASE core[t] # d /\ qwLastFPUUsedTaskID[core[t]] = qwID(t)
  <2>1. /\ core' = [core EXCEPT ![t] = d]
        /\ TS' \in [Core -> BOOLEAN] /\ vqwFPUContext' \in [TCB -> Value]
        /\ qwLastFPUUsedTaskID' \in [Core -> Id \cup {TASK_INVALIDID}]
        /\ movedUser' \in BOOLEAN
        /\ IdInv' /\ LastUserIsLocal' /\ UnusedInv' /\ TSInv' /\ KeptInv'
    BY <1>1, <1>2, <1>4, MoveOfUser
  <2>2. TypeOK'
    BY <1>1, <2>1 DEF TypeOK
  <2> QED
    BY <1>3, <2>1, <2>2
<1>5. CASE core[t] = d \/ qwLastFPUUsedTaskID[core[t]] # qwID(t)
  <2>1. /\ core' = [core EXCEPT ![t] = d] /\ TS' = TS
        /\ UNCHANGED <<vqwFPUContext, qwLastFPUUsedTaskID, movedUser>>
        /\ IdInv' /\ LastUserIsLocal' /\ UnusedInv' /\ KeptInv'
    BY <1>1, <1>2, <1>5, MoveOfOther
  <2>2. TypeOK'
    BY <1>1, <2>1 DEF TypeOK
  <2>3. TSInv'
    BY <1>1, <2>1 DEF TSInv, qwID
  <2> QED
    BY <1>3, <2>1, <2>2, <2>3
<1> QED
  BY <1>4, <1>5

\* A new task has an ID that no core remembers.
LEMMA CreateStep ==
    ASSUME IInv, NEW t \in TCB, NEW d \in Core, kCreateTask(t, d)
    PROVE  IInv'
<1> USE DEF IInv
<1>1. /\ state[t] = "free" /\ generation[t] < MaxGeneration
      /\ generation' = [generation EXCEPT ![t] = @ + 1]
      /\ state' = [state EXCEPT ![t] = "ready"]
      /\ core' = [core EXCEPT ![t] = d]
      /\ bFPUUsed' = [bFPUUsed EXCEPT ![t] = FALSE]
      /\ mine' = [mine EXCEPT ![t] = Fresh]
      /\ UNCHANGED <<running, vqwFPUContext, TS, registers, qwLastFPUUsedTaskID, movedUser>>
  BY DEF kCreateTask
<1>2. generation[t] \in 0 .. MaxGeneration /\ generation[t] + 1 \in 1 .. MaxGeneration
  BY <1>1, BoundsAssumption DEF TypeOK
<1>3. TypeOK'
  BY <1>1, <1>2, BoundsAssumption DEF TypeOK, Value
<1>4. \A c \in Core : running[c] # t
  BY <1>1 DEF RunInv
<1>5. \A v \in TCB \ {t} : /\ qwID(v)' = qwID(v) /\ core'[v] = core[v]
                           /\ bFPUUsed'[v] = bFPUUsed[v] /\ mine'[v] = mine[v]
                           /\ Live(v)' <=> Live(v)
  BY <1>1 DEF qwID, Live, TypeOK
<1>6. RunInv'
  BY <1>1, <1>2, <1>4, <1>5 DEF RunInv, TypeOK, qwID
<1>7. \A v \in TCB : generation[v] \in Nat /\ generation'[v] \in Nat
                     /\ generation[v] <= generation'[v]
  BY <1>1, <1>2, BoundsAssumption DEF TypeOK
<1>8. IdInv'
  <2> SUFFICES ASSUME NEW c \in Core, qwLastFPUUsedTaskID[c] # TASK_INVALIDID
               PROVE  qwLastFPUUsedTaskID[c][2] <= generation'[qwLastFPUUsedTaskID[c][1]]
    BY <1>1 DEF IdInv
  <2>1. qwLastFPUUsedTaskID[c] \in Id
    BY DEF TypeOK
  <2>2. /\ qwLastFPUUsedTaskID[c][1] \in TCB /\ qwLastFPUUsedTaskID[c][2] \in Nat
        /\ qwLastFPUUsedTaskID[c][2] <= generation[qwLastFPUUsedTaskID[c][1]]
    BY <2>1, BoundsAssumption DEF Id, IdInv
  <2> QED
    BY <1>7, <2>2
<1>9. \A c \in Core : qwLastFPUUsedTaskID[c] # qwID(t)'
  <2> SUFFICES ASSUME NEW c \in Core, qwLastFPUUsedTaskID[c] = qwID(t)'
               PROVE  FALSE
    OBVIOUS
  <2>1. qwLastFPUUsedTaskID[c] = <<t, generation[t] + 1>>
    BY <1>1 DEF qwID, TypeOK
  <2>2. qwLastFPUUsedTaskID[c] # TASK_INVALIDID
    BY <1>2, <2>1, InvalidAssumption DEF Id
  <2>3. generation[t] + 1 <= generation[t]
    BY <2>1, <2>2 DEF IdInv
  <2> QED
    BY <1>2, <2>3
<1>10. LastUserIsLocal'
  BY <1>1, <1>5, <1>9 DEF LastUserIsLocal, LastFPUUser
<1>11. UnusedInv'
  BY <1>1, <1>5, <1>9 DEF UnusedInv
<1>12. TSInv'
  <2>1. \A c \in Core : running[c] \in TCB \ {t}
    BY <1>4 DEF TypeOK
  <2> QED
    BY <1>1, <1>5, <2>1 DEF TSInv, qwID
<1>13. KeptInv'
  <2> SUFFICES ASSUME ~movedUser, NEW v \in TCB, Live(v)'
               PROVE  (IF bFPUUsed[v] THEN Kept(v) ELSE mine[v] = Fresh)'
    BY <1>1 DEF KeptInv
  <2>1. CASE v = t
    BY <1>1, <2>1 DEF TypeOK
  <2>2. CASE v # t
    <3>1. IF bFPUUsed[v] THEN Kept(v) ELSE mine[v] = Fresh
      BY <1>5, <2>2 DEF KeptInv
    <3> QED
      BY <1>1, <1>5, <2>2, <3>1 DEF Kept
  <2> QED
    BY <2>1, <2>2
<1> QED
  BY <1>3, <1>6, <1>8, <1>10, <1>11, <1>12, <1>13

\* Freeing a TCB leaves the FPU alone.
LEMMA FreeStep ==
    ASSUME IInv, NEW t \in TCB, kFreeTCB(t)
    PROVE  IInv'
<1> USE DEF IInv
<1>1. /\ state[t] = "ended" /\ state' = [state EXCEPT ![t] = "free"]
      /\ UNCHANGED <<generation, core, running, bFPUUsed, vqwFPUContext, TS, registers,
                     qwLastFPUUsedTaskID, mine, movedUser>>
  BY DEF kFreeTCB
<1>2. TypeOK' /\ IdInv' /\ TSInv'
  BY <1>1 DEF TypeOK, IdInv, TSInv, qwID
<1>3. (\A v \in TCB : Live(v)' => Live(v)) /\ \A c \in Core : running[c] # t
  BY <1>1 DEF Live, TypeOK, RunInv
<1>4. RunInv'
  BY <1>1, <1>3 DEF RunInv, TypeOK
<1>5. LastUserIsLocal' /\ UnusedInv' /\ KeptInv'
  BY <1>1, <1>3 DEF LastUserIsLocal, LastFPUUser, UnusedInv, KeptInv, Kept, qwID
<1> QED
  BY <1>2, <1>4, <1>5

(***************************************************************************)
(* Theorems                                                                *)
(***************************************************************************)
LEMMA InitEstablishes == Init => IInv
<1> SUFFICES ASSUME Init PROVE IInv
  OBVIOUS
<1> USE FirstTaskAssumption, InvalidAssumption, BoundsAssumption
<1>0. /\ generation \in [TCB -> {0, 1}] /\ state \in [TCB -> {"running", "free"}]
      /\ \A t \in TCB : state[t] = "running" => generation[t] = 1
      /\ \A c \in Core : state[FirstTask[c]] = "running" /\ core[FirstTask[c]] = c
  BY DEF Init
<1>1. TypeOK
  <2>1. generation \in [TCB -> 0 .. MaxGeneration]
    BY <1>0
  <2>2. core \in [TCB -> Core] /\ running \in [Core -> TCB]
    BY DEF Init
  <2> QED
    BY <1>0, <2>1, <2>2 DEF Init, TypeOK, Value, NoLastUser
<1>2. RunInv
  <2>1. ASSUME NEW t \in TCB, Live(t) PROVE generation[t] # 0
    BY <1>0, <2>1 DEF Live
  <2> QED
    BY <1>0, <2>1 DEF Init, RunInv
<1>3. \A c \in Core : qwLastFPUUsedTaskID[c] = TASK_INVALIDID
  BY DEF Init, NoLastUser
<1>4. \A t \in TCB : Live(t) => qwLastFPUUsedTaskID \in [Core -> {TASK_INVALIDID}]
                                /\ qwID(t) # TASK_INVALIDID
  BY <1>1, <1>2, IdOfTask DEF Init, NoLastUser
<1>5. IdInv /\ LastUserIsLocal /\ UnusedInv
  BY <1>3, <1>4 DEF IdInv, LastUserIsLocal, LastFPUUser, UnusedInv
<1>6. TSInv /\ KeptInv
  BY DEF Init, TSInv, KeptInv
<1> QED
  BY <1>1, <1>2, <1>5, <1>6 DEF IInv

LEMMA StepPreserves == IInv /\ [Next]_vars => IInv'
<1> SUFFICES ASSUME IInv, [Next]_vars PROVE IInv'
  OBVIOUS
<1>1. ASSUME NEW c \in Core, Compute(c) PROVE IInv'
  BY <1>1, ComputeStep
<1>2. ASSUME NEW c \in Core, kDeviceNotAvailableHandler(c) PROVE IInv'
  BY <1>2, HandlerStep, HandlerAgainStep
<1>3. ASSUME NEW c \in Core, NEW u \in TCB, NEW s \in {"ready", "ended"}, kSchedule(c, u, s)
      PROVE  IInv'
  BY <1>3, ScheduleStep
<1>4. ASSUME NEW c \in Core, NEW d \in Core, NEW u \in TCB, kScheduleInInterrupt(c, u, d)
      PROVE  IInv'
  BY <1>4, InterruptStep
<1>5. ASSUME NEW c \in Core, NEW d \in Core, NEW u \in TCB, kChangeProcessorAffinity(c, u, d)
      PROVE  IInv'
  BY <1>5, AffinityStep
<1>6. ASSUME NEW t \in TCB, NEW d \in Core, kCreateTask(t, d) PROVE IInv'
  BY <1>6, CreateStep
<1>7. ASSUME NEW t \in TCB, kFreeTCB(t) PROVE IInv'
  BY <1>7, FreeStep
<1>8. CASE UNCHANGED vars
  BY <1>8 DEF vars, tasks, IInv, TypeOK, RunInv, IdInv, LastUserIsLocal, LastFPUUser,
              UnusedInv, TSInv, KeptInv, Kept, Live, qwID
<1> QED
  BY <1>1, <1>2, <1>3, <1>4, <1>5, <1>6, <1>7, <1>8 DEF Next

LEMMA IInvHolds == Spec => []IInv
BY InitEstablishes, StepPreserves, PTL DEF Spec

\* Every field of the FPU's part of the kernel keeps its range.
THEOREM TypeCorrect == Spec => []TypeOK
BY IInvHolds, PTL DEF IInv

\* A core's last FPU user has not left it: kAddTaskToSchedulerWithLoadBalancing
\* forgets it in time, and a task created in the slot of an ended one is not taken
\* for it.
THEOREM LastUserIsLocalHolds == Spec => []LastUserIsLocal
BY IInvHolds, PTL DEF IInv

\* The invariant gives what the property says of the registers.
LEMMA KeptIsEnough == IInv => ComputationsAreKept
<1> SUFFICES ASSUME IInv, ~movedUser
             PROVE  /\ \A c \in Core : TS[c] \/ registers[c] = mine[running[c]]
                    /\ \A t \in TCB : state[t] \in {"ready", "running"} /\ bFPUUsed[t] =>
                          Kept(t)
  BY DEF ComputationsAreKept, Kept
<1> USE DEF IInv
<1>1. ASSUME NEW c \in Core, ~TS[c] PROVE registers[c] = mine[running[c]]
  <2>1. running[c] \in TCB /\ Live(running[c]) /\ core[running[c]] = c
    BY DEF TypeOK, RunInv, Live
  <2>2. qwLastFPUUsedTaskID[c] = qwID(running[c])
    BY <1>1 DEF TSInv
  <2>3. bFPUUsed[running[c]]
    BY <2>1, <2>2 DEF UnusedInv
  <2> QED
    BY <2>1, <2>2, <2>3 DEF KeptInv, Kept
<1> QED
  BY <1>1 DEF KeptInv, Live

\* Until a last FPU user is moved, every task computes with its own registers, and
\* none is lost in a switch.
THEOREM ComputationsAreKeptHolds == Spec => []ComputationsAreKept
BY IInvHolds, KeptIsEnough, PTL
=============================================================================
