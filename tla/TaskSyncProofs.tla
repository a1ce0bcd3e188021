---------------------------- MODULE TaskSyncProofs ----------------------------
(***************************************************************************)
(* For every number of tasks and cores: the task that has taken the mutex  *)
(* of TaskSync is the one recorded in it, which needs that no task that    *)
(* uses the mutex is moved while it is not running; and the semaphore      *)
(* counts exactly, which needs that its users are on one core.             *)
(***************************************************************************)
EXTENDS TaskSync, TLAPS

(***************************************************************************)
(* The inductive invariant                                                 *)
(***************************************************************************)
MutexTypeOK ==
    /\ bLockFlag \in BOOLEAN
    /\ dwLockCount \in Nat
    /\ qwTaskID \in Task \cup {TASK_INVALIDID}
    /\ running \in [Core -> Task]
    /\ core \in [Task -> Core]
    /\ rflagsIF \in [Task -> BOOLEAN]
    /\ pc \in [Task -> Label]
    /\ bCurrentAPICID \in [Task -> Core]
    /\ holds \in [Task -> Nat]

\* A task runs on its own core only.
RunsOnItsCore == \A c \in Core : core[running[c]] = c

\* Until it has recorded itself, a task in kLockMutex stays on the core whose
\* ID it has read: interrupts are off, so only kSchedule switches from it.
StaysOnCore ==
    \A t \in Task :
        /\ pc[t] \notin {"idle", "nest"} => ~rflagsIF[t]
        /\ pc[t] \in {"test", "owner", "again", "wait", "setCount", "setID"} =>
             t \in MutexUser /\ bCurrentAPICID[t] = core[t]

\* At most one task has the flag: from the test-and-set that succeeds to the
\* store that clears it.
HasFlag(t) ==
    holds[t] > 0 \/ pc[t] \in {"setCount", "setID", "clearCount", "clearFlag"}
OneHasFlag ==
    /\ \A t \in Task : HasFlag(t) => bLockFlag
    /\ \A t, u \in Task : HasFlag(t) /\ HasFlag(u) => t = u

\* Who is recorded holds the mutex, and where its functions know it.
OwnerIsHolder ==
    /\ qwTaskID # TASK_INVALIDID => holds[qwTaskID] > 0
    /\ \A t \in Task :
        /\ pc[t] \in {"nest", "dec"} => holds[t] > 0
        /\ pc[t] \in {"again", "wait", "setCount", "setID", "clearCount", "clearFlag"} =>
             holds[t] = 0

\* The count between the stores.
CountIsRight ==
    /\ ~bLockFlag => dwLockCount = 0
    /\ \A t \in Task : /\ pc[t] = "setID" => dwLockCount = 1
                       /\ pc[t] = "clearFlag" => dwLockCount = 0

IInv ==
    /\ MutexTypeOK /\ RunsOnItsCore /\ StaysOnCore
    /\ OneHasFlag /\ HolderIsOwner /\ OwnerIsHolder /\ CountIsRight

NoWaiterMoved == Moved \cap MutexUser = {}

LEMMA InitInv == Init => IInv
<1>. SUFFICES ASSUME Init PROVE IInv
  OBVIOUS
<1> USE DEF Init
<1>1. MutexTypeOK
  BY StartAssumption DEF MutexTypeOK, Label
<1>2. RunsOnItsCore
  BY StartAssumption DEF RunsOnItsCore
<1>3. StaysOnCore
  BY DEF StaysOnCore
<1>4. OneHasFlag
  BY DEF OneHasFlag, HasFlag
<1>5. HolderIsOwner
  BY DEF HolderIsOwner
<1>6. OwnerIsHolder
  BY DEF OwnerIsHolder
<1>7. CountIsRight
  BY DEF CountIsRight
<1>. QED
  BY <1>1, <1>2, <1>3, <1>4, <1>5, <1>6, <1>7 DEF IInv

\* A preempted task has interrupts on: it is not between the stores.
LEMMA PreemptStep ==
    ASSUME NoWaiterMoved, IInv, NEW t \in Task, NEW c \in Core, Preempt(t, c) PROVE IInv'
<1> USE DEF Preempt, Goto, Runs, mutex, schedule, ghosts
<1>1. MutexTypeOK'
  BY InvalidAssumption DEF IInv, MutexTypeOK, Label
<1>2. RunsOnItsCore'
  BY DEF IInv, MutexTypeOK, Label, RunsOnItsCore
<1>3. StaysOnCore'
  BY DEF IInv, MutexTypeOK, Label, StaysOnCore, RunsOnItsCore
<1>4. OneHasFlag'
  BY DEF IInv, MutexTypeOK, Label, OneHasFlag, HasFlag, OwnerIsHolder
<1>5. HolderIsOwner'
  BY InvalidAssumption DEF IInv, MutexTypeOK, Label, OneHasFlag, HasFlag, HolderIsOwner, OwnerIsHolder, CountIsRight
<1>6. OwnerIsHolder'
  BY InvalidAssumption DEF IInv, MutexTypeOK, Label, OneHasFlag, HasFlag, HolderIsOwner, OwnerIsHolder
<1>7. CountIsRight'
  BY DEF IInv, MutexTypeOK, Label, OneHasFlag, HasFlag, OwnerIsHolder, CountIsRight
<1>. QED
  BY <1>1, <1>2, <1>3, <1>4, <1>5, <1>6, <1>7 DEF IInv

\* A task that is moved does not use the mutex.
LEMMA MoveStep ==
    ASSUME NoWaiterMoved, IInv, NEW t \in Task, NEW c \in Core, Move(t, c) PROVE IInv'
<1> USE DEF Move, Goto, Runs, mutex, schedule, ghosts
<1>1. MutexTypeOK'
  BY InvalidAssumption DEF IInv, MutexTypeOK, Label
<1>2. RunsOnItsCore'
  BY DEF IInv, MutexTypeOK, Label, RunsOnItsCore
<1>3. StaysOnCore'
  BY DEF IInv, MutexTypeOK, Label, StaysOnCore, NoWaiterMoved
<1>4. OneHasFlag'
  BY DEF IInv, MutexTypeOK, Label, OneHasFlag, HasFlag, OwnerIsHolder
<1>5. HolderIsOwner'
  BY InvalidAssumption DEF IInv, MutexTypeOK, Label, OneHasFlag, HasFlag, HolderIsOwner, OwnerIsHolder, CountIsRight
<1>6. OwnerIsHolder'
  BY InvalidAssumption DEF IInv, MutexTypeOK, Label, OneHasFlag, HasFlag, HolderIsOwner, OwnerIsHolder
<1>7. CountIsRight'
  BY DEF IInv, MutexTypeOK, Label, OneHasFlag, HasFlag, OwnerIsHolder, CountIsRight
<1>. QED
  BY <1>1, <1>2, <1>3, <1>4, <1>5, <1>6, <1>7 DEF IInv

\* The end of a function.
LEMMA ReturnStep ==
    ASSUME NoWaiterMoved, IInv, NEW t \in Task, Return(t) PROVE IInv'
<1> USE DEF Return, Goto, Runs, mutex, schedule, ghosts
<1>1. MutexTypeOK'
  BY InvalidAssumption DEF IInv, MutexTypeOK, Label
<1>2. RunsOnItsCore'
  BY DEF IInv, MutexTypeOK, Label, RunsOnItsCore
<1>3. StaysOnCore'
  BY DEF IInv, MutexTypeOK, Label, StaysOnCore
<1>4. OneHasFlag'
  BY DEF IInv, MutexTypeOK, Label, OneHasFlag, HasFlag, OwnerIsHolder
<1>5. HolderIsOwner'
  BY InvalidAssumption DEF IInv, MutexTypeOK, Label, OneHasFlag, HasFlag, HolderIsOwner, OwnerIsHolder, CountIsRight
<1>6. OwnerIsHolder'
  BY InvalidAssumption DEF IInv, MutexTypeOK, Label, OneHasFlag, HasFlag, HolderIsOwner, OwnerIsHolder
<1>7. CountIsRight'
  BY DEF IInv, MutexTypeOK, Label, OneHasFlag, HasFlag, OwnerIsHolder, CountIsRight
<1>. QED
  BY <1>1, <1>2, <1>3, <1>4, <1>5, <1>6, <1>7 DEF IInv

\* The core's ID is read.
LEMMA LockMutexStep ==
    ASSUME NoWaiterMoved, IInv, NEW t \in Task, kLockMutex(t) PROVE IInv'
<1> USE DEF kLockMutex, Enter, Goto, Runs, mutex, schedule, ghosts
<1>1. MutexTypeOK'
  BY InvalidAssumption DEF IInv, MutexTypeOK, Label
<1>2. RunsOnItsCore'
  BY DEF IInv, MutexTypeOK, Label, RunsOnItsCore
<1>3. StaysOnCore'
  BY DEF IInv, MutexTypeOK, Label, StaysOnCore
<1>4. OneHasFlag'
  BY DEF IInv, MutexTypeOK, Label, OneHasFlag, HasFlag, OwnerIsHolder
<1>5. HolderIsOwner'
  BY InvalidAssumption DEF IInv, MutexTypeOK, Label, OneHasFlag, HasFlag, HolderIsOwner, OwnerIsHolder, CountIsRight
<1>6. OwnerIsHolder'
  BY InvalidAssumption DEF IInv, MutexTypeOK, Label, OneHasFlag, HasFlag, HolderIsOwner, OwnerIsHolder
<1>7. CountIsRight'
  BY DEF IInv, MutexTypeOK, Label, OneHasFlag, HasFlag, OwnerIsHolder, CountIsRight
<1>. QED
  BY <1>1, <1>2, <1>3, <1>4, <1>5, <1>6, <1>7 DEF IInv

\* The first test-and-set: a clear flag means that nobody has it.
LEMMA TestStep ==
    ASSUME NoWaiterMoved, IInv, NEW t \in Task, kTestAndSet(t, "test", "owner") PROVE IInv'
<1> USE DEF kTestAndSet, Goto, Runs, mutex, schedule, ghosts
<1>1. MutexTypeOK'
  BY InvalidAssumption DEF IInv, MutexTypeOK, Label
<1>2. RunsOnItsCore'
  BY DEF IInv, MutexTypeOK, Label, RunsOnItsCore
<1>3. StaysOnCore'
  BY DEF IInv, MutexTypeOK, Label, StaysOnCore
<1>4. OneHasFlag'
  BY DEF IInv, MutexTypeOK, Label, OneHasFlag, HasFlag, OwnerIsHolder
<1>5. HolderIsOwner'
  BY InvalidAssumption DEF IInv, MutexTypeOK, Label, OneHasFlag, HasFlag, HolderIsOwner, OwnerIsHolder, CountIsRight
<1>6. OwnerIsHolder'
  BY InvalidAssumption DEF IInv, MutexTypeOK, Label, OneHasFlag, HasFlag, HolderIsOwner, OwnerIsHolder
<1>7. CountIsRight'
  BY DEF IInv, MutexTypeOK, Label, OneHasFlag, HasFlag, OwnerIsHolder, CountIsRight
<1>. QED
  BY <1>1, <1>2, <1>3, <1>4, <1>5, <1>6, <1>7 DEF IInv

\* The same after waiting.
LEMMA AgainStep ==
    ASSUME NoWaiterMoved, IInv, NEW t \in Task, kTestAndSet(t, "again", "wait") PROVE IInv'
<1> USE DEF kTestAndSet, Goto, Runs, mutex, schedule, ghosts
<1>1. MutexTypeOK'
  BY InvalidAssumption DEF IInv, MutexTypeOK, Label
<1>2. RunsOnItsCore'
  BY DEF IInv, MutexTypeOK, Label, RunsOnItsCore
<1>3. StaysOnCore'
  BY DEF IInv, MutexTypeOK, Label, StaysOnCore
<1>4. OneHasFlag'
  BY DEF IInv, MutexTypeOK, Label, OneHasFlag, HasFlag, OwnerIsHolder
<1>5. HolderIsOwner'
  BY InvalidAssumption DEF IInv, MutexTypeOK, Label, OneHasFlag, HasFlag, HolderIsOwner, OwnerIsHolder, CountIsRight
<1>6. OwnerIsHolder'
  BY InvalidAssumption DEF IInv, MutexTypeOK, Label, OneHasFlag, HasFlag, HolderIsOwner, OwnerIsHolder
<1>7. CountIsRight'
  BY DEF IInv, MutexTypeOK, Label, OneHasFlag, HasFlag, OwnerIsHolder, CountIsRight
<1>. QED
  BY <1>1, <1>2, <1>3, <1>4, <1>5, <1>6, <1>7 DEF IInv

\* A waiting task is switched from, and stays on its core.
LEMMA WaitStep ==
    ASSUME NoWaiterMoved, IInv, NEW t \in Task, kSchedule(t, "wait", "again") PROVE IInv'
<1> USE DEF kSchedule, Goto, Runs, mutex, schedule, ghosts
<1>1. MutexTypeOK'
  BY InvalidAssumption DEF IInv, MutexTypeOK, Label
<1>2. RunsOnItsCore'
  BY DEF IInv, MutexTypeOK, Label, RunsOnItsCore
<1>3. StaysOnCore'
  BY DEF IInv, MutexTypeOK, Label, StaysOnCore
<1>4. OneHasFlag'
  BY DEF IInv, MutexTypeOK, Label, OneHasFlag, HasFlag, OwnerIsHolder
<1>5. HolderIsOwner'
  BY InvalidAssumption DEF IInv, MutexTypeOK, Label, OneHasFlag, HasFlag, HolderIsOwner, OwnerIsHolder, CountIsRight
<1>6. OwnerIsHolder'
  BY InvalidAssumption DEF IInv, MutexTypeOK, Label, OneHasFlag, HasFlag, HolderIsOwner, OwnerIsHolder
<1>7. CountIsRight'
  BY DEF IInv, MutexTypeOK, Label, OneHasFlag, HasFlag, OwnerIsHolder, CountIsRight
<1>. QED
  BY <1>1, <1>2, <1>3, <1>4, <1>5, <1>6, <1>7 DEF IInv

\* The running task of t's core is t itself.
LEMMA CheckOwnerStep ==
    ASSUME NoWaiterMoved, IInv, NEW t \in Task, CheckOwner(t) PROVE IInv'
<1> USE DEF CheckOwner, Goto, Runs, mutex, schedule, ghosts
<1>1. MutexTypeOK'
  BY InvalidAssumption DEF IInv, MutexTypeOK, Label
<1>2. RunsOnItsCore'
  BY DEF IInv, MutexTypeOK, Label, RunsOnItsCore
<1>3. StaysOnCore'
  BY DEF IInv, MutexTypeOK, Label, StaysOnCore, OneHasFlag, HasFlag
<1>4. OneHasFlag'
  BY DEF IInv, MutexTypeOK, Label, OneHasFlag, HasFlag, OwnerIsHolder
<1>5. HolderIsOwner'
  BY InvalidAssumption DEF IInv, MutexTypeOK, Label, OneHasFlag, HasFlag, HolderIsOwner, OwnerIsHolder, CountIsRight, StaysOnCore
<1>6. OwnerIsHolder'
  BY InvalidAssumption DEF IInv, MutexTypeOK, Label, OneHasFlag, HasFlag, HolderIsOwner, OwnerIsHolder, StaysOnCore
<1>7. CountIsRight'
  BY DEF IInv, MutexTypeOK, Label, OneHasFlag, HasFlag, OwnerIsHolder, CountIsRight
<1>. QED
  BY <1>1, <1>2, <1>3, <1>4, <1>5, <1>6, <1>7 DEF IInv

\* Only the holder nests.
LEMMA NestStep ==
    ASSUME NoWaiterMoved, IInv, NEW t \in Task, Nest(t) PROVE IInv'
<1> USE DEF Nest, Goto, Runs, mutex, schedule, ghosts
<1>1. MutexTypeOK'
  BY InvalidAssumption DEF IInv, MutexTypeOK, Label
<1>2. RunsOnItsCore'
  BY DEF IInv, MutexTypeOK, Label, RunsOnItsCore
<1>3. StaysOnCore'
  BY DEF IInv, MutexTypeOK, Label, StaysOnCore
<1>4. OneHasFlag'
  BY DEF IInv, MutexTypeOK, Label, OneHasFlag, HasFlag, OwnerIsHolder
<1>5. HolderIsOwner'
  BY InvalidAssumption DEF IInv, MutexTypeOK, Label, OneHasFlag, HasFlag, HolderIsOwner, OwnerIsHolder, CountIsRight
<1>6. OwnerIsHolder'
  BY InvalidAssumption DEF IInv, MutexTypeOK, Label, OneHasFlag, HasFlag, HolderIsOwner, OwnerIsHolder
<1>7. CountIsRight'
  BY DEF IInv, MutexTypeOK, Label, OneHasFlag, HasFlag, OwnerIsHolder, CountIsRight
<1>. QED
  BY <1>1, <1>2, <1>3, <1>4, <1>5, <1>6, <1>7 DEF IInv

\* t has the flag, so nobody holds the mutex.
LEMMA SetCountStep ==
    ASSUME NoWaiterMoved, IInv, NEW t \in Task, SetCount(t) PROVE IInv'
<1> USE DEF SetCount, Goto, Runs, mutex, schedule, ghosts
<1>1. MutexTypeOK'
  BY InvalidAssumption DEF IInv, MutexTypeOK, Label
<1>2. RunsOnItsCore'
  BY DEF IInv, MutexTypeOK, Label, RunsOnItsCore
<1>3. StaysOnCore'
  BY DEF IInv, MutexTypeOK, Label, StaysOnCore
<1>4. OneHasFlag'
  BY DEF IInv, MutexTypeOK, Label, OneHasFlag, HasFlag, OwnerIsHolder
<1>5. HolderIsOwner'
  BY InvalidAssumption DEF IInv, MutexTypeOK, Label, OneHasFlag, HasFlag, HolderIsOwner, OwnerIsHolder, CountIsRight
<1>6. OwnerIsHolder'
  BY InvalidAssumption DEF IInv, MutexTypeOK, Label, OneHasFlag, HasFlag, HolderIsOwner, OwnerIsHolder
<1>7. CountIsRight'
  BY DEF IInv, MutexTypeOK, Label, OneHasFlag, HasFlag, OwnerIsHolder, CountIsRight
<1>. QED
  BY <1>1, <1>2, <1>3, <1>4, <1>5, <1>6, <1>7 DEF IInv

\* The running task of t's core is t itself.
LEMMA SetIDStep ==
    ASSUME NoWaiterMoved, IInv, NEW t \in Task, SetID(t) PROVE IInv'
<1> USE DEF SetID, Goto, Runs, mutex, schedule, ghosts
<1>1. MutexTypeOK'
  BY InvalidAssumption DEF IInv, MutexTypeOK, Label
<1>2. RunsOnItsCore'
  BY DEF IInv, MutexTypeOK, Label, RunsOnItsCore
<1>3. StaysOnCore'
  BY DEF IInv, MutexTypeOK, Label, StaysOnCore
<1>4. OneHasFlag'
  BY DEF IInv, MutexTypeOK, Label, OneHasFlag, HasFlag, OwnerIsHolder
<1>5. HolderIsOwner'
  BY InvalidAssumption DEF IInv, MutexTypeOK, Label, OneHasFlag, HasFlag, HolderIsOwner, OwnerIsHolder, CountIsRight, StaysOnCore
<1>6. OwnerIsHolder'
  BY InvalidAssumption DEF IInv, MutexTypeOK, Label, OneHasFlag, HasFlag, HolderIsOwner, OwnerIsHolder, StaysOnCore
<1>7. CountIsRight'
  BY DEF IInv, MutexTypeOK, Label, OneHasFlag, HasFlag, OwnerIsHolder, CountIsRight
<1>. QED
  BY <1>1, <1>2, <1>3, <1>4, <1>5, <1>6, <1>7 DEF IInv

\* Interrupts go off.
LEMMA UnlockMutexStep ==
    ASSUME NoWaiterMoved, IInv, NEW t \in Task, kUnlockMutex(t) PROVE IInv'
<1> USE DEF kUnlockMutex, Enter, Goto, Runs, mutex, schedule, ghosts
<1>1. MutexTypeOK'
  BY InvalidAssumption DEF IInv, MutexTypeOK, Label
<1>2. RunsOnItsCore'
  BY DEF IInv, MutexTypeOK, Label, RunsOnItsCore
<1>3. StaysOnCore'
  BY DEF IInv, MutexTypeOK, Label, StaysOnCore
<1>4. OneHasFlag'
  BY DEF IInv, MutexTypeOK, Label, OneHasFlag, HasFlag, OwnerIsHolder
<1>5. HolderIsOwner'
  BY InvalidAssumption DEF IInv, MutexTypeOK, Label, OneHasFlag, HasFlag, HolderIsOwner, OwnerIsHolder, CountIsRight
<1>6. OwnerIsHolder'
  BY InvalidAssumption DEF IInv, MutexTypeOK, Label, OneHasFlag, HasFlag, HolderIsOwner, OwnerIsHolder
<1>7. CountIsRight'
  BY DEF IInv, MutexTypeOK, Label, OneHasFlag, HasFlag, OwnerIsHolder, CountIsRight
<1>. QED
  BY <1>1, <1>2, <1>3, <1>4, <1>5, <1>6, <1>7 DEF IInv

\* Reads only.
LEMMA CheckFlagStep ==
    ASSUME NoWaiterMoved, IInv, NEW t \in Task, CheckFlag(t) PROVE IInv'
<1> USE DEF CheckFlag, Goto, Runs, mutex, schedule, ghosts
<1>1. MutexTypeOK'
  BY InvalidAssumption DEF IInv, MutexTypeOK, Label
<1>2. RunsOnItsCore'
  BY DEF IInv, MutexTypeOK, Label, RunsOnItsCore
<1>3. StaysOnCore'
  BY DEF IInv, MutexTypeOK, Label, StaysOnCore
<1>4. OneHasFlag'
  BY DEF IInv, MutexTypeOK, Label, OneHasFlag, HasFlag, OwnerIsHolder
<1>5. HolderIsOwner'
  BY InvalidAssumption DEF IInv, MutexTypeOK, Label, OneHasFlag, HasFlag, HolderIsOwner, OwnerIsHolder, CountIsRight
<1>6. OwnerIsHolder'
  BY InvalidAssumption DEF IInv, MutexTypeOK, Label, OneHasFlag, HasFlag, HolderIsOwner, OwnerIsHolder
<1>7. CountIsRight'
  BY DEF IInv, MutexTypeOK, Label, OneHasFlag, HasFlag, OwnerIsHolder, CountIsRight
<1>. QED
  BY <1>1, <1>2, <1>3, <1>4, <1>5, <1>6, <1>7 DEF IInv

\* A task that passes the test holds the mutex.
LEMMA CheckIDStep ==
    ASSUME NoWaiterMoved, IInv, NEW t \in Task, CheckID(t) PROVE IInv'
<1> USE DEF CheckID, Goto, Runs, mutex, schedule, ghosts
<1>1. MutexTypeOK'
  BY InvalidAssumption DEF IInv, MutexTypeOK, Label
<1>2. RunsOnItsCore'
  BY DEF IInv, MutexTypeOK, Label, RunsOnItsCore
<1>3. StaysOnCore'
  BY DEF IInv, MutexTypeOK, Label, StaysOnCore
<1>4. OneHasFlag'
  BY DEF IInv, MutexTypeOK, Label, OneHasFlag, HasFlag, OwnerIsHolder
<1>5. HolderIsOwner'
  BY InvalidAssumption DEF IInv, MutexTypeOK, Label, OneHasFlag, HasFlag, HolderIsOwner, OwnerIsHolder, CountIsRight
<1>6. OwnerIsHolder'
  BY InvalidAssumption DEF IInv, MutexTypeOK, Label, OneHasFlag, HasFlag, HolderIsOwner, OwnerIsHolder
<1>7. CountIsRight'
  BY DEF IInv, MutexTypeOK, Label, OneHasFlag, HasFlag, OwnerIsHolder, CountIsRight
<1>. QED
  BY <1>1, <1>2, <1>3, <1>4, <1>5, <1>6, <1>7 DEF IInv

\* The count stays above zero.
LEMMA UnnestStep ==
    ASSUME NoWaiterMoved, IInv, NEW t \in Task, Unnest(t) PROVE IInv'
<1> USE DEF Unnest, Goto, Runs, mutex, schedule, ghosts
<1>1. MutexTypeOK'
  BY InvalidAssumption DEF IInv, MutexTypeOK, Label, OwnerIsHolder
<1>2. RunsOnItsCore'
  BY DEF IInv, MutexTypeOK, Label, RunsOnItsCore
<1>3. StaysOnCore'
  BY DEF IInv, MutexTypeOK, Label, StaysOnCore
<1>4. OneHasFlag'
  BY DEF IInv, MutexTypeOK, Label, OneHasFlag, HasFlag, OwnerIsHolder
<1>5. HolderIsOwner'
  BY InvalidAssumption DEF IInv, MutexTypeOK, Label, OneHasFlag, HasFlag, HolderIsOwner, OwnerIsHolder, CountIsRight
<1>6. OwnerIsHolder'
  BY InvalidAssumption DEF IInv, MutexTypeOK, Label, OneHasFlag, HasFlag, HolderIsOwner, OwnerIsHolder
<1>7. CountIsRight'
  BY DEF IInv, MutexTypeOK, Label, OneHasFlag, HasFlag, OwnerIsHolder, CountIsRight
<1>. QED
  BY <1>1, <1>2, <1>3, <1>4, <1>5, <1>6, <1>7 DEF IInv

\* t goes on having the flag, but not the mutex.
LEMMA ClearIDStep ==
    ASSUME NoWaiterMoved, IInv, NEW t \in Task, ClearID(t) PROVE IInv'
<1> USE DEF ClearID, Goto, Runs, mutex, schedule, ghosts
<1>1. MutexTypeOK'
  BY InvalidAssumption DEF IInv, MutexTypeOK, Label
<1>2. RunsOnItsCore'
  BY DEF IInv, MutexTypeOK, Label, RunsOnItsCore
<1>3. StaysOnCore'
  BY DEF IInv, MutexTypeOK, Label, StaysOnCore
<1>4. OneHasFlag'
  BY DEF IInv, MutexTypeOK, Label, OneHasFlag, HasFlag, OwnerIsHolder
<1>5. HolderIsOwner'
  BY InvalidAssumption DEF IInv, MutexTypeOK, Label, OneHasFlag, HasFlag, HolderIsOwner, OwnerIsHolder, CountIsRight
<1>6. OwnerIsHolder'
  BY InvalidAssumption DEF IInv, MutexTypeOK, Label, OneHasFlag, HasFlag, HolderIsOwner, OwnerIsHolder
<1>7. CountIsRight'
  BY DEF IInv, MutexTypeOK, Label, OneHasFlag, HasFlag, OwnerIsHolder, CountIsRight
<1>. QED
  BY <1>1, <1>2, <1>3, <1>4, <1>5, <1>6, <1>7 DEF IInv

\* t has the flag.
LEMMA ClearCountStep ==
    ASSUME NoWaiterMoved, IInv, NEW t \in Task, ClearCount(t) PROVE IInv'
<1> USE DEF ClearCount, Goto, Runs, mutex, schedule, ghosts
<1>1. MutexTypeOK'
  BY InvalidAssumption DEF IInv, MutexTypeOK, Label
<1>2. RunsOnItsCore'
  BY DEF IInv, MutexTypeOK, Label, RunsOnItsCore
<1>3. StaysOnCore'
  BY DEF IInv, MutexTypeOK, Label, StaysOnCore
<1>4. OneHasFlag'
  BY DEF IInv, MutexTypeOK, Label, OneHasFlag, HasFlag, OwnerIsHolder
<1>5. HolderIsOwner'
  BY InvalidAssumption DEF IInv, MutexTypeOK, Label, OneHasFlag, HasFlag, HolderIsOwner, OwnerIsHolder, CountIsRight
<1>6. OwnerIsHolder'
  BY InvalidAssumption DEF IInv, MutexTypeOK, Label, OneHasFlag, HasFlag, HolderIsOwner, OwnerIsHolder
<1>7. CountIsRight'
  BY DEF IInv, MutexTypeOK, Label, OneHasFlag, HasFlag, OwnerIsHolder, CountIsRight
<1>. QED
  BY <1>1, <1>2, <1>3, <1>4, <1>5, <1>6, <1>7 DEF IInv

\* The flag is cleared with nothing left behind.
LEMMA ClearFlagStep ==
    ASSUME NoWaiterMoved, IInv, NEW t \in Task, ClearFlag(t) PROVE IInv'
<1> USE DEF ClearFlag, Goto, Runs, mutex, schedule, ghosts
<1>1. MutexTypeOK'
  BY InvalidAssumption DEF IInv, MutexTypeOK, Label
<1>2. RunsOnItsCore'
  BY DEF IInv, MutexTypeOK, Label, RunsOnItsCore
<1>3. StaysOnCore'
  BY DEF IInv, MutexTypeOK, Label, StaysOnCore
<1>4. OneHasFlag'
  BY DEF IInv, MutexTypeOK, Label, OneHasFlag, HasFlag, OwnerIsHolder
<1>5. HolderIsOwner'
  BY InvalidAssumption DEF IInv, MutexTypeOK, Label, OneHasFlag, HasFlag, HolderIsOwner, OwnerIsHolder, CountIsRight
<1>6. OwnerIsHolder'
  BY InvalidAssumption DEF IInv, MutexTypeOK, Label, OneHasFlag, HasFlag, HolderIsOwner, OwnerIsHolder
<1>7. CountIsRight'
  BY DEF IInv, MutexTypeOK, Label, OneHasFlag, HasFlag, OwnerIsHolder, CountIsRight
<1>. QED
  BY <1>1, <1>2, <1>3, <1>4, <1>5, <1>6, <1>7 DEF IInv

\* A step of the semaphore functions changes nothing of the mutex, keeps t off
\* the labels of the mutex functions and at most switches to another task.
LEMMA SemaphoreEffect ==
    ASSUME NEW t \in Task, Semaphore(t)
    PROVE  /\ UNCHANGED <<bLockFlag, dwLockCount, qwTaskID, core, bCurrentAPICID, holds>>
           /\ \/ running' = running
              \/ \E u \in Task : core[u] = core[t]
                               /\ running' = [running EXCEPT ![core[t]] = u]
           /\ \/ rflagsIF' = [rflagsIF EXCEPT ![t] = FALSE]
              \/ rflagsIF' = rflagsIF /\ pc[t] \notin {"idle", "nest"}
           /\ \E l \in {"return", "semTest", "semWait", "semRead", "semWrite", "semFull",
                        "semInc", "semStore"} : pc' = [pc EXCEPT ![t] = l]
<1> USE DEF Goto, mutex, schedule, ghosts
<1>1. CASE xLockSemaphore(t)
  BY <1>1 DEF xLockSemaphore, Enter
<1>6. CASE xUnlockSemaphore(t)
  BY <1>6 DEF xUnlockSemaphore, Enter
<1>2. CASE TestCount(t) \/ TestFull(t)
  BY <1>2 DEF TestCount, TestFull
<1>3. CASE kSchedule(t, "semWait", "semTest")
  BY <1>3 DEF kSchedule
<1>4. CASE ReadCount(t, "semRead", "semWrite") \/ ReadCount(t, "semInc", "semStore")
  BY <1>4 DEF ReadCount
<1>5. CASE Decrement(t) \/ Increment(t)
  BY <1>5 DEF Decrement, Increment
<1>. QED
  BY <1>1, <1>2, <1>3, <1>4, <1>5, <1>6 DEF Semaphore

\* So the invariant of the mutex is not disturbed.
LEMMA SemaphoreStep ==
    ASSUME NoWaiterMoved, IInv, NEW t \in Task, Semaphore(t) PROVE IInv'
<1>1. MutexTypeOK'
  <2> USE SemaphoreEffect DEF IInv, MutexTypeOK
  <2>1. (bLockFlag \in BOOLEAN /\ dwLockCount \in Nat
          /\ qwTaskID \in Task \cup {TASK_INVALIDID} /\ core \in [Task -> Core]
          /\ bCurrentAPICID \in [Task -> Core] /\ holds \in [Task -> Nat])'
    OBVIOUS
  <2>2. (running \in [Core -> Task])'
    OBVIOUS
  <2>3. (rflagsIF \in [Task -> BOOLEAN])'
    OBVIOUS
  <2>4. (pc \in [Task -> Label])'
    BY DEF Label
  <2>. QED
    BY <2>1, <2>2, <2>3, <2>4
<1>2. RunsOnItsCore'
  BY SemaphoreEffect DEF IInv, MutexTypeOK, RunsOnItsCore
<1>3. StaysOnCore'
  <2>1. ASSUME NEW u \in Task, u # t
        PROVE  pc'[u] = pc[u] /\ rflagsIF'[u] = rflagsIF[u]
    BY <2>1, SemaphoreEffect DEF IInv, MutexTypeOK
  <2>2. pc'[t] \notin {"test", "owner", "again", "wait", "setCount", "setID"}
    BY SemaphoreEffect DEF IInv, MutexTypeOK
  <2>3. ~rflagsIF'[t]
    <3>1. CASE rflagsIF' = [rflagsIF EXCEPT ![t] = FALSE]
      BY <3>1 DEF IInv, MutexTypeOK
    <3>2. CASE rflagsIF' = rflagsIF /\ pc[t] \notin {"idle", "nest"}
      BY <3>2 DEF IInv, StaysOnCore
    <3>. QED
      BY <3>1, <3>2, SemaphoreEffect
  <2>4. core' = core /\ bCurrentAPICID' = bCurrentAPICID
    BY SemaphoreEffect
  <2>. QED
    BY <2>1, <2>2, <2>3, <2>4 DEF IInv, StaysOnCore
<1>4. OneHasFlag'
  <2>1. ASSUME NEW u \in Task, HasFlag(u)' PROVE HasFlag(u)
    <3>1. CASE u = t
      BY <2>1, <3>1, SemaphoreEffect DEF IInv, MutexTypeOK, HasFlag
    <3>2. CASE u # t
      BY <2>1, <3>2, SemaphoreEffect DEF IInv, MutexTypeOK, HasFlag
    <3>. QED
      BY <3>1, <3>2
  <2>2. bLockFlag' = bLockFlag
    BY SemaphoreEffect
  <2>. QED
    BY <2>1, <2>2 DEF IInv, OneHasFlag
<1>5. HolderIsOwner'
  BY SemaphoreEffect DEF IInv, HolderIsOwner
<1>6. OwnerIsHolder'
  BY SemaphoreEffect DEF IInv, MutexTypeOK, OwnerIsHolder
<1>7. CountIsRight'
  BY SemaphoreEffect DEF IInv, MutexTypeOK, CountIsRight
<1>. QED
  BY <1>1, <1>2, <1>3, <1>4, <1>5, <1>6, <1>7 DEF IInv

LEMMA NextInv == ASSUME NoWaiterMoved, IInv, [Next]_vars PROVE IInv'
<1>1. CASE UNCHANGED vars
  BY <1>1 DEF IInv, MutexTypeOK, RunsOnItsCore, StaysOnCore, OneHasFlag, HasFlag,
              HolderIsOwner, OwnerIsHolder, CountIsRight, vars, mutex, schedule, ghosts
<1>2. ASSUME NEW t \in Task, LockMutex(t) PROVE IInv'
  BY <1>2, LockMutexStep, TestStep, CheckOwnerStep, NestStep, AgainStep, WaitStep,
     SetCountStep, SetIDStep DEF LockMutex
<1>3. ASSUME NEW t \in Task, UnlockMutex(t) PROVE IInv'
  BY <1>3, UnlockMutexStep, CheckFlagStep, CheckIDStep, UnnestStep, ClearIDStep,
     ClearCountStep, ClearFlagStep DEF UnlockMutex
<1>4. CASE Next
  BY <1>2, <1>3, <1>4, SemaphoreStep, ReturnStep, PreemptStep, MoveStep DEF Next
<1>. QED
  BY <1>1, <1>4

\* The invariant holds in every state, for any tasks, cores and start.
THEOREM Invariance == ASSUME NoWaiterMoved PROVE Spec => []IInv
<1>1. Init => IInv
  BY InitInv
<1>2. IInv /\ [Next]_vars => IInv'
  BY NextInv
<1>. QED
  BY <1>1, <1>2, PTL DEF Spec

\* The task that has taken the mutex is the one recorded in it, as often as it
\* took it.
THEOREM HolderIsOwnerHolds == ASSUME NoWaiterMoved PROVE Spec => []HolderIsOwner
<1>1. IInv => HolderIsOwner
  BY DEF IInv
<1>. QED
  BY <1>1, Invariance, PTL

\* A mutex whose flag is clear names no owner and counts nothing.
THEOREM FreeMutexIsClearHolds == ASSUME NoWaiterMoved PROVE Spec => []FreeMutexIsClear
<1>1. IInv => FreeMutexIsClear
  BY DEF IInv, MutexTypeOK, OneHasFlag, HasFlag, OwnerIsHolder, CountIsRight,
         FreeMutexIsClear
<1>. QED
  BY <1>1, Invariance, PTL

(***************************************************************************)
(* The semaphore of TaskSync counts exactly                                *)
(***************************************************************************)
\* The users of the semaphore are on one core and stay there.  On two cores the
\* read and the write of its count interleave.
OneSemaphoreCore ==
    /\ SemaphoreUser \cap (LoadBalanced \cup Moved) = {}
    /\ \A t, u \in SemaphoreUser : Start[t] = Start[u]

SemaphoreLabel ==
    {"semTest", "semWait", "semRead", "semWrite", "semFull", "semInc", "semStore"}

SemaphoreTypeOK ==
    /\ running \in [Core -> Task] /\ core \in [Task -> Core]
    /\ rflagsIF \in [Task -> BOOLEAN] /\ pc \in [Task -> Label]
    /\ semCount \in 0 .. DWORD - 1 /\ count \in [Task -> 0 .. DWORD - 1]
    /\ taken \in Nat

\* Interrupts are off in the functions of the semaphore, and its users are where
\* they started.
UsersStay ==
    /\ \A t \in Task : pc[t] \in SemaphoreLabel => t \in SemaphoreUser /\ ~rflagsIF[t]
    /\ \A t \in SemaphoreUser \cap Task : core[t] = Start[t]

\* A task between the test of the count and its change is the running task of its
\* core: only kSchedule, where the functions wait, lets another one in.
Changing(t) == pc[t] \in {"semRead", "semWrite", "semInc", "semStore"}
NobodyComesBetween == \A t \in Task : Changing(t) => Runs(t)

\* What such a task has tested and read is still so.
TestedIsTrue ==
    \A t \in Task :
        /\ pc[t] \in {"semRead", "semWrite"} => semCount > 0
        /\ pc[t] \in {"semInc", "semStore"} => semCount < value
        /\ pc[t] \in {"semWrite", "semStore"} => count[t] = semCount

SInv == /\ SemaphoreTypeOK /\ RunsOnItsCore /\ UsersStay
        /\ NobodyComesBetween /\ TestedIsTrue /\ CountIsAccurate


LEMMA SemaphoreInit == OneSemaphoreCore /\ Init => SInv
<1>. SUFFICES ASSUME Init PROVE SInv
  OBVIOUS
<1> USE DEF Init
<1>1. value \in 1 .. DWORD - 1 /\ value \in Nat /\ 0 \in 0 .. DWORD - 1
  BY ValueAssumption
<1>2. SemaphoreTypeOK
  BY <1>1, StartAssumption DEF SemaphoreTypeOK, Label
<1>3. RunsOnItsCore
  BY StartAssumption DEF RunsOnItsCore
<1>4. UsersStay /\ NobodyComesBetween /\ TestedIsTrue
  BY DEF UsersStay, NobodyComesBetween, TestedIsTrue, Changing, SemaphoreLabel
<1>5. CountIsAccurate
  BY <1>1 DEF CountIsAccurate
<1>. QED
  BY <1>2, <1>3, <1>4, <1>5 DEF SInv

\* In the functions of the mutex a task touches nothing of the semaphore.
LEMMA MutexEffect ==
    ASSUME NEW t \in Task,
           \/ LockMutex(t) /\ ~kSchedule(t, "wait", "again")
           \/ UnlockMutex(t) \/ Return(t)
    PROVE  /\ UNCHANGED <<semCount, running, core, count, taken>>
           /\ pc[t] \notin SemaphoreLabel
           /\ \E l \in Label \ SemaphoreLabel : pc' = [pc EXCEPT ![t] = l]
           /\ \/ rflagsIF' = rflagsIF
              \/ \E b \in BOOLEAN : rflagsIF' = [rflagsIF EXCEPT ![t] = b]
<1> USE DEF Goto, schedule, ghosts, mutex, Label, SemaphoreLabel
<1>1. CASE kLockMutex(t) \/ kUnlockMutex(t)
  BY <1>1 DEF kLockMutex, kUnlockMutex, Enter
<1>2. CASE kTestAndSet(t, "test", "owner") \/ kTestAndSet(t, "again", "wait")
  BY <1>2 DEF kTestAndSet
<1>3. CASE CheckOwner(t)
  <2>1. (qwTaskID = running[bCurrentAPICID[t]]) \in BOOLEAN
    OBVIOUS
  <2>2. \E l \in Label \ SemaphoreLabel : pc' = [pc EXCEPT ![t] = l]
    BY <1>3 DEF CheckOwner
  <2>. QED
    BY <1>3, <2>1, <2>2 DEF CheckOwner
<1>4. CASE Nest(t) \/ SetCount(t) \/ SetID(t)
  BY <1>4 DEF Nest, SetCount, SetID
<1>5. CASE CheckFlag(t) \/ CheckID(t)
  BY <1>5 DEF CheckFlag, CheckID
<1>6. CASE Unnest(t) \/ ClearID(t) \/ ClearCount(t) \/ ClearFlag(t)
  BY <1>6 DEF Unnest, ClearID, ClearCount, ClearFlag
<1>7. CASE Return(t)
  BY <1>7 DEF Return
<1>. QED
  BY <1>1, <1>2, <1>3, <1>4, <1>5, <1>6, <1>7 DEF LockMutex, UnlockMutex

LEMMA MutexKeepsSemaphore ==
    ASSUME SInv, NEW t \in Task,
           \/ LockMutex(t) /\ ~kSchedule(t, "wait", "again")
           \/ UnlockMutex(t) \/ Return(t)
    PROVE  SInv'
<1>1. /\ UNCHANGED <<semCount, running, core, count, taken>>
      /\ pc[t] \notin SemaphoreLabel
      /\ \A u \in Task \ {t} : pc'[u] = pc[u] /\ rflagsIF'[u] = rflagsIF[u]
      /\ pc'[t] \notin SemaphoreLabel
  BY MutexEffect DEF SInv, SemaphoreTypeOK
<1>2. pc' \in [Task -> Label]
  BY MutexEffect DEF SInv, SemaphoreTypeOK
<1>3. rflagsIF' \in [Task -> BOOLEAN]
  BY MutexEffect DEF SInv, SemaphoreTypeOK
<1>4. SemaphoreTypeOK'
  BY <1>1, <1>2, <1>3 DEF SInv, SemaphoreTypeOK
<1>5. RunsOnItsCore' /\ CountIsAccurate'
  BY <1>1 DEF SInv, RunsOnItsCore, CountIsAccurate
<1>6. UsersStay'
  BY <1>1 DEF SInv, UsersStay
<1>7. NobodyComesBetween' /\ TestedIsTrue'
  BY <1>1 DEF SInv, NobodyComesBetween, TestedIsTrue, Changing, Runs, SemaphoreLabel
<1>. QED
  BY <1>4, <1>5, <1>6, <1>7 DEF SInv

\* A task that waits, for the mutex or the semaphore, lets another one run.
LEMMA ScheduleKeepsSemaphore ==
    ASSUME SInv, NEW t \in Task,
           kSchedule(t, "wait", "again") \/ kSchedule(t, "semWait", "semTest")
    PROVE  SInv'
<1> USE DEF kSchedule, Goto, ghosts
<1>1. PICK u \in Task : core[u] = core[t] /\ running' = [running EXCEPT ![core[t]] = u]
  OBVIOUS
<1>2. SemaphoreTypeOK'
  BY <1>1 DEF SInv, SemaphoreTypeOK, Label
<1>3. RunsOnItsCore' /\ CountIsAccurate'
  BY <1>1 DEF SInv, SemaphoreTypeOK, RunsOnItsCore, CountIsAccurate
<1>4. UsersStay'
  BY DEF SInv, SemaphoreTypeOK, UsersStay, SemaphoreLabel
<1>5. NobodyComesBetween'
  <2> SUFFICES ASSUME NEW v \in Task, Changing(v)' PROVE Runs(v)'
    BY DEF NobodyComesBetween
  <2>1. v # t /\ Changing(v)
    BY DEF SInv, SemaphoreTypeOK, Changing
  <2>2. Runs(v) /\ Runs(t)
    BY <2>1 DEF SInv, NobodyComesBetween
  <2>3. core[v] # core[t]
    BY <2>1, <2>2 DEF Runs
  <2>. QED
    BY <1>1, <2>2, <2>3 DEF SInv, SemaphoreTypeOK, Runs
<1>6. TestedIsTrue'
  BY DEF SInv, SemaphoreTypeOK, TestedIsTrue
<1>. QED
  BY <1>2, <1>3, <1>4, <1>5, <1>6 DEF SInv

\* The timer does not interrupt them, nor does it move them.
LEMMA PreemptKeepsSemaphore ==
    ASSUME OneSemaphoreCore, SInv, NEW t \in Task, NEW c \in Core, Preempt(t, c)
    PROVE  SInv'
<1> USE DEF Preempt, ghosts
<1>1. PICK u \in Task \ {t} : core[u] = core[t] /\ running' = [running EXCEPT ![core[t]] = u]
  OBVIOUS
<1>2. core' = [core EXCEPT ![t] = c] /\ UNCHANGED <<semCount, rflagsIF, pc, count, taken>>
  OBVIOUS
<1>3. SemaphoreTypeOK'
  BY <1>1, <1>2 DEF SInv, SemaphoreTypeOK
<1>4. RunsOnItsCore'
  <2> SUFFICES ASSUME NEW d \in Core PROVE core'[running'[d]] = d
    BY DEF RunsOnItsCore
  <2>1. CASE d = core[t]
    BY <1>1, <1>2, <2>1 DEF SInv, SemaphoreTypeOK
  <2>2. CASE d # core[t]
    BY <1>1, <1>2, <2>2 DEF SInv, SemaphoreTypeOK, RunsOnItsCore
  <2>. QED
    BY <2>1, <2>2
<1>5. UsersStay'
  <2>1. \A v \in SemaphoreUser \cap Task : core'[v] = core[v]
    BY <1>2 DEF OneSemaphoreCore, SInv, SemaphoreTypeOK
  <2>. QED
    BY <1>2, <2>1 DEF SInv, UsersStay
<1>6. NobodyComesBetween'
  <2> SUFFICES ASSUME NEW v \in Task, Changing(v) PROVE Runs(v)'
    BY <1>2 DEF NobodyComesBetween, Changing
  <2>1. Runs(v) /\ Runs(t)
    BY DEF SInv, NobodyComesBetween
  <2>2. v # t
    BY DEF SInv, UsersStay, Changing, SemaphoreLabel
  <2>3. core[v] # core[t]
    BY <2>1, <2>2 DEF Runs
  <2>. QED
    BY <1>1, <1>2, <2>1, <2>2, <2>3 DEF SInv, SemaphoreTypeOK, Runs
<1>7. TestedIsTrue' /\ CountIsAccurate'
  BY <1>2 DEF SInv, TestedIsTrue, CountIsAccurate
<1>. QED
  BY <1>3, <1>4, <1>5, <1>6, <1>7 DEF SInv

LEMMA MoveKeepsSemaphore ==
    ASSUME OneSemaphoreCore, SInv, NEW t \in Task, NEW c \in Core, Move(t, c)
    PROVE  SInv'
<1> USE DEF Move, ghosts
<1>1. SemaphoreTypeOK'
  BY DEF SInv, SemaphoreTypeOK
<1>2. RunsOnItsCore'
  <2> SUFFICES ASSUME NEW d \in Core PROVE core'[running'[d]] = d
    BY DEF RunsOnItsCore
  <2>1. running[d] # t
    BY DEF SInv, RunsOnItsCore, Runs
  <2>. QED
    BY <2>1 DEF SInv, SemaphoreTypeOK, RunsOnItsCore
<1>3. UsersStay'
  <2>1. \A v \in SemaphoreUser \cap Task : core'[v] = core[v]
    BY DEF OneSemaphoreCore, SInv, SemaphoreTypeOK
  <2>. QED
    BY <2>1 DEF SInv, UsersStay
<1>4. NobodyComesBetween'
  BY DEF SInv, SemaphoreTypeOK, NobodyComesBetween, Changing, Runs
<1>5. TestedIsTrue' /\ CountIsAccurate'
  BY DEF SInv, TestedIsTrue, CountIsAccurate
<1>. QED
  BY <1>1, <1>2, <1>3, <1>4, <1>5 DEF SInv

\* Interrupts go off before anything is tested.
LEMMA EnterSemaphore ==
    ASSUME SInv, NEW t \in Task, xLockSemaphore(t) \/ xUnlockSemaphore(t)
    PROVE  SInv'
<1> USE DEF xLockSemaphore, xUnlockSemaphore, Enter, Goto, schedule, ghosts
<1>1. SemaphoreTypeOK'
  BY DEF SInv, SemaphoreTypeOK, Label
<1>2. RunsOnItsCore' /\ CountIsAccurate'
  BY DEF SInv, RunsOnItsCore, CountIsAccurate
<1>3. UsersStay'
  BY DEF SInv, SemaphoreTypeOK, UsersStay, SemaphoreLabel
<1>4. NobodyComesBetween' /\ TestedIsTrue'
  BY DEF SInv, SemaphoreTypeOK, NobodyComesBetween, TestedIsTrue, Changing, Runs
<1>. QED
  BY <1>1, <1>2, <1>3, <1>4 DEF SInv

\* The count is tested.
LEMMA TestSemaphore ==
    ASSUME SInv, NEW t \in Task, TestCount(t) \/ TestFull(t)
    PROVE  SInv'
<1> USE DEF TestCount, TestFull, Goto, schedule, ghosts
<1>1. SemaphoreTypeOK'
  BY DEF SInv, SemaphoreTypeOK, Label
<1>2. RunsOnItsCore' /\ CountIsAccurate'
  BY DEF SInv, RunsOnItsCore, CountIsAccurate
<1>3. UsersStay'
  BY DEF SInv, SemaphoreTypeOK, UsersStay, SemaphoreLabel
<1>4. NobodyComesBetween'
  BY DEF SInv, SemaphoreTypeOK, NobodyComesBetween, Changing, Runs
<1>5. TestedIsTrue'
  BY DEF SInv, SemaphoreTypeOK, TestedIsTrue
<1>. QED
  BY <1>1, <1>2, <1>3, <1>4, <1>5 DEF SInv

\* The count is read.
LEMMA ReadSemaphore ==
    ASSUME SInv, NEW t \in Task,
           ReadCount(t, "semRead", "semWrite") \/ ReadCount(t, "semInc", "semStore")
    PROVE  SInv'
<1> USE DEF ReadCount, Goto, schedule, ghosts
<1>1. SemaphoreTypeOK'
  BY DEF SInv, SemaphoreTypeOK, Label
<1>2. RunsOnItsCore' /\ CountIsAccurate'
  BY DEF SInv, RunsOnItsCore, CountIsAccurate
<1>3. UsersStay'
  BY DEF SInv, SemaphoreTypeOK, UsersStay, SemaphoreLabel
<1>4. NobodyComesBetween'
  BY DEF SInv, SemaphoreTypeOK, NobodyComesBetween, Changing, Runs
<1>5. TestedIsTrue'
  BY DEF SInv, SemaphoreTypeOK, TestedIsTrue
<1>. QED
  BY <1>1, <1>2, <1>3, <1>4, <1>5 DEF SInv

\* Two tasks that change the count are one.
LEMMA OneChanges ==
    ASSUME OneSemaphoreCore, SInv, NEW t \in Task, NEW u \in Task, Changing(t), Changing(u)
    PROVE  t = u
<1>1. t \in SemaphoreUser /\ u \in SemaphoreUser /\ Runs(t) /\ Runs(u)
  BY DEF SInv, UsersStay, NobodyComesBetween, Changing, SemaphoreLabel
<1>2. core[t] = core[u]
  BY <1>1 DEF OneSemaphoreCore, SInv, UsersStay
<1>. QED
  BY <1>1, <1>2 DEF Runs

\* What is written is the count plus or minus one, and stays in its bounds.
LEMMA WriteSemaphore ==
    ASSUME OneSemaphoreCore, SInv, NEW t \in Task, Decrement(t) \/ Increment(t)
    PROVE  SInv'
<1> USE DEF Decrement, Increment, Goto, schedule
<1>1. /\ semCount \in 0 .. DWORD - 1 /\ DWORD \in Nat /\ taken \in Nat
      /\ value \in 1 .. DWORD - 1 /\ semCount + taken = value
  <2>1. DWORD \in Nat
    BY ValueAssumption
  <2>. QED
    BY <2>1, ValueAssumption DEF SInv, SemaphoreTypeOK, CountIsAccurate
<1>2. \/ semCount' = semCount - 1 /\ taken' = taken + 1 /\ semCount > 0
      \/ semCount' = semCount + 1 /\ taken' = taken - 1 /\ semCount < value
  <2>1. CASE Decrement(t)
    <3>1. count[t] = semCount /\ semCount > 0
      BY <2>1 DEF SInv, TestedIsTrue
    <3>2. (semCount + DWORD - 1) % DWORD = semCount - 1
      BY <1>1, <3>1
    <3>. QED
      BY <2>1, <3>1, <3>2
  <2>2. CASE Increment(t)
    <3>1. count[t] = semCount /\ semCount < value
      BY <2>2 DEF SInv, TestedIsTrue
    <3>2. (semCount + 1) % DWORD = semCount + 1
      BY <1>1, <3>1
    <3>. QED
      BY <2>2, <3>1, <3>2
  <2>. QED
    BY <2>1, <2>2
<1>3. semCount' \in 0 .. DWORD - 1 /\ taken' \in Nat /\ CountIsAccurate'
  BY <1>1, <1>2 DEF CountIsAccurate
<1>4. /\ UNCHANGED <<running, core, rflagsIF, count>>
      /\ Changing(t) /\ pc' = [pc EXCEPT ![t] = "return"]
  BY DEF Changing
<1>5. SemaphoreTypeOK'
  BY <1>3, <1>4 DEF SInv, SemaphoreTypeOK, Label
<1>6. RunsOnItsCore'
  BY <1>4 DEF SInv, RunsOnItsCore
<1>7. UsersStay'
  BY <1>4 DEF SInv, SemaphoreTypeOK, UsersStay, SemaphoreLabel
<1>8. NobodyComesBetween'
  BY <1>4 DEF SInv, SemaphoreTypeOK, NobodyComesBetween, Changing, Runs
<1>9. TestedIsTrue'
  <2>1. ASSUME NEW u \in Task PROVE ~Changing(u)'
    <3>1. CASE u = t
      BY <1>4, <3>1 DEF SInv, SemaphoreTypeOK, Changing
    <3>2. CASE u # t
      <4>1. ~Changing(u)
        BY <1>4, <3>2, OneChanges
      <4>. QED
        BY <1>4, <3>2, <4>1 DEF SInv, SemaphoreTypeOK, Changing
    <3>. QED
      BY <3>1, <3>2
  <2>. QED
    BY <2>1 DEF TestedIsTrue, Changing
<1>. QED
  BY <1>3, <1>5, <1>6, <1>7, <1>8, <1>9 DEF SInv

LEMMA SemaphoreNext == ASSUME OneSemaphoreCore, SInv, [Next]_vars PROVE SInv'
<1>1. CASE UNCHANGED vars
  BY <1>1 DEF SInv, SemaphoreTypeOK, RunsOnItsCore, UsersStay, NobodyComesBetween, Changing,
              Runs, TestedIsTrue, CountIsAccurate, vars, mutex, schedule, ghosts
<1>2. ASSUME NEW t \in Task, LockMutex(t) \/ UnlockMutex(t) \/ Return(t) PROVE SInv'
  BY <1>2, MutexKeepsSemaphore, ScheduleKeepsSemaphore
<1>3. ASSUME NEW t \in Task, Semaphore(t) PROVE SInv'
  BY <1>3, ScheduleKeepsSemaphore, EnterSemaphore, TestSemaphore, ReadSemaphore,
     WriteSemaphore DEF Semaphore
<1>4. CASE Next
  BY <1>2, <1>3, <1>4, PreemptKeepsSemaphore, MoveKeepsSemaphore DEF Next
<1>. QED
  BY <1>1, <1>4

\* The semaphore's invariant holds in every state, for any start, initial value
\* and number of users.
THEOREM SemaphoreInvariance == ASSUME OneSemaphoreCore PROVE Spec => []SInv
<1>1. Init => SInv
  BY SemaphoreInit
<1>2. SInv /\ [Next]_vars => SInv'
  BY SemaphoreNext
<1>. QED
  BY <1>1, <1>2, PTL DEF Spec

\* The semaphore is never taken more often than its initial value allows, and no
\* unlock is lost, although its count is read and written in two steps.
THEOREM CountIsAccurateHolds == ASSUME OneSemaphoreCore PROVE Spec => []CountIsAccurate
<1>1. SInv => CountIsAccurate
  BY DEF SInv
<1>. QED
  BY <1>1, SemaphoreInvariance, PTL

\* The fields of both records and the tasks' variables have their types; neither
\* count falls below zero.
THEOREM TypeCorrect == ASSUME NoWaiterMoved, OneSemaphoreCore PROVE Spec => []TypeOK
<1>1. IInv /\ SInv => TypeOK
  BY DEF IInv, MutexTypeOK, SInv, SemaphoreTypeOK, TypeOK
<1>. QED
  BY <1>1, Invariance, SemaphoreInvariance, PTL

(***************************************************************************)
(* The mutex implements the reentrant lock (ReentrantLock)                 *)
(***************************************************************************)
OwnerOf == IF Holder = {} THEN TASK_INVALIDID ELSE CHOOSE t \in Holder : TRUE
DepthOf == IF Holder = {} THEN 0 ELSE holds[CHOOSE t \in Holder : TRUE]

LEMMA AcquireOf ==
    ASSUME NEW t \in Task, OwnerOf \in {TASK_INVALIDID, t},
           OwnerOf' = t, DepthOf' = DepthOf + 1
    PROVE  Abstract!Acquire(t, "mutex")
<1> DEFINE o == [l \in {"mutex"} |-> OwnerOf]
           d == [l \in {"mutex"} |-> DepthOf]
<1>1. o["mutex"] \in {TASK_INVALIDID, t} /\ o' = [o EXCEPT !["mutex"] = t]
  OBVIOUS
<1>2. d' = [d EXCEPT !["mutex"] = @ + 1]
  OBVIOUS
<1> QED
  BY <1>1, <1>2, Zenon DEF Abstract!Acquire, OwnerOf, DepthOf

LEMMA ReleaseOf ==
    ASSUME NEW t \in Task, OwnerOf = t,
           OwnerOf' = (IF DepthOf = 1 THEN TASK_INVALIDID ELSE t), DepthOf' = DepthOf - 1
    PROVE  Abstract!Release(t, "mutex")
<1> DEFINE o == [l \in {"mutex"} |-> OwnerOf]
           d == [l \in {"mutex"} |-> DepthOf]
<1>1. /\ o["mutex"] = t
      /\ o' = [o EXCEPT !["mutex"] = IF d["mutex"] = 1 THEN TASK_INVALIDID ELSE t]
  OBVIOUS
<1>2. d' = [d EXCEPT !["mutex"] = @ - 1]
  OBVIOUS
<1> QED
  BY <1>1, <1>2, Zenon DEF Abstract!Release, OwnerOf, DepthOf

\* What the mapping yields when only t can hold the mutex; h stands for holds,
\* before or after a step.
OnlyBy(h, t) == \A u \in Task \ {t} : h[u] = 0

LEMMA HolderBefore ==
    ASSUME NEW t \in Task, holds[t] \in Nat, OnlyBy(holds, t)
    PROVE  OwnerOf = (IF holds[t] > 0 THEN t ELSE TASK_INVALIDID) /\ DepthOf = holds[t]
<1>1. Holder = IF holds[t] > 0 THEN {t} ELSE {}
  BY DEF Holder, OnlyBy
<1>2. (CHOOSE u \in {t} : TRUE) = t
  OBVIOUS
<1> QED
  BY <1>1, <1>2 DEF OwnerOf, DepthOf

LEMMA HolderAfter ==
    ASSUME NEW t \in Task, holds'[t] \in Nat, OnlyBy(holds', t)
    PROVE  OwnerOf' = (IF holds'[t] > 0 THEN t ELSE TASK_INVALIDID) /\ DepthOf' = holds'[t]
<1>1. Holder' = IF holds'[t] > 0 THEN {t} ELSE {}
  BY DEF Holder, OnlyBy
<1>2. (CHOOSE u \in {t} : TRUE) = t
  OBVIOUS
<1> QED
  BY <1>1, <1>2 DEF OwnerOf, DepthOf

\* The holds of t change by one.
LEMMA TakeStep ==
    ASSUME IInv, NEW t \in Task, HasFlag(t), holds' = [holds EXCEPT ![t] = @ + 1]
    PROVE  Abstract!Acquire(t, "mutex")
<1>1. holds[t] \in Nat /\ holds'[t] = holds[t] + 1 /\ \A u \in Task : holds[u] \in Nat
  BY DEF IInv, MutexTypeOK
<1>2. OnlyBy(holds, t)
  <2> SUFFICES ASSUME NEW u \in Task \ {t} PROVE ~(holds[u] > 0)
    BY <1>1 DEF OnlyBy
  <2> QED
    BY DEF IInv, OneHasFlag, HasFlag
<1>3. OnlyBy(holds', t)
  BY <1>2 DEF OnlyBy, IInv, MutexTypeOK
<1>4. OwnerOf \in {TASK_INVALIDID, t} /\ DepthOf = holds[t]
  BY <1>1, <1>2, HolderBefore
<1>5. OwnerOf' = t /\ DepthOf' = holds'[t]
  <2>1. holds'[t] \in Nat /\ holds'[t] > 0
    BY <1>1
  <2> QED
    BY <1>3, <2>1, HolderAfter
<1> QED
  BY <1>1, <1>4, <1>5, AcquireOf

LEMMA GiveStep ==
    ASSUME IInv, NEW t \in Task, holds[t] > 0, holds' = [holds EXCEPT ![t] = @ - 1]
    PROVE  Abstract!Release(t, "mutex")
<1>1. holds[t] \in Nat /\ holds'[t] = holds[t] - 1 /\ \A u \in Task : holds[u] \in Nat
  BY DEF IInv, MutexTypeOK
<1>2. OnlyBy(holds, t)
  <2> SUFFICES ASSUME NEW u \in Task \ {t} PROVE ~(holds[u] > 0)
    BY <1>1 DEF OnlyBy
  <2> QED
    BY DEF IInv, OneHasFlag, HasFlag
<1>3. OnlyBy(holds', t)
  BY <1>2 DEF OnlyBy, IInv, MutexTypeOK
<1>4. OwnerOf = t /\ DepthOf = holds[t]
  BY <1>1, <1>2, HolderBefore
<1>5. OwnerOf' = (IF holds'[t] > 0 THEN t ELSE TASK_INVALIDID) /\ DepthOf' = holds'[t]
  <2>1. holds'[t] \in Nat
    BY <1>1
  <2> QED
    BY <1>3, <2>1, HolderAfter
<1>6. OwnerOf' = IF DepthOf = 1 THEN TASK_INVALIDID ELSE t
  BY <1>1, <1>4, <1>5
<1> QED
  BY <1>1, <1>4, <1>5, <1>6, ReleaseOf

LEMMA StutterStep ==
    ASSUME holds' = holds PROVE UNCHANGED Abstract!lockVars
BY DEF Abstract!lockVars, Holder

LEMMA AbstractInit == Init => Abstract!Init
<1> SUFFICES ASSUME Init PROVE Abstract!Init
  OBVIOUS
<1>1. Holder = {}
  BY DEF Init, Holder
<1> QED
  BY <1>1 DEF Abstract!Init

LEMMA AbstractStep ==
    ASSUME IInv, [Next]_vars
    PROVE  [Abstract!Next]_(Abstract!lockVars)
<1>1. ASSUME NEW t \in Task, Abstract!Acquire(t, "mutex") \/ Abstract!Release(t, "mutex")
      PROVE  [Abstract!Next]_(Abstract!lockVars)
  BY <1>1 DEF Abstract!Next
<1>2. ASSUME NEW t \in Task, Nest(t)
      PROVE  [Abstract!Next]_(Abstract!lockVars)
  <2>1. holds' = [holds EXCEPT ![t] = @ + 1] /\ HasFlag(t)
    BY <1>2 DEF Nest, Goto, IInv, OwnerIsHolder, HasFlag
  <2> QED
    BY <1>1, <2>1, TakeStep
<1>3. ASSUME NEW t \in Task, SetID(t)
      PROVE  [Abstract!Next]_(Abstract!lockVars)
  <2>1. holds' = [holds EXCEPT ![t] = @ + 1] /\ HasFlag(t)
    <3>1. holds[t] = 0 /\ pc[t] = "setID" /\ holds' = [holds EXCEPT ![t] = 1]
      BY <1>3 DEF SetID, Goto, IInv, OwnerIsHolder
    <3>2. holds[t] + 1 = 1
      BY <3>1
    <3> QED
      BY <3>1, <3>2 DEF HasFlag
  <2> QED
    BY <1>1, <2>1, TakeStep
<1>4. ASSUME NEW t \in Task, Unnest(t) \/ ClearID(t)
      PROVE  [Abstract!Next]_(Abstract!lockVars)
  <2>1. holds[t] > 0 /\ holds[t] \in Nat /\ dwLockCount = holds[t]
    BY <1>4 DEF Unnest, ClearID, Goto, IInv, OwnerIsHolder, HolderIsOwner, MutexTypeOK
  <2>2. CASE Unnest(t)
    BY <1>1, <2>1, <2>2, GiveStep DEF Unnest
  <2>3. CASE ClearID(t)
    <3>1. holds[t] - 1 = 0 /\ holds' = [holds EXCEPT ![t] = 0]
      BY <2>1, <2>3 DEF ClearID
    <3>2. holds' = [holds EXCEPT ![t] = @ - 1]
      BY <3>1
    <3> QED
      BY <1>1, <2>1, <3>2, GiveStep
  <2> QED
    BY <1>4, <2>2, <2>3
<1>5. ASSUME NEW t \in Task,
             \/ LockMutex(t) /\ ~Nest(t) /\ ~SetID(t)
             \/ UnlockMutex(t) /\ ~Unnest(t) /\ ~ClearID(t)
             \/ Semaphore(t) \/ Return(t) \/ \E c \in Core : Preempt(t, c) \/ Move(t, c)
      PROVE  [Abstract!Next]_(Abstract!lockVars)
  <2>1. holds' = holds
    BY <1>5 DEF LockMutex, UnlockMutex, Semaphore, Return, Preempt, Move, kLockMutex,
                Enter, kTestAndSet, CheckOwner, kSchedule, SetCount, kUnlockMutex,
                CheckFlag, CheckID, ClearCount, ClearFlag, xLockSemaphore, TestCount,
                ReadCount, Decrement, xUnlockSemaphore, TestFull, Increment, ghosts
  <2> QED
    BY <2>1, StutterStep
<1>6. CASE UNCHANGED vars
  BY <1>6, StutterStep DEF vars, ghosts
<1> QED
  BY <1>2, <1>3, <1>4, <1>5, <1>6 DEF Next

\* To its users the mutex is the reentrant lock they expect, provided that nobody
\* is moved while it waits.
THEOREM ImplementsReentrantLockHolds ==
    ASSUME NoWaiterMoved PROVE Spec => ImplementsReentrantLock
<1>1. IInv /\ [Next]_vars => [Abstract!Next]_(Abstract!lockVars)
  BY AbstractStep
<1> QED
  BY <1>1, AbstractInit, Invariance, PTL
     DEF Spec, ImplementsReentrantLock, Abstract!Spec
===============================================================================
