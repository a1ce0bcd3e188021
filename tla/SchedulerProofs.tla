---------------------------- MODULE SchedulerProofs ----------------------------
(***************************************************************************)
(* Proofs about module Scheduler, for any number of cores, tasks and       *)
(* priorities: as long as tasks end and move only themselves, and processes*)
(* that end share a core with their threads for good (OwnCallsOnly),       *)
(* preemption, load balancing, changes of priority, the end of processes   *)
(* with their threads and the idle tasks lose no task, double none and     *)
(* execute none on two cores; a task that ended never executes again, and  *)
(* processes and threads stay together.                                    *)
(***************************************************************************)
EXTENDS Scheduler, FiniteSetTheorems, SequenceTheorems, NaturalsInduction, TLAPS

\* A task that never leaves the core it starts on, and the threads of a process.
Bound(t) == Boot[t].affinity = Boot[t].core /\ <<t, t>> \notin Asks["affinity"]
Thread(u, p) == u \in Used /\ ~Boot[u].process /\ Boot[u].parent = p

\* The runs move_other_task and exit_after_migration show what happens without
\* this: a task ends or moves only itself, a process that ends while it has threads
\* shares a core with them for good, no task is created later, and no task asks for
\* the priority past the last list.
OwnCallsOnly ==
    /\ \A x, t \in TCB : <<x, t>> \in Asks["end"] \cup Asks["affinity"] => x = t
    /\ \A p, u \in TCB : <<p, p>> \in Asks["end"] /\ Thread(u, p) =>
           /\ Bound(p) /\ Bound(u) /\ Boot[u].core = Boot[p].core /\ ~Boot[u].idle
    /\ \A t \in TCB : Boot[t].idle => Bound(t) /\ <<t, t>> \notin Asks["end"]
    /\ May["exit"] = {} /\ May["create"] = {} /\ Priorities \subseteq Priority

(***************************************************************************)
(* Lists of tasks: a list of exactly the tasks of a set, each once.        *)
(***************************************************************************)
IsList(list, S) == list \in Seq(TCB) /\ IsInjective(list) /\ Range(list) = S

LEMMA EmptyList == IsList(<<>>, {}) /\ \A S : IsList(<<>>, S) => S = {}
BY DEF IsList, IsInjective, Range

LEMMA ListOfNone ==
    ASSUME NEW list, NEW S, IsList(list, S)
    PROVE  list = <<>> <=> S = {}
<1>1. ASSUME list # <<>> PROVE list[1] \in S
  BY <1>1 DEF IsList, Range
<1> QED
  BY <1>1, EmptyList

LEMMA ListContains ==
    ASSUME NEW list, NEW S, IsList(list, S), NEW t
    PROVE  Contains(list, t) <=> t \in S
BY DEF IsList, Range, Contains

LEMMA ListAppend ==
    ASSUME NEW list, NEW S, IsList(list, S), NEW t \in TCB, t \notin S
    PROVE  IsList(Append(list, t), S \cup {t})
<1> DEFINE new == Append(list, t)
<1>1. /\ new \in Seq(TCB) /\ Len(new) = Len(list) + 1 /\ Len(list) \in Nat
      /\ \A i \in 1 .. Len(list) : new[i] = list[i]
      /\ new[Len(new)] = t
  BY DEF IsList
<1>2. DOMAIN list = 1 .. Len(list) /\ DOMAIN new = 1 .. Len(new)
  BY <1>1 DEF IsList
<1>3. \A i \in 1 .. Len(list) : list[i] # t
  BY <1>2 DEF IsList, Range
<1> HIDE DEF new
<1>4. IsInjective(new)
  BY <1>1, <1>2, <1>3 DEF IsList, IsInjective
<1>5. Range(new) = S \cup {t}
  <2>1. \A u \in Range(new) : u \in S \cup {t}
    BY <1>1, <1>2 DEF IsList, Range
  <2>2. t \in Range(new)
    BY <1>1, <1>2 DEF Range
  <2>3. \A u \in S : u \in Range(new)
    BY <1>1, <1>2 DEF IsList, Range
  <2> QED
    BY <2>1, <2>2, <2>3
<1> QED
  BY <1>1, <1>4, <1>5 DEF IsList, new

LEMMA ListTail ==
    ASSUME NEW list, NEW S, IsList(list, S), list # <<>>
    PROVE  /\ Head(list) \in S /\ Head(list) \in TCB
           /\ IsList(Tail(list), S \ {Head(list)})
<1> DEFINE rest == Tail(list)
<1>1. /\ rest \in Seq(TCB) /\ Len(rest) = Len(list) - 1 /\ Len(list) \in Nat \ {0}
      /\ \A i \in 1 .. Len(rest) : rest[i] = list[i + 1]
      /\ Head(list) = list[1] /\ list[1] \in TCB
  BY DEF IsList
<1>2. DOMAIN list = 1 .. Len(list) /\ DOMAIN rest = 1 .. Len(rest)
  BY <1>1 DEF IsList
<1> HIDE DEF rest
<1>3. Head(list) \in S
  BY <1>1, <1>2 DEF IsList, Range
<1>4. IsInjective(rest)
  <2> SUFFICES ASSUME NEW i \in 1 .. Len(rest), NEW j \in 1 .. Len(rest),
                      rest[i] = rest[j]
               PROVE  i = j
    BY <1>2 DEF IsInjective
  <2>1. i + 1 \in 1 .. Len(list) /\ j + 1 \in 1 .. Len(list)
        /\ list[i + 1] = list[j + 1]
    BY <1>1
  <2>2. i + 1 = j + 1
    BY <1>2, <2>1 DEF IsList, IsInjective
  <2> QED
    BY <1>1, <2>2
<1>5. Range(rest) = S \ {Head(list)}
  <2>1. \A u \in Range(rest) : u \in S \ {Head(list)}
    BY SMTT(30), <1>1, <1>2 DEF IsList, Range, IsInjective
  <2>2. ASSUME NEW u \in S \ {Head(list)} PROVE u \in Range(rest)
    <3>1. PICK i \in 1 .. Len(list) : list[i] = u
      BY <1>2 DEF IsList, Range
    <3>2. i - 1 \in 1 .. Len(rest) /\ rest[i - 1] = u
      BY <1>1, <3>1
    <3> QED
      BY <1>2, <3>2 DEF Range
  <2> QED
    BY <2>1, <2>2
<1> QED
  BY <1>1, <1>3, <1>4, <1>5 DEF IsList, rest

\* kRemoveList takes exactly this task out.
LEMMA ListRemove ==
    ASSUME NEW list, NEW S, IsList(list, S), NEW t
    PROVE  IsList(kRemoveList(list, t), S \ {t})
<1>1. CASE t \notin S
  BY <1>1, ListContains DEF kRemoveList
<1>2. CASE t \in S
  <2> DEFINE k == CHOOSE i \in DOMAIN list : list[i] = t
             left == SubSeq(list, 1, k - 1)
             right == SubSeq(list, k + 1, Len(list))
             rest == left \o right
  <2>0. Len(list) \in Nat /\ DOMAIN list = 1 .. Len(list)
        /\ \A i \in 1 .. Len(list) : list[i] \in TCB
    BY DEF IsList
  <2>1. k \in 1 .. Len(list) /\ list[k] = t
    BY <1>2, <2>0 DEF IsList, Range
  <2>2. kRemoveList(list, t) = rest
    BY <1>2, ListContains DEF kRemoveList, RemoveAt
  <2> HIDE DEF k
  <2>3. /\ left \in Seq(TCB) /\ Len(left) = k - 1
        /\ \A i \in 1 .. k - 1 : left[i] = list[i]
    BY <2>0, <2>1 DEF IsList
  <2>4. /\ right \in Seq(TCB) /\ Len(right) = Len(list) - k
        /\ \A i \in 1 .. Len(list) - k : right[i] = list[k + i]
    <3> DEFINE m == k + 1
    <3>1. m \in Int /\ Len(list) \in Int /\ \A i \in m .. Len(list) : list[i] \in TCB
      BY <2>0, <2>1
    <3>2. right = SubSeq(list, m, Len(list))
      OBVIOUS
    <3> HIDE DEF m, right
    <3>3. /\ right \in Seq(TCB)
          /\ Len(right) = IF m <= Len(list) THEN Len(list) - m + 1 ELSE 0
          /\ \A i \in 1 .. Len(list) - m + 1 : right[i] = list[m + i - 1]
      BY <3>1, <3>2, SubSeqProperties
    <3>4. \A i \in 1 .. Len(list) - k : i \in 1 .. Len(list) - m + 1 /\ m + i - 1 = k + i
      BY <2>0, <2>1 DEF m
    <3>5. \A n \in Nat : \A i \in 1 .. n : (IF i + 1 <= n THEN n - (i + 1) + 1 ELSE 0) = n - i
      OBVIOUS
    <3>6. (IF m <= Len(list) THEN Len(list) - m + 1 ELSE 0) = Len(list) - k
      BY <2>0, <2>1, <3>5, Zenon DEF m
    <3> QED
      BY <3>3, <3>4, <3>6, Zenon
  <2> HIDE DEF left, right
  <2>5. /\ rest \in Seq(TCB) /\ Len(rest) = Len(list) - 1
        /\ \A i \in 1 .. Len(list) - 1 :
              rest[i] = IF i < k THEN left[i] ELSE right[i - (k - 1)]
    <3>1. /\ rest \in Seq(TCB) /\ Len(rest) = Len(left) + Len(right)
          /\ \A i \in 1 .. Len(left) + Len(right) :
                rest[i] = IF i <= Len(left) THEN left[i] ELSE right[i - Len(left)]
      BY <2>3, <2>4, ConcatProperties
    <3> QED
      BY <2>0, <2>1, <2>3, <2>4, <3>1
  <2>6. \A i \in 1 .. Len(list) - 1 : rest[i] = IF i < k THEN list[i] ELSE list[i + 1]
    <3> SUFFICES ASSUME NEW i \in 1 .. Len(list) - 1
                 PROVE  rest[i] = IF i < k THEN list[i] ELSE list[i + 1]
      OBVIOUS
    <3>1. CASE i < k
      BY <2>0, <2>1, <2>3, <2>5, <3>1
    <3>2. CASE ~(i < k)
      <4>1. i - (k - 1) \in 1 .. Len(list) - k /\ k + (i - (k - 1)) = i + 1
        BY <2>0, <2>1, <3>2
      <4> QED
        BY <2>4, <2>5, <3>2, <4>1
    <3> QED
      BY <3>1, <3>2
  <2> HIDE DEF rest
  <2>7. DOMAIN rest = 1 .. Len(list) - 1
    BY <2>0, <2>5
  <2>8. IsInjective(rest)
    <3> SUFFICES ASSUME NEW i \in 1 .. Len(list) - 1, NEW j \in 1 .. Len(list) - 1,
                        rest[i] = rest[j]
                 PROVE  i = j
      BY <2>7 DEF IsInjective
    <3> DEFINE At1(n) == IF n < k THEN n ELSE n + 1
    <3>1. At1(i) \in 1 .. Len(list) /\ At1(j) \in 1 .. Len(list)
      BY <2>0, <2>1
    <3>2. list[At1(i)] = list[At1(j)]
      BY <2>6
    <3>3. At1(i) = At1(j)
      BY <2>0, <3>1, <3>2 DEF IsList, IsInjective
    <3> QED
      BY <2>0, <2>1, <3>3
  <2>9. \A u \in Range(rest) : u \in S \ {t}
    <3> SUFFICES ASSUME NEW i \in 1 .. Len(list) - 1 PROVE rest[i] \in S \ {t}
      BY <2>7 DEF Range
    <3> DEFINE m == IF i < k THEN i ELSE i + 1
    <3>1. m \in 1 .. Len(list) /\ m # k /\ rest[i] = list[m]
      BY <2>0, <2>1, <2>6
    <3> HIDE DEF m
    <3>2. list[m] # list[k]
      BY <2>0, <2>1, <3>1 DEF IsList, IsInjective
    <3> QED
      BY <2>0, <2>1, <3>1, <3>2 DEF IsList, Range
  <2>10. ASSUME NEW u \in S \ {t} PROVE u \in Range(rest)
    <3>1. PICK m \in 1 .. Len(list) : list[m] = u
      BY <2>0 DEF IsList, Range
    <3>2. m # k
      BY <2>1, <3>1
    <3>3. CASE m < k
      BY <2>0, <2>1, <2>6, <2>7, <3>1, <3>3 DEF Range
    <3>4. CASE m > k
      <4>1. m - 1 \in 1 .. Len(list) - 1 /\ ~(m - 1 < k) /\ (m - 1) + 1 = m
        BY <2>0, <2>1, <3>4
      <4>2. rest[m - 1] = u
        BY <2>6, <3>1, <4>1
      <4> QED
        BY <2>7, <4>1, <4>2 DEF Range
    <3> QED
      BY <2>0, <2>1, <3>2, <3>3, <3>4
  <2>11. Range(rest) = S \ {t}
    BY <2>9, <2>10
  <2> QED
    BY <2>2, <2>5, <2>8, <2>11 DEF IsList
<1> QED
  BY <1>1, <1>2

\* The lists of Init.
LEMMA ListOfSet ==
    ASSUME NEW S, S \subseteq TCB
    PROVE  IsList(SetToSeq(S), S)
<1>1. IsFiniteSet(S)
  BY FS_Subset, BootAssumption
<1>2. Cardinality(S) \in Nat /\ ExistsBijection(1 .. Cardinality(S), S)
  BY <1>1, FS_CardinalityType
<1>3. PICK f : f \in [1 .. Cardinality(S) -> S] /\ IsInjective(f)
  BY <1>2 DEF ExistsBijection, Bijection, Injection
<1> DEFINE g == SetToSeq(S)
<1>4. g \in [1 .. Cardinality(S) -> S] /\ IsInjective(g)
  BY <1>3 DEF SetToSeq
<1> HIDE DEF g
<1>5. g \in Seq(TCB)
  BY <1>2, <1>4
<1>6. IsFiniteSet(1 .. Cardinality(S)) /\ Cardinality(1 .. Cardinality(S)) = Cardinality(S)
  BY <1>2, FS_Interval
<1>7. g \in Surjection(1 .. Cardinality(S), S)
  BY <1>1, <1>4, <1>6, FS_Injection DEF Injection
<1>8. Range(g) = S
  BY <1>4, <1>7 DEF Surjection, Range
<1> QED
  BY <1>4, <1>5, <1>8 DEF IsList, g

(***************************************************************************)
(* The inductive invariant.  Every TCB is of one kind: it is free, runs,   *)
(* is ready, waits to be freed, or a context holds it outside the lists.   *)
(* The kinds and the holders exist, they are not part of the state.        *)
(***************************************************************************)
Kinds == {"free", "run", "ready", "wait", "held"}
Switching == {"switch", "switchNull"}
Looking == {"find", "lock", "mark"}
Cleaning == {"kids", "unlink", "free"}
EndingLabels == {"endSelf", "dead", "stopped"}
TaskLabels == {"run", "idle", "take"} \cup EndingLabels \cup InterruptsOff
                \cup Looking \cup Cleaning
Given == {"preempted", "addTarget", "addInsert"}
HandlerLabels == {"none", "iret"} \cup Given

Frame ==
    [op : {"none", "end", "priority", "affinity", "unlink", "endChild"}, id : IDs,
     task : TCB \cup {None}, apic : Core \cup {None},
     arg : Priorities \cup Affinities \cup {None}, next : TCB \cup {None},
     count : Nat, ret : {"run", "idle", "dead", "iret"}]

KernelType ==
    /\ qwID \in [TCB -> {0, 1}]
    /\ bPriority \in [TCB -> Priority \cup {WAIT}] /\ endTask \in [TCB -> BOOLEAN]
    /\ bAPICID \in [TCB -> Core] /\ stChildThreadList \in [TCB -> Seq(TCB)]
    /\ qwParentProcessID \in [TCB -> IDs]
    /\ pstRunningTask \in [Core -> TCB] /\ viExecuteCount \in [Core -> [Priority -> Nat]]
    /\ vstReadyList \in [Core -> [Priority -> Seq(TCB)]] /\ stWaitList \in [Core -> Seq(TCB)]
    /\ late \subseteq TCB
ContextType ==
    executing \in [Core -> TCB] /\ pc \in [Context -> Label] /\ local \in [Context -> Frame]

\* What is where: a ready task is in the list of its level.
ReadyTasks(kind, level, c, p) ==
    {t \in TCB : kind[t] = "ready" /\ bAPICID[t] = c /\ level[t] = p}
WaitTasks(kind, c) == {t \in TCB : kind[t] = "wait" /\ bAPICID[t] = c}

SlotInv(kind) == \A t \in TCB : qwID[t] = 0 <=> kind[t] = "free"
RunInv(kind) ==
    \A c \in Core, t \in TCB :
        pstRunningTask[c] = t <=> kind[t] = "run" /\ bAPICID[t] = c
ListInv(kind, level) ==
    \A c \in Core :
        /\ \A p \in Priority : IsList(vstReadyList[c][p], ReadyTasks(kind, level, c, p))
        /\ IsList(stWaitList[c], WaitTasks(kind, c))
HeldInv(kind, holder) ==
    \A z \in Context, t \in TCB :
        local[z].task = t <=> kind[t] = "held" /\ holder[t] = z

\* Who has ended: the tasks in a wait list, and the one an idle task frees.  Ended
\* is who may end itself, and the threads of such a process.
Mortal(t) ==
    \/ <<t, t>> \in Asks["end"]
    \/ \E p \in TCB : <<p, p>> \in Asks["end"] /\ Thread(t, p)
EndInv(kind, level, holder) ==
    \A t \in TCB :
        /\ ~endTask[t] => bPriority[t] \in Priority
        /\ endTask[t] => Mortal(t)
        /\ IsList(stChildThreadList[t], Range(stChildThreadList[t]))
        /\ \A u \in Range(stChildThreadList[t]) : Thread(u, t)
        /\ kind[t] = "ready" => ~endTask[t] /\ (t \in late \/ level[t] = bPriority[t])
        /\ kind[t] = "wait" => endTask[t]
        /\ kind[t] = "held" => (endTask[t] <=> holder[t] \in TCB)
        /\ kind[t] = "free" /\ t \in Used => endTask[t]

\* Who is bound to a core.
BoundInv == \A t \in TCB : Bound(t) => bAPICID[t] = Boot[t].core /\ t \notin late

\* A task's own code: what it holds and what it looks for.
LookingInv(z) ==
    /\ local[z].id.slot \in TCB
    /\ pc[z] # "find" /\ Bound(local[z].id.slot)
          => local[z].apic = Boot[local[z].id.slot].core
    /\ \/ local[z].op = "unlink" /\ local[z].task # None /\ pc[z] # "mark"
       \/ /\ local[z].op = "endChild" /\ local[z].task # None
          /\ local[z].id.count = 1 \/ qwID[local[z].id.slot] = 0
          /\ local[z].id.slot \in Used
          /\ Bound(local[z].id.slot) /\ ~Boot[local[z].id.slot].idle
          /\ Boot[local[z].id.slot].core = Boot[z].core /\ Mortal(local[z].id.slot)
          /\ pc[z] = "mark" => endTask[local[z].id.slot]
       \/ /\ local[z].op = "priority" /\ local[z].task = None
          /\ local[z].id.count = 1 /\ local[z].arg \in Priority
       \/ /\ local[z].op \in {"end", "affinity"} /\ local[z].task = None
          /\ local[z].id = [slot |-> z, count |-> 1] /\ pc[z] # "mark"
          /\ local[z].op = "end" => <<z, z>> \in Asks["end"]
          /\ local[z].op = "affinity"
                => local[z].arg \in Affinities /\ <<z, z>> \in Asks["affinity"]
Chosen(z) == \E c \in Core : pstRunningTask[c] = z
TaskAt(z) ==
    /\ pc[z] \in TaskLabels /\ local[z].ret # "iret"
    /\ pc[z] \in Cleaning => local[z].task # None
    /\ pc[z] \notin Cleaning \cup Looking => local[z].task = None
    /\ pc[z] \in Looking => LookingInv(z)
    /\ pc[z] = "endSelf" => endTask[z] /\ local[z].apic = bAPICID[z]
    /\ endTask[z] /\ Chosen(z) => \/ pc[z] \in EndingLabels
                                  \/ pc[z] \in InterruptsOff \ Looking /\ local[z].ret = "dead"
    /\ pc[z] \in {"idle", "take"} \/ local[z].ret = "idle" => Boot[z].idle
    /\ local[z].task # None => Boot[z].idle /\ bAPICID[local[z].task] = Boot[z].core
OffInv(z) == pc[z] \in InterruptsOff => \E c \in Core : pc[c] = "none" /\ executing[c] = z
TaskInv == \A z \in TCB : TaskAt(z) /\ OffInv(z)

\* Nothing is inserted into the lists of a core whose lock is held.
MarkInv(kind) ==
    \A z \in TCB :
        LET t == local[z].id.slot IN
        pc[z] = "mark" /\ kind[t] = "ready" /\ bAPICID[t] = local[z].apic => t \in late

\* The handler of a core.
HandlerInv ==
    \A c \in Core :
        /\ pc[c] \in HandlerLabels
        /\ pc[c] \in Given <=> local[c].task # None
        /\ pc[c] # "none" => pstRunningTask[c] = local[c].next
        /\ pc[c] = "addInsert" => local[c].apic # None
        /\ pc[c] = "addInsert" /\ Bound(local[c].task)
              => local[c].apic = Boot[local[c].task].core
        /\ pc[c] \in Given => bAPICID[local[c].task] = c

\* What a core executes.
ExecInv(kind) ==
    \A c \in Core : pc[c] = "none" =>
        IF pc[executing[c]] \in Switching
        THEN /\ pstRunningTask[c] = local[executing[c]].next /\ bAPICID[executing[c]] = c
             /\ kind[executing[c]] = IF pc[executing[c]] = "switch" THEN "ready" ELSE "wait"
        ELSE pstRunningTask[c] = executing[c]

Inv(kind, level, holder) ==
    /\ KernelType /\ ContextType /\ SlotInv(kind) /\ RunInv(kind) /\ ListInv(kind, level)
    /\ HeldInv(kind, holder) /\ EndInv(kind, level, holder)
    /\ BoundInv /\ TaskInv /\ MarkInv(kind) /\ HandlerInv /\ ExecInv(kind)

IInv ==
    \E kind \in [TCB -> Kinds], level \in [TCB -> Priority],
       holder \in [TCB -> Context] : Inv(kind, level, holder)

(***************************************************************************)
(* Contexts                                                                *)
(***************************************************************************)
LEMMA Contexts ==
    /\ Core \subseteq Context /\ TCB \subseteq Context
    /\ \A c \in Core, t \in TCB : c # t
    /\ None \notin Context
BY DisjointAssumption DEF Context

LEMMA BlankFrame ==
    /\ Blank \in Frame /\ Blank.task = None /\ Blank.ret = "run" /\ Blank.op = "none"
    /\ Blank.apic = None
BY DEF Blank, NoID, Frame, IDs

\* A field of a frame takes a value of its range.
LEMMA FrameFields ==
    ASSUME NEW f \in Frame
    PROVE  /\ \A r \in {"run", "idle", "dead", "iret"} : [f EXCEPT !.ret = r] \in Frame
           /\ \A t \in TCB \cup {None} : [f EXCEPT !.next = t] \in Frame
           /\ \A t \in TCB \cup {None} : [f EXCEPT !.task = t] \in Frame
           /\ \A d \in Core \cup {None} : [f EXCEPT !.apic = d] \in Frame
           /\ [f EXCEPT !.count = 0] \in Frame
BY DEF Frame

\* The task a core executes, outside a switch, runs there and nowhere else.
LEMMA OnCore ==
    ASSUME NEW kind, NEW level, NEW holder, Inv(kind, level, holder),
           NEW c \in Core, NEW x \in TCB, Runs(c, x)
    PROVE  /\ pc[c] = "none" /\ executing[c] = x
           /\ pc[x] \notin Switching
                => pstRunningTask[c] = x /\ kind[x] = "run" /\ bAPICID[x] = c
           /\ pc[x] \in Switching
                => /\ pstRunningTask[c] = local[x].next /\ bAPICID[x] = c
                   /\ kind[x] = IF pc[x] = "switch" THEN "ready" ELSE "wait"
           /\ \A d \in Core : pc[d] = "none" /\ executing[d] = x => d = c
<1>1. pc[c] = "none" /\ executing[c] = x
  BY Contexts DEF Runs
<1>2. ASSUME NEW d \in Core, pc[d] = "none", executing[d] = x
      PROVE  /\ pc[x] \notin Switching
                => pstRunningTask[d] = x /\ kind[x] = "run" /\ bAPICID[x] = d
             /\ pc[x] \in Switching
                => /\ pstRunningTask[d] = local[x].next /\ bAPICID[x] = d
                   /\ kind[x] = IF pc[x] = "switch" THEN "ready" ELSE "wait"
  BY <1>2 DEF Inv, ExecInv, RunInv
<1> QED
  BY <1>1, <1>2

\* What a step of somebody else must leave alone.
LEMMA TaskAtStays ==
    ASSUME NEW z \in TCB, TaskAt(z), pc'[z] = pc[z], local'[z] = local[z],
           \A u \in TCB : endTask[u] => endTask'[u],
           \A u \in TCB : qwID[u] = 0 => qwID'[u] = 0,
           endTask'[z] /\ Chosen(z)' => endTask[z] /\ Chosen(z),
           pc[z] = "endSelf" => bAPICID'[z] = bAPICID[z],
           local[z].task # None => bAPICID'[local[z].task] = bAPICID[local[z].task]
    PROVE  TaskAt(z)'
<1>1. LookingInv(z) => LookingInv(z)'
  BY DEF LookingInv
<1>2. endTask[z] => endTask'[z]
  OBVIOUS
<1> QED
  BY <1>1, <1>2 DEF TaskAt

\* A step of a task that ends outside a switch; the kinds of the tasks that
\* the cores execute stay.
LEMMA KindStep ==
    ASSUME NEW kind, NEW level, NEW holder, Inv(kind, level, holder),
           NEW kind2, NEW level2, NEW holder2,
           NEW c \in Core, NEW x \in TCB, Runs(c, x), pc[x] \notin Switching,
           NEW l \in Label, l \notin Switching, NEW f \in Frame,
           pc' = [pc EXCEPT ![x] = l], local' = [local EXCEPT ![x] = f],
           UNCHANGED <<qwID, bAPICID, executing, pstRunningTask>>,
           \A z \in TCB : endTask[z] => endTask'[z],
           \A z \in TCB : z # x /\ Chosen(z) => endTask'[z] = endTask[z],
           \A d \in Core : pc[d] = "none" => kind2[executing[d]] = kind[executing[d]],
           KernelType', SlotInv(kind2)', RunInv(kind2)', ListInv(kind2, level2)',
           HeldInv(kind2, holder2)', EndInv(kind2, level2, holder2)', TaskAt(x)',
           BoundInv', MarkInv(kind2)'
    PROVE  Inv(kind2, level2, holder2)'
<1> USE Contexts
<1>1. ContextType'
  BY DEF Inv, ContextType
<1>2. pc'[x] = l /\ local'[x] = f
  BY DEF Inv, ContextType
<1>3. \A z \in Context : z # x => pc'[z] = pc[z] /\ local'[z] = local[z]
  BY DEF Inv, ContextType
<1>4. TaskInv'
  <2> SUFFICES ASSUME NEW z \in TCB PROVE TaskAt(z)' /\ OffInv(z)'
    BY DEF TaskInv
  <2>1. TaskAt(z)'
    <3>1. CASE z = x
      BY <3>1
    <3>2. CASE z # x
      <4>1. TaskAt(z)
        BY DEF Inv, TaskInv
      <4>2. local'[z] = local[z] /\ pc'[z] = pc[z]
        BY <1>3, <3>2
      <4>3. Chosen(z)' <=> Chosen(z)
        BY DEF Chosen
      <4> QED
        BY <3>2, <4>1, <4>2, <4>3, TaskAtStays
    <3> QED
      BY <3>1, <3>2
  <2>2. OffInv(z)'
    <3>1. CASE z = x
      BY <1>3, <3>1, OnCore DEF OffInv
    <3>2. CASE z # x
      <4>1. OffInv(z)
        BY DEF Inv, TaskInv
      <4> QED
        BY <1>3, <3>2, <4>1 DEF OffInv
    <3> QED
      BY <3>1, <3>2
  <2> QED
    BY <2>1, <2>2
<1>5. HandlerInv'
  BY <1>3 DEF Inv, HandlerInv
<1>6. ExecInv(kind2)'
  <2> SUFFICES ASSUME NEW d \in Core, pc'[d] = "none"
               PROVE  IF pc'[executing[d]] \in Switching
                      THEN /\ pstRunningTask[d] = local'[executing[d]].next
                           /\ bAPICID[executing[d]] = d
                           /\ kind2[executing[d]] = IF pc'[executing[d]] = "switch"
                                                   THEN "ready" ELSE "wait"
                      ELSE pstRunningTask[d] = executing[d]
    BY DEF ExecInv
  <2>1. pc[d] = "none" /\ executing[d] \in TCB
    BY <1>3 DEF Inv, ContextType
  <2>2. CASE executing[d] = x
    BY <1>2, <2>1, <2>2, OnCore
  <2>3. CASE executing[d] # x
    <3>1. pc'[executing[d]] = pc[executing[d]] /\ local'[executing[d]] = local[executing[d]]
      BY <1>3, <2>1, <2>3
    <3> QED
      BY <2>1, <3>1 DEF Inv, ExecInv
  <2> QED
    BY <2>2, <2>3
<1> QED
  BY <1>1, <1>4, <1>5, <1>6 DEF Inv

\* The locks that are held stay, and what enters a ready list does so elsewhere.
LEMMA MarkStays ==
    ASSUME NEW kind, MarkInv(kind), NEW kind2,
           \A z \in TCB : pc'[z] = "mark" => pc[z] = "mark" /\ local'[z] = local[z],
           \A z \in TCB :
              LET t == local[z].id.slot IN
              pc[z] = "mark" /\ kind2[t] = "ready" /\ bAPICID'[t] = local[z].apic
                 => /\ kind[t] = "ready" /\ bAPICID[t] = local[z].apic
                    /\ t \in late => t \in late'
    PROVE  MarkInv(kind2)'
<1> SUFFICES ASSUME NEW z \in TCB, pc'[z] = "mark", kind2[local'[z].id.slot] = "ready",
                    bAPICID'[local'[z].id.slot] = local'[z].apic
             PROVE  local'[z].id.slot \in late'
  BY DEF MarkInv
<1>1. pc[z] = "mark" /\ local'[z] = local[z]
  OBVIOUS
<1> DEFINE t == local[z].id.slot
<1>2. kind2[t] = "ready" /\ bAPICID'[t] = local[z].apic
  BY <1>1
<1>3. kind[t] = "ready" /\ bAPICID[t] = local[z].apic /\ (t \in late => t \in late')
  BY <1>1, <1>2
<1> QED
  BY <1>1, <1>3 DEF MarkInv

\* ... and it changes nothing of what is where.
LEMMA TaskStep ==
    ASSUME NEW kind, NEW level, NEW holder, Inv(kind, level, holder),
           NEW c \in Core, NEW x \in TCB, Runs(c, x), pc[x] \notin Switching,
           NEW l \in Label, l \notin Switching, l # "mark",
           NEW f \in Frame, f.task = local[x].task,
           pc' = [pc EXCEPT ![x] = l], local' = [local EXCEPT ![x] = f],
           UNCHANGED <<qwID, bAPICID, executing, pstRunningTask, late>>,
           \A z \in TCB : endTask[z] => endTask'[z],
           \A z \in TCB : z # x => endTask'[z] = endTask[z],
           KernelType', ListInv(kind, level)', EndInv(kind, level, holder)', TaskAt(x)'
    PROVE  Inv(kind, level, holder)'
<1>1. SlotInv(kind)' /\ RunInv(kind)'
  BY DEF Inv, SlotInv, RunInv
<1>2. \A z \in Context : local'[z].task = local[z].task
  BY Contexts DEF Inv, ContextType
<1>3. HeldInv(kind, holder)'
  BY <1>2 DEF Inv, HeldInv
<1>4. BoundInv'
  BY DEF Inv, BoundInv
<1>5. \A z \in TCB : pc'[z] = "mark" => pc[z] = "mark" /\ local'[z] = local[z]
  BY Contexts DEF Inv, ContextType
<1>6. MarkInv(kind)'
  BY <1>5, MarkStays DEF Inv
<1> QED
  BY <1>1, <1>3, <1>4, <1>6, KindStep

\* ... when it changes nothing else of the invariant at all.
Shared == <<qwID, bPriority, endTask, late, links, bAPICID, scheduler, executing>>

LEMMA SharedUnchanged ==
    ASSUME NEW kind, NEW level, NEW holder, Inv(kind, level, holder),
           UNCHANGED <<qwID, bPriority, endTask, late, links, bAPICID, scheduler>>
    PROVE  KernelType' /\ ListInv(kind, level)' /\ EndInv(kind, level, holder)'
<1>1. KernelType'
  BY DEF Inv, KernelType, links, scheduler
<1>2. ListInv(kind, level)'
  BY DEF Inv, ListInv, ReadyTasks, WaitTasks, scheduler
<1>3. EndInv(kind, level, holder)'
  BY DEF Inv, EndInv, links
<1> QED
  BY <1>1, <1>2, <1>3

LEMMA LocalStep ==
    ASSUME NEW kind, NEW level, NEW holder, Inv(kind, level, holder),
           NEW c \in Core, NEW x \in TCB, Runs(c, x), pc[x] \notin Switching,
           NEW l \in TaskLabels, l \notin Switching, l # "mark",
           NEW f \in Frame, f.task = local[x].task,
           Goto(x, l), Set(x, f), UNCHANGED Shared, TaskAt(x)'
    PROVE  Inv(kind, level, holder)'
<1>1. l \in Label
  BY DEF TaskLabels, EndingLabels, InterruptsOff, Looking, Cleaning, Label
<1>2. KernelType' /\ ListInv(kind, level)' /\ EndInv(kind, level, holder)'
  BY SharedUnchanged DEF Shared
<1> QED
  BY <1>1, <1>2, TaskStep DEF Goto, Set, Shared, scheduler

(***************************************************************************)
(* The steps of a task that are local to it                                *)
(***************************************************************************)
LEMMA ContextTypes ==
    ASSUME NEW kind, NEW level, NEW holder, Inv(kind, level, holder), NEW z \in Context
    PROVE  local[z] \in Frame /\ pc[z] \in Label
BY DEF Inv, ContextType

LEMMA GotoAndSet ==
    ASSUME NEW kind, NEW level, NEW holder, Inv(kind, level, holder), NEW x \in TCB, NEW l, NEW f,
           Goto(x, l), Set(x, f)
    PROVE  pc'[x] = l /\ local'[x] = f
BY Contexts DEF Goto, Set, Inv, ContextType

LEMMA StaysAsItIs ==
    ASSUME NEW kind, NEW level, NEW holder, Inv(kind, level, holder), NEW x \in TCB
    PROVE  /\ UNCHANGED local => Set(x, local[x])
           /\ UNCHANGED pc => Goto(x, pc[x])
BY Contexts DEF Goto, Set, Inv, ContextType

\* Where a task is that executes kernel code outside a switch.
LEMMA Running ==
    ASSUME NEW kind, NEW level, NEW holder, Inv(kind, level, holder), NEW c \in Core, NEW x \in TCB,
           NEW l, At(c, x, l), l \notin Switching
    PROVE  /\ Runs(c, x) /\ pc[x] = l /\ pc[x] \notin Switching /\ TaskAt(x)
           /\ pstRunningTask[c] = x /\ kind[x] = "run" /\ bAPICID[x] = c /\ qwID[x] = 1
           /\ local[x] \in Frame /\ Chosen(x)
<1>1. Runs(c, x) /\ pc[x] = l
  BY DEF At
<1>2. TaskAt(x) /\ local[x] \in Frame
  BY Contexts, ContextTypes DEF Inv, TaskInv
<1>3. pstRunningTask[c] = x /\ kind[x] = "run" /\ bAPICID[x] = c
  BY <1>1, OnCore
<1>4. qwID[x] = 1
  BY <1>3 DEF Inv, SlotInv, KernelType
<1>5. Chosen(x)
  BY <1>3 DEF Chosen
<1> QED
  BY <1>1, <1>2, <1>3, <1>4, <1>5

\* No task may exit or create tasks, and none holds another one to insert it.
LEMMA OtherLabels ==
    ASSUME OwnCallsOnly, NEW kind, NEW level, NEW holder, Inv(kind, level, holder),
           NEW c \in Core, NEW x \in TCB
    PROVE  /\ ~kExitTask(c, x) /\ ~CreateTask(c, x) /\ ~ExitRead(c, x)
           /\ ~CreateStack(c, x) /\ ~CreateLink(c, x) /\ ~CreateSetUp(c, x)
           /\ ~AddTarget(c, x) /\ ~AddInsert(c, x)
<1>1. pc[x] \in TaskLabels
  BY DEF Inv, TaskInv, TaskAt
<1>2. pc[x] \notin {"exit", "stack", "link", "setUp", "addTarget", "addInsert"}
  BY <1>1 DEF TaskLabels, EndingLabels, InterruptsOff, Looking, Cleaning
<1>3. x \notin May["exit"] /\ x \notin May["create"]
  BY DEF OwnCallsOnly
<1>4. ~kExitTask(c, x) /\ ~CreateTask(c, x)
  BY <1>3 DEF kExitTask, CreateTask
<1>5. \A l \in {"exit", "stack", "link", "setUp", "addTarget", "addInsert"} : ~At(c, x, l)
  BY <1>2 DEF At
<1>6. ~ExitRead(c, x) /\ ~CreateStack(c, x) /\ ~CreateLink(c, x) /\ ~CreateSetUp(c, x)
  BY <1>5 DEF ExitRead, CreateStack, CreateLink, CreateSetUp
<1>7. ~AddTarget(c, x) /\ ~AddInsert(c, x)
  BY <1>5 DEF AddTarget, AddInsert
<1> QED
  BY <1>4, <1>6, <1>7

LEMMA ScheduleCountStep ==
    ASSUME NEW kind, NEW level, NEW holder, Inv(kind, level, holder), NEW c \in Core, NEW x \in TCB,
           ScheduleCount(c, x)
    PROVE  Inv(kind, level, holder)'
<1> USE DEF TaskLabels, EndingLabels, InterruptsOff, Looking, Cleaning, Switching
<1>1. /\ Runs(c, x) /\ pc[x] = "schedCount" /\ pc[x] \notin Switching /\ TaskAt(x)
      /\ local[x] \in Frame /\ Chosen(x)
  BY Running DEF ScheduleCount
<1>2. UNCHANGED Shared
  BY DEF ScheduleCount, Shared, pool, flags
<1>3. local[x].task = None /\ local[x].ret \in {"run", "idle", "dead"}
  BY <1>1 DEF TaskAt, Frame
<1>4. CASE Return(x)
  <2>1. Goto(x, local[x].ret) /\ Set(x, Blank)
    BY <1>4 DEF Return
  <2>2. pc'[x] = local[x].ret /\ local'[x] = Blank /\ endTask'[x] = endTask[x]
    BY <1>2, <2>1, GotoAndSet DEF Shared
  <2>3. TaskAt(x)'
    BY <1>1, <1>3, <2>2, BlankFrame DEF TaskAt
  <2> QED
    BY <1>1, <1>2, <1>3, <2>1, <2>3, BlankFrame, LocalStep
<1>5. CASE Goto(x, "schedPick") /\ UNCHANGED local
  <2>1. Set(x, local[x])
    BY <1>5, StaysAsItIs
  <2>2. pc'[x] = "schedPick" /\ local'[x] = local[x] /\ endTask'[x] = endTask[x]
    BY <1>2, <1>5, <2>1, GotoAndSet DEF Shared
  <2>3. TaskAt(x)'
    BY <1>1, <2>2 DEF TaskAt
  <2> QED
    BY <1>1, <1>2, <1>5, <2>1, <2>3, LocalStep
<1> QED
  BY <1>4, <1>5 DEF ScheduleCount

\* A call of kSchedule by a task that has not ended and holds nothing.
LEMMA CallOfSchedule ==
    ASSUME NEW kind, NEW level, NEW holder, Inv(kind, level, holder), NEW c \in Core, NEW x \in TCB,
           NEW l, At(c, x, l), l \in {"run", "idle", "take"},
           NEW ret \in {"run", "idle"}, ret = "idle" => l # "run",
           kSchedule(x, ret), UNCHANGED Shared
    PROVE  Inv(kind, level, holder)'
<1> USE DEF TaskLabels, EndingLabels, InterruptsOff, Looking, Cleaning, Switching
<1>1. Runs(c, x) /\ pc[x] = l /\ TaskAt(x) /\ local[x] \in Frame /\ Chosen(x)
  BY Running
<1> DEFINE f == [Blank EXCEPT !.ret = ret]
<1>2. Goto(x, "schedCount") /\ Set(x, f)
  BY DEF kSchedule
<1>3. f \in Frame /\ f.task = None /\ f.ret = ret
  BY BlankFrame DEF Frame
<1>4. local[x].task = None /\ ~endTask[x]
  BY <1>1 DEF TaskAt
<1> HIDE DEF f
<1>5. pc'[x] = "schedCount" /\ local'[x] = f /\ ~endTask'[x]
  BY <1>2, <1>4, GotoAndSet DEF Shared
<1>6. ret = "idle" => Boot[x].idle
  BY <1>1 DEF TaskAt
<1>7. TaskAt(x)'
  BY <1>3, <1>5, <1>6 DEF TaskAt
<1> QED
  BY <1>1, <1>2, <1>3, <1>4, <1>7, LocalStep

LEMMA YieldStep ==
    ASSUME NEW kind, NEW level, NEW holder, Inv(kind, level, holder), NEW c \in Core, NEW x \in TCB,
           Yield(c, x)
    PROVE  Inv(kind, level, holder)'
BY CallOfSchedule DEF Yield, Shared, pool, flags

\* kEndTask, kChangePriority and kChangeProcessorAffinity begin alike.
LEMMA BeginStep ==
    ASSUME NEW kind, NEW level, NEW holder, Inv(kind, level, holder), NEW c \in Core, NEW x \in TCB,
           At(c, x, "run"), UNCHANGED Shared,
           NEW op \in {"end", "priority", "affinity"}, NEW t \in TCB, qwID[t] # 0,
           NEW arg \in Priorities \cup Affinities \cup {None},
           op = "priority" => arg \in Priority,
           op # "priority" => t = x,
           op = "end" => <<x, x>> \in Asks["end"],
           op = "affinity" => arg \in Affinities /\ <<x, x>> \in Asks["affinity"],
           Begin(x, op, ID(t), arg)
    PROVE  Inv(kind, level, holder)'
<1> USE DEF TaskLabels, EndingLabels, InterruptsOff, Looking, Cleaning, Switching
<1>1. Runs(c, x) /\ pc[x] = "run" /\ TaskAt(x) /\ local[x] \in Frame /\ Chosen(x)
  BY Running
<1> DEFINE f == [Blank EXCEPT !.op = op, !.id = ID(t), !.arg = arg]
<1>2. Goto(x, "find") /\ Set(x, f)
  BY DEF Begin
<1>3. ID(t) = [slot |-> t, count |-> 1]
  BY DEF ID, Inv, KernelType
<1>4. /\ f \in Frame /\ f.task = None /\ f.ret = "run" /\ f.op = op /\ f.arg = arg
      /\ f.id = [slot |-> t, count |-> 1]
  <2>1. ID(t) \in IDs
    BY <1>3 DEF IDs
  <2>2. f \in Frame
    BY <2>1, BlankFrame DEF Frame
  <2> QED
    BY <1>3, <2>2, BlankFrame DEF Blank
<1>5. local[x].task = None /\ ~endTask[x]
  BY <1>1 DEF TaskAt
<1> HIDE DEF f
<1>6. pc'[x] = "find" /\ local'[x] = f /\ ~endTask'[x]
  BY <1>2, <1>5, GotoAndSet DEF Shared
<1>7. LookingInv(x)'
  BY <1>4, <1>6 DEF LookingInv
<1>8. TaskAt(x)'
  BY <1>4, <1>6, <1>7 DEF TaskAt
<1> QED
  BY <1>1, <1>2, <1>4, <1>5, <1>8, LocalStep

LEMMA CallSteps ==
    ASSUME OwnCallsOnly, NEW kind, NEW level, NEW holder, Inv(kind, level, holder),
           NEW c \in Core, NEW x \in TCB,
           kEndTask(c, x) \/ kChangePriority(c, x) \/ kChangeProcessorAffinity(c, x)
    PROVE  Inv(kind, level, holder)'
<1>1. CASE kEndTask(c, x)
  <2>1. PICK t \in AskedOf("end", x) : Begin(x, "end", ID(t), None)
    BY <1>1 DEF kEndTask
  <2>2. t = x /\ qwID[t] # 0 /\ <<x, x>> \in Asks["end"]
    BY <2>1 DEF AskedOf, OwnCallsOnly
  <2>3. At(c, x, "run") /\ UNCHANGED Shared
    BY <1>1 DEF kEndTask, Call, Shared, pool, flags
  <2> QED
    BY <2>1, <2>2, <2>3, BeginStep
<1>2. CASE kChangePriority(c, x)
  <2>1. PICK t \in AskedOf("priority", x), p \in Priorities :
             Begin(x, "priority", ID(t), p)
    BY <1>2 DEF kChangePriority
  <2>2. t \in TCB /\ qwID[t] # 0 /\ p \in Priority
    BY <2>1 DEF AskedOf, OwnCallsOnly
  <2>3. At(c, x, "run") /\ UNCHANGED Shared
    BY <1>2 DEF kChangePriority, Call, Shared, pool, flags
  <2> QED
    BY <2>1, <2>2, <2>3, BeginStep
<1>3. CASE kChangeProcessorAffinity(c, x)
  <2>1. PICK t \in AskedOf("affinity", x), a \in Affinities :
             Begin(x, "affinity", ID(t), a)
    BY <1>3 DEF kChangeProcessorAffinity
  <2>2. t = x /\ qwID[t] # 0 /\ <<x, x>> \in Asks["affinity"]
    BY <2>1 DEF AskedOf, OwnCallsOnly
  <2>3. At(c, x, "run") /\ UNCHANGED Shared
    BY <1>3 DEF kChangeProcessorAffinity, Call, Shared, pool, flags
  <2> QED
    BY <2>1, <2>2, <2>3, BeginStep
<1> QED
  BY <1>1, <1>2, <1>3

LEMMA FindStep ==
    ASSUME NEW kind, NEW level, NEW holder, Inv(kind, level, holder), NEW c \in Core, NEW x \in TCB,
           Find(c, x)
    PROVE  Inv(kind, level, holder)'
<1> USE DEF TaskLabels, EndingLabels, InterruptsOff, Looking, Cleaning, Switching
<1>1. Runs(c, x) /\ pc[x] = "find" /\ TaskAt(x) /\ local[x] \in Frame /\ Chosen(x)
  BY Running DEF Find
<1>2. UNCHANGED Shared
  BY DEF Find, Shared, pool, flags
<1>3. LookingInv(x) /\ ~endTask[x] /\ local[x].ret \in {"run", "idle", "dead"}
  BY <1>1 DEF TaskAt, Frame
<1>4. UNCHANGED <<qwID, bAPICID>>
  BY <1>2 DEF Shared
<1>5. CASE Names(local[x].id, local[x].id.slot)
  <2> DEFINE d == bAPICID[local[x].id.slot]
             f == [local[x] EXCEPT !.apic = d]
  <2>1. Goto(x, "lock") /\ Set(x, f)
    BY <1>5 DEF Find
  <2>2. d \in Core /\ (Bound(local[x].id.slot) => d = Boot[local[x].id.slot].core)
    BY <1>3 DEF LookingInv, Inv, KernelType, BoundInv
  <2>3. f \in Frame
    BY <1>1, <2>2, FrameFields
  <2>4. /\ f.task = local[x].task /\ f.ret = local[x].ret /\ f.op = local[x].op
        /\ f.arg = local[x].arg /\ f.id = local[x].id /\ f.apic = d
    BY <1>1 DEF Frame
  <2> HIDE DEF d, f
  <2>5. pc'[x] = "lock" /\ local'[x] = f /\ ~endTask'[x]
    BY <1>2, <1>3, <2>1, GotoAndSet DEF Shared
  <2>6. LookingInv(x)'
    BY <1>1, <1>3, <1>4, <2>2, <2>4, <2>5 DEF LookingInv
  <2>7. TaskAt(x)'
    BY <1>1, <1>4, <2>4, <2>5, <2>6 DEF TaskAt
  <2> QED
    BY <1>1, <1>2, <2>1, <2>3, <2>4, <2>7, LocalStep
<1>6. ASSUME NEW l \in {"free", "kids"}, Goto(x, l), UNCHANGED local,
             local[x].op \in {"unlink", "endChild"}
      PROVE  Inv(kind, level, holder)'
  <2>1. Set(x, local[x])
    BY <1>6, StaysAsItIs
  <2>2. pc'[x] = l /\ local'[x] = local[x] /\ ~endTask'[x]
    BY <1>2, <1>3, <1>6, <2>1, GotoAndSet DEF Shared
  <2>3. local[x].task # None
    BY <1>3, <1>6 DEF LookingInv
  <2>4. TaskAt(x)'
    BY <1>1, <1>4, <2>2, <2>3 DEF TaskAt
  <2> QED
    BY <1>1, <1>2, <1>6, <2>1, <2>4, LocalStep
<1>7. CASE Return(x) /\ local[x].op \notin {"unlink", "endChild"}
  <2>1. Goto(x, local[x].ret) /\ Set(x, Blank)
    BY <1>7 DEF Return
  <2>2. pc'[x] = local[x].ret /\ local'[x] = Blank /\ ~endTask'[x]
    BY <1>2, <1>3, <2>1, GotoAndSet DEF Shared
  <2>3. local[x].task = None
    BY <1>3, <1>7 DEF LookingInv
  <2>4. TaskAt(x)'
    BY <1>1, <1>3, <2>2, BlankFrame DEF TaskAt
  <2> QED
    BY <1>1, <1>2, <1>3, <2>1, <2>3, <2>4, BlankFrame, LocalStep
<1> QED
  BY <1>5, <1>6, <1>7 DEF Find

LEMMA MovedStep ==
    ASSUME NEW kind, NEW level, NEW holder, Inv(kind, level, holder), NEW c \in Core, NEW x \in TCB,
           Moved(c, x)
    PROVE  Inv(kind, level, holder)'
<1> USE DEF TaskLabels, EndingLabels, InterruptsOff, Looking, Cleaning, Switching
<1>1. Runs(c, x) /\ pc[x] = "lock" /\ TaskAt(x) /\ local[x] \in Frame /\ Chosen(x)
  BY Running DEF Moved
<1>2. UNCHANGED Shared
  BY DEF Moved, Shared, pool, flags
<1>3. Goto(x, "find") /\ Set(x, local[x])
  BY StaysAsItIs DEF Moved
<1>4. /\ pc'[x] = "find" /\ local'[x] = local[x] /\ endTask'[x] = endTask[x]
      /\ UNCHANGED <<qwID, bAPICID>>
  BY <1>2, <1>3, GotoAndSet DEF Shared
<1>5. LookingInv(x)'
  BY <1>1, <1>4 DEF TaskAt, LookingInv
<1>6. TaskAt(x)'
  BY <1>1, <1>4, <1>5 DEF TaskAt
<1> QED
  BY <1>1, <1>2, <1>3, <1>6, LocalStep

LEMMA EndSelfStep ==
    ASSUME NEW kind, NEW level, NEW holder, Inv(kind, level, holder), NEW c \in Core, NEW x \in TCB,
           EndSelf(c, x)
    PROVE  Inv(kind, level, holder)'
<1> USE DEF TaskLabels, EndingLabels, InterruptsOff, Looking, Cleaning, Switching
<1>1. /\ Runs(c, x) /\ pc[x] = "endSelf" /\ TaskAt(x) /\ local[x] \in Frame
      /\ bAPICID[x] = c
  BY Running DEF EndSelf
<1>2. UNCHANGED Shared
  BY DEF EndSelf, Shared, pool, flags
<1>3. local[x].apic = c /\ local[x].task = None
  BY <1>1 DEF TaskAt
<1> DEFINE f == [local[x] EXCEPT !.ret = "dead"]
<1>4. Goto(x, "schedCount") /\ Set(x, f)
  BY <1>3 DEF EndSelf
<1>5. f \in Frame /\ f.task = None /\ f.ret = "dead"
  BY <1>1, <1>3, FrameFields DEF Frame
<1> HIDE DEF f
<1>6. pc'[x] = "schedCount" /\ local'[x] = f
  BY <1>4, GotoAndSet
<1>7. TaskAt(x)'
  BY <1>5, <1>6 DEF TaskAt
<1> QED
  BY <1>1, <1>2, <1>3, <1>4, <1>5, <1>7, LocalStep

\* The lock of a scheduler is free: whoever holds one holds another's.
LEMMA LockedOther ==
    ASSUME NEW d, Unlocked(d), NEW z \in TCB, pc[z] = "mark"
    PROVE  local[z].apic # d
BY DEF Unlocked

\* A task that locked the scheduler it is on finds itself running there.
LEMMA FindsItselfRunning ==
    ASSUME NEW kind, NEW level, NEW holder, Inv(kind, level, holder), NEW c \in Core, NEW x \in TCB,
           NEW op, Locked(c, x, op), local[x].id = [slot |-> x, count |-> 1]
    PROVE  IsRunning(x) /\ ~IsReady(x) /\ local[x].apic = bAPICID[x]
<1>1. pstRunningTask[c] = x /\ bAPICID[x] = c /\ qwID[x] = 1
  BY Running DEF Locked, Switching
<1> QED
  BY <1>1 DEF Locked, IsRunning, IsReady, Names

LEMMA AffinityLockedStep ==
    ASSUME NEW kind, NEW level, NEW holder, Inv(kind, level, holder), NEW c \in Core, NEW x \in TCB,
           AffinityLocked(c, x)
    PROVE  Inv(kind, level, holder)'
<1> USE DEF TaskLabels, EndingLabels, InterruptsOff, Looking, Cleaning, Switching
<1>1. Runs(c, x) /\ pc[x] = "lock" /\ TaskAt(x) /\ local[x] \in Frame /\ Chosen(x)
  BY Running DEF AffinityLocked, Locked
<1>2. local[x].op = "affinity" /\ Locked(c, x, {"affinity"})
  BY DEF AffinityLocked, Locked
<1>3. /\ local[x].id = [slot |-> x, count |-> 1] /\ local[x].task = None /\ ~endTask[x]
      /\ local[x].ret \in {"run", "idle", "dead"}
  BY <1>1, <1>2 DEF TaskAt, LookingInv, Frame
<1>4. IsRunning(x) /\ ~IsReady(x)
  BY <1>2, <1>3, FindsItselfRunning
<1>5. UNCHANGED Shared
  BY <1>4 DEF AffinityLocked, Shared, pool, flags, scheduler
<1>6. Goto(x, local[x].ret) /\ Set(x, Blank)
  BY <1>4 DEF AffinityLocked, Return
<1>7. pc'[x] = local[x].ret /\ local'[x] = Blank /\ ~endTask'[x]
  BY <1>3, <1>5, <1>6, GotoAndSet DEF Shared
<1>8. TaskAt(x)'
  BY <1>1, <1>3, <1>7, BlankFrame DEF TaskAt
<1> QED
  BY <1>1, <1>3, <1>5, <1>6, <1>8, BlankFrame, LocalStep

LEMMA EndItselfStep ==
    ASSUME NEW kind, NEW level, NEW holder, Inv(kind, level, holder), NEW c \in Core, NEW x \in TCB,
           EndLocked(c, x), local[x].op = "end"
    PROVE  Inv(kind, level, holder)'
<1> USE DEF TaskLabels, EndingLabels, InterruptsOff, Looking, Cleaning, Switching
<1>1. /\ Runs(c, x) /\ pc[x] = "lock" /\ TaskAt(x) /\ local[x] \in Frame /\ kind[x] = "run"
  BY Running DEF EndLocked, Locked
<1>2. Locked(c, x, {"end", "endChild"})
  BY DEF EndLocked
<1>3. /\ local[x].id = [slot |-> x, count |-> 1] /\ local[x].task = None
      /\ <<x, x>> \in Asks["end"]
  BY <1>1 DEF TaskAt, LookingInv
<1>4. IsRunning(x) /\ ~IsReady(x) /\ local[x].apic = bAPICID[x]
  BY <1>2, <1>3, FindsItselfRunning
<1>5. /\ endTask' = [endTask EXCEPT ![x] = TRUE] /\ bPriority' = [bPriority EXCEPT ![x] = WAIT]
      /\ UNCHANGED <<qwID, late, links, bAPICID, scheduler, executing>>
  BY <1>3, <1>4 DEF EndLocked, SetEndTask, pool, scheduler
<1>6. Goto(x, "endSelf") /\ Set(x, local[x])
  BY <1>4, StaysAsItIs DEF EndLocked
<1>7. pc'[x] = "endSelf" /\ local'[x] = local[x]
  BY <1>6, GotoAndSet
<1>8. KernelType'
  BY <1>5 DEF Inv, KernelType, links, scheduler
<1>9. ListInv(kind, level)'
  <2>1. \A t \in TCB : kind[t] = "ready" => bPriority'[t] = bPriority[t]
    BY <1>1, <1>5 DEF Inv, KernelType
  <2>2. /\ \A d \in Core, p \in Priority : ReadyTasks(kind, level, d, p)' = ReadyTasks(kind, level, d, p)
        /\ \A d \in Core : WaitTasks(kind, d)' = WaitTasks(kind, d)
    BY <1>5, <2>1 DEF ReadyTasks, WaitTasks
  <2> QED
    BY <1>5, <2>2 DEF Inv, ListInv, scheduler
<1>10. EndInv(kind, level, holder)'
  <2>1. \A t \in TCB : t # x => endTask'[t] = endTask[t] /\ bPriority'[t] = bPriority[t]
    BY <1>5 DEF Inv, KernelType
  <2>2. endTask'[x] /\ Mortal(x)
    BY <1>3, <1>5 DEF Inv, KernelType, Mortal
  <2> QED
    BY <1>1, <1>3, <1>5, <2>1, <2>2 DEF Inv, EndInv, links
<1>11. TaskAt(x)'
  <2>1. endTask'[x] /\ bAPICID'[x] = local'[x].apic
    BY <1>4, <1>5, <1>7 DEF Inv, KernelType
  <2> QED
    BY <1>1, <1>3, <1>7, <2>1 DEF TaskAt
<1>12. \A z \in TCB : (endTask[z] => endTask'[z]) /\ (z # x => endTask'[z] = endTask[z])
  BY <1>5 DEF Inv, KernelType
<1>13. "endSelf" \in Label
  BY DEF Label
<1> QED
  BY <1>1, <1>5, <1>6, <1>8, <1>9, <1>10, <1>11, <1>12, <1>13, TaskStep
     DEF Goto, Set, scheduler

\* One ready list is replaced.
LEMMA ReplaceReady ==
    ASSUME NEW lists \in [Core -> [Priority -> Seq(TCB)]], NEW d \in Core,
           NEW p \in Priority, NEW list \in Seq(TCB)
    PROVE  LET new == [lists EXCEPT ![d][p] = list] IN
           /\ new \in [Core -> [Priority -> Seq(TCB)]]
           /\ \A e \in Core, q \in Priority :
                 new[e][q] = IF e = d /\ q = p THEN list ELSE lists[e][q]
OBVIOUS

\* A ready list holds exactly the tasks it should.
LEMMA InList ==
    ASSUME NEW kind, NEW level, NEW holder, Inv(kind, level, holder), NEW d \in Core, NEW p \in Priority,
           NEW t \in TCB
    PROVE  Contains(vstReadyList[d][p], t)
             <=> kind[t] = "ready" /\ bAPICID[t] = d /\ level[t] = p
<1>1. IsList(vstReadyList[d][p], ReadyTasks(kind, level, d, p))
  BY DEF Inv, ListInv
<1> QED
  BY <1>1, ListContains DEF ReadyTasks

\* A ready task is found by the core and the priority in its TCB, unless its priority
\* was changed late.
LEMMA IsReadyFinds ==
    ASSUME NEW kind, NEW level, NEW holder, Inv(kind, level, holder), NEW c \in Core, NEW x \in TCB,
           NEW op, Locked(c, x, op), local[x].id.slot \in TCB
    PROVE  LET t == local[x].id.slot IN
           /\ IsReady(x) => kind[t] = "ready" /\ level[t] = bPriority[t] /\ bPriority[t] \in Priority
           /\ kind[t] = "ready" /\ t \notin late /\ local[x].id.count = 1 => IsReady(x)
<1> DEFINE t == local[x].id.slot
<1>1. local[x].apic = bAPICID[t] /\ bAPICID[t] \in Core
  BY DEF Locked, Inv, KernelType
<1>2. ASSUME kind[t] = "ready", t \notin late, local[x].id.count = 1 PROVE IsReady(x)
  <2>1. bPriority[t] \in Priority /\ level[t] = bPriority[t]
    BY <1>2 DEF Inv, EndInv
  <2>2. Contains(vstReadyList[bAPICID[t]][bPriority[t]], t)
    BY <1>1, <1>2, <2>1, InList
  <2>3. qwID[t] = 1
    BY <1>2 DEF Inv, SlotInv, KernelType
  <2>4. pstRunningTask[bAPICID[t]] # t
    BY <1>1, <1>2 DEF Inv, RunInv
  <2>5. Names(local[x].id, t)
    BY <1>2, <2>3 DEF Names
  <2>6. InReadyList(local[x].apic, local[x].id)
    BY <1>1, <2>1, <2>2, <2>5 DEF InReadyList
  <2>7. ~IsRunning(x)
    BY <1>1, <2>4 DEF IsRunning, Names
  <2> QED
    BY <2>6, <2>7 DEF IsReady
<1>3. ASSUME IsReady(x)
      PROVE  kind[t] = "ready" /\ level[t] = bPriority[t] /\ bPriority[t] \in Priority
  <2>1. /\ bPriority[t] \in Priority
        /\ Contains(vstReadyList[bAPICID[t]][bPriority[t]], t)
    BY <1>1, <1>3 DEF IsReady, InReadyList
  <2> QED
    BY <1>1, <2>1, InList
<1> QED
  BY <1>2, <1>3

\* The lists without a task that is found in its list.
LEMMA ListsWithout ==
    ASSUME NEW kind, NEW level, NEW holder, Inv(kind, level, holder), NEW t \in TCB,
           kind[t] = "ready", level[t] = bPriority[t], bPriority[t] \in Priority
    PROVE  LET rest == kRemoveTaskFromReadyList(bAPICID[t], t) IN
           /\ rest \in [Core -> [Priority -> Seq(TCB)]]
           /\ \A e \in Core, r \in Priority :
                 IsList(rest[e][r], ReadyTasks(kind, level, e, r) \ {t})
<1> DEFINE d == bAPICID[t]
           q == bPriority[t]
           shorter == kRemoveList(vstReadyList[d][q], t)
           rest == [vstReadyList EXCEPT ![d][q] = shorter]
<1>1. vstReadyList \in [Core -> [Priority -> Seq(TCB)]] /\ d \in Core
  BY DEF Inv, KernelType
<1>2. \A e \in Core, r \in Priority : IsList(vstReadyList[e][r], ReadyTasks(kind, level, e, r))
  BY DEF Inv, ListInv
<1>3. IsList(shorter, ReadyTasks(kind, level, d, q) \ {t})
  BY <1>1, <1>2, ListRemove
<1>4. shorter \in Seq(TCB)
  BY <1>3 DEF IsList
<1>5. kRemoveTaskFromReadyList(bAPICID[t], t) = rest
  BY DEF kRemoveTaskFromReadyList
<1> HIDE DEF shorter
<1>6. /\ rest \in [Core -> [Priority -> Seq(TCB)]]
      /\ \A e \in Core, r \in Priority :
            rest[e][r] = IF e = d /\ r = q THEN shorter ELSE vstReadyList[e][r]
  BY <1>1, <1>4, ReplaceReady
<1> HIDE DEF rest
<1>7. ASSUME NEW e \in Core, NEW r \in Priority
      PROVE  IsList(rest[e][r], ReadyTasks(kind, level, e, r) \ {t})
  <2>1. CASE e = d /\ r = q
    BY <1>3, <1>6, <2>1
  <2>2. CASE ~(e = d /\ r = q)
    <3>1. ReadyTasks(kind, level, e, r) \ {t} = ReadyTasks(kind, level, e, r)
      BY <2>2 DEF ReadyTasks
    <3> QED
      BY ZenonT(60), <1>2, <1>6, <2>2, <3>1
  <2> QED
    BY <2>1, <2>2
<1> QED
  BY <1>5, <1>6, <1>7

LEMMA PriorityLockedStep ==
    ASSUME NEW kind \in [TCB -> Kinds], NEW level \in [TCB -> Priority],
           NEW holder \in [TCB -> Context], Inv(kind, level, holder),
           NEW c \in Core, NEW x \in TCB, PriorityLocked(c, x)
    PROVE  IInv'
<1> USE DEF TaskLabels, EndingLabels, InterruptsOff, Looking, Cleaning, Switching
<1> DEFINE t == local[x].id.slot
           d == local[x].apic
           p == local[x].arg
<1>1. /\ Runs(c, x) /\ pc[x] = "lock" /\ TaskAt(x) /\ local[x] \in Frame /\ kind[x] = "run"
      /\ Chosen(x)
  <2>1. At(c, x, "lock") /\ "lock" \notin Switching
    BY DEF PriorityLocked, Locked
  <2> QED
    BY SMTT(30), <2>1, Running DEF Switching
<1>2. local[x].op = "priority" /\ Locked(c, x, {"priority"}) /\ Unlocked(d)
  BY DEF PriorityLocked, Locked
<1>3. /\ t \in TCB /\ local[x].id.count = 1 /\ local[x].task = None /\ p \in Priority
      /\ ~endTask[x] /\ local[x].ret \in {"run", "idle", "dead"}
  BY <1>1, <1>2 DEF TaskAt, LookingInv, Frame
<1>4. d = bAPICID[t] /\ d \in Core
  BY <1>2, <1>3 DEF Locked, Inv, KernelType
<1>5. IsReady(x) => kind[t] = "ready" /\ level[t] = bPriority[t] /\ bPriority[t] \in Priority
  BY <1>2, <1>3, IsReadyFinds
<1>6. /\ UNCHANGED <<qwID, endTask, links, bAPICID, pstRunningTask, stWaitList,
                     viExecuteCount, executing>>
      /\ bPriority' = [bPriority EXCEPT ![t] = p]
      /\ Goto(x, local[x].ret) /\ Set(x, Blank)
  BY DEF PriorityLocked, pool, Return
<1>7. \A u \in TCB : bPriority'[u] = IF u = t THEN p ELSE bPriority[u]
  BY <1>6 DEF Inv, KernelType
<1>8. PICK level2 \in [TCB -> Priority] :
           \A u \in TCB : level2[u] = IF u = t /\ IsReady(x) THEN p ELSE level[u]
  <2>1. [u \in TCB |-> IF u = t /\ IsReady(x) THEN p ELSE level[u]] \in [TCB -> Priority]
    BY <1>3
  <2> QED
    BY <2>1
<1>9. /\ late' \subseteq TCB
      /\ \A u \in TCB : u # t => (u \in late' <=> u \in late)
      /\ t \in late' => t \in late
      /\ IsReady(x) => t \notin late'
      /\ ~IsReady(x) => kind[t] = "run"
  <2>1. CASE IsReady(x)
    BY <2>1 DEF PriorityLocked, Inv, KernelType, IsReady
  <2>2. CASE ~IsReady(x)
    <3>1. IsRunning(x) /\ UNCHANGED late
      BY <2>2 DEF PriorityLocked
    <3>2. pstRunningTask[d] = t
      BY <3>1 DEF IsRunning, Names
    <3>3. kind[t] = "run"
      BY <1>3, <1>4, <3>2 DEF Inv, RunInv
    <3>4. late' \subseteq TCB
      BY <3>1 DEF Inv, KernelType
    <3> HIDE DEF t
    <3> QED
      BY <2>2, <3>1, <3>3, <3>4
  <2> QED
    BY <2>1, <2>2
<1>10. /\ vstReadyList' \in [Core -> [Priority -> Seq(TCB)]]
       /\ \A e \in Core, r \in Priority :
             IsList(vstReadyList'[e][r], ReadyTasks(kind, level2, e, r)')
  <2>1. CASE ~IsReady(x)
    <3>1. vstReadyList' = vstReadyList
      BY <2>1 DEF PriorityLocked
    <3>2. \A e \in Core, r \in Priority :
             ReadyTasks(kind, level2, e, r)' = ReadyTasks(kind, level, e, r)
      BY <1>6, <1>8, <2>1 DEF ReadyTasks
    <3> QED
      BY <3>1, <3>2 DEF Inv, ListInv, KernelType
  <2>2. CASE IsReady(x)
    <3> DEFINE rest == kRemoveTaskFromReadyList(d, t)
               longer == Append(rest[d][p], t)
               new == [rest EXCEPT ![d][p] = longer]
    <3>1. vstReadyList' = new
      BY <1>3, <2>2 DEF PriorityLocked, IsReady
    <3>2. /\ rest \in [Core -> [Priority -> Seq(TCB)]]
          /\ \A e \in Core, r \in Priority :
                IsList(rest[e][r], ReadyTasks(kind, level, e, r) \ {t})
      BY <1>3, <1>4, <1>5, <2>2, ListsWithout
    <3> HIDE DEF rest
    <3>3. IsList(longer, (ReadyTasks(kind, level, d, p) \ {t}) \cup {t})
      BY <1>3, <1>4, <3>2, ListAppend
    <3>4. longer \in Seq(TCB)
      BY <3>3 DEF IsList
    <3> HIDE DEF longer
    <3>5. /\ new \in [Core -> [Priority -> Seq(TCB)]]
          /\ \A e \in Core, r \in Priority :
                new[e][r] = IF e = d /\ r = p THEN longer ELSE rest[e][r]
      BY SMTT(30), <1>3, <1>4, <3>2, <3>4, ReplaceReady
    <3> HIDE DEF new
    <3>6. ASSUME NEW e \in Core, NEW r \in Priority
          PROVE  IsList(new[e][r], ReadyTasks(kind, level2, e, r)')
      <4>1. CASE e = d /\ r = p
        <5>1. ReadyTasks(kind, level2, e, r)' = (ReadyTasks(kind, level, d, p) \ {t}) \cup {t}
          BY <1>3, <1>4, <1>5, <1>6, <1>8, <2>2, <4>1 DEF ReadyTasks
        <5> QED
          BY <3>3, <3>5, <4>1, <5>1
      <4>2. CASE ~(e = d /\ r = p)
        <5>1. ReadyTasks(kind, level2, e, r)' = ReadyTasks(kind, level, e, r) \ {t}
          BY <1>3, <1>4, <1>6, <1>8, <2>2, <4>2 DEF ReadyTasks
        <5>2. new[e][r] = rest[e][r]
          BY ZenonT(60), <3>5, <4>2
        <5>3. IsList(rest[e][r], ReadyTasks(kind, level, e, r) \ {t})
          BY <3>2
        <5> HIDE DEF t, d
        <5> QED
          BY Zenon, <5>1, <5>2, <5>3
      <4> QED
        BY <4>1, <4>2
    <3> QED
      BY <3>1, <3>5, <3>6
  <2> QED
    BY <2>1, <2>2
<1>11. KernelType'
  BY <1>3, <1>6, <1>7, <1>9, <1>10 DEF Inv, KernelType, links
<1>12. ListInv(kind, level2)'
  <2>1. \A e \in Core : WaitTasks(kind, e)' = WaitTasks(kind, e)
    BY <1>6 DEF WaitTasks
  <2> QED
    BY <1>6, <1>10, <2>1 DEF Inv, ListInv
<1>13. EndInv(kind, level2, holder)'
  BY <1>3, <1>5, <1>6, <1>7, <1>8, <1>9 DEF Inv, EndInv, links
<1>14. pc'[x] = local[x].ret /\ local'[x] = Blank
  BY <1>6, GotoAndSet
<1>15. TaskAt(x)'
  BY <1>1, <1>3, <1>6, <1>14, BlankFrame DEF TaskAt
<1>16. local[x].ret \in Label
  BY <1>3 DEF Label
<1>17. SlotInv(kind)' /\ RunInv(kind)'
  BY <1>6 DEF Inv, SlotInv, RunInv
<1>18. \A z \in Context : z # x => local'[z] = local[z] /\ pc'[z] = pc[z]
  BY <1>6, Contexts DEF Goto, Set, Inv, ContextType
<1>19. HeldInv(kind, holder)'
  <2>1. \A z \in Context : local'[z].task = local[z].task
    BY <1>3, <1>14, <1>18, BlankFrame
  <2> QED
    BY <2>1 DEF Inv, HeldInv
<1>20. BoundInv'
  BY <1>6, <1>9 DEF Inv, BoundInv
<1>21. MarkInv(kind)'
  <2>1. \A z \in TCB : pc'[z] = "mark" => pc[z] = "mark" /\ local'[z] = local[z]
    BY <1>3, <1>14, <1>18, Contexts
  <2>2. ASSUME NEW z \in TCB, pc[z] = "mark", bAPICID[local[z].id.slot] = local[z].apic
        PROVE  local[z].id.slot \in late => local[z].id.slot \in late'
    <3>1. local[z].id.slot \in TCB
      BY <2>2 DEF Inv, TaskInv, TaskAt, LookingInv
    <3>2. local[z].id.slot # t
      BY <1>2, <1>4, <2>2, LockedOther
    <3> QED
      BY <1>9, <3>1, <3>2
  <2> QED
    BY <1>6, <2>1, <2>2, MarkStays DEF Inv
<1>22. Inv(kind, level2, holder)'
  BY <1>1, <1>3, <1>6, <1>11, <1>12, <1>13, <1>15, <1>16, <1>17, <1>19, <1>20, <1>21,
     BlankFrame, KindStep DEF Goto, Set
<1> QED
  BY <1>22 DEF IInv

\* An idle task that ends a child finds it bound to its own core, not running.
LEMMA EndsChild ==
    ASSUME OwnCallsOnly, NEW kind, NEW level, NEW holder, Inv(kind, level, holder),
           NEW c \in Core, NEW x \in TCB, NEW op, Locked(c, x, op), local[x].op = "endChild"
    PROVE  LET u == local[x].id.slot IN
           /\ u \in Used /\ u \in TCB /\ u # x /\ Mortal(u)
           /\ Bound(u) /\ u \notin late /\ local[x].apic = c /\ bAPICID[u] = c
           /\ kind[u] # "run" /\ ~IsRunning(x)
           /\ IsReady(x) <=> kind[u] = "ready"
           /\ kind[u] = "held" => holder[u] # c
<1> USE DEF TaskLabels, EndingLabels, InterruptsOff, Looking, Cleaning, Switching
<1> DEFINE u == local[x].id.slot
<1>1. /\ Runs(c, x) /\ pc[x] = "lock" /\ TaskAt(x) /\ pstRunningTask[c] = x /\ bAPICID[x] = c
  BY Running DEF Locked
<1>2. LookingInv(x)
  BY <1>1 DEF TaskAt
<1>3. /\ u \in TCB /\ u \in Used /\ Bound(u) /\ ~Boot[u].idle
      /\ local[x].id.count = 1 \/ qwID[u] = 0
      /\ Boot[u].core = Boot[x].core /\ Mortal(u) /\ local[x].task # None
      /\ local[x].apic = Boot[u].core
  BY <1>1, <1>2 DEF LookingInv
<1>4. Boot[x].idle
  BY <1>1, <1>3 DEF TaskAt
<1>5. Bound(x) /\ u # x
  BY <1>3, <1>4 DEF OwnCallsOnly
<1>6. Boot[x].core = c /\ bAPICID[u] = c /\ u \notin late
  BY <1>1, <1>3, <1>5 DEF Inv, BoundInv
<1>7. kind[u] # "run"
  BY <1>1, <1>3, <1>5, <1>6 DEF Inv, RunInv
<1>8. ~IsRunning(x)
  BY <1>1, <1>3, <1>5, <1>6 DEF IsRunning, Names
<1>9. IsReady(x) <=> kind[u] = "ready"
  <2>1. kind[u] = "ready" => local[x].id.count = 1
    BY <1>3 DEF Inv, SlotInv
  <2> QED
    BY <1>3, <1>6, <2>1, IsReadyFinds
<1>10. ASSUME kind[u] = "held", holder[u] = c PROVE FALSE
  <2>1. local[c].task = u
    BY <1>3, <1>10, Contexts DEF Inv, HeldInv
  <2>2. pc[c] \in Given
    BY <1>3, <2>1, Contexts DEF Inv, HandlerInv
  <2> QED
    BY <1>1, <2>2, OnCore DEF Given
<1> QED
  BY <1>3, <1>5, <1>6, <1>7, <1>8, <1>9, <1>10

LEMMA EndChildStep ==
    ASSUME OwnCallsOnly, NEW kind \in [TCB -> Kinds], NEW level \in [TCB -> Priority],
           NEW holder \in [TCB -> Context], Inv(kind, level, holder),
           NEW c \in Core, NEW x \in TCB, EndLocked(c, x), local[x].op = "endChild"
    PROVE  IInv'
<1> USE DEF TaskLabels, EndingLabels, InterruptsOff, Looking, Cleaning, Switching
<1> DEFINE u == local[x].id.slot
<1>1. /\ Runs(c, x) /\ pc[x] = "lock" /\ TaskAt(x) /\ local[x] \in Frame /\ kind[x] = "run"
      /\ bAPICID[x] = c
  <2>1. At(c, x, "lock") /\ "lock" \notin Switching
    BY DEF EndLocked, Locked
  <2> QED
    BY SMTT(30), <2>1, Running DEF Switching
<1>2. Locked(c, x, {"end", "endChild"})
  BY DEF EndLocked
<1>3. /\ u \in Used /\ u \in TCB /\ u # x /\ Mortal(u)
      /\ Bound(u) /\ u \notin late /\ local[x].apic = c /\ bAPICID[u] = c
      /\ ~IsRunning(x)
  BY <1>2, EndsChild
<1>4. IsReady(x)
  BY <1>3 DEF EndLocked
<1>5. kind[u] = "ready" /\ level[u] = bPriority[u] /\ bPriority[u] \in Priority
  BY <1>2, <1>3, <1>4, IsReadyFinds
<1> DEFINE rest == kRemoveTaskFromReadyList(c, u)
           longer == Append(stWaitList[c], u)
<1>6. /\ UNCHANGED <<qwID, late, links, bAPICID, pstRunningTask, viExecuteCount, executing>>
      /\ endTask' = [endTask EXCEPT ![u] = TRUE] /\ bPriority' = [bPriority EXCEPT ![u] = WAIT]
      /\ vstReadyList' = rest /\ stWaitList' = [stWaitList EXCEPT ![c] = longer]
      /\ Goto(x, "kids") /\ UNCHANGED local
  BY <1>3 DEF EndLocked, SetEndTask, pool
<1>7. Set(x, local[x])
  BY <1>6, StaysAsItIs
<1>8. pc'[x] = "kids" /\ local'[x] = local[x]
  BY <1>6, <1>7, GotoAndSet
<1>9. \A v \in TCB : /\ endTask'[v] = IF v = u THEN TRUE ELSE endTask[v]
                     /\ bPriority'[v] = IF v = u THEN WAIT ELSE bPriority[v]
  BY <1>6 DEF Inv, KernelType
<1>10. PICK kind2 \in [TCB -> Kinds] :
            kind2[u] = "wait" /\ \A v \in TCB : v # u => kind2[v] = kind[v]
  <2>1. [kind EXCEPT ![u] = "wait"] \in [TCB -> Kinds]
    BY DEF Kinds
  <2> QED
    BY <1>3, <2>1
<1> HIDE DEF u
<1>11. /\ rest \in [Core -> [Priority -> Seq(TCB)]]
       /\ \A e \in Core, r \in Priority :
             IsList(rest[e][r], ReadyTasks(kind, level, e, r) \ {u})
  BY <1>3, <1>5, ListsWithout
<1> HIDE DEF rest
<1>12. IsList(longer, WaitTasks(kind, c) \cup {u})
  <2>1. IsList(stWaitList[c], WaitTasks(kind, c))
    BY DEF Inv, ListInv
  <2>2. u \notin WaitTasks(kind, c)
    BY <1>5 DEF WaitTasks
  <2> QED
    BY <1>3, <2>1, <2>2, ListAppend
<1> HIDE DEF longer
<1>13. KernelType'
  <2>1. longer \in Seq(TCB)
    BY <1>12 DEF IsList
  <2> QED
    BY <1>3, <1>6, <1>11, <2>1 DEF Inv, KernelType, links
<1>14. SlotInv(kind2)' /\ RunInv(kind2)'
  BY <1>3, <1>5, <1>6, <1>10 DEF Inv, SlotInv, RunInv
<1>15. ListInv(kind2, level)'
  <2>1. ASSUME NEW e \in Core, NEW r \in Priority
        PROVE  IsList(vstReadyList'[e][r], ReadyTasks(kind2, level, e, r)')
    <3>1. ReadyTasks(kind2, level, e, r)' = ReadyTasks(kind, level, e, r) \ {u}
      BY <1>6, <1>10 DEF ReadyTasks
    <3> QED
      BY <1>6, <1>11, <3>1
  <2>2. ASSUME NEW e \in Core PROVE IsList(stWaitList'[e], WaitTasks(kind2, e)')
    <3>1. WaitTasks(kind2, e)' = IF e = c THEN WaitTasks(kind, c) \cup {u}
                                 ELSE WaitTasks(kind, e)
      BY <1>3, <1>6, <1>10 DEF WaitTasks
    <3>2. stWaitList'[e] = IF e = c THEN longer ELSE stWaitList[e]
      BY <1>6 DEF Inv, KernelType
    <3> QED
      BY <1>12, <3>1, <3>2 DEF Inv, ListInv
  <2> QED
    BY <2>1, <2>2 DEF ListInv
<1>16. HeldInv(kind2, holder)'
  BY <1>5, <1>6, <1>10 DEF Inv, HeldInv
<1>17. EndInv(kind2, level, holder)'
  BY <1>3, <1>6, <1>9, <1>10 DEF Inv, EndInv, links
<1>18. BoundInv'
  BY <1>6 DEF Inv, BoundInv
<1>19. MarkInv(kind2)'
  <2>1. \A z \in TCB : pc'[z] = "mark" => pc[z] = "mark" /\ local'[z] = local[z]
    BY <1>6 DEF Goto, Inv, ContextType
  <2>2. ASSUME NEW z \in TCB, pc[z] = "mark", kind2[local[z].id.slot] = "ready"
        PROVE  kind[local[z].id.slot] = "ready"
    <3>1. local[z].id.slot \in TCB
      BY <2>2 DEF Inv, TaskInv, TaskAt, LookingInv
    <3> QED
      BY <1>10, <2>2, <3>1
  <2> QED
    BY <1>6, <2>1, <2>2, MarkStays DEF Inv
<1>20. \A d \in Core : pc[d] = "none" => kind2[executing[d]] = kind[executing[d]]
  <2> SUFFICES ASSUME NEW d \in Core, pc[d] = "none" PROVE executing[d] # u
    BY <1>10 DEF Inv, ContextType
  <2>1. SUFFICES ASSUME executing[d] = u PROVE FALSE
    OBVIOUS
  <2>2. Runs(d, u)
    BY <2>1 DEF Runs
  <2>3. bAPICID[u] = d
    BY <1>3, <2>2, OnCore
  <2> QED
    BY <1>1, <1>3, <2>1, <2>3, OnCore
<1>21. /\ \A z \in TCB : endTask[z] => endTask'[z]
       /\ \A z \in TCB : z # x /\ Chosen(z) => endTask'[z] = endTask[z]
  <2>1. ~Chosen(u)
    BY <1>3, <1>5 DEF Chosen, Inv, RunInv
  <2> QED
    BY <1>9, <2>1
<1>22. TaskAt(x)'
  <2>1. LookingInv(x) /\ endTask'[x] = endTask[x]
    BY <1>1, <1>3, <1>9 DEF TaskAt
  <2>2. local[x].task # None
    BY <2>1 DEF LookingInv
  <2>3. Chosen(x)' <=> Chosen(x)
    BY <1>6 DEF Chosen
  <2> QED
    BY <1>1, <1>6, <1>8, <2>1, <2>2, <2>3 DEF TaskAt
<1>23. "kids" \in Label
  BY DEF Label
<1>24. /\ pc' = [pc EXCEPT ![x] = "kids"] /\ local' = [local EXCEPT ![x] = local[x]]
       /\ UNCHANGED <<qwID, bAPICID, executing, pstRunningTask>> /\ pc[x] \notin Switching
  BY <1>1, <1>6, <1>7 DEF Goto, Set
<1>25. Inv(kind2, level, holder)'
  BY <1>1, <1>13, <1>14, <1>15, <1>16, <1>17, <1>18, <1>19, <1>20, <1>21, <1>22, <1>23,
     <1>24, KindStep
<1> QED
  BY <1>25 DEF IInv

LEMMA EndLockedStep ==
    ASSUME OwnCallsOnly, NEW kind \in [TCB -> Kinds], NEW level \in [TCB -> Priority],
           NEW holder \in [TCB -> Context], Inv(kind, level, holder),
           NEW c \in Core, NEW x \in TCB, EndLocked(c, x)
    PROVE  IInv'
<1>1. local[x].op \in {"end", "endChild"}
  BY DEF EndLocked, Locked
<1>2. CASE local[x].op = "end"
  BY <1>2, EndItselfStep DEF IInv
<1>3. CASE local[x].op = "endChild"
  BY <1>3, EndChildStep
<1> QED
  BY <1>1, <1>2, <1>3

\* The lock of the task's last core is held; where the task is by then, it is found
\* in a ready list of that core only if its priority was changed late.
LEMMA ElsewhereStep ==
    ASSUME OwnCallsOnly, NEW kind \in [TCB -> Kinds], NEW level, NEW holder \in [TCB -> Context],
           Inv(kind, level, holder), NEW c \in Core, NEW x \in TCB, Elsewhere(c, x)
    PROVE  Inv(kind, level, holder)'
<1> USE DEF TaskLabels, EndingLabels, InterruptsOff, Looking, Cleaning, Switching
<1> DEFINE t == local[x].id.slot
           op == {"end", "endChild", "priority", "affinity"}
<1>1. Runs(c, x) /\ pc[x] = "lock" /\ TaskAt(x) /\ local[x] \in Frame /\ Chosen(x)
  BY Running DEF Elsewhere, Locked
<1>2. Locked(c, x, op) /\ ~IsRunning(x) /\ ~IsReady(x)
  BY DEF Elsewhere
<1>3. LookingInv(x) /\ ~endTask[x]
  BY <1>1 DEF TaskAt
<1>4. /\ local[x].op \in {"priority", "endChild"} /\ t \in TCB
      /\ local[x].id.count = 1 \/ qwID[t] = 0
  <2>1. local[x].op \in op /\ t \in TCB
    BY <1>2, <1>3 DEF Locked, LookingInv
  <2>2. local[x].id # [slot |-> x, count |-> 1]
    BY <1>2, FindsItselfRunning
  <2> QED
    BY <1>3, <2>1, <2>2 DEF LookingInv
<1>5. UNCHANGED Shared /\ Goto(x, "mark") /\ UNCHANGED local
  BY DEF Elsewhere, Shared, pool, flags
<1>6. Set(x, local[x])
  BY <1>5, StaysAsItIs
<1>7. pc'[x] = "mark" /\ local'[x] = local[x] /\ ~endTask'[x] /\ UNCHANGED <<endTask, bAPICID>>
  BY <1>3, <1>5, <1>6, GotoAndSet DEF Shared
<1>8. local[x].op = "endChild" => endTask[t]
  <2> SUFFICES ASSUME local[x].op = "endChild" PROVE endTask[t]
    OBVIOUS
  <2>1. /\ t \in Used /\ kind[t] \notin {"run", "ready"} /\ bAPICID[t] = c
        /\ kind[t] = "held" => holder[t] # c
    BY <1>2, EndsChild
  <2>2. kind[t] = "held" => holder[t] \in TCB
    <3>1. SUFFICES ASSUME kind[t] = "held", holder[t] \notin TCB PROVE FALSE
      OBVIOUS
    <3> DEFINE d == holder[t]
    <3>2. d \in Core
      BY <1>4, <3>1 DEF Context
    <3>3. local[d].task = t
      BY <1>4, <3>1, <3>2, Contexts DEF Inv, HeldInv
    <3>4. bAPICID[t] = d
      BY <1>4, <3>2, <3>3, Contexts DEF Inv, HandlerInv
    <3> QED
      BY <2>1, <3>1, <3>4
  <2> QED
    BY <1>4, <2>1, <2>2 DEF Inv, EndInv, Kinds
<1>9. LookingInv(x)'
  BY <1>1, <1>3, <1>4, <1>5, <1>7, <1>8 DEF LookingInv, Shared
<1>10. TaskAt(x)'
  BY <1>1, <1>7, <1>9 DEF TaskAt
<1>11. KernelType' /\ ListInv(kind, level)' /\ EndInv(kind, level, holder)'
  BY <1>5, SharedUnchanged DEF Shared
<1>12. /\ SlotInv(kind)' /\ RunInv(kind)' /\ HeldInv(kind, holder)' /\ BoundInv'
       /\ UNCHANGED <<qwID, bAPICID, executing, pstRunningTask>>
  BY <1>5 DEF Inv, SlotInv, RunInv, HeldInv, BoundInv, Shared, scheduler
<1>13. MarkInv(kind)'
  <2> SUFFICES ASSUME NEW z \in TCB, pc'[z] = "mark", kind[local'[z].id.slot] = "ready",
                      bAPICID'[local'[z].id.slot] = local'[z].apic
               PROVE  local'[z].id.slot \in late'
    BY DEF MarkInv
  <2>1. CASE z = x
    <3>1. kind[t] = "ready"
      BY <1>5, <2>1
    <3>2. local[x].id.count = 1
      BY <1>4, <3>1 DEF Inv, SlotInv
    <3> QED
      BY <1>2, <1>4, <1>5, <2>1, <3>1, <3>2, IsReadyFinds DEF Shared
  <2>2. CASE z # x
    <3>1. pc[z] = "mark"
      BY <1>5, <2>2, Contexts DEF Goto, Inv, ContextType
    <3> QED
      BY <1>5, <3>1 DEF Inv, MarkInv, Shared
  <2> QED
    BY <2>1, <2>2
<1>14. "mark" \in Label
  BY DEF Label
<1> QED
  BY <1>1, <1>5, <1>6, <1>7, <1>10, <1>11, <1>12, <1>13, <1>14, KindStep DEF Goto, Set

\* The child has ended already.
LEMMA MarkEndStep ==
    ASSUME NEW kind, NEW level, NEW holder, Inv(kind, level, holder),
           NEW c \in Core, NEW x \in TCB, MarkEnd(c, x)
    PROVE  Inv(kind, level, holder)'
<1> USE DEF TaskLabels, EndingLabels, InterruptsOff, Looking, Cleaning, Switching
<1> DEFINE t == local[x].id.slot
<1>1. Runs(c, x) /\ pc[x] = "mark" /\ TaskAt(x) /\ local[x] \in Frame /\ Chosen(x)
  BY Running DEF MarkEnd
<1>2. LookingInv(x) /\ ~endTask[x] /\ local[x].op \in {"end", "endChild"}
  BY <1>1 DEF TaskAt, MarkEnd
<1>3. local[x].op = "endChild" /\ local[x].task # None /\ t \in TCB /\ endTask[t]
  BY <1>1, <1>2 DEF LookingInv
<1>4. /\ Goto(x, "kids") /\ UNCHANGED local /\ bPriority' = [bPriority EXCEPT ![t] = WAIT]
      /\ endTask' = [endTask EXCEPT ![t] = TRUE]
      /\ UNCHANGED <<qwID, late, links, bAPICID, scheduler, executing>>
  BY <1>2, <1>3 DEF MarkEnd, SetEndTask, pool
<1>5. Set(x, local[x]) /\ UNCHANGED endTask
  BY <1>3, <1>4, StaysAsItIs DEF Inv, KernelType
<1>6. pc'[x] = "kids" /\ local'[x] = local[x]
  BY <1>4, <1>5, GotoAndSet
<1>7. KernelType'
  BY <1>4, <1>5 DEF Inv, KernelType, links, scheduler
<1>8. ListInv(kind, level)'
  BY <1>4 DEF Inv, ListInv, ReadyTasks, WaitTasks, scheduler
<1>9. EndInv(kind, level, holder)'
  <2>1. \A v \in TCB : ~endTask[v] => bPriority'[v] = bPriority[v]
    BY <1>3, <1>4 DEF Inv, KernelType
  <2> QED
    BY <1>4, <1>5, <2>1 DEF Inv, EndInv, links
<1>10. TaskAt(x)'
  BY <1>1, <1>2, <1>3, <1>4, <1>5, <1>6 DEF TaskAt
<1>11. "kids" \in Label
  BY DEF Label
<1> QED
  BY <1>1, <1>4, <1>5, <1>7, <1>8, <1>9, <1>10, <1>11, TaskStep DEF Goto, Set, scheduler

LEMMA MarkPriorityStep ==
    ASSUME NEW kind, NEW level, NEW holder, Inv(kind, level, holder),
           NEW c \in Core, NEW x \in TCB, MarkPriority(c, x)
    PROVE  Inv(kind, level, holder)'
<1> USE DEF TaskLabels, EndingLabels, InterruptsOff, Looking, Cleaning, Switching
<1> DEFINE t == local[x].id.slot
           p == local[x].arg
<1>1. Runs(c, x) /\ pc[x] = "mark" /\ TaskAt(x) /\ local[x] \in Frame /\ Chosen(x)
  BY Running DEF MarkPriority
<1>2. LookingInv(x) /\ ~endTask[x] /\ local[x].op = "priority"
  BY <1>1 DEF TaskAt, MarkPriority
<1>3. /\ t \in TCB /\ local[x].task = None /\ p \in Priority
      /\ local[x].ret \in {"run", "idle", "dead"}
      /\ Bound(t) => local[x].apic = Boot[t].core
  BY <1>1, <1>2 DEF LookingInv, TaskAt, Frame
<1>4. /\ UNCHANGED <<qwID, endTask, links, bAPICID, scheduler, executing>>
      /\ bPriority' = [bPriority EXCEPT ![t] = p]
      /\ late' = IF bAPICID[t] = local[x].apic THEN late ELSE late \cup {t}
      /\ Goto(x, local[x].ret) /\ Set(x, Blank)
  BY DEF MarkPriority, Return, pool
<1>5. pc'[x] = local[x].ret /\ local'[x] = Blank
  BY <1>4, GotoAndSet
<1>6. \A v \in TCB : bPriority'[v] = IF v = t THEN p ELSE bPriority[v]
  BY <1>4 DEF Inv, KernelType
<1>7. KernelType'
  BY <1>3, <1>4 DEF Inv, KernelType, links, scheduler
<1>8. ListInv(kind, level)' /\ SlotInv(kind)' /\ RunInv(kind)'
  <2>1. ListInv(kind, level)'
    BY <1>4 DEF Inv, ListInv, ReadyTasks, WaitTasks, scheduler
  <2> QED
    BY <1>4, <2>1 DEF Inv, SlotInv, RunInv, scheduler
<1>9. kind[t] = "ready" => t \in late'
  BY <1>1, <1>3, <1>4 DEF Inv, MarkInv
<1>10. EndInv(kind, level, holder)'
  BY <1>3, <1>4, <1>6, <1>9 DEF Inv, EndInv, links
<1>11. BoundInv'
  BY <1>3, <1>4 DEF Inv, BoundInv
<1>12. \A z \in Context : z # x => local'[z] = local[z] /\ pc'[z] = pc[z]
  BY <1>4, Contexts DEF Goto, Set, Inv, ContextType
<1>13. HeldInv(kind, holder)'
  <2>1. \A z \in Context : local'[z].task = local[z].task
    BY <1>3, <1>5, <1>12, BlankFrame
  <2> QED
    BY <2>1 DEF Inv, HeldInv
<1>14. MarkInv(kind)'
  <2>1. \A z \in TCB : pc'[z] = "mark" => pc[z] = "mark" /\ local'[z] = local[z]
    BY <1>3, <1>5, <1>12, Contexts
  <2>2. late \subseteq late'
    BY <1>4
  <2> QED
    BY <1>4, <2>1, <2>2, MarkStays DEF Inv
<1>15. TaskAt(x)'
  BY <1>1, <1>2, <1>3, <1>4, <1>5, BlankFrame DEF TaskAt
<1>16. local[x].ret \in Label
  BY <1>3 DEF Label
<1>17. UNCHANGED <<qwID, bAPICID, executing, pstRunningTask>>
  BY <1>4 DEF scheduler
<1> QED
  BY <1>1, <1>3, <1>4, <1>7, <1>8, <1>10, <1>11, <1>13, <1>14, <1>15, <1>16, <1>17,
     BlankFrame, KindStep DEF Goto, Set

LEMMA NoMarkAffinity ==
    ASSUME NEW kind, NEW level, NEW holder, Inv(kind, level, holder),
           NEW c \in Core, NEW x \in TCB
    PROVE  ~MarkAffinity(c, x)
<1> SUFFICES ASSUME MarkAffinity(c, x) PROVE FALSE
  OBVIOUS
<1>1. pc[x] = "mark" /\ TaskAt(x) /\ local[x].op = "affinity"
  BY Running DEF MarkAffinity, Switching
<1> QED
  BY <1>1 DEF TaskAt, LookingInv, Looking

(***************************************************************************)
(* The idle task                                                           *)
(***************************************************************************)
LEMMA IdleStep ==
    ASSUME NEW kind, NEW level, NEW holder, Inv(kind, level, holder), NEW c \in Core, NEW x \in TCB,
           Idle(c, x)
    PROVE  Inv(kind, level, holder)'
<1> USE DEF TaskLabels, EndingLabels, InterruptsOff, Looking, Cleaning, Switching
<1>1. UNCHANGED Shared /\ At(c, x, "idle")
  BY DEF Idle, Shared, pool, flags
<1>2. CASE kSchedule(x, "idle")
  BY <1>1, <1>2, CallOfSchedule
<1>3. CASE Goto(x, "take") /\ UNCHANGED local
  <2>1. Runs(c, x) /\ pc[x] = "idle" /\ TaskAt(x) /\ local[x] \in Frame /\ Chosen(x)
    BY <1>1, Running
  <2>2. Set(x, local[x])
    BY <1>3, StaysAsItIs
  <2>3. /\ pc'[x] = "take" /\ local'[x] = local[x] /\ endTask'[x] = endTask[x]
        /\ UNCHANGED bAPICID
    BY <1>1, <1>3, <2>2, GotoAndSet DEF Shared
  <2>4. TaskAt(x)'
    BY <2>1, <2>3 DEF TaskAt
  <2> QED
    BY <1>1, <1>3, <2>1, <2>2, <2>4, LocalStep
<1> QED
  BY <1>2, <1>3 DEF Idle

\* The threads of a process that has ended may end too, and stay on its core.
LEMMA KidsAreBound ==
    ASSUME OwnCallsOnly, NEW kind, NEW level, NEW holder, Inv(kind, level, holder),
           NEW p \in TCB, endTask[p], NEW u \in Range(stChildThreadList[p])
    PROVE  /\ u \in TCB /\ u \in Used /\ Mortal(u) /\ Bound(p) /\ Bound(u)
           /\ Boot[u].core = Boot[p].core /\ ~Boot[u].idle /\ Boot[p].process
<1>1. Thread(u, p) /\ Mortal(p)
  BY DEF Inv, EndInv
<1>2. u \in TCB /\ Boot[p].process
  BY <1>1, FamilyAssumption DEF Thread, Used
<1>3. <<p, p>> \in Asks["end"]
  BY <1>1, <1>2 DEF Mortal, Thread
<1> QED
  BY <1>1, <1>2, <1>3 DEF OwnCallsOnly, Mortal, Thread

\* What an idle task holds has ended.
LEMMA HeldByIdle ==
    ASSUME OwnCallsOnly, NEW kind, NEW level, NEW holder, Inv(kind, level, holder),
           NEW c \in Core, NEW x \in TCB, NEW l \in {"kids", "unlink", "free"}, At(c, x, l)
    PROVE  /\ local[x].task \in TCB /\ local[x].task # x
           /\ kind[local[x].task] = "held" /\ holder[local[x].task] = x
           /\ endTask[local[x].task] /\ ~endTask[x] /\ Boot[x].idle
           /\ Boot[x].core = c /\ bAPICID[local[x].task] = c
<1> USE DEF TaskLabels, EndingLabels, InterruptsOff, Looking, Cleaning, Switching
<1>1. /\ pc[x] = l /\ TaskAt(x) /\ kind[x] = "run" /\ local[x] \in Frame /\ Chosen(x)
      /\ bAPICID[x] = c
  BY Running
<1>2. local[x].task \in TCB /\ ~endTask[x]
  BY <1>1 DEF TaskAt, Frame
<1>5. Boot[x].idle /\ Boot[x].core = c /\ bAPICID[local[x].task] = c
  <2>1. Boot[x].idle /\ bAPICID[local[x].task] = Boot[x].core
    BY <1>1, <1>2, Contexts DEF TaskAt
  <2> QED
    BY <1>1, <2>1 DEF OwnCallsOnly, Inv, BoundInv
<1>3. kind[local[x].task] = "held" /\ holder[local[x].task] = x
  BY <1>2, Contexts DEF Inv, HeldInv
<1>4. endTask[local[x].task]
  BY <1>2, <1>3 DEF Inv, EndInv
<1> QED
  BY <1>1, <1>2, <1>3, <1>4, <1>5

\* A list whose head goes to its end.
LEMMA ListRotate ==
    ASSUME NEW list, NEW S, IsList(list, S), list # <<>>
    PROVE  /\ IsList(Append(Tail(list), Head(list)), S) /\ Head(list) \in S
<1> DEFINE h == Head(list)
<1>1. h \in S /\ h \in TCB /\ IsList(Tail(list), S \ {h})
  BY ListTail
<1>2. IsList(Append(Tail(list), h), (S \ {h}) \cup {h})
  BY <1>1, ListAppend
<1>3. (S \ {h}) \cup {h} = S
  BY <1>1
<1> QED
  BY <1>1, <1>2, <1>3

LEMMA IdleEndChildStep ==
    ASSUME OwnCallsOnly, NEW kind, NEW level, NEW holder, Inv(kind, level, holder),
           NEW c \in Core, NEW x \in TCB, IdleEndChild(c, x)
    PROVE  Inv(kind, level, holder)'
<1> USE DEF TaskLabels, EndingLabels, InterruptsOff, Looking, Cleaning, Switching
<1> DEFINE p == local[x].task
           kids == stChildThreadList[p]
<1>1. Runs(c, x) /\ pc[x] = "kids" /\ TaskAt(x) /\ local[x] \in Frame
  BY Running DEF IdleEndChild
<1>2. /\ p \in TCB /\ endTask[p] /\ ~endTask[x] /\ Boot[x].idle /\ Boot[x].core = c
      /\ bAPICID[p] = c
  BY HeldByIdle DEF IdleEndChild
<1>3. /\ UNCHANGED <<qwID, bPriority, endTask, late, qwParentProcessID, bAPICID, scheduler,
                     executing>>
      /\ local[x].count > 0
  BY DEF IdleEndChild, pool, flags
<1>4. CASE kids = <<>>
  <2> DEFINE f == [local[x] EXCEPT !.count = 0]
  <2>1. Set(x, f) /\ UNCHANGED <<pc, stChildThreadList>>
    BY <1>4 DEF IdleEndChild
  <2>2. Goto(x, "kids") /\ UNCHANGED Shared
    BY <1>1, <1>3, <2>1, StaysAsItIs DEF Shared, links
  <2>3. f \in Frame /\ f.task = p /\ f.ret = local[x].ret
    BY <1>1, FrameFields DEF Frame
  <2> HIDE DEF f
  <2>4. pc'[x] = "kids" /\ local'[x] = f /\ ~endTask'[x] /\ UNCHANGED bAPICID
    BY <1>2, <1>3, <2>1, <2>2, GotoAndSet
  <2>5. TaskAt(x)'
    BY <1>1, <2>3, <2>4 DEF TaskAt
  <2> QED
    BY <1>1, <2>1, <2>2, <2>3, <2>5, LocalStep
<1>5. CASE kids # <<>>
  <2> DEFINE u == Head(kids)
             new == Append(Tail(kids), Head(kids))
             f == [local[x] EXCEPT !.op = "endChild", !.id = ID(u), !.count = @ - 1]
  <2>1. IsList(kids, Range(kids))
    BY <1>2 DEF Inv, EndInv
  <2>2. u \in Range(kids) /\ IsList(new, Range(kids))
    BY <1>5, <2>1, ListRotate
  <2>3. /\ u \in TCB /\ u \in Used /\ Mortal(u) /\ Bound(p) /\ Bound(u)
        /\ Boot[u].core = Boot[p].core /\ ~Boot[u].idle
    BY <1>2, <2>2, KidsAreBound
  <2>4. Boot[u].core = Boot[x].core
    BY <1>2, <2>3 DEF Inv, BoundInv
  <2>5. stChildThreadList' = [stChildThreadList EXCEPT ![p] = new] /\ Goto(x, "find") /\ Set(x, f)
    BY <1>5 DEF IdleEndChild
  <2> HIDE DEF u, new
  <2>6. qwID[u] \in {0, 1} /\ ID(u) = [slot |-> u, count |-> qwID[u]] /\ ID(u) \in IDs
    <3>1. \A v \in TCB : qwID[v] \in {0, 1}
      BY DEF Inv, KernelType
    <3>2. qwID[u] \in {0, 1}
      BY <2>3, <3>1
    <3> QED
      BY <2>3, <3>2 DEF ID, IDs
  <2>7. local[x].count - 1 \in Nat
    BY <1>1, <1>3 DEF Frame
  <2>8. /\ f \in Frame /\ f.task = p /\ f.ret = local[x].ret /\ f.op = "endChild"
        /\ f.id = ID(u)
    BY <1>1, <2>6, <2>7 DEF Frame
  <2> HIDE DEF f
  <2>9. pc'[x] = "find" /\ local'[x] = f
    BY <2>5, GotoAndSet
  <2>10. p # None
    BY <1>2, Contexts
  <2>11. f.id.slot = u /\ (f.id.count = 1 \/ qwID[u] = 0)
    BY <2>6, <2>8
  <2> HIDE DEF p
  <2>12. LookingInv(x)'
    BY <1>3, <2>3, <2>4, <2>8, <2>9, <2>10, <2>11 DEF LookingInv
  <2>13. TaskAt(x)'
    BY <1>1, <1>2, <1>3, <2>8, <2>9, <2>12 DEF TaskAt, p
  <2>14. KernelType'
    <3>1. new \in Seq(TCB)
      BY <2>2 DEF IsList
    <3> QED
      BY <1>2, <1>3, <2>5, <3>1 DEF Inv, KernelType, scheduler
  <2>15. ListInv(kind, level)'
    BY <1>3 DEF Inv, ListInv, ReadyTasks, WaitTasks, scheduler
  <2>16. EndInv(kind, level, holder)'
    <3>1. \A t \in TCB : stChildThreadList'[t] = IF t = p THEN new ELSE stChildThreadList[t]
      BY <1>2, <2>5 DEF Inv, KernelType
    <3>2. Range(new) = Range(stChildThreadList[p])
      BY <2>2 DEF IsList
    <3>3. IsList(new, Range(new))
      BY <2>2, <3>2
    <3>4. \A t \in TCB : /\ Range(stChildThreadList'[t]) = Range(stChildThreadList[t])
                         /\ IsList(stChildThreadList'[t], Range(stChildThreadList'[t]))
      BY <3>1, <3>2, <3>3 DEF Inv, EndInv
    <3> QED
      BY <1>3, <3>4 DEF Inv, EndInv
  <2>17. "find" \in Label
    BY DEF Label
  <2>18. f.task = local[x].task
    BY <2>8 DEF p
  <2> QED
    BY <1>1, <1>3, <2>5, <2>8, <2>13, <2>14, <2>15, <2>16, <2>17, <2>18, TaskStep
       DEF Goto, Set, scheduler
<1> QED
  BY <1>4, <1>5

\* A process whose threads are still to be freed goes back to the wait list.
LEMMA IdleProcessStep ==
    ASSUME OwnCallsOnly, NEW kind \in [TCB -> Kinds], NEW level \in [TCB -> Priority],
           NEW holder \in [TCB -> Context], Inv(kind, level, holder),
           NEW c \in Core, NEW x \in TCB, IdleProcess(c, x)
    PROVE  IInv'
<1> USE DEF TaskLabels, EndingLabels, InterruptsOff, Looking, Cleaning, Switching
<1> DEFINE p == local[x].task
<1>1. /\ Runs(c, x) /\ pc[x] = "kids" /\ TaskAt(x) /\ local[x] \in Frame /\ kind[x] = "run"
      /\ bAPICID[x] = c
  BY Running DEF IdleProcess
<1>2. /\ p \in TCB /\ p # x /\ kind[p] = "held" /\ holder[p] = x /\ endTask[p] /\ ~endTask[x]
      /\ bAPICID[p] = c
  BY HeldByIdle DEF IdleProcess
<1>3. CASE stChildThreadList[p] = <<>>
  <2>1. Goto(x, "free") /\ UNCHANGED <<local, stWaitList>>
    BY <1>3 DEF IdleProcess
  <2>2. Set(x, local[x])
    BY <2>1, StaysAsItIs
  <2>3. UNCHANGED Shared
    BY <2>1 DEF IdleProcess, Shared, pool, flags, scheduler
  <2>4. pc'[x] = "free" /\ local'[x] = local[x] /\ ~endTask'[x] /\ UNCHANGED bAPICID
    BY <1>2, <2>1, <2>2, <2>3, GotoAndSet DEF Shared
  <2>5. TaskAt(x)'
    BY <1>1, <2>4 DEF TaskAt
  <2>6. Inv(kind, level, holder)'
    BY <1>1, <2>1, <2>2, <2>3, <2>5, LocalStep
  <2> QED
    BY <2>6 DEF IInv
<1>4. CASE stChildThreadList[p] # <<>>
  <2> DEFINE longer == Append(stWaitList[c], p)
  <2>1. /\ stWaitList' = [stWaitList EXCEPT ![c] = longer] /\ Goto(x, "take") /\ Set(x, Blank)
        /\ UNCHANGED <<qwID, bPriority, endTask, late, links, bAPICID, pstRunningTask,
                       vstReadyList, viExecuteCount, executing>>
    BY <1>4 DEF IdleProcess, pool, flags
  <2>2. pc'[x] = "take" /\ local'[x] = Blank
    BY <2>1, GotoAndSet
  <2>3. IsList(longer, WaitTasks(kind, c) \cup {p})
    <3>1. IsList(stWaitList[c], WaitTasks(kind, c))
      BY DEF Inv, ListInv
    <3>2. p \notin WaitTasks(kind, c)
      BY <1>2 DEF WaitTasks
    <3> QED
      BY <1>2, <3>1, <3>2, ListAppend
  <2> HIDE DEF longer, p
  <2>4. PICK kind2 \in [TCB -> Kinds] :
             kind2[p] = "wait" /\ \A u \in TCB : u # p => kind2[u] = kind[u]
    <3>1. [kind EXCEPT ![p] = "wait"] \in [TCB -> Kinds]
      BY DEF Kinds
    <3> QED
      BY <1>2, <3>1
  <2>5. KernelType'
    <3>1. longer \in Seq(TCB)
      BY <2>3 DEF IsList
    <3> QED
      BY <2>1, <3>1 DEF Inv, KernelType, links
  <2>6. SlotInv(kind2)' /\ RunInv(kind2)'
    BY <1>2, <2>1, <2>4 DEF Inv, SlotInv, RunInv
  <2>7. ListInv(kind2, level)'
    <3>1. \A d \in Core, q \in Priority : ReadyTasks(kind2, level, d, q)' = ReadyTasks(kind, level, d, q)
      BY <1>2, <2>1, <2>4 DEF ReadyTasks
    <3>2. \A d \in Core : WaitTasks(kind2, d)' = IF d = c THEN WaitTasks(kind, c) \cup {p}
                                                ELSE WaitTasks(kind, d)
      BY <1>2, <2>1, <2>4 DEF WaitTasks
    <3>3. \A d \in Core : stWaitList'[d] = IF d = c THEN longer ELSE stWaitList[d]
      BY <2>1 DEF Inv, KernelType
    <3>4. \A d \in Core : IsList(stWaitList'[d], WaitTasks(kind2, d)')
      BY <2>3, <3>2, <3>3 DEF Inv, ListInv
    <3> QED
      BY <2>1, <3>1, <3>4 DEF Inv, ListInv
  <2>8. HeldInv(kind2, holder)'
    <3>1. \A z \in Context : z # x => local'[z].task = local[z].task
      BY <2>1 DEF Set, Inv, ContextType
    <3> SUFFICES ASSUME NEW z \in Context, NEW u \in TCB
                 PROVE  local'[z].task = u <=> kind2[u] = "held" /\ holder[u] = z
      BY DEF HeldInv
    <3>2. local[z].task = u <=> kind[u] = "held" /\ holder[u] = z
      BY DEF Inv, HeldInv
    <3>3. local[x].task = p
      BY DEF p
    <3>4. CASE z = x
      BY <1>2, <2>2, <2>4, <3>2, <3>3, <3>4, BlankFrame, Contexts
    <3>5. CASE z # x
      BY <1>2, <2>4, <3>1, <3>2, <3>5
    <3> QED
      BY <3>4, <3>5
  <2>9. EndInv(kind2, level, holder)'
    BY <1>2, <2>1, <2>4 DEF Inv, EndInv, links
  <2>10. TaskAt(x)'
    <3>1. Boot[x].idle
      BY HeldByIdle DEF IdleProcess
    <3> QED
      BY <1>2, <2>1, <2>2, <3>1, BlankFrame DEF TaskAt
  <2>11. BoundInv'
    BY <2>1 DEF Inv, BoundInv
  <2>12. MarkInv(kind2)'
    <3>1. \A z \in TCB : pc'[z] = "mark" => pc[z] = "mark" /\ local'[z] = local[z]
      BY <2>1, <2>2 DEF Goto, Set, Inv, ContextType
    <3>2. ASSUME NEW z \in TCB, pc[z] = "mark", kind2[local[z].id.slot] = "ready"
          PROVE  kind[local[z].id.slot] = "ready"
      <4>1. local[z].id.slot \in TCB
        BY <3>2 DEF Inv, TaskInv, TaskAt, LookingInv
      <4> QED
        BY <2>4, <3>2, <4>1
    <3> QED
      BY <2>1, <3>1, <3>2, MarkStays DEF Inv
  <2>13. \A d \in Core : pc[d] = "none" => kind2[executing[d]] = kind[executing[d]]
    <3> SUFFICES ASSUME NEW d \in Core, pc[d] = "none" PROVE executing[d] # p
      BY <2>4 DEF Inv, ContextType
    <3>1. SUFFICES ASSUME executing[d] = p PROVE FALSE
      OBVIOUS
    <3>2. Runs(d, p)
      BY <3>1 DEF Runs
    <3> QED
      BY <1>2, <3>2, OnCore
  <2>14. "take" \in Label /\ Blank \in Frame
    BY BlankFrame DEF Label
  <2>15. /\ pc' = [pc EXCEPT ![x] = "take"] /\ local' = [local EXCEPT ![x] = Blank]
         /\ UNCHANGED <<qwID, bAPICID, executing, pstRunningTask>> /\ UNCHANGED endTask
    BY <2>1 DEF Goto, Set
  <2>16. Inv(kind2, level, holder)'
    BY <1>1, <2>5, <2>6, <2>7, <2>8, <2>9, <2>10, <2>11, <2>12, <2>13, <2>14, <2>15, KindStep
  <2> QED
    BY <2>16 DEF IInv
<1> QED
  BY <1>3, <1>4

LEMMA IdleThreadStep ==
    ASSUME OwnCallsOnly, NEW kind, NEW level, NEW holder, Inv(kind, level, holder),
           NEW c \in Core, NEW x \in TCB, IdleThread(c, x)
    PROVE  Inv(kind, level, holder)'
<1> USE DEF TaskLabels, EndingLabels, InterruptsOff, Looking, Cleaning, Switching
<1> DEFINE t == local[x].task
           p == ProcessOf(t)
<1>1. Runs(c, x) /\ pc[x] = "unlink" /\ TaskAt(x) /\ local[x] \in Frame
  BY Running DEF IdleThread
<1>2. t \in TCB /\ ~endTask[x]
  BY HeldByIdle DEF IdleThread
<1>3. UNCHANGED Shared
  BY DEF IdleThread, Shared, pool, flags
<1>6. UNCHANGED bAPICID
  BY <1>3 DEF Shared
<1>4. CASE p = None
  <2>1. Goto(x, "free") /\ Set(x, local[x])
    BY <1>4, StaysAsItIs DEF IdleThread
  <2>2. pc'[x] = "free" /\ local'[x] = local[x] /\ ~endTask'[x]
    BY <1>2, <1>3, <2>1, GotoAndSet DEF Shared
  <2>3. TaskAt(x)'
    BY <1>1, <1>6, <2>2 DEF TaskAt
  <2> QED
    BY <1>1, <1>3, <2>1, <2>3, LocalStep
<1>5. CASE p # None
  <2>1. p \in TCB
    <3>1. qwParentProcessID[t].slot \in TCB \cup {None}
      BY <1>2 DEF Inv, KernelType, IDs
    <3> QED
      BY <1>2, <1>5, <3>1 DEF ProcessOf
  <2>2. ID(p) \in IDs /\ ID(p).slot = p
    <3>1. \A u \in TCB : qwID[u] \in {0, 1}
      BY DEF Inv, KernelType
    <3>2. \A u \in TCB : ID(u) \in IDs /\ ID(u).slot = u
      BY <3>1 DEF ID, IDs
    <3> QED
      BY <2>1, <3>2
  <2> DEFINE f == [local[x] EXCEPT !.op = "unlink", !.id = ID(p)]
  <2>3. Goto(x, "find") /\ Set(x, f)
    BY <1>5 DEF IdleThread
  <2>4. f \in Frame
    BY <1>1, <2>2 DEF Frame
  <2>5. f.task = t /\ f.ret = local[x].ret /\ f.op = "unlink" /\ f.id.slot = p
    BY <1>1, <2>2 DEF Frame
  <2> HIDE DEF f, p
  <2>6. pc'[x] = "find" /\ local'[x] = f /\ ~endTask'[x]
    BY <1>2, <1>3, <2>3, GotoAndSet DEF Shared
  <2>7. t # None
    BY <1>2, Contexts
  <2>8. LookingInv(x)'
    BY <2>1, <2>5, <2>6, <2>7 DEF LookingInv
  <2>9. TaskAt(x)'
    BY <1>1, <1>2, <1>6, <2>5, <2>6, <2>7, <2>8 DEF TaskAt
  <2> QED
    BY <1>1, <1>3, <2>3, <2>4, <2>5, <2>9, LocalStep
<1> QED
  BY <1>4, <1>5

LEMMA UnlinkLockedStep ==
    ASSUME NEW kind, NEW level, NEW holder, Inv(kind, level, holder),
           NEW c \in Core, NEW x \in TCB, UnlinkLocked(c, x)
    PROVE  Inv(kind, level, holder)'
<1> USE DEF TaskLabels, EndingLabels, InterruptsOff, Looking, Cleaning, Switching
<1> DEFINE p == local[x].id.slot
           kids == stChildThreadList[p]
           new == kRemoveList(kids, local[x].task)
<1>1. Runs(c, x) /\ pc[x] = "lock" /\ TaskAt(x) /\ local[x] \in Frame /\ Chosen(x)
  BY Running DEF UnlinkLocked, Locked
<1>2. local[x].op = "unlink"
  BY DEF UnlinkLocked, Locked
<1>3. p \in TCB /\ local[x].task # None /\ ~endTask[x]
  BY <1>1, <1>2 DEF TaskAt, LookingInv
<1>4. /\ stChildThreadList' = [stChildThreadList EXCEPT ![p] = new]
      /\ UNCHANGED <<qwID, bPriority, endTask, late, qwParentProcessID, bAPICID, scheduler,
                     executing>>
  BY DEF UnlinkLocked, pool, flags
<1>5. Goto(x, "free") /\ Set(x, local[x])
  BY StaysAsItIs DEF UnlinkLocked
<1>6. pc'[x] = "free" /\ local'[x] = local[x] /\ ~endTask'[x]
  BY <1>3, <1>4, <1>5, GotoAndSet
<1>7. /\ IsList(kids, Range(kids)) /\ IsList(new, Range(kids) \ {local[x].task})
      /\ new \in Seq(TCB)
  <2>1. IsList(kids, Range(kids))
    BY <1>3 DEF Inv, EndInv
  <2>2. IsList(new, Range(kids) \ {local[x].task})
    BY <2>1, ListRemove
  <2> QED
    BY <2>1, <2>2 DEF IsList
<1> HIDE DEF new
<1>8. KernelType'
  BY <1>4, <1>7 DEF Inv, KernelType, scheduler
<1>9. ListInv(kind, level)'
  BY <1>4 DEF Inv, ListInv, ReadyTasks, WaitTasks, scheduler
<1>10. \A t \in TCB : /\ Range(stChildThreadList'[t]) \subseteq Range(stChildThreadList[t])
                      /\ IsList(stChildThreadList'[t], Range(stChildThreadList'[t]))
  <2> SUFFICES ASSUME NEW t \in TCB
               PROVE  /\ Range(stChildThreadList'[t]) \subseteq Range(stChildThreadList[t])
                      /\ IsList(stChildThreadList'[t], Range(stChildThreadList'[t]))
    OBVIOUS
  <2>1. stChildThreadList'[t] = IF t = p THEN new ELSE stChildThreadList[t]
    BY <1>3, <1>4 DEF Inv, KernelType
  <2>2. Range(new) = Range(kids) \ {local[x].task}
    BY <1>7 DEF IsList
  <2>3. IsList(new, Range(new))
    BY <1>7, <2>2
  <2>4. IsList(stChildThreadList[t], Range(stChildThreadList[t]))
    BY DEF Inv, EndInv
  <2> QED
    BY <2>1, <2>2, <2>3, <2>4
<1>11. EndInv(kind, level, holder)'
  BY <1>4, <1>10 DEF Inv, EndInv
<1>12. TaskAt(x)'
  <2>1. UNCHANGED bAPICID
    BY <1>4
  <2> QED
    BY <1>1, <1>3, <1>6, <2>1 DEF TaskAt
<1>13. "free" \in Label
  BY DEF Label
<1> QED
  BY <1>1, <1>4, <1>5, <1>8, <1>9, <1>11, <1>12, <1>13, TaskStep DEF Goto, Set, scheduler

LEMMA IdleTakeStep ==
    ASSUME OwnCallsOnly, NEW kind \in [TCB -> Kinds], NEW level \in [TCB -> Priority],
           NEW holder \in [TCB -> Context],
           Inv(kind, level, holder), NEW c \in Core, NEW x \in TCB, IdleTake(c, x)
    PROVE  IInv'
<1> USE DEF TaskLabels, EndingLabels, InterruptsOff, Looking, Cleaning, Switching
<1>1. /\ Runs(c, x) /\ pc[x] = "take" /\ TaskAt(x) /\ local[x] \in Frame
      /\ kind[x] = "run" /\ bAPICID[x] = c /\ At(c, x, "take")
  BY Running DEF IdleTake
<1>2. /\ UNCHANGED <<qwID, bPriority, endTask, late, links, bAPICID, pstRunningTask,
                     vstReadyList, viExecuteCount, executing>>
      /\ local[x].task = None /\ ~endTask[x] /\ Boot[x].idle /\ Boot[x].core = c
  <2>1. Chosen(x)
    BY Running DEF IdleTake
  <2>2. local[x].task = None /\ ~endTask[x] /\ Boot[x].idle
    BY <1>1, <2>1 DEF TaskAt
  <2> QED
    BY <1>1, <2>2 DEF IdleTake, pool, flags, OwnCallsOnly, Inv, BoundInv
<1>3. IsList(stWaitList[c], WaitTasks(kind, c)) /\ stWaitList \in [Core -> Seq(TCB)]
  BY DEF Inv, ListInv, KernelType
<1>4. CASE stWaitList[c] = <<>>
  <2>1. kSchedule(x, "idle") /\ UNCHANGED Shared
    BY <1>2, <1>4 DEF IdleTake, Shared, scheduler
  <2> QED
    BY <1>1, <2>1, CallOfSchedule DEF IInv
<1>5. CASE stWaitList[c] # <<>>
  <2> DEFINE t == Head(stWaitList[c])
             n == Len(stChildThreadList[t])
             l == IF isProcess[t] THEN "kids" ELSE "unlink"
             f == [Blank EXCEPT !.task = t, !.count = n]
             rest == Tail(stWaitList[c])
  <2>1. t \in TCB /\ t \in WaitTasks(kind, c) /\ IsList(rest, WaitTasks(kind, c) \ {t})
    BY <1>3, <1>5, ListTail
  <2>2. stWaitList' = [stWaitList EXCEPT ![c] = rest] /\ Set(x, f) /\ Goto(x, l)
    BY <1>5 DEF IdleTake
  <2> HIDE DEF t
  <2>3. kind[t] = "wait" /\ bAPICID[t] = c /\ endTask[t] /\ t # x
    BY <1>1, <2>1 DEF WaitTasks, Inv, EndInv
  <2>4. n \in Nat
    BY <2>1 DEF Inv, KernelType
  <2>5. l \in {"kids", "unlink"} /\ l \in Label
    BY DEF Label
  <2> HIDE DEF rest, n, l
  <2>6. f \in Frame /\ f.task = t /\ f.ret = "run"
    BY <2>1, <2>4, BlankFrame DEF Frame
  <2> HIDE DEF f
  <2>7. pc'[x] = l /\ local'[x] = f
    BY <2>2, GotoAndSet
  <2>8. PICK kind2 \in [TCB -> Kinds], holder2 \in [TCB -> Context] :
             /\ kind2[t] = "held" /\ holder2[t] = x
             /\ \A u \in TCB : u # t => kind2[u] = kind[u] /\ holder2[u] = holder[u]
    <3>1. [kind EXCEPT ![t] = "held"] \in [TCB -> Kinds]
      BY DEF Kinds
    <3>2. [holder EXCEPT ![t] = x] \in [TCB -> Context]
      BY Contexts
    <3> QED
      BY <2>1, <3>1, <3>2
  <2>9. KernelType'
    BY <1>2, <1>3, <2>1, <2>2 DEF Inv, KernelType, links, IsList
  <2>10. SlotInv(kind2)' /\ RunInv(kind2)'
    BY <1>2, <2>1, <2>3, <2>8 DEF Inv, SlotInv, RunInv
  <2>11. ListInv(kind2, level)'
    <3>1. \A d \in Core, p \in Priority : ReadyTasks(kind2, level, d, p)' = ReadyTasks(kind, level, d, p)
      BY <1>2, <2>3, <2>8 DEF ReadyTasks
    <3>2. \A d \in Core : WaitTasks(kind2, d)' = IF d = c THEN WaitTasks(kind, c) \ {t}
                                                ELSE WaitTasks(kind, d)
      BY <1>2, <2>3, <2>8 DEF WaitTasks
    <3>3. \A d \in Core : stWaitList'[d] = IF d = c THEN rest ELSE stWaitList[d]
      BY <1>3, <2>2
    <3>4. \A d \in Core : IsList(stWaitList'[d], WaitTasks(kind2, d)')
      BY <2>1, <3>2, <3>3 DEF Inv, ListInv
    <3> QED
      BY <1>2, <3>1, <3>4 DEF Inv, ListInv
  <2>12. HeldInv(kind2, holder2)'
    <3>1. \A z \in Context : z # x => local'[z].task = local[z].task
      BY <2>2 DEF Set, Inv, ContextType
    <3> SUFFICES ASSUME NEW z \in Context, NEW u \in TCB
                 PROVE  local'[z].task = u <=> kind2[u] = "held" /\ holder2[u] = z
      BY DEF HeldInv
    <3>2. local[z].task = u <=> kind[u] = "held" /\ holder[u] = z
      BY DEF Inv, HeldInv
    <3>3. CASE u = t
      BY <2>3, <2>6, <2>7, <2>8, <3>1, <3>2, <3>3
    <3>4. CASE u # t
      <4>1. CASE z = x
        BY <1>2, <2>6, <2>7, <2>8, <3>2, <3>4, <4>1, Contexts
      <4>2. CASE z # x
        BY <2>8, <3>1, <3>2, <3>4, <4>2
      <4> QED
        BY <4>1, <4>2
    <3> QED
      BY <3>3, <3>4
  <2>13. EndInv(kind2, level, holder2)'
    BY <1>2, <2>3, <2>8 DEF Inv, EndInv, links
  <2>14. TaskAt(x)'
    BY <1>2, <2>1, <2>3, <2>5, <2>6, <2>7, Contexts DEF TaskAt
  <2>17. BoundInv'
    BY <1>2 DEF Inv, BoundInv
  <2>18. MarkInv(kind2)'
    <3>1. \A z \in TCB : pc'[z] = "mark" => pc[z] = "mark" /\ local'[z] = local[z]
      BY <2>2, <2>5, <2>7 DEF Goto, Set, Inv, ContextType
    <3>2. ASSUME NEW z \in TCB, pc[z] = "mark", kind2[local[z].id.slot] = "ready"
          PROVE  kind[local[z].id.slot] = "ready"
      <4>1. local[z].id.slot \in TCB
        BY <3>2 DEF Inv, TaskInv, TaskAt, LookingInv
      <4> QED
        BY <2>8, <3>2, <4>1
    <3> QED
      BY <1>2, <3>1, <3>2, MarkStays DEF Inv
  <2>15. \A d \in Core : pc[d] = "none" => kind2[executing[d]] = kind[executing[d]]
    <3> SUFFICES ASSUME NEW d \in Core, pc[d] = "none" PROVE executing[d] # t
      BY <2>8 DEF Inv, ContextType
    <3>1. SUFFICES ASSUME executing[d] = t PROVE FALSE
      OBVIOUS
    <3>2. Runs(d, t)
      BY <3>1 DEF Runs
    <3>3. bAPICID[t] = d
      BY <2>1, <3>2, OnCore
    <3> QED
      BY <1>1, <2>1, <2>3, <3>1, <3>3, OnCore
  <2>16. Inv(kind2, level, holder2)'
    BY <1>1, <1>2, <2>2, <2>5, <2>6, <2>9, <2>10, <2>11, <2>12, <2>13, <2>14, <2>15, <2>17,
       <2>18, KindStep DEF Goto, Set
  <2> QED
    BY <2>8, <2>16 DEF IInv
<1> QED
  BY <1>4, <1>5

LEMMA IdleFreeStep ==
    ASSUME OwnCallsOnly, NEW kind \in [TCB -> Kinds], NEW level \in [TCB -> Priority],
           NEW holder \in [TCB -> Context],
           Inv(kind, level, holder), NEW c \in Core, NEW x \in TCB, IdleFree(c, x)
    PROVE  IInv'
<1> USE Contexts DEF TaskLabels, EndingLabels, InterruptsOff, Looking, Cleaning, Switching
<1> DEFINE t == local[x].task
<1>1. /\ Runs(c, x) /\ pc[x] = "free" /\ TaskAt(x) /\ local[x] \in Frame
      /\ kind[x] = "run" /\ bAPICID[x] = c /\ pstRunningTask[c] = x
  BY Running DEF IdleFree
<1>2. /\ t \in TCB /\ t # x /\ kind[t] = "held" /\ holder[t] = x /\ endTask[t]
      /\ ~endTask[x] /\ Boot[x].idle
  BY HeldByIdle DEF IdleFree
<1>3. /\ qwID' = [qwID EXCEPT ![t] = 0]
      /\ pc' = [pc EXCEPT ![x] = "take", ![t] = "stopped"]
      /\ local' = [local EXCEPT ![x] = Blank, ![t] = Blank]
      /\ UNCHANGED <<bPriority, endTask, late, links, bAPICID, scheduler, executing>>
  BY DEF IdleFree, kFreeTCB, flags
<1>4. local[t].task = None
  <2>1. TaskAt(t)
    BY <1>2 DEF Inv, TaskInv
  <2>2. Mortal(t)
    BY <1>2 DEF Inv, EndInv
  <2>3. ~Boot[t].idle
    BY <1>2, <2>2 DEF Mortal, OwnCallsOnly
  <2> HIDE DEF t
  <2> QED
    BY <1>2, <2>1, <2>3 DEF TaskAt
<1>5. /\ pc'[x] = "take" /\ pc'[t] = "stopped" /\ local'[x] = Blank /\ local'[t] = Blank
      /\ \A z \in Context : z # x /\ z # t => pc'[z] = pc[z] /\ local'[z] = local[z]
  <2> HIDE DEF t
  <2> QED
    BY <1>2, <1>3 DEF Inv, ContextType
<1>6. PICK kind2 \in [TCB -> Kinds] : /\ kind2[t] = "free"
                                      /\ \A u \in TCB : u # t => kind2[u] = kind[u]
  <2>1. [kind EXCEPT ![t] = "free"] \in [TCB -> Kinds]
    BY DEF Kinds
  <2> QED
    BY <1>2, <2>1
<1> HIDE DEF t
<1>7. ASSUME NEW d \in Core, pc[d] = "none" PROVE executing[d] # t
  <2>1. SUFFICES ASSUME executing[d] = t PROVE FALSE
    OBVIOUS
  <2>2. Runs(d, t)
    BY <1>7, <2>1 DEF Runs
  <2> QED
    BY <1>2, <2>2, OnCore
<1>8. KernelType'
  BY <1>2, <1>3 DEF Inv, KernelType, links, scheduler
<1>9. ContextType'
  <2>1. "take" \in Label /\ "stopped" \in Label
    BY DEF Label
  <2> QED
    BY <1>3, <2>1, BlankFrame DEF Inv, ContextType
<1>10. SlotInv(kind2)'
  BY ZenonT(60), <1>2, <1>3, <1>6 DEF Inv, SlotInv, KernelType
<1>11. RunInv(kind2)'
  BY <1>2, <1>3, <1>6 DEF Inv, RunInv, scheduler
<1>12. ListInv(kind2, level)'
  <2>1. /\ \A d \in Core, p \in Priority : ReadyTasks(kind2, level, d, p)' = ReadyTasks(kind, level, d, p)
        /\ \A d \in Core : WaitTasks(kind2, d)' = WaitTasks(kind, d)
    BY <1>2, <1>3, <1>6 DEF ReadyTasks, WaitTasks
  <2> QED
    BY <1>3, <2>1 DEF Inv, ListInv, scheduler
<1>13. HeldInv(kind2, holder)'
  <2> SUFFICES ASSUME NEW z \in Context, NEW u \in TCB
               PROVE  local'[z].task = u <=> kind2[u] = "held" /\ holder[u] = z
    BY DEF HeldInv
  <2>1. local[z].task = u <=> kind[u] = "held" /\ holder[u] = z
    BY DEF Inv, HeldInv
  <2>2. local[x].task = t
    BY DEF t
  <2>3. CASE z = x
    BY <1>2, <1>5, <1>6, <2>1, <2>2, <2>3, BlankFrame
  <2>4. CASE z = t
    BY <1>2, <1>4, <1>5, <1>6, <2>1, <2>4, BlankFrame
  <2>5. CASE z # x /\ z # t
    BY <1>2, <1>5, <1>6, <2>1, <2>5
  <2> QED
    BY <2>3, <2>4, <2>5
<1>14. EndInv(kind2, level, holder)'
  BY <1>2, <1>3, <1>6 DEF Inv, EndInv, links
<1>15. TaskInv'
  <2> SUFFICES ASSUME NEW z \in TCB PROVE TaskAt(z)' /\ OffInv(z)'
    BY DEF TaskInv
  <2>1. TaskAt(z) /\ OffInv(z)
    BY DEF Inv, TaskInv
  <2>2. CASE z = x
    BY <1>2, <1>3, <1>5, <2>2, BlankFrame DEF TaskAt, OffInv
  <2>3. CASE z = t
    BY <1>2, <1>3, <1>5, <2>3, BlankFrame DEF TaskAt, OffInv
  <2>4. CASE z # x /\ z # t
    <3>1. TaskAt(z)'
      <4>1. \A u \in TCB : qwID[u] = 0 => qwID'[u] = 0
        BY <1>3 DEF Inv, KernelType
      <4>2. Chosen(z)' <=> Chosen(z)
        BY <1>3 DEF Chosen, scheduler
      <4> QED
        BY <1>3, <1>5, <2>1, <2>4, <4>1, <4>2, TaskAtStays
    <3>2. OffInv(z)'
      BY ZenonT(60), <1>2, <1>3, <1>5, <2>1, <2>4 DEF OffInv
    <3> QED
      BY <3>1, <3>2
  <2> QED
    BY <2>2, <2>3, <2>4
<1>16. HandlerInv'
  <2>1. \A d \in Core : pc'[d] = pc[d] /\ local'[d] = local[d]
    BY <1>2, <1>5
  <2>2. UNCHANGED <<bAPICID, pstRunningTask>>
    BY <1>3 DEF scheduler
  <2> QED
    BY <2>1, <2>2 DEF Inv, HandlerInv
<1>17. ExecInv(kind2)'
  <2> SUFFICES ASSUME NEW d \in Core, pc'[d] = "none"
               PROVE  IF pc'[executing[d]] \in Switching
                      THEN /\ pstRunningTask[d] = local'[executing[d]].next
                           /\ bAPICID[executing[d]] = d
                           /\ kind2[executing[d]] = IF pc'[executing[d]] = "switch"
                                                    THEN "ready" ELSE "wait"
                      ELSE pstRunningTask[d] = executing[d]
    BY <1>3 DEF ExecInv, scheduler
  <2>1. pc[d] = "none" /\ executing[d] \in TCB
    BY <1>2, <1>5 DEF Inv, ContextType
  <2>2. CASE executing[d] = x
    <3>1. d = c
      BY <1>1, <2>1, <2>2, OnCore
    <3> QED
      BY <1>1, <1>5, <2>2, <3>1
  <2>3. CASE executing[d] # x
    BY <1>5, <1>6, <1>7, <2>1, <2>3 DEF Inv, ExecInv
  <2> QED
    BY <2>2, <2>3
<1>19. BoundInv'
  BY <1>3 DEF Inv, BoundInv
<1>20. MarkInv(kind2)'
  <2>1. \A z \in TCB : pc'[z] = "mark" => pc[z] = "mark" /\ local'[z] = local[z]
    BY <1>2, <1>5
  <2>2. ASSUME NEW z \in TCB, pc[z] = "mark", kind2[local[z].id.slot] = "ready"
        PROVE  kind[local[z].id.slot] = "ready"
    <3>1. local[z].id.slot \in TCB
      BY <2>2 DEF Inv, TaskInv, TaskAt, LookingInv
    <3> QED
      BY <1>6, <2>2, <3>1
  <2>3. UNCHANGED <<bAPICID, late>> /\ MarkInv(kind)
    BY <1>3 DEF Inv
  <2> QED
    BY <2>1, <2>2, <2>3, MarkStays
<1>18. Inv(kind2, level, holder)'
  BY <1>8, <1>9, <1>10, <1>11, <1>12, <1>13, <1>14, <1>15, <1>16, <1>17, <1>19, <1>20 DEF Inv
<1> QED
  BY <1>6, <1>18 DEF IInv

(***************************************************************************)
(* The switches                                                            *)
(***************************************************************************)
\* The task a core's scheduler has chosen is not in the middle of a switch.
LEMMA ChosenIsNotSwitching ==
    ASSUME NEW kind, NEW level, NEW holder, Inv(kind, level, holder), NEW c \in Core
    PROVE  /\ pstRunningTask[c] \in TCB /\ kind[pstRunningTask[c]] = "run"
           /\ bAPICID[pstRunningTask[c]] = c
           /\ pc[pstRunningTask[c]] \notin Switching
<1> DEFINE n == pstRunningTask[c]
<1>1. n \in TCB /\ kind[n] = "run" /\ bAPICID[n] = c
  BY DEF Inv, KernelType, RunInv
<1>2. ASSUME pc[n] \in Switching PROVE FALSE
  <2>1. PICK d \in Core : pc[d] = "none" /\ executing[d] = n
    BY <1>1, <1>2 DEF Inv, TaskInv, OffInv, Switching, InterruptsOff
  <2>2. Runs(d, n)
    BY <2>1 DEF Runs
  <2> QED
    BY <1>1, <1>2, <2>2, OnCore
<1> QED
  BY <1>1, <1>2

LEMMA SwitchContextStep ==
    ASSUME NEW kind, NEW level, NEW holder, Inv(kind, level, holder), NEW c \in Core, NEW x \in TCB,
           SwitchContext(c, x)
    PROVE  Inv(kind, level, holder)'
<1> USE Contexts DEF TaskLabels, EndingLabels, InterruptsOff, Looking, Cleaning, Switching
<1> DEFINE n == pstRunningTask[c]
           l == IF pc[x] = "switch" THEN local[x].ret ELSE "stopped"
<1>1. Runs(c, x) /\ pc[x] \in Switching
  BY DEF SwitchContext
<1>2. /\ pc[c] = "none" /\ executing[c] = x /\ local[x].next = n
      /\ kind[x] \in {"ready", "wait"}
  BY <1>1, OnCore
<1>3. n \in TCB /\ kind[n] = "run" /\ n # x /\ pc[n] \notin Switching
  BY <1>2, ChosenIsNotSwitching
<1>4. TaskAt(x) /\ local[x] \in Frame
  BY ContextTypes DEF Inv, TaskInv
<1>5. local[x].task = None /\ local[x].ret \in {"run", "idle", "dead"}
  BY <1>1, <1>4 DEF TaskAt, Frame
<1>6. /\ executing' = [executing EXCEPT ![c] = n] /\ Goto(x, l) /\ Set(x, Blank)
      /\ UNCHANGED <<qwID, bPriority, endTask, late, links, bAPICID, scheduler>>
  BY <1>2 DEF SwitchContext, pool, flags
<1>7. l \in {"run", "idle", "dead", "stopped"} /\ l \in Label
  BY <1>5 DEF Label
<1>8. ~Chosen(x)' /\ (l = "idle" => Boot[x].idle)
  <2>1. ~Chosen(x)
    BY <1>2 DEF Chosen, Inv, RunInv
  <2>2. local[x].ret = "idle" => Boot[x].idle
    BY <1>4 DEF TaskAt
  <2> QED
    BY <1>6, <2>1, <2>2 DEF Chosen, scheduler
<1> HIDE DEF n, l
<1>9. /\ pc'[x] = l /\ local'[x] = Blank
      /\ \A z \in Context : z # x => pc'[z] = pc[z] /\ local'[z] = local[z]
  BY <1>6 DEF Goto, Set, Inv, ContextType
<1>10. /\ executing'[c] = n
       /\ \A d \in Core : d # c => executing'[d] = executing[d]
  BY <1>6 DEF Inv, ContextType
<1>11. KernelType' /\ ListInv(kind, level)' /\ EndInv(kind, level, holder)'
  BY <1>6, SharedUnchanged
<1>12. ContextType'
  BY <1>3, <1>6, <1>7, BlankFrame DEF Inv, ContextType, Goto, Set
<1>13. SlotInv(kind)' /\ RunInv(kind)'
  BY <1>6 DEF Inv, SlotInv, RunInv, scheduler
<1>14. HeldInv(kind, holder)'
  <2>1. \A z \in Context : local'[z].task = local[z].task
    BY <1>5, <1>9, BlankFrame
  <2> QED
    BY <2>1 DEF Inv, HeldInv
<1>15. TaskInv'
  <2> SUFFICES ASSUME NEW z \in TCB PROVE TaskAt(z)' /\ OffInv(z)'
    BY DEF TaskInv
  <2>1. TaskAt(z) /\ OffInv(z)
    BY DEF Inv, TaskInv
  <2>2. CASE z = x
    BY <1>6, <1>7, <1>8, <1>9, <2>2, BlankFrame DEF TaskAt, OffInv
  <2>3. CASE z # x
    <3>1. TaskAt(z)'
      <4>1. pc'[z] = pc[z] /\ local'[z] = local[z]
        BY <1>9, <2>3
      <4>2. Chosen(z)' <=> Chosen(z)
        BY <1>6 DEF Chosen, scheduler
      <4> QED
        BY <1>6, <2>1, <4>1, <4>2, TaskAtStays
    <3>2. OffInv(z)'
      BY <1>2, <1>9, <1>10, <2>1, <2>3 DEF OffInv
    <3> QED
      BY <3>1, <3>2
  <2> QED
    BY <2>2, <2>3
<1>16. HandlerInv'
  BY <1>6, <1>9 DEF Inv, HandlerInv, scheduler
<1>17. ExecInv(kind)'
  <2> SUFFICES ASSUME NEW d \in Core, pc'[d] = "none"
               PROVE  IF pc'[executing'[d]] \in Switching
                      THEN /\ pstRunningTask[d] = local'[executing'[d]].next
                           /\ bAPICID[executing'[d]] = d
                           /\ kind[executing'[d]] = IF pc'[executing'[d]] = "switch"
                                                    THEN "ready" ELSE "wait"
                      ELSE pstRunningTask[d] = executing'[d]
    BY <1>6 DEF ExecInv, scheduler
  <2>1. pc[d] = "none" /\ executing[d] \in TCB
    BY <1>9 DEF Inv, ContextType
  <2>2. CASE d = c
    BY <1>3, <1>9, <1>10, <2>2 DEF n
  <2>3. CASE d # c
    <3>1. executing[d] # x
      BY <1>1, <2>1, <2>3, OnCore
    <3> QED
      BY <1>9, <1>10, <2>1, <2>3, <3>1 DEF Inv, ExecInv
  <2> QED
    BY <2>2, <2>3
<1>18. BoundInv'
  BY <1>6 DEF Inv, BoundInv
<1>19. MarkInv(kind)'
  <2>1. \A z \in TCB : pc'[z] = "mark" => pc[z] = "mark" /\ local'[z] = local[z]
    BY <1>7, <1>9
  <2> QED
    BY <1>6, <2>1, MarkStays DEF Inv
<1> QED
  BY <1>11, <1>12, <1>13, <1>14, <1>15, <1>16, <1>17, <1>18, <1>19 DEF Inv

\* A set of numbers that is not empty has a least one.
LEMMA LeastOf == ASSUME NEW S, S \subseteq Nat, S # {} PROVE Least(S) \in S
<1> DEFINE Less == OpToRel(<, Nat)
<1>1. \A m, n \in Nat : n < m => <<n, m>> \in Less
  BY DEF OpToRel
<1>2. IsWellFoundedOn(Less, Nat)
  BY NatLessThanWellFounded
<1> HIDE DEF Less
<1>3. PICK m \in S : \A n \in S : ~(<<n, m>> \in Less)
  BY <1>2, WFMin, Zenon
<1>4. \A n \in S : ~(n < m)
  BY <1>1, <1>3
<1>5. \E p \in S : \A q \in S : p <= q
  BY <1>4
<1> QED
  BY <1>5 DEF Least

\* When a list is not empty, the next task is the first one of some ready list.
LEMMA NextIsReady ==
    ASSUME NEW kind, NEW level, NEW holder, Inv(kind, level, holder), NEW c \in Core, Waiting(c) # {}
    PROVE  /\ NextPriority(c) \in Priority
           /\ vstReadyList[c][NextPriority(c)] # <<>>
           /\ NextTask(c) \in ReadyTasks(kind, level, c, NextPriority(c))
           /\ IsList(Tail(vstReadyList[c][NextPriority(c)]),
                     ReadyTasks(kind, level, c, NextPriority(c)) \ {NextTask(c)})
<1>1. Priority \subseteq Nat
  BY PriorityAssumption DEF Priority
<1>2. Waiting(c) \subseteq Nat /\ Unserved(c) \subseteq Nat
  BY <1>1 DEF Waiting, Unserved
<1>3. \A p \in Unserved(c) : p \in Waiting(c)
  <2> SUFFICES ASSUME NEW p \in Priority, viExecuteCount[c][p] < Len(vstReadyList[c][p]),
                      vstReadyList[c][p] = <<>>
               PROVE  FALSE
    BY DEF Unserved, Waiting
  <2>1. viExecuteCount[c][p] \in Nat
    BY DEF Inv, KernelType
  <2>2. Len(vstReadyList[c][p]) = 0
    OBVIOUS
  <2> QED
    BY <2>1, <2>2
<1>4. NextPriority(c) \in Waiting(c)
  BY <1>2, <1>3, LeastOf DEF NextPriority
<1>5. NextPriority(c) \in Priority /\ vstReadyList[c][NextPriority(c)] # <<>>
  BY <1>4 DEF Waiting
<1>6. IsList(vstReadyList[c][NextPriority(c)], ReadyTasks(kind, level, c, NextPriority(c)))
  BY <1>5 DEF Inv, ListInv
<1> QED
  BY <1>5, <1>6, ListTail DEF NextTask

LEMMA ServedCountType ==
    ASSUME NEW kind, NEW level, NEW holder, Inv(kind, level, holder), NEW c \in Core
    PROVE  ServedCount(c) \in [Priority -> Nat]
<1>1. \A p \in Priority : viExecuteCount[c][p] \in Nat
  BY DEF Inv, KernelType
<1> QED
  BY <1>1 DEF ServedCount

\* The lists without the next task.
LEMMA ListsWithoutNext ==
    ASSUME NEW kind, NEW level, NEW holder, Inv(kind, level, holder), NEW c \in Core, Waiting(c) # {}
    PROVE  /\ ReadyWithoutNext(c) \in [Core -> [Priority -> Seq(TCB)]]
           /\ \A e \in Core, r \in Priority :
                 IsList(ReadyWithoutNext(c)[e][r], ReadyTasks(kind, level, e, r) \ {NextTask(c)})
<1> DEFINE n == NextPriority(c)
           list == Tail(vstReadyList[c][n])
           t == NextTask(c)
<1>1. n \in Priority /\ t \in ReadyTasks(kind, level, c, n) /\ IsList(list, ReadyTasks(kind, level, c, n) \ {t})
  BY NextIsReady
<1>2. ReadyWithoutNext(c) = [vstReadyList EXCEPT ![c][n] = list]
  BY DEF ReadyWithoutNext
<1>3. list \in Seq(TCB) /\ vstReadyList \in [Core -> [Priority -> Seq(TCB)]]
  BY <1>1 DEF IsList, Inv, KernelType
<1> HIDE DEF n, t, list
<1>4. /\ ReadyWithoutNext(c) \in [Core -> [Priority -> Seq(TCB)]]
      /\ \A e \in Core, r \in Priority :
            ReadyWithoutNext(c)[e][r] = IF e = c /\ r = n THEN list ELSE vstReadyList[e][r]
  BY <1>1, <1>2, <1>3, ReplaceReady
<1>5. ASSUME NEW e \in Core, NEW r \in Priority
      PROVE  IsList(ReadyWithoutNext(c)[e][r], ReadyTasks(kind, level, e, r) \ {t})
  <2>1. CASE e = c /\ r = n
    BY <1>1, <1>4, <2>1
  <2>2. CASE ~(e = c /\ r = n)
    <3>1. ReadyTasks(kind, level, e, r) \ {t} = ReadyTasks(kind, level, e, r)
      BY <1>1, <2>2 DEF ReadyTasks
    <3> QED
      BY <1>4, <2>2, <3>1 DEF Inv, ListInv
  <2> QED
    BY <2>1, <2>2
<1> QED
  BY <1>4, <1>5 DEF t

\* No list has a task for the processor: only the counts change.
LEMMA NoTaskToRunStep ==
    ASSUME NEW kind, NEW level, NEW holder, Inv(kind, level, holder), NEW c \in Core, NoTaskToRun(c),
           UNCHANGED <<qwID, bPriority, endTask, late, links, bAPICID>>
    PROVE  /\ KernelType' /\ ListInv(kind, level)' /\ EndInv(kind, level, holder)'
           /\ UNCHANGED pstRunningTask
<1>1. UNCHANGED <<pstRunningTask, vstReadyList, stWaitList>>
  BY DEF NoTaskToRun
<1>2. viExecuteCount' \in [Core -> [Priority -> Nat]]
  BY ServedCountType DEF NoTaskToRun, Inv, KernelType
<1>3. KernelType'
  BY <1>1, <1>2 DEF Inv, KernelType, links
<1>4. ListInv(kind, level)'
  BY <1>1 DEF Inv, ListInv, ReadyTasks, WaitTasks
<1>5. EndInv(kind, level, holder)'
  BY DEF Inv, EndInv, links
<1> QED
  BY <1>1, <1>3, <1>4, <1>5

LEMMA NoTaskToPickStep ==
    ASSUME NEW kind, NEW level, NEW holder, Inv(kind, level, holder), NEW c \in Core, NEW x \in TCB,
           SchedulePick(c, x), NoTaskToRun(c), Return(x)
    PROVE  Inv(kind, level, holder)'
<1> USE DEF TaskLabels, EndingLabels, InterruptsOff, Looking, Cleaning, Switching
<1>1. Runs(c, x) /\ pc[x] = "schedPick" /\ TaskAt(x) /\ local[x] \in Frame
  BY Running DEF SchedulePick
<1>2. UNCHANGED <<qwID, bPriority, endTask, late, links, bAPICID, executing>>
  <2>1. UNCHANGED <<qwID, bPriority, endTask, links, bAPICID, executing>>
    BY DEF SchedulePick, pool, flags
  <2>2. UNCHANGED late
    BY DEF SchedulePick, NoTaskToRun, kGetNextTaskToRun
  <2> QED
    BY <2>1, <2>2
<1>3. local[x].task = None /\ local[x].ret \in {"run", "idle", "dead"}
  BY <1>1 DEF TaskAt, Frame
<1>4. Goto(x, local[x].ret) /\ Set(x, Blank)
  BY DEF Return
<1>5. pc'[x] = local[x].ret /\ local'[x] = Blank
  BY <1>4, GotoAndSet
<1>6. TaskAt(x)'
  <2>1. Chosen(x)
    BY Running DEF SchedulePick
  <2> QED
    BY <1>1, <1>2, <1>3, <1>5, <2>1, BlankFrame DEF TaskAt
<1>7. KernelType' /\ ListInv(kind, level)' /\ EndInv(kind, level, holder)' /\ UNCHANGED pstRunningTask
  BY <1>2, NoTaskToRunStep
<1>8. local[x].ret \in Label
  BY <1>3 DEF Label
<1> QED
  BY <1>1, <1>2, <1>3, <1>4, <1>6, <1>7, <1>8, BlankFrame, TaskStep DEF Goto, Set

\* What kGetNextTaskToRun returns, and that no other core executes the two tasks.
LEMMA NextTaskRuns ==
    ASSUME NEW kind, NEW level, NEW holder, Inv(kind, level, holder), NEW c \in Core, NEW x \in TCB, pstRunningTask[c] = x,
           NEW t, kGetNextTaskToRun(c, t)
    PROVE  /\ t \in TCB /\ t # x /\ kind[t] = "ready" /\ bAPICID[t] = c /\ ~endTask[t]
           /\ kind[x] = "run" /\ bAPICID[x] = c
           /\ pstRunningTask' \in [Core -> TCB] /\ viExecuteCount' \in [Core -> [Priority -> Nat]]
           /\ pstRunningTask'[c] = t
           /\ \A d \in Core : d # c => pstRunningTask'[d] = pstRunningTask[d]
           /\ \A d \in Core : pc[d] = "none" /\ d # c => executing[d] # t /\ executing[d] # x
<1>1. t = NextTask(c) /\ Waiting(c) # {}
  BY DEF kGetNextTaskToRun
<1>2. t \in TCB /\ kind[t] = "ready" /\ bAPICID[t] = c
  BY <1>1, NextIsReady DEF ReadyTasks
<1>3. ~endTask[t]
  BY <1>2 DEF Inv, EndInv
<1>4. kind[x] = "run" /\ bAPICID[x] = c
  BY DEF Inv, RunInv
<1>5. /\ pstRunningTask' = [pstRunningTask EXCEPT ![c] = t]
      /\ viExecuteCount' = [viExecuteCount EXCEPT ![c] = ServedCount(c)]
  BY DEF kGetNextTaskToRun
<1>6. pstRunningTask' \in [Core -> TCB] /\ viExecuteCount' \in [Core -> [Priority -> Nat]]
  BY <1>2, <1>5, ServedCountType DEF Inv, KernelType
<1>7. ASSUME NEW d \in Core, pc[d] = "none", d # c
      PROVE  executing[d] # t /\ executing[d] # x
  <2>1. \A u \in TCB : executing[d] = u => bAPICID[u] = d
    BY <1>7, OnCore DEF Runs
  <2> QED
    BY <1>2, <1>4, <1>7, <2>1
<1> QED
  BY <1>2, <1>3, <1>4, <1>5, <1>6, <1>7 DEF Inv, KernelType

\* The kinds after the choice: t runs, the task x that ran becomes k.
LEMMA NewKinds ==
    ASSUME NEW kind \in [TCB -> Kinds], NEW t \in TCB, NEW x \in TCB, t # x,
           NEW k \in Kinds
    PROVE  \E kind2 \in [TCB -> Kinds] :
              /\ kind2[t] = "run" /\ kind2[x] = k
              /\ \A u \in TCB : u # t /\ u # x => kind2[u] = kind[u]
<1>1. [kind EXCEPT ![t] = "run", ![x] = k] \in [TCB -> Kinds]
  BY DEF Kinds
<1> QED
  BY <1>1

LEMMA SwitchedKinds ==
    ASSUME NEW kind, NEW level, NEW holder, Inv(kind, level, holder), NEW c \in Core, NEW x \in TCB,
           pstRunningTask[c] = x, NEW t, kGetNextTaskToRun(c, t),
           NEW kind2, NEW k \in {"ready", "wait", "held"}, kind2[t] = "run", kind2[x] = k,
           \A u \in TCB : u # t /\ u # x => kind2[u] = kind[u],
           UNCHANGED <<qwID, bAPICID>>
    PROVE  SlotInv(kind2)' /\ RunInv(kind2)'
<1>1. /\ t \in TCB /\ t # x /\ kind[t] = "ready" /\ bAPICID[t] = c
      /\ kind[x] = "run" /\ bAPICID[x] = c
      /\ pstRunningTask'[c] = t
      /\ \A d \in Core : d # c => pstRunningTask'[d] = pstRunningTask[d]
  BY NextTaskRuns
<1>2. SlotInv(kind2)'
  BY <1>1 DEF Inv, SlotInv
<1>3. RunInv(kind2)'
  <2> SUFFICES ASSUME NEW d \in Core, NEW u \in TCB
               PROVE  pstRunningTask'[d] = u <=> kind2[u] = "run" /\ bAPICID[u] = d
    BY DEF RunInv
  <2>1. pstRunningTask[d] = u <=> kind[u] = "run" /\ bAPICID[u] = d
    BY DEF Inv, RunInv
  <2> QED
    BY <1>1, <2>1
<1> QED
  BY <1>2, <1>3

LEMMA PickStep ==
    ASSUME NEW kind \in [TCB -> Kinds], NEW level \in [TCB -> Priority],
           NEW holder \in [TCB -> Context],
           Inv(kind, level, holder), NEW c \in Core, NEW x \in TCB, SchedulePick(c, x),
           ~(NoTaskToRun(c) /\ Return(x))
    PROVE  IInv'
<1> USE Contexts DEF TaskLabels, EndingLabels, InterruptsOff, Looking, Cleaning, Switching
<1> DEFINE k == IF endTask[x] THEN "wait" ELSE "ready"
           l == IF endTask[x] THEN "switchNull" ELSE "switch"
           lists == ReadyWithoutNext(c)
           p == bPriority[x]
<1>1. /\ Runs(c, x) /\ pc[x] = "schedPick" /\ TaskAt(x) /\ local[x] \in Frame
      /\ pstRunningTask[c] = x
  BY Running DEF SchedulePick
<1>2. PICK t \in TCB :
           /\ kGetNextTaskToRun(c, t)
           /\ Set(x, [local[x] EXCEPT !.next = t])
           /\ IF endTask[x]
              THEN /\ stWaitList' = [stWaitList EXCEPT ![c] = Append(@, x)]
                   /\ vstReadyList' = lists
                   /\ Goto(x, "switchNull") /\ UNCHANGED late
              ELSE /\ stWaitList' = kAddTaskToWaitList(stWaitList, c, x)
                   /\ vstReadyList' = kAddTaskToReadyList(lists, c, x)
                   /\ Goto(x, "switch") /\ late' = late \ {x}
  BY <1>1 DEF SchedulePick
<1>3. UNCHANGED <<qwID, bPriority, endTask, links, bAPICID, executing>>
  BY DEF SchedulePick, pool, flags
<1>4. /\ t \in TCB /\ t # x /\ kind[t] = "ready" /\ bAPICID[t] = c /\ ~endTask[t]
      /\ kind[x] = "run" /\ bAPICID[x] = c
      /\ pstRunningTask' \in [Core -> TCB] /\ viExecuteCount' \in [Core -> [Priority -> Nat]]
      /\ pstRunningTask'[c] = t
      /\ \A d \in Core : d # c => pstRunningTask'[d] = pstRunningTask[d]
      /\ \A d \in Core : pc[d] = "none" /\ d # c => executing[d] # t /\ executing[d] # x
  BY <1>1, <1>2, NextTaskRuns
<1>5. /\ k \in {"ready", "wait"} /\ k \in Kinds
      /\ late' \subseteq late /\ \A u \in late : u # x => u \in late'
  <2>1. late' \subseteq late /\ \A u \in late : u # x => u \in late'
    BY <1>2
  <2>2. k \in {"ready", "wait"} /\ k \in Kinds
    BY DEF Kinds
  <2> QED
    BY <2>1, <2>2
<1> HIDE DEF k
<1>5a. PICK level2 \in [TCB -> Priority] :
           /\ \A u \in TCB : u # x => level2[u] = level[u]
           /\ ~endTask[x] => level2[x] = bPriority[x]
  <2>1. ~endTask[x] => bPriority[x] \in Priority
    BY DEF Inv, EndInv
  <2> DEFINE n == IF endTask[x] THEN level[x] ELSE bPriority[x]
  <2>2. [level EXCEPT ![x] = n] \in [TCB -> Priority]
    BY <2>1
  <2> QED
    BY <2>2
<1>6. PICK kind2 \in [TCB -> Kinds] :
           /\ kind2[t] = "run" /\ kind2[x] = k
           /\ \A u \in TCB : u # t /\ u # x => kind2[u] = kind[u]
  <2>1. t # x
    BY <1>4
  <2>2. k \in Kinds
    BY <1>5
  <2>3. [kind EXCEPT ![t] = "run", ![x] = k] \in [TCB -> Kinds]
    BY <2>2 DEF Kinds
  <2> QED
    BY <2>1, <2>3
<1>7. SlotInv(kind2)' /\ RunInv(kind2)'
  BY <1>1, <1>2, <1>3, <1>5, <1>6, SwitchedKinds
<1>8. t = NextTask(c) /\ Waiting(c) # {}
  BY <1>2 DEF kGetNextTaskToRun
<1>9. /\ lists \in [Core -> [Priority -> Seq(TCB)]]
      /\ \A e \in Core, r \in Priority : IsList(lists[e][r], ReadyTasks(kind, level, e, r) \ {t})
  BY <1>8, ListsWithoutNext
<1> HIDE DEF lists
<1>10. /\ vstReadyList' \in [Core -> [Priority -> Seq(TCB)]]
       /\ stWaitList' \in [Core -> Seq(TCB)]
       /\ \A e \in Core, r \in Priority : IsList(vstReadyList'[e][r], ReadyTasks(kind2, level2, e, r)')
       /\ \A e \in Core : IsList(stWaitList'[e], WaitTasks(kind2, e)')
  <2>1. /\ stWaitList \in [Core -> Seq(TCB)]
        /\ \A e \in Core : IsList(stWaitList[e], WaitTasks(kind, e))
    BY DEF Inv, KernelType, ListInv
  <2>2. CASE endTask[x]
    <3>1. k = "wait"
      BY <2>2 DEF k
    <3> DEFINE longer == Append(stWaitList[c], x)
    <3>2. stWaitList' = [stWaitList EXCEPT ![c] = longer] /\ vstReadyList' = lists
      BY <1>2, <2>2
    <3>3. IsList(longer, WaitTasks(kind, c) \cup {x})
      BY <1>4, <2>1, ListAppend DEF WaitTasks
    <3>4. longer \in Seq(TCB)
      BY <3>3 DEF IsList
    <3> HIDE DEF longer
    <3>5. \A e \in Core, r \in Priority : ReadyTasks(kind2, level2, e, r)' = ReadyTasks(kind, level, e, r) \ {t}
      BY <1>3, <1>4, <1>5a, <1>6, <3>1 DEF ReadyTasks
    <3>6. \A e \in Core : WaitTasks(kind2, e)' = IF e = c THEN WaitTasks(kind, c) \cup {x}
                                                ELSE WaitTasks(kind, e)
      BY <1>3, <1>4, <1>6, <3>1 DEF WaitTasks
    <3>7. /\ stWaitList' \in [Core -> Seq(TCB)]
          /\ \A e \in Core : stWaitList'[e] = IF e = c THEN longer ELSE stWaitList[e]
      BY <2>1, <3>2, <3>4
    <3>8. \A e \in Core : IsList(stWaitList'[e], WaitTasks(kind2, e)')
      BY <2>1, <3>3, <3>6, <3>7
    <3>9. \A e \in Core, r \in Priority : IsList(vstReadyList'[e][r], ReadyTasks(kind2, level2, e, r)')
      <4> SUFFICES ASSUME NEW e \in Core, NEW r \in Priority
                   PROVE  IsList(vstReadyList'[e][r], ReadyTasks(kind2, level2, e, r)')
        OBVIOUS
      <4>1. IsList(lists[e][r], ReadyTasks(kind, level, e, r) \ {t})
        BY <1>9
      <4>2. ReadyTasks(kind2, level2, e, r)' = ReadyTasks(kind, level, e, r) \ {t}
        BY <3>5
      <4> QED
        BY <3>2, <4>1, <4>2
    <3> QED
      BY <1>9, <3>2, <3>7, <3>8, <3>9
  <2>3. CASE ~endTask[x]
    <3>1. k = "ready" /\ p \in Priority
      BY <2>3 DEF k, Inv, EndInv
    <3>2. p # WAIT
      BY <3>1, PriorityAssumption DEF Priority
    <3> DEFINE longer == Append(lists[c][p], x)
    <3>3. vstReadyList' = [lists EXCEPT ![c][p] = longer] /\ stWaitList' = stWaitList
      BY <1>2, <2>3, <3>1, <3>2 DEF kAddTaskToReadyList, kAddTaskToWaitList
    <3>4. IsList(longer, (ReadyTasks(kind, level, c, p) \ {t}) \cup {x})
      <4>1. IsList(lists[c][p], ReadyTasks(kind, level, c, p) \ {t})
        BY <1>9, <3>1
      <4>2. x \notin ReadyTasks(kind, level, c, p) \ {t}
        BY <1>4 DEF ReadyTasks
      <4> QED
        BY <4>1, <4>2, ListAppend
    <3>5. longer \in Seq(TCB)
      BY <3>4 DEF IsList
    <3> HIDE DEF longer, p
    <3>6. /\ vstReadyList' \in [Core -> [Priority -> Seq(TCB)]]
          /\ \A e \in Core, r \in Priority :
                vstReadyList'[e][r] = IF e = c /\ r = p THEN longer ELSE lists[e][r]
      BY <1>9, <3>1, <3>3, <3>5, ReplaceReady
    <3>7. \A e \in Core, r \in Priority :
             ReadyTasks(kind2, level2, e, r)' = IF e = c /\ r = p
                                        THEN (ReadyTasks(kind, level, e, r) \ {t}) \cup {x}
                                        ELSE ReadyTasks(kind, level, e, r) \ {t}
      BY <1>3, <1>4, <1>5a, <1>6, <2>3, <3>1 DEF ReadyTasks, p
    <3>8. \A e \in Core : WaitTasks(kind2, e)' = WaitTasks(kind, e)
      BY <1>3, <1>4, <1>6, <3>1 DEF WaitTasks
    <3>9. \A e \in Core, r \in Priority : IsList(vstReadyList'[e][r], ReadyTasks(kind2, level2, e, r)')
      <4> SUFFICES ASSUME NEW e \in Core, NEW r \in Priority
                   PROVE  IsList(vstReadyList'[e][r], ReadyTasks(kind2, level2, e, r)')
        OBVIOUS
      <4>1. CASE e = c /\ r = p
        BY <3>4, <3>6, <3>7, <4>1
      <4>2. CASE ~(e = c /\ r = p)
        <5>1. vstReadyList'[e][r] = lists[e][r]
          BY <3>6, <4>2
        <5>2. ReadyTasks(kind2, level2, e, r)' = ReadyTasks(kind, level, e, r) \ {t}
          BY <3>7, <4>2
        <5>3. IsList(lists[e][r], ReadyTasks(kind, level, e, r) \ {t})
          BY <1>9
        <5> QED
          BY <5>1, <5>2, <5>3
      <4> QED
        BY <4>1, <4>2
    <3> QED
      BY <2>1, <3>3, <3>6, <3>8, <3>9
  <2> QED
    BY <2>2, <2>3
<1>11. KernelType'
  BY <1>3, <1>4, <1>5, <1>10 DEF Inv, KernelType, links
<1>12. ListInv(kind2, level2)'
  BY <1>10 DEF ListInv
<1> DEFINE f == [local[x] EXCEPT !.next = t]
<1>13. Goto(x, l) /\ Set(x, f)
  BY <1>2
<1>14. f \in Frame /\ f.next = t /\ f.task = local[x].task /\ f.ret = local[x].ret
  <2>1. f \in Frame
    BY <1>1, FrameFields
  <2> QED
    BY <1>1 DEF Frame
<1>15. l \in Switching /\ l \in Label /\ (l = "switch" <=> k = "ready") /\ (k = "wait" <=> endTask[x])
  BY DEF Label, k
<1> HIDE DEF f, l
<1>16. /\ pc'[x] = l /\ local'[x] = f
       /\ \A z \in Context : z # x => pc'[z] = pc[z] /\ local'[z] = local[z]
  BY <1>13 DEF Goto, Set, Inv, ContextType
<1>17. ContextType'
  BY <1>3, <1>13, <1>14, <1>15 DEF Inv, ContextType, Goto, Set
<1>18. HeldInv(kind2, holder)'
  <2>1. \A z \in Context : local'[z].task = local[z].task
    BY <1>14, <1>16
  <2>2. \A u \in TCB : kind2[u] = "held" <=> kind[u] = "held"
    BY <1>4, <1>6 DEF k
  <2> QED
    BY <2>1, <2>2 DEF Inv, HeldInv
<1>19. EndInv(kind2, level2, holder)'
  <2> SUFFICES ASSUME NEW u \in TCB
               PROVE  /\ kind2[u] = "ready"
                            => ~endTask[u] /\ (u \in late' \/ level2[u] = bPriority[u])
                      /\ kind2[u] = "wait" => endTask[u]
                      /\ kind2[u] = "held" => (endTask[u] <=> holder[u] \in TCB)
                      /\ kind2[u] = "free" /\ u \in Used => endTask[u]
    BY <1>3 DEF Inv, EndInv, links
  <2>1. CASE u = x
    BY <1>4, <1>5, <1>5a, <1>6, <1>15, <2>1
  <2>2. CASE u = t
    BY <1>6, <2>2
  <2>3. CASE u # x /\ u # t
    <3>1. kind2[u] = kind[u] /\ level2[u] = level[u] /\ (u \in late => u \in late')
      BY <1>5, <1>5a, <1>6, <2>3
    <3> QED
      BY <3>1 DEF Inv, EndInv
  <2> QED
    BY <2>1, <2>2, <2>3
<1>20. TaskInv'
  <2> SUFFICES ASSUME NEW z \in TCB PROVE TaskAt(z)' /\ OffInv(z)'
    BY DEF TaskInv
  <2>1. TaskAt(z) /\ OffInv(z)
    BY DEF Inv, TaskInv
  <2>2. CASE z = x
    <3>1. TaskAt(x)'
      <4>1. Chosen(x)
        BY <1>1 DEF Chosen
      <4> QED
        BY <1>1, <1>3, <1>14, <1>15, <1>16, <4>1 DEF TaskAt
    <3>2. OffInv(x)'
      BY <1>1, <1>3, <1>16, OnCore DEF OffInv
    <3> QED
      BY <2>2, <3>1, <3>2
  <2>3. CASE z # x
    <3>1. TaskAt(z)'
      <4>1. pc'[z] = pc[z] /\ local'[z] = local[z]
        BY <1>16, <2>3
      <4>2. endTask'[z] /\ Chosen(z)' => endTask[z] /\ Chosen(z)
        BY <1>3, <1>4 DEF Chosen
      <4> QED
        BY <1>3, <2>1, <4>1, <4>2, TaskAtStays
    <3>2. OffInv(z)'
      BY <1>3, <1>16, <2>1, <2>3 DEF OffInv
    <3> QED
      BY <3>1, <3>2
  <2> QED
    BY <2>2, <2>3
<1>21. pc[c] = "none" /\ executing[c] = x
  BY <1>1, OnCore
<1>22. HandlerInv'
  <2>1. \A d \in Core : pc'[d] = pc[d] /\ local'[d] = local[d]
    BY <1>16
  <2> SUFFICES ASSUME NEW d \in Core
               PROVE  /\ pc'[d] \in HandlerLabels
                      /\ pc'[d] \in Given <=> local'[d].task # None
                      /\ pc'[d] # "none" => pstRunningTask'[d] = local'[d].next
                      /\ pc'[d] = "addInsert" => local'[d].apic # None
                      /\ pc'[d] = "addInsert" /\ Bound(local'[d].task)
                            => local'[d].apic = Boot[local'[d].task].core
                      /\ pc'[d] \in Given => bAPICID[local'[d].task] = d
    BY <1>3 DEF HandlerInv
  <2>2. /\ pc[d] \in HandlerLabels
        /\ pc[d] \in Given <=> local[d].task # None
        /\ pc[d] # "none" => pstRunningTask[d] = local[d].next
        /\ pc[d] = "addInsert" => local[d].apic # None
        /\ pc[d] = "addInsert" /\ Bound(local[d].task)
              => local[d].apic = Boot[local[d].task].core
        /\ pc[d] \in Given => bAPICID[local[d].task] = d
    BY DEF Inv, HandlerInv
  <2>3. pc[d] # "none" => pstRunningTask'[d] = pstRunningTask[d]
    BY <1>4, <1>21
  <2> QED
    BY <2>1, <2>2, <2>3
<1>23. ExecInv(kind2)'
  <2> SUFFICES ASSUME NEW d \in Core, pc'[d] = "none"
               PROVE  IF pc'[executing[d]] \in Switching
                      THEN /\ pstRunningTask'[d] = local'[executing[d]].next
                           /\ bAPICID[executing[d]] = d
                           /\ kind2[executing[d]] = IF pc'[executing[d]] = "switch"
                                                    THEN "ready" ELSE "wait"
                      ELSE pstRunningTask'[d] = executing[d]
    BY <1>3 DEF ExecInv
  <2>1. pc[d] = "none" /\ executing[d] \in TCB
    BY <1>16 DEF Inv, ContextType
  <2>2. CASE d = c
    BY <1>4, <1>5, <1>6, <1>14, <1>15, <1>16, <1>21, <2>2
  <2>3. CASE d # c
    <3>1. executing[d] # t /\ executing[d] # x
      BY <1>4, <2>1, <2>3
    <3> QED
      BY <1>4, <1>6, <1>16, <2>1, <2>3, <3>1 DEF Inv, ExecInv
  <2> QED
    BY <2>2, <2>3
<1>24. BoundInv'
  BY <1>3, <1>5 DEF Inv, BoundInv
<1>25. MarkInv(kind2)'
  <2> SUFFICES ASSUME NEW z \in TCB, pc'[z] = "mark", kind2[local'[z].id.slot] = "ready",
                      bAPICID'[local'[z].id.slot] = local'[z].apic
               PROVE  local'[z].id.slot \in late'
    BY DEF MarkInv
  <2> DEFINE u == local[z].id.slot
  <2>1. pc[z] = "mark" /\ local'[z] = local[z]
    BY <1>15, <1>16
  <2>2. kind2[u] = "ready" /\ bAPICID[u] = local[z].apic
    BY <1>3, <2>1
  <2>3. local[z].apic # c
    BY <2>1 DEF SchedulePick, Unlocked
  <2>4. u \in TCB
    BY <2>1 DEF Inv, TaskInv, TaskAt, LookingInv
  <2> HIDE DEF u
  <2>5. u # x /\ u # t
    BY <1>4, <2>2, <2>3
  <2>6. kind[u] = "ready"
    BY <1>6, <2>2, <2>4, <2>5
  <2>7. u \in late
    BY <2>1, <2>2, <2>6 DEF Inv, MarkInv, u
  <2> QED
    BY <1>5, <2>1, <2>5, <2>7 DEF u
<1>26. Inv(kind2, level2, holder)'
  BY <1>7, <1>11, <1>12, <1>17, <1>18, <1>19, <1>20, <1>22, <1>23, <1>24, <1>25 DEF Inv
<1> QED
  BY <1>26 DEF IInv

(***************************************************************************)
(* The timer's handler                                                     *)
(***************************************************************************)
\* The task that a handler interrupts.
LEMMA Interrupted ==
    ASSUME NEW kind, NEW level, NEW holder, Inv(kind, level, holder), NEW c \in Core, kScheduleInInterrupt(c)
    PROVE  /\ executing[c] \in TCB /\ Runs(c, executing[c])
           /\ pc[c] = "none" /\ pc[executing[c]] \notin InterruptsOff
           /\ pstRunningTask[c] = executing[c]
           /\ TaskAt(executing[c]) /\ local[executing[c]] \in Frame
           /\ pc[executing[c]] \in Label /\ Chosen(executing[c])
           /\ UNCHANGED <<qwID, bPriority, endTask, late, links, bAPICID, executing>>
<1> DEFINE x == executing[c]
<1>1. x \in TCB /\ pc[c] = "none" /\ pc[x] \notin InterruptsOff /\ Runs(c, x)
  BY DEF kScheduleInInterrupt, Inv, ContextType, Runs
<1>2. pstRunningTask[c] = x
  BY <1>1, OnCore DEF InterruptsOff, Switching
<1>3. TaskAt(x) /\ local[x] \in Frame
  BY <1>1, Contexts, ContextTypes DEF Inv, TaskInv
<1>4. pc[x] \in Label /\ Chosen(x)
  BY <1>1, <1>2, Contexts, ContextTypes DEF Chosen
<1> QED
  BY <1>1, <1>2, <1>3, <1>4 DEF kScheduleInInterrupt, pool, flags

LEMMA NothingToPreemptFor ==
    ASSUME NEW kind, NEW level, NEW holder, Inv(kind, level, holder), NEW c \in Core, kScheduleInInterrupt(c),
           NoTaskToRun(c), UNCHANGED <<pc, local>>
    PROVE  Inv(kind, level, holder)'
<1>1. PICK x \in TCB :
           /\ Runs(c, x) /\ pc[x] \notin InterruptsOff /\ TaskAt(x)
           /\ local[x] \in Frame /\ pc[x] \in Label /\ Chosen(x)
           /\ UNCHANGED <<qwID, bPriority, endTask, late, links, bAPICID, executing>>
  BY Interrupted
<1>2. pc[x] \notin Switching /\ pc[x] # "mark"
  BY <1>1 DEF InterruptsOff, Switching
<1>3. pc' = [pc EXCEPT ![x] = pc[x]] /\ local' = [local EXCEPT ![x] = local[x]]
  BY <1>1, StaysAsItIs DEF Goto, Set
<1>4. KernelType' /\ ListInv(kind, level)' /\ EndInv(kind, level, holder)' /\ UNCHANGED pstRunningTask
  BY <1>1, NoTaskToRunStep
<1>5. TaskAt(x)'
  <2>1. pc'[x] = pc[x] /\ local'[x] = local[x] /\ UNCHANGED <<qwID, endTask, bAPICID>>
    BY <1>1
  <2> QED
    BY <1>1, <2>1, TaskAtStays
<1> QED
  BY <1>1, <1>2, <1>3, <1>4, <1>5, TaskStep

LEMMA PreemptStep ==
    ASSUME NEW kind \in [TCB -> Kinds], NEW level \in [TCB -> Priority],
           NEW holder \in [TCB -> Context],
           Inv(kind, level, holder), NEW c \in Core, kScheduleInInterrupt(c),
           ~(NoTaskToRun(c) /\ UNCHANGED <<pc, local>>)
    PROVE  IInv'
<1> USE Contexts
<1> DEFINE x == executing[c]
           k == IF endTask[x] THEN "wait" ELSE "held"
           h == IF endTask[x] THEN holder[x] ELSE c
           lists == ReadyWithoutNext(c)
<1>1. /\ x \in TCB /\ Runs(c, x) /\ pc[x] \notin InterruptsOff /\ TaskAt(x)
      /\ local[x] \in Frame /\ pc[c] = "none" /\ pstRunningTask[c] = x
      /\ UNCHANGED <<qwID, bPriority, endTask, late, links, bAPICID, executing>>
  BY Interrupted
<1>2. PICK t \in TCB :
           /\ kGetNextTaskToRun(c, t)
           /\ vstReadyList' = lists
           /\ stWaitList' = IF endTask[x] THEN [stWaitList EXCEPT ![c] = Append(@, x)]
                                          ELSE stWaitList
           /\ Set(c, [Blank EXCEPT !.next = t, !.ret = "iret",
                                   !.task = IF endTask[x] THEN None ELSE x])
           /\ pc' = [pc EXCEPT ![c] = IF endTask[x] THEN "iret" ELSE "preempted",
                               ![x] = IF endTask[x] THEN "stopped" ELSE @]
  BY <1>1 DEF kScheduleInInterrupt
<1>3. executing[c] = x
  OBVIOUS
<1> HIDE DEF x
<1>4. /\ t \in TCB /\ t # x /\ kind[t] = "ready" /\ bAPICID[t] = c /\ ~endTask[t]
      /\ kind[x] = "run" /\ bAPICID[x] = c
      /\ pstRunningTask' \in [Core -> TCB] /\ viExecuteCount' \in [Core -> [Priority -> Nat]]
      /\ pstRunningTask'[c] = t
      /\ \A d \in Core : d # c => pstRunningTask'[d] = pstRunningTask[d]
      /\ \A d \in Core : pc[d] = "none" /\ d # c => executing[d] # t /\ executing[d] # x
  BY <1>1, <1>2, NextTaskRuns
<1>5. k \in {"wait", "held"} /\ k \in Kinds /\ (k = "wait" <=> endTask[x])
  BY DEF Kinds
<1>6. h \in Context /\ (k = "held" => h = c)
  BY <1>1
<1> HIDE DEF k, h
<1>7. PICK kind2 \in [TCB -> Kinds] :
           /\ kind2[t] = "run" /\ kind2[x] = k
           /\ \A u \in TCB : u # t /\ u # x => kind2[u] = kind[u]
  <2>1. t # x
    BY <1>4
  <2> QED
    BY <1>1, <1>5, <2>1, NewKinds
<1>8. PICK holder2 \in [TCB -> Context] :
           /\ holder2[x] = h
           /\ \A u \in TCB : u # x => holder2[u] = holder[u]
  <2>1. [holder EXCEPT ![x] = h] \in [TCB -> Context]
    BY <1>6
  <2> QED
    BY <1>1, <2>1
<1>9. SlotInv(kind2)' /\ RunInv(kind2)'
  BY <1>1, <1>2, <1>5, <1>7, SwitchedKinds
<1>10. t = NextTask(c) /\ Waiting(c) # {}
  BY <1>2 DEF kGetNextTaskToRun
<1>11. lists \in [Core -> [Priority -> Seq(TCB)]]
  BY <1>10, ListsWithoutNext
<1>12. \A e \in Core, r \in Priority : IsList(lists[e][r], ReadyTasks(kind, level, e, r) \ {t})
  BY <1>10, ListsWithoutNext
<1> HIDE DEF lists
<1>13. \A e \in Core, r \in Priority : IsList(vstReadyList'[e][r], ReadyTasks(kind2, level, e, r)')
  <2> SUFFICES ASSUME NEW e \in Core, NEW r \in Priority
               PROVE  IsList(vstReadyList'[e][r], ReadyTasks(kind2, level, e, r)')
    OBVIOUS
  <2>1. ReadyTasks(kind2, level, e, r)' = ReadyTasks(kind, level, e, r) \ {t}
    BY <1>1, <1>4, <1>5, <1>7 DEF ReadyTasks
  <2>2. IsList(lists[e][r], ReadyTasks(kind, level, e, r) \ {t})
    BY <1>12
  <2> QED
    BY <1>2, <2>1, <2>2
<1>14. /\ stWaitList' \in [Core -> Seq(TCB)]
       /\ \A e \in Core : IsList(stWaitList'[e], WaitTasks(kind2, e)')
  <2>1. /\ stWaitList \in [Core -> Seq(TCB)]
        /\ \A e \in Core : IsList(stWaitList[e], WaitTasks(kind, e))
    BY DEF Inv, KernelType, ListInv
  <2>2. CASE endTask[x]
    <3> DEFINE longer == Append(stWaitList[c], x)
    <3>1. stWaitList' = [stWaitList EXCEPT ![c] = longer]
      BY <1>2, <2>2
    <3>2. IsList(longer, WaitTasks(kind, c) \cup {x})
      BY <1>1, <1>4, <2>1, ListAppend DEF WaitTasks
    <3>3. longer \in Seq(TCB)
      BY <3>2 DEF IsList
    <3> HIDE DEF longer
    <3>4. \A e \in Core : WaitTasks(kind2, e)' = IF e = c THEN WaitTasks(kind, c) \cup {x}
                                                ELSE WaitTasks(kind, e)
      BY <1>1, <1>4, <1>5, <1>7, <2>2 DEF WaitTasks
    <3>5. /\ stWaitList' \in [Core -> Seq(TCB)]
          /\ \A e \in Core : stWaitList'[e] = IF e = c THEN longer ELSE stWaitList[e]
      BY <2>1, <3>1, <3>3
    <3> QED
      BY <2>1, <3>2, <3>4, <3>5
  <2>3. CASE ~endTask[x]
    <3>1. \A e \in Core : WaitTasks(kind2, e)' = WaitTasks(kind, e)
      BY <1>1, <1>4, <1>5, <1>7, <2>3 DEF WaitTasks
    <3> QED
      BY <1>2, <2>1, <2>3, <3>1
  <2> QED
    BY <2>2, <2>3
<1>15. KernelType'
  BY <1>1, <1>2, <1>4, <1>11, <1>14 DEF Inv, KernelType, links
<1>16. ListInv(kind2, level)'
  BY <1>13, <1>14 DEF ListInv
<1> DEFINE f == [Blank EXCEPT !.next = t, !.ret = "iret",
                              !.task = IF endTask[x] THEN None ELSE x]
           l == IF endTask[x] THEN "iret" ELSE "preempted"
           m == IF endTask[x] THEN "stopped" ELSE pc[x]
<1>17. f \in Frame /\ f.next = t /\ f.task = IF endTask[x] THEN None ELSE x
  <2> DEFINE v == IF endTask[x] THEN None ELSE x
  <2>1. v \in TCB \cup {None} /\ f = [Blank EXCEPT !.next = t, !.ret = "iret", !.task = v]
    BY <1>1
  <2> HIDE DEF v, f
  <2>2. f \in Frame /\ f.next = t /\ f.task = v
    BY <2>1, BlankFrame DEF Frame
  <2> QED
    BY <2>2 DEF v
<1>18. local' = [local EXCEPT ![c] = f] /\ pc' = [pc EXCEPT ![c] = l, ![x] = m]
  BY <1>1, <1>2 DEF Set, Inv, ContextType
<1>19. l \in Label /\ m \in Label /\ l \in {"iret", "preempted"} /\ (l = "preempted" <=> ~endTask[x])
  BY <1>1, ContextTypes DEF Label
<1>20. /\ m \notin InterruptsOff
       /\ (endTask[x] => m = "stopped") /\ (~endTask[x] => m = pc[x])
  BY <1>1 DEF InterruptsOff
<1> HIDE DEF f, l, m
<1>21. /\ pc'[c] = l /\ pc'[x] = m /\ local'[c] = f
       /\ \A z \in Context : z # c => local'[z] = local[z]
       /\ \A z \in Context : z # c /\ z # x => pc'[z] = pc[z]
  BY <1>1, <1>18 DEF Inv, ContextType
<1>22. ContextType'
  BY <1>1, <1>17, <1>18, <1>19 DEF Inv, ContextType
<1>23. HeldInv(kind2, holder2)'
  <2> SUFFICES ASSUME NEW z \in Context, NEW u \in TCB
               PROVE  local'[z].task = u <=> kind2[u] = "held" /\ holder2[u] = z
    BY DEF HeldInv
  <2>1. local[z].task = u <=> kind[u] = "held" /\ holder[u] = z
    BY DEF Inv, HeldInv
  <2>2. local[c].task = None
    BY <1>1 DEF Inv, HandlerInv, Given
  <2>3. local[c].task # u
    BY <2>2
  <2>4. CASE z = c
    <3>1. local'[z].task = IF endTask[x] THEN None ELSE x
      BY <1>17, <1>21, <2>4
    <3>2. ~(kind[u] = "held" /\ holder[u] = c)
      BY <2>1, <2>3, <2>4
    <3> QED
      BY <1>4, <1>5, <1>6, <1>7, <1>8, <2>4, <3>1, <3>2
  <2>5. CASE z # c
    BY <1>4, <1>5, <1>6, <1>7, <1>8, <1>21, <2>1, <2>5
  <2> QED
    BY <2>4, <2>5
<1>24. EndInv(kind2, level, holder2)'
  <2> SUFFICES ASSUME NEW u \in TCB
               PROVE  /\ kind2[u] = "ready" => ~endTask[u] /\ (u \in late \/ level[u] = bPriority[u])
                      /\ kind2[u] = "wait" => endTask[u]
                      /\ kind2[u] = "held" => (endTask[u] <=> holder2[u] \in TCB)
                      /\ kind2[u] = "free" /\ u \in Used => endTask[u]
    BY <1>1 DEF Inv, EndInv, links
  <2>1. CASE u = x
    BY <1>5, <1>6, <1>7, <1>8, <2>1
  <2>2. CASE u = t
    BY <1>7, <2>2
  <2>3. CASE u # x /\ u # t
    <3>1. kind2[u] = kind[u] /\ holder2[u] = holder[u]
      BY <1>7, <1>8, <2>3
    <3> QED
      BY <3>1 DEF Inv, EndInv
  <2> QED
    BY <2>1, <2>2, <2>3
<1>25. TaskInv'
  <2> SUFFICES ASSUME NEW z \in TCB PROVE TaskAt(z)' /\ OffInv(z)'
    BY DEF TaskInv
  <2>1. TaskAt(z) /\ OffInv(z)
    BY DEF Inv, TaskInv
  <2>2. local'[z] = local[z] /\ UNCHANGED <<endTask, bAPICID>>
    BY <1>1, <1>21
  <2>3. OffInv(z)'
    <3> SUFFICES ASSUME pc'[z] \in InterruptsOff
                 PROVE  \E d \in Core : pc'[d] = "none" /\ executing'[d] = z
      BY DEF OffInv
    <3>1. z # x /\ pc'[z] = pc[z]
      BY <1>20, <1>21
    <3>2. PICK d \in Core : pc[d] = "none" /\ executing[d] = z
      BY <2>1, <3>1 DEF OffInv
    <3>3. d # c
      BY <1>3, <3>1, <3>2
    <3> QED
      BY <1>1, <1>21, <3>2, <3>3
  <2>4. TaskAt(z)'
    <3>1. CASE z # x
      <4>1. pc'[z] = pc[z]
        BY <1>21, <3>1
      <4>2. endTask'[z] /\ Chosen(z)' => endTask[z] /\ Chosen(z)
        BY <1>4, <2>2 DEF Chosen
      <4> QED
        BY <1>1, <2>1, <2>2, <4>1, <4>2, TaskAtStays
    <3>2. CASE z = x /\ ~endTask[x]
      <4>1. pc'[z] = pc[z]
        BY <1>20, <1>21, <3>2
      <4>2. ~endTask'[z]
        BY <2>2, <3>2
      <4> QED
        BY <1>1, <2>1, <2>2, <4>1, <4>2, TaskAtStays
    <3>3. CASE z = x /\ endTask[x]
      <4>1. pc[x] \in EndingLabels
        BY <1>1, <3>3 DEF TaskAt, InterruptsOff, Looking, Chosen
      <4>2. pc'[z] = "stopped"
        BY <1>20, <1>21, <3>3
      <4>3. /\ pc[z] \notin Cleaning \cup Looking /\ local[z].ret # "iret"
            /\ local[z].ret = "idle" => Boot[z].idle
        BY <2>1, <3>3, <4>1 DEF TaskAt, EndingLabels, Looking, Cleaning
      <4>4. local[z].task = None
        BY <2>1, <4>3 DEF TaskAt
      <4>5. /\ "stopped" \in TaskLabels /\ "stopped" \in EndingLabels
            /\ "stopped" \notin Looking \cup Cleaning
        BY DEF TaskLabels, EndingLabels, Looking, Cleaning
      <4> QED
        BY <2>2, <4>2, <4>3, <4>4, <4>5 DEF TaskAt
    <3> QED
      BY <3>1, <3>2, <3>3
  <2> QED
    BY <2>3, <2>4
<1>26. HandlerInv'
  <2> SUFFICES ASSUME NEW d \in Core
               PROVE  /\ pc'[d] \in HandlerLabels
                      /\ pc'[d] \in Given <=> local'[d].task # None
                      /\ pc'[d] # "none" => pstRunningTask'[d] = local'[d].next
                      /\ pc'[d] = "addInsert" => local'[d].apic # None
                      /\ pc'[d] = "addInsert" /\ Bound(local'[d].task)
                            => local'[d].apic = Boot[local'[d].task].core
                      /\ pc'[d] \in Given => bAPICID[local'[d].task] = d
    BY <1>1 DEF HandlerInv
  <2>1. CASE d = c
    BY <1>1, <1>4, <1>17, <1>19, <1>21, <2>1 DEF HandlerLabels, Given
  <2>2. CASE d # c
    <3>1. pc'[d] = pc[d] /\ local'[d] = local[d] /\ pstRunningTask'[d] = pstRunningTask[d]
      BY <1>1, <1>4, <1>21, <2>2
    <3> QED
      BY <3>1 DEF Inv, HandlerInv
  <2> QED
    BY <2>1, <2>2
<1>27. ExecInv(kind2)'
  <2> SUFFICES ASSUME NEW d \in Core, pc'[d] = "none"
               PROVE  IF pc'[executing[d]] \in Switching
                      THEN /\ pstRunningTask'[d] = local'[executing[d]].next
                           /\ bAPICID[executing[d]] = d
                           /\ kind2[executing[d]] = IF pc'[executing[d]] = "switch"
                                                    THEN "ready" ELSE "wait"
                      ELSE pstRunningTask'[d] = executing[d]
    BY <1>1 DEF ExecInv
  <2>1. d # c
    BY <1>19, <1>21
  <2>2. pc[d] = "none" /\ executing[d] \in TCB
    BY <1>1, <1>21, <2>1 DEF Inv, ContextType
  <2>3. executing[d] # t /\ executing[d] # x
    BY <1>4, <2>1, <2>2
  <2>4. pc'[executing[d]] = pc[executing[d]] /\ local'[executing[d]] = local[executing[d]]
    BY <1>21, <2>2, <2>3
  <2> QED
    BY <1>4, <1>7, <2>1, <2>2, <2>3, <2>4 DEF Inv, ExecInv
<1>28. BoundInv'
  BY <1>1 DEF Inv, BoundInv
<1>29. MarkInv(kind2)'
  <2>1. \A z \in TCB : pc'[z] = "mark" => pc[z] = "mark" /\ local'[z] = local[z]
    BY <1>20, <1>21 DEF InterruptsOff
  <2>2. \A u \in TCB : kind2[u] = "ready" => kind[u] = "ready"
    BY <1>5, <1>7
  <2>3. \A z \in TCB : pc[z] = "mark" => local[z].id.slot \in TCB
    BY DEF Inv, TaskInv, TaskAt, LookingInv, Looking
  <2> QED
    BY <1>1, <2>1, <2>2, <2>3, MarkStays DEF Inv
<1>30. Inv(kind2, level, holder2)'
  BY <1>9, <1>15, <1>16, <1>22, <1>23, <1>24, <1>25, <1>26, <1>27, <1>28, <1>29 DEF Inv
<1> QED
  BY <1>30 DEF IInv

\* What a running handler holds, which has not ended.
LEMMA HeldByHandler ==
    ASSUME NEW kind, NEW level, NEW holder, Inv(kind, level, holder), NEW c \in Core,
           NEW l \in Given, At(c, c, l)
    PROVE  /\ pc[c] = l /\ local[c] \in Frame /\ local[c].task \in TCB
           /\ kind[local[c].task] = "held" /\ holder[local[c].task] = c
           /\ ~endTask[local[c].task] /\ bPriority[local[c].task] \in Priority
<1>1. pc[c] = l /\ local[c] \in Frame
  BY Contexts, ContextTypes DEF At
<1>2. local[c].task \in TCB
  BY <1>1 DEF Inv, HandlerInv, Frame
<1>3. kind[local[c].task] = "held" /\ holder[local[c].task] = c
  BY <1>2, Contexts DEF Inv, HeldInv
<1>4. ~endTask[local[c].task]
  BY <1>2, <1>3, Contexts DEF Inv, EndInv
<1> QED
  BY <1>1, <1>2, <1>3, <1>4 DEF Inv, EndInv

\* A step of a handler before it returns.
LEMMA HandlerStep ==
    ASSUME NEW kind, NEW level, NEW holder, Inv(kind, level, holder),
           NEW kind2, NEW level2, NEW c \in Core,
           pc[c] \in Given, NEW l \in HandlerLabels, l # "none", NEW f \in Frame,
           f.next = local[c].next, l \in Given <=> f.task # None,
           l \in Given => f.task = local[c].task /\ UNCHANGED bAPICID,
           l = "addInsert" => f.apic # None,
           l = "addInsert" /\ Bound(f.task) => f.apic = Boot[f.task].core,
           Goto(c, l), Set(c, f),
           UNCHANGED <<qwID, endTask, executing, pstRunningTask>>,
           \A t \in TCB : t # local[c].task => bAPICID'[t] = bAPICID[t] /\ kind2[t] = kind[t],
           KernelType', SlotInv(kind2)', RunInv(kind2)', ListInv(kind2, level2)',
           HeldInv(kind2, holder)', EndInv(kind2, level2, holder)', BoundInv', MarkInv(kind2)'
    PROVE  Inv(kind2, level2, holder)'
<1> USE Contexts
<1> DEFINE t == local[c].task
<1>1. t \in TCB /\ kind[t] = "held" /\ ~endTask[t] /\ holder[t] = c
  BY HeldByHandler DEF At, Runs, Given
<1> HIDE DEF t
<1>2. /\ pc'[c] = l /\ local'[c] = f
      /\ \A z \in Context : z # c => pc'[z] = pc[z] /\ local'[z] = local[z]
  BY DEF Goto, Set, Inv, ContextType
<1>3. ContextType'
  <2>1. l \in Label
    BY DEF Label, HandlerLabels, Given
  <2> QED
    BY <2>1 DEF Goto, Set, Inv, ContextType
<1>4. TaskInv'
  <2> SUFFICES ASSUME NEW z \in TCB PROVE TaskAt(z)' /\ OffInv(z)'
    BY DEF TaskInv
  <2>1. TaskAt(z) /\ OffInv(z) /\ pc'[z] = pc[z] /\ local'[z] = local[z]
    BY <1>2 DEF Inv, TaskInv
  <2>2. pc[z] = "endSelf" => bAPICID'[z] = bAPICID[z]
    <3>1. pc[z] = "endSelf" => endTask[z]
      BY <2>1 DEF TaskAt
    <3> QED
      BY <1>1, <3>1 DEF t
  <2>3. TaskAt(z)'
    <3>1. local[z].task # None => local[z].task \in TCB /\ local[z].task # t
      BY <1>1, ContextTypes DEF Inv, HeldInv, Frame
    <3>2. local[z].task # None => bAPICID'[local[z].task] = bAPICID[local[z].task]
      BY <3>1 DEF t
    <3>3. Chosen(z)' <=> Chosen(z)
      BY DEF Chosen
    <3> QED
      BY <2>1, <2>2, <3>2, <3>3, TaskAtStays
  <2>4. OffInv(z)'
    BY <1>2, <2>1 DEF OffInv, Given
  <2> QED
    BY <2>3, <2>4
<1>5. HandlerInv'
  <2> SUFFICES ASSUME NEW d \in Core
               PROVE  /\ pc'[d] \in HandlerLabels
                      /\ pc'[d] \in Given <=> local'[d].task # None
                      /\ pc'[d] # "none" => pstRunningTask[d] = local'[d].next
                      /\ pc'[d] = "addInsert" => local'[d].apic # None
                      /\ pc'[d] = "addInsert" /\ Bound(local'[d].task)
                            => local'[d].apic = Boot[local'[d].task].core
                      /\ pc'[d] \in Given => bAPICID'[local'[d].task] = d
    BY DEF HandlerInv
  <2>1. CASE d = c
    <3>1. pstRunningTask[c] = local[c].next /\ bAPICID[local[c].task] = c
      BY DEF Inv, HandlerInv, Given
    <3> QED
      BY <1>2, <2>1, <3>1
  <2>2. CASE d # c
    <3>1. local'[d] = local[d] /\ pc'[d] = pc[d]
      BY <1>2, <2>2
    <3>2. local[d].task # None => local[d].task \in TCB /\ local[d].task # t
      BY <1>1, <2>2, ContextTypes DEF Inv, HeldInv, Frame
    <3>3. pc[d] \in Given => bAPICID'[local[d].task] = bAPICID[local[d].task]
      BY <3>2 DEF Inv, HandlerInv, t
    <3> QED
      BY <3>1, <3>3 DEF Inv, HandlerInv
  <2> QED
    BY <2>1, <2>2
<1>6. ExecInv(kind2)'
  <2> SUFFICES ASSUME NEW d \in Core, pc'[d] = "none"
               PROVE  IF pc'[executing[d]] \in Switching
                      THEN /\ pstRunningTask[d] = local'[executing[d]].next
                           /\ bAPICID'[executing[d]] = d
                           /\ kind2[executing[d]] = IF pc'[executing[d]] = "switch"
                                                    THEN "ready" ELSE "wait"
                      ELSE pstRunningTask[d] = executing[d]
    BY DEF ExecInv
  <2>1. d # c /\ pc[d] = "none" /\ executing[d] \in TCB
    BY <1>2 DEF Inv, ContextType
  <2>2. executing[d] # t
    BY <1>1, <2>1, OnCore DEF Runs
  <2>3. /\ pc'[executing[d]] = pc[executing[d]] /\ local'[executing[d]] = local[executing[d]]
        /\ bAPICID'[executing[d]] = bAPICID[executing[d]]
        /\ kind2[executing[d]] = kind[executing[d]]
    BY <1>2, <2>1, <2>2 DEF t
  <2> QED
    BY <2>1, <2>3 DEF Inv, ExecInv
<1> QED
  BY <1>3, <1>4, <1>5, <1>6 DEF Inv

\* ... and it changes nothing of what is where.
LEMMA HandlerLocalStep ==
    ASSUME NEW kind, NEW level, NEW holder, Inv(kind, level, holder), NEW c \in Core,
           pc[c] \in Given, NEW l \in Given, NEW f \in Frame,
           f.next = local[c].next, f.task = local[c].task,
           l = "addInsert" => f.apic # None,
           l = "addInsert" /\ Bound(f.task) => f.apic = Boot[f.task].core,
           Goto(c, l), Set(c, f), UNCHANGED Shared
    PROVE  Inv(kind, level, holder)'
<1>1. KernelType' /\ ListInv(kind, level)' /\ EndInv(kind, level, holder)'
  BY SharedUnchanged DEF Shared
<1>2. SlotInv(kind)' /\ RunInv(kind)'
  BY DEF Inv, SlotInv, RunInv, Shared, scheduler
<1>3. \A z \in Context : local'[z].task = local[z].task
  BY Contexts DEF Set, Inv, ContextType
<1>4. HeldInv(kind, holder)'
  BY <1>3 DEF Inv, HeldInv
<1>5. f.task # None
  BY DEF Inv, HandlerInv
<1>6. l \in HandlerLabels /\ l # "none"
  BY DEF HandlerLabels, Given
<1>7. UNCHANGED <<qwID, endTask, executing, pstRunningTask>> /\ UNCHANGED <<bAPICID, late>>
  BY DEF Shared, scheduler
<1>8. BoundInv'
  BY <1>7 DEF Inv, BoundInv
<1>9. MarkInv(kind)'
  <2>1. \A z \in TCB : pc'[z] = pc[z] /\ local'[z] = local[z]
    BY Contexts DEF Goto, Set, Inv, ContextType
  <2> QED
    BY <1>7, <2>1, MarkStays DEF Inv
<1> QED
  BY <1>1, <1>2, <1>4, <1>5, <1>6, <1>7, <1>8, <1>9, HandlerStep

LEMMA PreemptedStep ==
    ASSUME NEW kind, NEW level, NEW holder, Inv(kind, level, holder), NEW c \in Core, Preempted(c)
    PROVE  Inv(kind, level, holder)'
<1>1. At(c, c, "preempted") /\ "preempted" \in Given /\ "addTarget" \in Given
  BY DEF Preempted, Given
<1>2. pc[c] = "preempted" /\ local[c] \in Frame /\ ~endTask[local[c].task]
  BY <1>1, HeldByHandler
<1>3. Goto(c, "addTarget") /\ UNCHANGED local
  BY <1>2 DEF Preempted
<1>4. Set(c, local[c])
  BY <1>3, Contexts DEF Set, Inv, ContextType
<1>5. UNCHANGED Shared
  BY DEF Preempted, Shared, pool, flags
<1> QED
  BY <1>1, <1>2, <1>3, <1>4, <1>5, HandlerLocalStep

\* A bound task is only put back into the lists of its core.
AffinityInv == \A t \in TCB : Bound(t) => bAffinity[t] = Boot[t].core

LEMMA AddTargetStep ==
    ASSUME NEW kind, NEW level, NEW holder, Inv(kind, level, holder), AffinityInv,
           NEW c \in Core, AddTarget(c, c)
    PROVE  Inv(kind, level, holder)'
<1>1. At(c, c, "addTarget") /\ "addTarget" \in Given /\ "addInsert" \in Given
  BY DEF AddTarget, Given
<1>2. pc[c] = "addTarget" /\ local[c] \in Frame
  BY <1>1, HeldByHandler
<1>3. PICK d \in Core :
           /\ Set(c, [local[c] EXCEPT !.apic = d])
           /\ bAffinity[local[c].task] # AnyCore => d = bAffinity[local[c].task]
  BY DEF AddTarget
<1> DEFINE f == [local[c] EXCEPT !.apic = d]
<1>4. f \in Frame
  BY <1>2, FrameFields
<1>5. f.next = local[c].next /\ f.task = local[c].task /\ f.apic = d
  BY <1>2 DEF Frame
<1>6. d # None
  BY Contexts
<1>7. Goto(c, "addInsert") /\ Set(c, f)
  BY <1>3 DEF AddTarget
<1>8. UNCHANGED Shared
  BY DEF AddTarget, Shared, pool, flags
<1>9. Bound(local[c].task) => d = Boot[local[c].task].core
  <2>1. local[c].task \in TCB
    BY <1>1, HeldByHandler
  <2> QED
    BY <1>3, <2>1, IdleAssumption, BootAssumption DEF AffinityInv
<1> HIDE DEF f
<1> QED
  BY <1>1, <1>2, <1>4, <1>5, <1>6, <1>7, <1>8, <1>9, HandlerLocalStep

LEMMA AddInsertStep ==
    ASSUME NEW kind \in [TCB -> Kinds], NEW level \in [TCB -> Priority],
           NEW holder \in [TCB -> Context],
           Inv(kind, level, holder), NEW c \in Core, AddInsert(c, c)
    PROVE  IInv'
<1> USE Contexts
<1> DEFINE p == bPriority[local[c].task]
           f == [local[c] EXCEPT !.task = None]
<1>1. At(c, c, "addInsert") /\ "addInsert" \in Given
  BY DEF AddInsert, Given
<1>2. PICK t \in TCB :
           /\ t = local[c].task /\ kind[t] = "held" /\ holder[t] = c /\ ~endTask[t]
           /\ p = bPriority[t] /\ p \in Priority
           /\ pc[c] = "addInsert" /\ local[c] \in Frame
  BY <1>1, HeldByHandler
<1>3. PICK d \in Core : d = local[c].apic /\ (Bound(t) => d = Boot[t].core)
  BY <1>2 DEF Inv, HandlerInv, Frame
<1> DEFINE longer == Append(vstReadyList[d][p], t)
<1>4. p # WAIT
  BY <1>2, PriorityAssumption DEF Priority
<1>5. /\ bAPICID' = [bAPICID EXCEPT ![t] = d]
      /\ vstReadyList' = [vstReadyList EXCEPT ![d][p] = longer]
      /\ stWaitList' = stWaitList
      /\ Goto(c, "iret") /\ Set(c, f) /\ late' = late \ {t} /\ Unlocked(d)
      /\ UNCHANGED <<qwID, bPriority, endTask, links, pstRunningTask, viExecuteCount,
                     executing>>
  BY <1>2, <1>3, <1>4 DEF AddInsert, kAddTaskToReadyList, kAddTaskToWaitList, pool, flags
<1>6. f \in Frame /\ f.next = local[c].next /\ f.task = None
  <2>1. f \in Frame
    BY <1>2, FrameFields
  <2> QED
    BY <1>2, <2>1 DEF Frame
<1> HIDE DEF p, f
<1>7. PICK kind2 \in [TCB -> Kinds] : /\ kind2[t] = "ready"
                                      /\ \A u \in TCB : u # t => kind2[u] = kind[u]
  <2>1. [kind EXCEPT ![t] = "ready"] \in [TCB -> Kinds]
    BY DEF Kinds
  <2> QED
    BY <2>1
<1>7a. PICK level2 \in [TCB -> Priority] : /\ level2[t] = p
                                           /\ \A u \in TCB : u # t => level2[u] = level[u]
  <2>1. [level EXCEPT ![t] = p] \in [TCB -> Priority]
    BY <1>2
  <2> QED
    BY <2>1
<1>8. \A u \in TCB : bAPICID'[u] = IF u = t THEN d ELSE bAPICID[u]
  BY <1>5 DEF Inv, KernelType
<1>9. IsList(longer, ReadyTasks(kind, level, d, p) \cup {t})
  <2>1. IsList(vstReadyList[d][p], ReadyTasks(kind, level, d, p))
    BY <1>2 DEF Inv, ListInv
  <2>2. t \notin ReadyTasks(kind, level, d, p)
    BY <1>2 DEF ReadyTasks
  <2> QED
    BY <2>1, <2>2, ListAppend
<1>10. longer \in Seq(TCB) /\ vstReadyList \in [Core -> [Priority -> Seq(TCB)]]
  BY <1>9 DEF IsList, Inv, KernelType
<1> HIDE DEF longer
<1>11. /\ vstReadyList' \in [Core -> [Priority -> Seq(TCB)]]
       /\ \A e \in Core, r \in Priority :
             vstReadyList'[e][r] = IF e = d /\ r = p THEN longer ELSE vstReadyList[e][r]
  BY <1>2, <1>5, <1>10, ReplaceReady
<1>12. KernelType'
  BY <1>5, <1>11 DEF Inv, KernelType, links
<1>13. SlotInv(kind2)' /\ RunInv(kind2)'
  <2>1. SlotInv(kind2)'
    BY <1>2, <1>5, <1>7 DEF Inv, SlotInv
  <2>2. RunInv(kind2)'
    <3> SUFFICES ASSUME NEW e \in Core, NEW u \in TCB
                 PROVE  pstRunningTask[e] = u <=> kind2[u] = "run" /\ bAPICID'[u] = e
      BY <1>5 DEF RunInv
    <3>1. pstRunningTask[e] = u <=> kind[u] = "run" /\ bAPICID[u] = e
      BY DEF Inv, RunInv
    <3> QED
      BY <1>2, <1>7, <1>8, <3>1
  <2> QED
    BY <2>1, <2>2
<1>14. ListInv(kind2, level2)'
  <2>1. ASSUME NEW e \in Core, NEW r \in Priority
        PROVE  IsList(vstReadyList'[e][r], ReadyTasks(kind2, level2, e, r)')
    <3>1. IsList(vstReadyList[e][r], ReadyTasks(kind, level, e, r))
      BY DEF Inv, ListInv
    <3>2. CASE e = d /\ r = p
      <4>1. ReadyTasks(kind2, level2, e, r)' = ReadyTasks(kind, level, d, p) \cup {t}
        BY <1>2, <1>5, <1>7, <1>7a, <1>8, <3>2 DEF ReadyTasks
      <4> QED
        BY <1>9, <1>11, <3>2, <4>1
    <3>3. CASE ~(e = d /\ r = p)
      <4>1. ReadyTasks(kind2, level2, e, r)' = ReadyTasks(kind, level, e, r)
        BY <1>2, <1>5, <1>7, <1>7a, <1>8, <3>3 DEF ReadyTasks
      <4>2. vstReadyList'[e][r] = vstReadyList[e][r]
        BY <1>11, <3>3
      <4> QED
        BY <3>1, <4>1, <4>2
    <3> QED
      BY <3>2, <3>3
  <2>2. \A e \in Core : WaitTasks(kind2, e)' = WaitTasks(kind, e)
    BY <1>2, <1>7, <1>8 DEF WaitTasks
  <2> QED
    BY <1>5, <2>1, <2>2 DEF Inv, ListInv
<1>15. HeldInv(kind2, holder)'
  <2> SUFFICES ASSUME NEW z \in Context, NEW u \in TCB
               PROVE  local'[z].task = u <=> kind2[u] = "held" /\ holder[u] = z
    BY DEF HeldInv
  <2>1. local[z].task = u <=> kind[u] = "held" /\ holder[u] = z
    BY DEF Inv, HeldInv
  <2>2. local'[z] = IF z = c THEN f ELSE local[z]
    BY <1>5 DEF Set, Inv, ContextType
  <2> QED
    BY <1>2, <1>6, <1>7, <2>1, <2>2
<1>16. EndInv(kind2, level2, holder)'
  <2> SUFFICES ASSUME NEW u \in TCB
               PROVE  /\ kind2[u] = "ready"
                            => ~endTask[u] /\ (u \in late' \/ level2[u] = bPriority[u])
                      /\ kind2[u] = "wait" => endTask[u]
                      /\ kind2[u] = "held" => (endTask[u] <=> holder[u] \in TCB)
                      /\ kind2[u] = "free" /\ u \in Used => endTask[u]
    BY <1>5 DEF Inv, EndInv, links
  <2>1. CASE u = t
    BY <1>2, <1>7, <1>7a, <2>1
  <2>2. CASE u # t
    <3>1. kind2[u] = kind[u] /\ level2[u] = level[u] /\ (u \in late => u \in late')
      BY <1>5, <1>7, <1>7a, <2>2
    <3> QED
      BY <3>1 DEF Inv, EndInv
  <2> QED
    BY <2>1, <2>2
<1>16a. BoundInv'
  <2> SUFFICES ASSUME NEW u \in TCB, Bound(u)
               PROVE  bAPICID'[u] = Boot[u].core /\ u \notin late'
    BY DEF BoundInv
  <2>1. bAPICID[u] = Boot[u].core /\ u \notin late
    BY DEF Inv, BoundInv
  <2> QED
    BY <1>3, <1>5, <1>8, <2>1
<1>16b. MarkInv(kind2)'
  <2> SUFFICES ASSUME NEW z \in TCB, pc'[z] = "mark", kind2[local'[z].id.slot] = "ready",
                      bAPICID'[local'[z].id.slot] = local'[z].apic
               PROVE  local'[z].id.slot \in late'
    BY DEF MarkInv
  <2> DEFINE u == local[z].id.slot
  <2>1. pc[z] = "mark" /\ local'[z] = local[z]
    BY <1>5 DEF Goto, Set, Inv, ContextType
  <2>2. kind2[u] = "ready" /\ bAPICID'[u] = local[z].apic
    BY <2>1
  <2>3. local[z].apic # d
    BY <1>5, <2>1 DEF Unlocked
  <2>4. u \in TCB
    BY <2>1 DEF Inv, TaskInv, TaskAt, LookingInv, Looking
  <2> HIDE DEF u
  <2>5. u # t
    BY <1>8, <2>2, <2>3
  <2>6. kind[u] = "ready" /\ bAPICID[u] = local[z].apic
    BY <1>7, <1>8, <2>2, <2>4, <2>5
  <2>7. u \in late
    BY <2>1, <2>6 DEF Inv, MarkInv, u
  <2> QED
    BY <1>5, <2>1, <2>5, <2>7 DEF u
<1>17. Inv(kind2, level2, holder)'
  <2>1. "iret" \in HandlerLabels /\ "iret" \notin Given
    BY DEF HandlerLabels, Given
  <2>2. pc[c] \in Given
    BY <1>1, <1>2
  <2>3. \A u \in TCB : u # local[c].task => bAPICID'[u] = bAPICID[u] /\ kind2[u] = kind[u]
    BY <1>2, <1>7, <1>8
  <2> QED
    BY <1>5, <1>6, <1>12, <1>13, <1>14, <1>15, <1>16, <1>16a, <1>16b, <2>1, <2>2, <2>3,
       HandlerStep
<1> QED
  BY <1>17 DEF IInv

LEMMA InterruptReturnStep ==
    ASSUME NEW kind, NEW level, NEW holder, Inv(kind, level, holder), NEW c \in Core, InterruptReturn(c)
    PROVE  Inv(kind, level, holder)'
<1> USE Contexts
<1> DEFINE n == pstRunningTask[c]
<1>1. pc[c] = "iret" /\ local[c].next = n /\ local[c].task = None
  BY DEF InterruptReturn, At, Inv, HandlerInv, Given
<1>2. n \in TCB /\ pc[n] \notin Switching
  BY ChosenIsNotSwitching
<1>3. /\ executing' = [executing EXCEPT ![c] = n] /\ Goto(c, "none") /\ Set(c, Blank)
      /\ UNCHANGED <<qwID, bPriority, endTask, late, links, bAPICID, scheduler>>
  BY <1>1 DEF InterruptReturn, pool, flags
<1> HIDE DEF n
<1>4. /\ pc'[c] = "none" /\ local'[c] = Blank /\ executing'[c] = n
      /\ \A z \in Context : z # c => pc'[z] = pc[z] /\ local'[z] = local[z]
      /\ \A d \in Core : d # c => executing'[d] = executing[d]
  BY <1>3 DEF Goto, Set, Inv, ContextType
<1>5. KernelType' /\ ListInv(kind, level)' /\ EndInv(kind, level, holder)'
  BY <1>3, SharedUnchanged
<1>6. ContextType'
  BY <1>2, <1>3, BlankFrame DEF Inv, ContextType, Goto, Set, Label
<1>7. SlotInv(kind)' /\ RunInv(kind)'
  BY <1>3 DEF Inv, SlotInv, RunInv, scheduler
<1>8. HeldInv(kind, holder)'
  <2>1. \A z \in Context : local'[z].task = local[z].task
    BY <1>1, <1>4, BlankFrame
  <2> QED
    BY <2>1 DEF Inv, HeldInv
<1>9. TaskInv'
  <2> SUFFICES ASSUME NEW z \in TCB PROVE TaskAt(z)' /\ OffInv(z)'
    BY DEF TaskInv
  <2>1. TaskAt(z) /\ OffInv(z) /\ pc'[z] = pc[z] /\ local'[z] = local[z]
    BY <1>4 DEF Inv, TaskInv
  <2>2. TaskAt(z)'
    <3>1. Chosen(z)' <=> Chosen(z)
      BY <1>3 DEF Chosen, scheduler
    <3> QED
      BY <1>3, <2>1, <3>1, TaskAtStays
  <2>3. OffInv(z)'
    BY <1>1, <1>4, <2>1 DEF OffInv
  <2> QED
    BY <2>2, <2>3
<1>10. HandlerInv'
  <2> SUFFICES ASSUME NEW d \in Core
               PROVE  /\ pc'[d] \in HandlerLabels
                      /\ pc'[d] \in Given <=> local'[d].task # None
                      /\ pc'[d] # "none" => pstRunningTask[d] = local'[d].next
                      /\ pc'[d] = "addInsert" => local'[d].apic # None
                      /\ pc'[d] = "addInsert" /\ Bound(local'[d].task)
                            => local'[d].apic = Boot[local'[d].task].core
                      /\ pc'[d] \in Given => bAPICID[local'[d].task] = d
    BY <1>3 DEF HandlerInv, scheduler
  <2>1. CASE d = c
    BY <1>4, <2>1, BlankFrame DEF HandlerLabels, Given
  <2>2. CASE d # c
    BY <1>4, <2>2 DEF Inv, HandlerInv
  <2> QED
    BY <2>1, <2>2
<1>11. ExecInv(kind)'
  <2> SUFFICES ASSUME NEW d \in Core, pc'[d] = "none"
               PROVE  IF pc'[executing'[d]] \in Switching
                      THEN /\ pstRunningTask[d] = local'[executing'[d]].next
                           /\ bAPICID[executing'[d]] = d
                           /\ kind[executing'[d]] = IF pc'[executing'[d]] = "switch"
                                                    THEN "ready" ELSE "wait"
                      ELSE pstRunningTask[d] = executing'[d]
    BY <1>3 DEF ExecInv, scheduler
  <2>1. CASE d = c
    BY <1>2, <1>4, <2>1 DEF n
  <2>2. CASE d # c
    <3>1. pc[d] = "none" /\ executing[d] \in TCB /\ executing'[d] = executing[d]
      BY <1>4, <2>2 DEF Inv, ContextType
    <3>2. pc'[executing[d]] = pc[executing[d]] /\ local'[executing[d]] = local[executing[d]]
      BY <1>4, <3>1
    <3> QED
      BY <3>1, <3>2 DEF Inv, ExecInv
  <2> QED
    BY <2>1, <2>2
<1>12. BoundInv'
  BY <1>3 DEF Inv, BoundInv
<1>13. MarkInv(kind)'
  <2>1. \A z \in TCB : pc'[z] = pc[z] /\ local'[z] = local[z]
    BY <1>4
  <2> QED
    BY <1>3, <2>1, MarkStays DEF Inv
<1> QED
  BY <1>5, <1>6, <1>7, <1>8, <1>9, <1>10, <1>11, <1>12, <1>13 DEF Inv

(***************************************************************************)
(* The invariant holds                                                     *)
(***************************************************************************)
LEMMA InitInv == OwnCallsOnly /\ Init => IInv
<1> USE Contexts
<1> SUFFICES ASSUME OwnCallsOnly, Init PROVE IInv
  OBVIOUS
<1>0. \A c \in Core : /\ BootRunning[c] \in Used /\ Boot[BootRunning[c]].core = c
                      /\ BootRunning[c] \in TCB
  BY BootAssumption DEF Used
<1>1. \A t \in TCB : Boot[t].core \in Core /\ Boot[t].parent \in TCB /\ Boot[t].priority \in Priority
  BY BootAssumption
<1> DEFINE kind0 == [t \in TCB |-> IF t \notin Used THEN "free"
                                   ELSE IF BootRunning[Boot[t].core] = t THEN "run" ELSE "ready"]
           level0 == [t \in TCB |-> Boot[t].priority]
           holder0 == [t \in TCB |-> t]
<1>2. PICK kind \in [TCB -> Kinds], level \in [TCB -> Priority],
          holder \in [TCB -> Context] :
           \A t \in TCB : /\ kind[t] = IF t \notin Used THEN "free"
                                       ELSE IF BootRunning[Boot[t].core] = t THEN "run"
                                       ELSE "ready"
                          /\ level[t] = Boot[t].priority
  <2>1. /\ kind0 \in [TCB -> Kinds] /\ level0 \in [TCB -> Priority]
        /\ holder0 \in [TCB -> Context]
    BY <1>1 DEF Kinds
  <2> QED
    BY <2>1
<1> HIDE DEF kind0, level0, holder0
<1>3. \A t \in TCB : /\ bAPICID[t] = Boot[t].core /\ bPriority[t] = Boot[t].priority
                     /\ endTask[t] = FALSE /\ qwID[t] = IF t \in Used THEN 1 ELSE 0
  BY DEF Init
<1>4. \A c \in Core, p \in Priority :
         /\ vstReadyList[c][p] =
              SetToSeq({t \in Used : /\ Boot[t].core = c /\ Boot[t].priority = p
                                     /\ BootRunning[c] # t})
         /\ {t \in Used : Boot[t].core = c /\ Boot[t].priority = p /\ BootRunning[c] # t}
              = ReadyTasks(kind, level, c, p)
  <2> SUFFICES ASSUME NEW c \in Core, NEW p \in Priority
               PROVE  /\ vstReadyList[c][p] =
                           SetToSeq({t \in Used : /\ Boot[t].core = c /\ Boot[t].priority = p
                                                  /\ BootRunning[c] # t})
                      /\ {t \in Used : Boot[t].core = c /\ Boot[t].priority = p /\ BootRunning[c] # t}
                           = ReadyTasks(kind, level, c, p)
    OBVIOUS
  <2>1. vstReadyList[c][p] = SetToSeq({t \in Used : /\ Boot[t].core = c /\ Boot[t].priority = p
                                                    /\ BootRunning[c] # t})
    BY DEF Init
  <2>2. {t \in Used : Boot[t].core = c /\ Boot[t].priority = p /\ BootRunning[c] # t}
          = ReadyTasks(kind, level, c, p)
    BY <1>2, <1>3 DEF ReadyTasks, Used
  <2> QED
    BY <2>1, <2>2
<1>5. \A c \in Core, p \in Priority : IsList(vstReadyList[c][p], ReadyTasks(kind, level, c, p))
  <2> SUFFICES ASSUME NEW c \in Core, NEW p \in Priority
               PROVE  IsList(vstReadyList[c][p], ReadyTasks(kind, level, c, p))
    OBVIOUS
  <2>1. vstReadyList[c][p] = SetToSeq(ReadyTasks(kind, level, c, p))
    BY <1>4
  <2>2. ReadyTasks(kind, level, c, p) \subseteq TCB
    BY DEF ReadyTasks
  <2> QED
    BY <2>1, <2>2, ListOfSet
<1>6. \A c \in Core : stWaitList[c] = <<>> /\ WaitTasks(kind, c) = {}
  BY <1>2 DEF Init, WaitTasks
<1>7. ASSUME NEW t \in TCB
      PROVE  /\ stChildThreadList[t] \in Seq(TCB)
             /\ IsList(stChildThreadList[t], Range(stChildThreadList[t]))
             /\ \A u \in Range(stChildThreadList[t]) : Thread(u, t)
  <2> DEFINE S == {u \in Used : Boot[u].parent = t /\ ~Boot[u].process}
  <2>1. stChildThreadList[t] = SetToSeq(S)
    BY DEF Init
  <2>2. S \subseteq TCB
    BY DEF Used
  <2>3. \A u \in S : Thread(u, t)
    BY DEF Thread
  <2> HIDE DEF S
  <2>4. IsList(SetToSeq(S), S)
    BY <2>2, ListOfSet
  <2> QED
    BY <2>1, <2>3, <2>4 DEF IsList
<1>8. KernelType
  <2>1. vstReadyList \in [Core -> [Priority -> Seq(TCB)]]
    BY <1>5 DEF Init, IsList
  <2>2. stChildThreadList \in [TCB -> Seq(TCB)]
    BY <1>7 DEF Init
  <2>3. qwParentProcessID \in [TCB -> IDs]
    BY <1>1 DEF Init, IDs
  <2>4. viExecuteCount \in [Core -> [Priority -> Nat]]
    BY DEF Init
  <2>5. stWaitList \in [Core -> Seq(TCB)]
    BY DEF Init
  <2>6. /\ qwID \in [TCB -> {0, 1}] /\ bPriority \in [TCB -> Priority \cup {WAIT}]
        /\ endTask \in [TCB -> BOOLEAN] /\ bAPICID \in [TCB -> Core]
        /\ pstRunningTask \in [Core -> TCB] /\ late \subseteq TCB
    BY <1>1, BootAssumption DEF Init
  <2> QED
    BY <2>1, <2>2, <2>3, <2>4, <2>5, <2>6 DEF KernelType
<1>9. ContextType
  BY BootAssumption, BlankFrame DEF Init, ContextType, Label
<1>10. SlotInv(kind)
  BY <1>2, <1>3 DEF SlotInv
<1>11. RunInv(kind)
  <2>1. pstRunningTask = BootRunning
    BY DEF Init
  <2> SUFFICES ASSUME NEW c \in Core, NEW t \in TCB
               PROVE  BootRunning[c] = t <=> kind[t] = "run" /\ Boot[t].core = c
    BY <1>3, <2>1 DEF RunInv
  <2> QED
    BY <1>0, <1>2
<1>12. ListInv(kind, level)
  BY <1>5, <1>6, EmptyList DEF ListInv
<1>13. \A z \in Context : local[z] = Blank
  BY DEF Init
<1>14. HeldInv(kind, holder)
  BY <1>2, <1>13, BlankFrame DEF HeldInv
<1>15. EndInv(kind, level, holder)
  BY <1>1, <1>2, <1>3, <1>7 DEF EndInv
<1>15a. BoundInv
  BY <1>3 DEF BoundInv, Init
<1>16. TaskInv
  <2> SUFFICES ASSUME NEW z \in TCB PROVE TaskAt(z) /\ OffInv(z)
    BY DEF TaskInv
  <2>1. pc[z] \in {"idle", "run", "stopped"} /\ (pc[z] = "idle" => Boot[z].idle)
    BY DEF Init
  <2> QED
    BY <1>3, <1>13, <2>1, BlankFrame
       DEF TaskAt, OffInv, TaskLabels, EndingLabels, InterruptsOff, Looking, Cleaning
<1>17. \A c \in Core : pc[c] = "none"
  BY DEF Init
<1>17a. MarkInv(kind)
  BY DEF MarkInv, Init
<1>18. HandlerInv
  BY <1>13, <1>17, BlankFrame DEF HandlerInv, HandlerLabels, Given
<1>19. ExecInv(kind)
  <2> SUFFICES ASSUME NEW c \in Core
               PROVE  pc[executing[c]] \notin Switching /\ pstRunningTask[c] = executing[c]
    BY DEF ExecInv
  <2>1. executing[c] \in TCB /\ pstRunningTask[c] = executing[c]
    BY <1>0 DEF Init
  <2> QED
    BY <2>1 DEF Init, Switching
<1>20. Inv(kind, level, holder)
  BY <1>8, <1>9, <1>10, <1>11, <1>12, <1>14, <1>15, <1>15a, <1>16, <1>17a, <1>18, <1>19
     DEF Inv
<1> QED
  BY <1>20 DEF IInv

LEMMA KernelStep ==
    ASSUME OwnCallsOnly, NEW kind \in [TCB -> Kinds],
           NEW level \in [TCB -> Priority], NEW holder \in [TCB -> Context], Inv(kind, level, holder),
           NEW c \in Core, NEW x \in TCB, Kernel(c, x)
    PROVE  IInv'
<1> USE DEF IInv
<1>1. CASE ScheduleCount(c, x)
  BY <1>1, ScheduleCountStep
<1>2. CASE SchedulePick(c, x) /\ NoTaskToRun(c) /\ Return(x)
  BY <1>2, NoTaskToPickStep
<1>3. CASE SchedulePick(c, x) /\ ~(NoTaskToRun(c) /\ Return(x))
  BY <1>3, PickStep
<1>4. CASE SwitchContext(c, x)
  BY <1>4, SwitchContextStep
<1>5. CASE Find(c, x)
  BY <1>5, FindStep
<1>6. CASE Moved(c, x)
  BY <1>6, MovedStep
<1>7. CASE EndLocked(c, x)
  BY <1>7, EndLockedStep
<1>7a. CASE Elsewhere(c, x)
  BY <1>7a, ElsewhereStep
<1>7b. CASE MarkEnd(c, x)
  BY <1>7b, MarkEndStep
<1>8. CASE EndSelf(c, x)
  BY <1>8, EndSelfStep
<1>9. CASE PriorityLocked(c, x)
  BY <1>9, PriorityLockedStep
<1>9a. CASE MarkPriority(c, x)
  BY <1>9a, MarkPriorityStep
<1>10. CASE AffinityLocked(c, x)
  BY <1>10, AffinityLockedStep
<1>11. CASE Idle(c, x)
  BY <1>11, IdleStep
<1>12. CASE IdleTake(c, x)
  BY <1>12, IdleTakeStep
<1>13. CASE IdleEndChild(c, x)
  BY <1>13, IdleEndChildStep
<1>14. CASE IdleProcess(c, x)
  BY <1>14, IdleProcessStep
<1>15. CASE IdleThread(c, x)
  BY <1>15, IdleThreadStep
<1>16. CASE UnlinkLocked(c, x)
  BY <1>16, UnlinkLockedStep
<1>17. CASE IdleFree(c, x)
  BY <1>17, IdleFreeStep
<1> QED
  BY <1>1, <1>2, <1>3, <1>4, <1>5, <1>6, <1>7, <1>7a, <1>7b, <1>8, <1>9, <1>9a, <1>10,
     <1>11, <1>12, <1>13, <1>14, <1>15, <1>16, <1>17, OtherLabels, NoMarkAffinity
     DEF Kernel, Mark

LEMMA HandlerSteps ==
    ASSUME NEW kind \in [TCB -> Kinds], NEW level \in [TCB -> Priority],
           NEW holder \in [TCB -> Context],
           Inv(kind, level, holder), AffinityInv,
           NEW c \in Core, Handler(c) \/ kScheduleInInterrupt(c)
    PROVE  IInv'
<1> USE DEF IInv
<1>1. CASE Preempted(c)
  BY <1>1, PreemptedStep
<1>2. CASE AddTarget(c, c)
  BY <1>2, AddTargetStep
<1>3. CASE AddInsert(c, c)
  BY <1>3, AddInsertStep
<1>4. CASE InterruptReturn(c)
  BY <1>4, InterruptReturnStep
<1>5. CASE kScheduleInInterrupt(c) /\ NoTaskToRun(c) /\ UNCHANGED <<pc, local>>
  BY <1>5, NothingToPreemptFor
<1>6. CASE kScheduleInInterrupt(c) /\ ~(NoTaskToRun(c) /\ UNCHANGED <<pc, local>>)
  BY <1>6, PreemptStep
<1> QED
  BY <1>1, <1>2, <1>3, <1>4, <1>5, <1>6 DEF Handler

LEMMA NextInv == OwnCallsOnly /\ IInv /\ AffinityInv /\ [Next]_vars => IInv'
<1> SUFFICES ASSUME OwnCallsOnly, IInv, AffinityInv, [Next]_vars PROVE IInv'
  OBVIOUS
<1>1. PICK kind \in [TCB -> Kinds], level \in [TCB -> Priority],
          holder \in [TCB -> Context] : Inv(kind, level, holder)
  BY DEF IInv
<1>2. CASE UNCHANGED vars
  <2>1. /\ UNCHANGED <<qwID, bPriority, endTask, late, links, bAPICID, scheduler, executing, pc>>
        /\ UNCHANGED <<local, pstRunningTask>>
    BY <1>2 DEF vars, pool, flags, scheduler
  <2>2. KernelType' /\ ListInv(kind, level)' /\ EndInv(kind, level, holder)'
    BY <1>1, <2>1, SharedUnchanged
  <2>3. ContextType' /\ SlotInv(kind)' /\ RunInv(kind)' /\ HeldInv(kind, holder)'
    BY <1>1, <2>1 DEF Inv, ContextType, SlotInv, RunInv, HeldInv
  <2>4. TaskInv'
    <3> SUFFICES ASSUME NEW z \in TCB PROVE TaskAt(z)' /\ OffInv(z)'
      BY DEF TaskInv
    <3>1. TaskAt(z) /\ OffInv(z)
      BY <1>1 DEF Inv, TaskInv
    <3>2. Chosen(z)' <=> Chosen(z)
      BY <2>1 DEF Chosen
    <3> QED
      BY <2>1, <3>1, <3>2, TaskAtStays DEF OffInv
  <2>5. HandlerInv'
    BY <1>1, <2>1 DEF Inv, HandlerInv
  <2>6. ExecInv(kind)'
    BY <1>1, <2>1 DEF Inv, ExecInv
  <2>7. BoundInv' /\ MarkInv(kind)'
    BY <1>1, <2>1 DEF Inv, BoundInv, MarkInv
  <2> QED
    BY <1>1, <2>2, <2>3, <2>4, <2>5, <2>6, <2>7 DEF Inv, IInv
<1>3. CASE Next
  <2>1. PICK c \in Core : \/ kScheduleInInterrupt(c) \/ Handler(c)
                          \/ \E x \in TCB : Kernel(c, x) \/ UserCall(c, x)
    BY <1>3 DEF Next
  <2>2. CASE kScheduleInInterrupt(c) \/ Handler(c)
    BY <1>1, <2>2, HandlerSteps
  <2>3. ASSUME NEW x \in TCB, Kernel(c, x) PROVE IInv'
    BY <1>1, <2>3, KernelStep
  <2>4. ASSUME NEW x \in TCB, UserCall(c, x) PROVE IInv'
    <3>1. CASE Yield(c, x)
      BY <1>1, <3>1, YieldStep DEF IInv
    <3>2. CASE kEndTask(c, x) \/ kChangePriority(c, x) \/ kChangeProcessorAffinity(c, x)
      BY <1>1, <3>2, CallSteps DEF IInv
    <3> QED
      BY <1>1, <2>4, <3>1, <3>2, OtherLabels DEF UserCall
  <2> QED
    BY <2>1, <2>2, <2>3, <2>4
<1> QED
  BY <1>2, <1>3

LEMMA NextAffinity == OwnCallsOnly /\ IInv /\ AffinityInv /\ [Next]_vars => AffinityInv'
<1> SUFFICES ASSUME OwnCallsOnly, IInv, AffinityInv, [Next]_vars PROVE AffinityInv'
  OBVIOUS
<1>1. PICK kind \in [TCB -> Kinds], level \in [TCB -> Priority],
          holder \in [TCB -> Context] : Inv(kind, level, holder)
  BY DEF IInv
<1>2. ASSUME UNCHANGED bAffinity PROVE AffinityInv'
  BY <1>2 DEF AffinityInv
<1>3. CASE UNCHANGED vars
  BY <1>2, <1>3 DEF vars
<1>4. ASSUME NEW c \in Core, kScheduleInInterrupt(c) PROVE UNCHANGED bAffinity
  BY <1>4 DEF kScheduleInInterrupt
<1>5. ASSUME NEW c \in Core, Handler(c) PROVE UNCHANGED bAffinity
  BY <1>5 DEF Handler, Preempted, AddTarget, AddInsert, InterruptReturn
<1>6. ASSUME NEW c \in Core, NEW x \in TCB, UserCall(c, x) PROVE UNCHANGED bAffinity
  BY <1>1, <1>6, OtherLabels
     DEF UserCall, Yield, kEndTask, kChangePriority, kChangeProcessorAffinity
<1>7. ASSUME NEW c \in Core, NEW x \in TCB, Kernel(c, x) PROVE AffinityInv'
  <2>1. CASE AffinityLocked(c, x)
    <3>1. PICK t : t = local[x].id.slot
      OBVIOUS
    <3>2. At(c, x, "lock") /\ local[x].op = "affinity"
      BY <2>1 DEF AffinityLocked, Locked
    <3>3. TaskAt(x) /\ pc[x] = "lock"
      BY <1>1, <3>2, Running DEF Switching
    <3>4. ~Bound(t)
      BY <3>1, <3>2, <3>3 DEF TaskAt, LookingInv, Looking, Bound
    <3>5. bAffinity' = [bAffinity EXCEPT ![t] = local[x].arg]
      BY <2>1, <3>1 DEF AffinityLocked
    <3> QED
      BY <3>4, <3>5 DEF AffinityInv
  <2>2. CASE \/ ScheduleCount(c, x) \/ SchedulePick(c, x) \/ SwitchContext(c, x)
             \/ Find(c, x) \/ Moved(c, x) \/ Elsewhere(c, x)
             \/ EndLocked(c, x) \/ MarkEnd(c, x) \/ EndSelf(c, x)
             \/ PriorityLocked(c, x) \/ MarkPriority(c, x)
    BY <1>2, <2>2 DEF ScheduleCount, SchedulePick, SwitchContext, Find, Moved, Elsewhere,
       EndLocked, MarkEnd, EndSelf, PriorityLocked, MarkPriority
  <2>3. CASE \/ Idle(c, x) \/ IdleTake(c, x) \/ IdleEndChild(c, x) \/ IdleProcess(c, x)
             \/ IdleThread(c, x) \/ UnlinkLocked(c, x) \/ IdleFree(c, x)
    BY <1>2, <2>3 DEF Idle, IdleTake, IdleEndChild, IdleProcess, IdleThread, UnlinkLocked,
       IdleFree
  <2> QED
    BY <1>1, <1>7, <2>1, <2>2, <2>3, OtherLabels, NoMarkAffinity DEF Kernel, Mark
<1> QED
  BY <1>2, <1>3, <1>4, <1>5, <1>6, <1>7 DEF Next

\* The scheduler's invariant: every TCB is in the one place its state says.
THEOREM Invariance == ASSUME OwnCallsOnly PROVE Spec => [](IInv /\ AffinityInv)
<1>1. Init => IInv /\ AffinityInv
  <2>1. Init => AffinityInv
    BY DEF Init, AffinityInv, Bound
  <2> QED
    BY <2>1, InitInv
<1>2. IInv /\ AffinityInv /\ [Next]_vars => (IInv /\ AffinityInv)'
  BY NextInv, NextAffinity
<1> QED
  BY <1>1, <1>2, PTL DEF Spec

(***************************************************************************)
(* Type correctness: the variables the invariant leaves out                *)
(***************************************************************************)
InUse == {t \in TCB : qwID[t] # 0}
RestInv ==
    /\ isProcess \in [TCB -> BOOLEAN] /\ bAffinity \in [TCB -> Core \cup {AnyCore}]
    /\ iAllocatedCount \in Nat /\ iUseCount = Cardinality(InUse)
    /\ calls \in 0 .. MaxCalls

LEMMA InitRest == OwnCallsOnly /\ Init => RestInv
<1> SUFFICES ASSUME OwnCallsOnly, Init PROVE RestInv
  OBVIOUS
<1>1. isProcess \in [TCB -> BOOLEAN] /\ bAffinity \in [TCB -> Core \cup {AnyCore}]
  BY BootAssumption DEF Init
<1>2. InUse = Used
  BY DEF Init, InUse, Used
<1> QED
  BY <1>1, <1>2, CallAssumption DEF Init, RestInv

\* A step that leaves the pool, the processes and the affinities alone.
LEMMA RestStays ==
    ASSUME RestInv, UNCHANGED <<pool, isProcess, bAffinity>>, calls' \in 0 .. MaxCalls
    PROVE  RestInv'
<1>1. InUse' = InUse
  BY DEF InUse, pool
<1> QED
  BY <1>1 DEF RestInv, pool

LEMMA RestOfCalls ==
    ASSUME OwnCallsOnly, IInv, RestInv, NEW c \in Core, NEW x \in TCB, UserCall(c, x)
    PROVE  RestInv'
<1>1. PICK kind \in [TCB -> Kinds], level \in [TCB -> Priority],
          holder \in [TCB -> Context] : Inv(kind, level, holder)
  BY DEF IInv
<1>2. Yield(c, x) \/ kEndTask(c, x) \/ kChangePriority(c, x) \/ kChangeProcessorAffinity(c, x)
  BY <1>1, OtherLabels DEF UserCall
<1>3. calls' \in 0 .. MaxCalls
  <2>1. calls' = calls \/ (calls < MaxCalls /\ calls' = calls + 1)
    BY <1>2 DEF Yield, kEndTask, kChangePriority, kChangeProcessorAffinity, Call
  <2> QED
    BY <2>1, CallAssumption DEF RestInv
<1>4. UNCHANGED <<pool, isProcess, bAffinity>>
  BY <1>2 DEF Yield, kEndTask, kChangePriority, kChangeProcessorAffinity, flags
<1> QED
  BY <1>3, <1>4, RestStays

LEMMA RestOfFree ==
    ASSUME OwnCallsOnly, IInv, RestInv, NEW c \in Core, NEW x \in TCB, IdleFree(c, x)
    PROVE  RestInv'
<1> DEFINE t == local[x].task
<1>1. PICK kind \in [TCB -> Kinds], level \in [TCB -> Priority],
          holder \in [TCB -> Context] : Inv(kind, level, holder)
  BY DEF IInv
<1>2. t \in TCB /\ kind[t] = "held"
  BY <1>1, HeldByIdle DEF IdleFree
<1>3. t \in InUse
  BY <1>1, <1>2 DEF InUse, Inv, SlotInv
<1>4. /\ qwID' = [qwID EXCEPT ![t] = 0] /\ iUseCount' = iUseCount - 1
      /\ UNCHANGED <<iAllocatedCount, isProcess, links, bAffinity, calls>>
  BY DEF IdleFree, kFreeTCB, flags
<1>5. qwID \in [TCB -> {0, 1}]
  BY <1>1 DEF Inv, KernelType
<1> HIDE DEF t
<1>6. InUse' = InUse \ {t}
  BY <1>2, <1>4, <1>5 DEF InUse
<1>7. IsFiniteSet(InUse)
  BY BootAssumption, FS_Subset DEF InUse
<1>8. Cardinality(InUse') = Cardinality(InUse) - 1
  BY <1>3, <1>6, <1>7, FS_RemoveElement
<1> QED
  BY <1>4, <1>8 DEF RestInv, links

LEMMA RestOfAffinity ==
    ASSUME IInv, RestInv, NEW c \in Core, NEW x \in TCB, AffinityLocked(c, x)
    PROVE  RestInv'
<1>1. PICK kind \in [TCB -> Kinds], level \in [TCB -> Priority],
          holder \in [TCB -> Context] : Inv(kind, level, holder)
  BY DEF IInv
<1>2. pc[x] = "lock" /\ TaskAt(x) /\ local[x].op = "affinity"
  BY <1>1, Running DEF AffinityLocked, Locked, Switching
<1>3. local[x].arg \in Core \cup {AnyCore}
  BY <1>2, CallAssumption DEF TaskAt, LookingInv, Looking
<1>4. /\ bAffinity' = [bAffinity EXCEPT ![local[x].id.slot] = local[x].arg]
      /\ UNCHANGED <<pool, flags, links, calls>>
  BY DEF AffinityLocked
<1>5. bAffinity' \in [TCB -> Core \cup {AnyCore}]
  BY <1>3, <1>4 DEF RestInv
<1>6. InUse' = InUse
  BY <1>4 DEF InUse, pool
<1> QED
  BY <1>4, <1>5, <1>6 DEF RestInv, pool, flags, links

LEMMA RestOfOthers ==
    ASSUME RestInv, NEW c \in Core, NEW x \in TCB,
           \/ kScheduleInInterrupt(c) \/ Handler(c)
           \/ ScheduleCount(c, x) \/ SchedulePick(c, x) \/ SwitchContext(c, x)
           \/ Find(c, x) \/ Moved(c, x) \/ Elsewhere(c, x)
           \/ EndLocked(c, x) \/ MarkEnd(c, x) \/ EndSelf(c, x)
           \/ PriorityLocked(c, x) \/ MarkPriority(c, x)
           \/ Idle(c, x) \/ IdleTake(c, x) \/ IdleEndChild(c, x) \/ IdleProcess(c, x)
           \/ IdleThread(c, x) \/ UnlinkLocked(c, x)
    PROVE  RestInv'
<1>1. CASE kScheduleInInterrupt(c) \/ Handler(c)
  <2>1. UNCHANGED <<pool, isProcess, bAffinity, calls>>
    BY <1>1 DEF kScheduleInInterrupt, Handler, Preempted, AddTarget, AddInsert,
                InterruptReturn, flags
  <2> QED
    BY <2>1, RestStays DEF RestInv
<1>2. CASE \/ ScheduleCount(c, x) \/ SchedulePick(c, x) \/ SwitchContext(c, x)
           \/ Find(c, x) \/ Moved(c, x) \/ Elsewhere(c, x) \/ EndSelf(c, x)
  <2>1. UNCHANGED <<pool, isProcess, bAffinity, calls>>
    BY <1>2 DEF ScheduleCount, SchedulePick, SwitchContext, Find, Moved, Elsewhere, EndSelf,
                flags
  <2> QED
    BY <2>1, RestStays DEF RestInv
<1>3. CASE \/ EndLocked(c, x) \/ MarkEnd(c, x)
           \/ PriorityLocked(c, x) \/ MarkPriority(c, x)
  <2>1. UNCHANGED <<pool, isProcess, bAffinity, calls>>
    BY <1>3 DEF EndLocked, MarkEnd, PriorityLocked, MarkPriority, SetEndTask, flags
  <2> QED
    BY <2>1, RestStays DEF RestInv
<1>4. CASE \/ Idle(c, x) \/ IdleTake(c, x) \/ IdleEndChild(c, x) \/ IdleProcess(c, x)
           \/ IdleThread(c, x) \/ UnlinkLocked(c, x)
  <2>1. UNCHANGED <<pool, isProcess, bAffinity, calls>>
    BY <1>4 DEF Idle, IdleTake, IdleEndChild, IdleProcess, IdleThread, UnlinkLocked, flags
  <2> QED
    BY <2>1, RestStays DEF RestInv
<1> QED
  BY <1>1, <1>2, <1>3, <1>4

LEMMA NextRest == OwnCallsOnly /\ IInv /\ RestInv /\ [Next]_vars => RestInv'
<1> SUFFICES ASSUME OwnCallsOnly, IInv, RestInv, [Next]_vars PROVE RestInv'
  OBVIOUS
<1>1. CASE UNCHANGED vars
  <2>1. UNCHANGED <<pool, isProcess, bAffinity, calls>>
    BY <1>1 DEF vars, flags
  <2> QED
    BY <2>1, RestStays DEF RestInv
<1>2. CASE Next
  <2>1. PICK c \in Core : \/ kScheduleInInterrupt(c) \/ Handler(c)
                          \/ \E x \in TCB : Kernel(c, x) \/ UserCall(c, x)
    BY <1>2 DEF Next
  <2>2. CASE kScheduleInInterrupt(c) \/ Handler(c)
    <3>1. BootRunning[c] \in TCB
      BY BootAssumption
    <3> QED
      BY <2>2, <3>1, RestOfOthers
  <2>3. ASSUME NEW x \in TCB, Kernel(c, x) PROVE RestInv'
    <3>1. PICK kind \in [TCB -> Kinds], level \in [TCB -> Priority],
          holder \in [TCB -> Context] : Inv(kind, level, holder)
      BY DEF IInv
    <3>2. /\ ~ExitRead(c, x) /\ ~CreateStack(c, x) /\ ~CreateLink(c, x)
          /\ ~CreateSetUp(c, x) /\ ~AddTarget(c, x) /\ ~AddInsert(c, x)
          /\ ~MarkAffinity(c, x)
      BY <3>1, OtherLabels, NoMarkAffinity
    <3> QED
      BY <2>3, <3>2, RestOfOthers, RestOfFree, RestOfAffinity DEF Kernel, Mark
  <2>4. ASSUME NEW x \in TCB, UserCall(c, x) PROVE RestInv'
    BY <2>4, RestOfCalls
  <2> QED
    BY <2>1, <2>2, <2>3, <2>4
<1> QED
  BY <1>1, <1>2

\* Every variable of the kernel keeps its type, under the same proviso: among
\* them the count of TCBs in use, which never falls below zero, and the child
\* lists, which hold a thread at most once.
THEOREM TypeCorrect == ASSUME OwnCallsOnly PROVE Spec => []TypeOK
<1>1. Init => RestInv
  BY InitRest
<1>2. IInv /\ RestInv /\ [Next]_vars => RestInv'
  BY NextRest
<1>3. ASSUME IInv, RestInv PROVE TypeOK
  <2>1. KernelType /\ ContextType
    BY <1>3 DEF IInv, Inv
  <2>2. bPriority \in [TCB -> 0 .. NPriority \cup {WAIT}] /\ qwID \in [TCB -> Nat]
    <3>1. Priority \subseteq 0 .. NPriority
      BY PriorityAssumption DEF Priority
    <3>2. bPriority \in [TCB -> Priority \cup {WAIT}] /\ qwID \in [TCB -> {0, 1}]
      BY <2>1 DEF KernelType
    <3>3. bPriority \in [TCB -> 0 .. NPriority \cup {WAIT}]
      <4>1. Priority \cup {WAIT} \subseteq 0 .. NPriority \cup {WAIT}
        BY <3>1
      <4> DEFINE S == Priority \cup {WAIT}
                 T == 0 .. NPriority \cup {WAIT}
      <4> HIDE DEF S, T
      <4>2. bPriority \in [TCB -> S] /\ S \subseteq T
        BY <3>2, <4>1 DEF S, T
      <4>3. bPriority \in [TCB -> T]
        BY <4>2
      <4> QED
        BY <4>3 DEF T
    <3>4. qwID \in [TCB -> Nat]
      BY <3>2
    <3> QED
      BY <3>3, <3>4
  <2>3. /\ \A c \in Core, p \in Priority : Range(vstReadyList[c][p]) \subseteq TCB
        /\ \A c \in Core : Range(stWaitList[c]) \subseteq TCB
    <3>1. \A list \in Seq(TCB) : Range(list) \subseteq TCB
      BY DEF Range
    <3>2. /\ \A c \in Core, p \in Priority : vstReadyList[c][p] \in Seq(TCB)
          /\ \A c \in Core : stWaitList[c] \in Seq(TCB)
      BY <2>1 DEF KernelType
    <3> QED
      BY <3>1, <3>2
  <2>4. iUseCount \in Nat
    <3>1. IsFiniteSet(InUse)
      BY BootAssumption, FS_Subset DEF InUse
    <3> QED
      BY <1>3, <3>1, FS_CardinalityType DEF RestInv
  <2>5. \A t \in TCB : IsInjective(stChildThreadList[t])
    BY <1>3 DEF IInv, Inv, EndInv, IsList
  <2> QED
    BY <1>3, <2>1, <2>2, <2>3, <2>4, <2>5 DEF TypeOK, KernelType, ContextType, RestInv
<1> QED
  BY <1>1, <1>2, <1>3, Invariance, PTL DEF Spec

(***************************************************************************)
(* What it says of the tasks and the cores                                 *)
(***************************************************************************)
LEMMA RunPlace ==
    ASSUME NEW kind, NEW level, NEW holder, Inv(kind, level, holder), NEW t \in TCB
    PROVE  IF kind[t] = "run" THEN \E w : RunPlaces(t) = {w} ELSE RunPlaces(t) = {}
<1>1. \A c \in Core : pstRunningTask[c] = t <=> kind[t] = "run" /\ bAPICID[t] = c
  BY DEF Inv, RunInv
<1>2. bAPICID[t] \in Core
  BY DEF Inv, KernelType
<1>3. CASE kind[t] = "run"
  <2>1. RunPlaces(t) = {<<"run", bAPICID[t]>>}
    BY <1>1, <1>2, <1>3 DEF RunPlaces
  <2> QED
    BY <1>3, <2>1
<1>4. CASE kind[t] # "run"
  <2>1. RunPlaces(t) = {}
    BY <1>1, <1>4 DEF RunPlaces
  <2> QED
    BY <1>4, <2>1
<1> QED
  BY <1>3, <1>4

LEMMA ReadyPlace ==
    ASSUME NEW kind, NEW level \in [TCB -> Priority], NEW holder,
           Inv(kind, level, holder), NEW t \in TCB
    PROVE  IF kind[t] = "ready" THEN \E w : ReadyPlaces(t) = {w} ELSE ReadyPlaces(t) = {}
<1>1. \A c \in Core, p \in Priority : IsList(vstReadyList[c][p], ReadyTasks(kind, level, c, p))
  BY DEF Inv, ListInv
<1>2. \A w : w \in ReadyPlaces(t) <=>
        \E c \in Core, p \in Priority : \E i \in DOMAIN vstReadyList[c][p] :
            vstReadyList[c][p][i] = t /\ w = <<"ready", c, p, i>>
  BY DEF ReadyPlaces
<1>3. \A c \in Core, p \in Priority : \A i \in DOMAIN vstReadyList[c][p] :
         vstReadyList[c][p][i] = t => kind[t] = "ready" /\ bAPICID[t] = c /\ level[t] = p
  BY <1>1 DEF IsList, ReadyTasks, Range
<1>4. CASE kind[t] = "ready"
  <2>1. PICK d \in Core, q \in Priority : bAPICID[t] = d /\ level[t] = q
    BY <1>4 DEF Inv, KernelType, EndInv
  <2>2. t \in Range(vstReadyList[d][q]) /\ IsInjective(vstReadyList[d][q])
    BY <1>1, <1>4, <2>1 DEF IsList, ReadyTasks
  <2>3. PICK j \in DOMAIN vstReadyList[d][q] : vstReadyList[d][q][j] = t
    BY <2>2 DEF Range
  <2>4. \A i \in DOMAIN vstReadyList[d][q] : vstReadyList[d][q][i] = t => i = j
    BY <2>2, <2>3 DEF IsInjective
  <2>5. <<"ready", d, q, j>> \in ReadyPlaces(t)
    BY <1>2, <2>1, <2>3
  <2>6. ASSUME NEW w \in ReadyPlaces(t) PROVE w = <<"ready", d, q, j>>
    <3>1. PICK c \in Core, p \in Priority :
             \E i \in DOMAIN vstReadyList[c][p] :
                 vstReadyList[c][p][i] = t /\ w = <<"ready", c, p, i>>
      BY <1>2, <2>6
    <3>2. PICK i \in DOMAIN vstReadyList[c][p] :
             vstReadyList[c][p][i] = t /\ w = <<"ready", c, p, i>>
      BY <3>1
    <3>3. c = d /\ p = q
      BY <1>3, <2>1, <3>2
    <3>4. i = j
      BY <2>4, <3>2, <3>3
    <3> QED
      BY <3>2, <3>3, <3>4
  <2>7. ReadyPlaces(t) = {<<"ready", d, q, j>>}
    BY <2>5, <2>6
  <2> QED
    BY <1>4, <2>7
<1>5. CASE kind[t] # "ready"
  <2>1. \A w : w \notin ReadyPlaces(t)
    BY <1>2, <1>3, <1>5
  <2>2. ReadyPlaces(t) = {}
    BY <2>1
  <2> QED
    BY <1>5, <2>2
<1> QED
  BY <1>4, <1>5

LEMMA WaitPlace ==
    ASSUME NEW kind, NEW level, NEW holder, Inv(kind, level, holder), NEW t \in TCB
    PROVE  IF kind[t] = "wait" THEN \E w : WaitPlaces(t) = {w} ELSE WaitPlaces(t) = {}
<1>1. \A c \in Core : IsList(stWaitList[c], WaitTasks(kind, c))
  BY DEF Inv, ListInv
<1>2. \A w : w \in WaitPlaces(t) <=>
        \E c \in Core : \E i \in DOMAIN stWaitList[c] :
            stWaitList[c][i] = t /\ w = <<"wait", c, i>>
  BY DEF WaitPlaces
<1>3. \A c \in Core : \A i \in DOMAIN stWaitList[c] :
         stWaitList[c][i] = t => kind[t] = "wait" /\ bAPICID[t] = c
  BY <1>1 DEF IsList, WaitTasks, Range
<1>4. CASE kind[t] = "wait"
  <2>1. PICK d \in Core : bAPICID[t] = d
    BY DEF Inv, KernelType
  <2>2. t \in Range(stWaitList[d]) /\ IsInjective(stWaitList[d])
    BY <1>1, <1>4, <2>1 DEF IsList, WaitTasks
  <2>3. PICK j \in DOMAIN stWaitList[d] : stWaitList[d][j] = t
    BY <2>2 DEF Range
  <2>4. \A i \in DOMAIN stWaitList[d] : stWaitList[d][i] = t => i = j
    BY <2>2, <2>3 DEF IsInjective
  <2>5. <<"wait", d, j>> \in WaitPlaces(t)
    BY <1>2, <2>1, <2>3
  <2>6. ASSUME NEW w \in WaitPlaces(t) PROVE w = <<"wait", d, j>>
    <3>1. PICK c \in Core :
             \E i \in DOMAIN stWaitList[c] : stWaitList[c][i] = t /\ w = <<"wait", c, i>>
      BY <1>2, <2>6
    <3>2. PICK i \in DOMAIN stWaitList[c] : stWaitList[c][i] = t /\ w = <<"wait", c, i>>
      BY <3>1
    <3>3. c = d
      BY <1>3, <2>1, <3>2
    <3>4. i = j
      BY <2>4, <3>2, <3>3
    <3> QED
      BY <3>2, <3>3, <3>4
  <2>7. WaitPlaces(t) = {<<"wait", d, j>>}
    BY <2>5, <2>6
  <2> QED
    BY <1>4, <2>7
<1>5. CASE kind[t] # "wait"
  <2>1. \A w : w \notin WaitPlaces(t)
    BY <1>2, <1>3, <1>5
  <2>2. WaitPlaces(t) = {}
    BY <2>1
  <2> QED
    BY <1>5, <2>2
<1> QED
  BY <1>4, <1>5

LEMMA HeldPlace ==
    ASSUME NEW kind, NEW level, NEW holder \in [TCB -> Context], Inv(kind, level, holder), NEW t \in TCB
    PROVE  IF kind[t] = "held" THEN \E w : HeldPlaces(t) = {w} ELSE HeldPlaces(t) = {}
<1>1. \A z \in Context : local[z].task = t <=> kind[t] = "held" /\ holder[t] = z
  BY DEF Inv, HeldInv
<1>2. holder[t] \in Context
  OBVIOUS
<1>3. CASE kind[t] = "held"
  <2>1. HeldPlaces(t) = {<<"held", holder[t]>>}
    BY <1>1, <1>2, <1>3 DEF HeldPlaces
  <2> QED
    BY <1>3, <2>1
<1>4. CASE kind[t] # "held"
  <2>1. HeldPlaces(t) = {}
    BY <1>1, <1>4 DEF HeldPlaces
  <2> QED
    BY <1>4, <2>1
<1> QED
  BY <1>3, <1>4

LEMMA PlacesOfTask ==
    ASSUME IInv, NEW t \in TCB
    PROVE  \/ qwID[t] = 0 /\ Places(t) = {}
           \/ qwID[t] # 0 /\ \E w : Places(t) = {w}
<1>1. PICK kind \in [TCB -> Kinds], level \in [TCB -> Priority],
          holder \in [TCB -> Context] : Inv(kind, level, holder)
  BY DEF IInv
<1>2. kind[t] \in {"free", "run", "ready", "wait", "held"}
  BY <1>1 DEF Kinds
<1>3. qwID[t] = 0 <=> kind[t] = "free"
  BY <1>1 DEF Inv, SlotInv
<1>4. /\ kind[t] # "run" => RunPlaces(t) = {}
      /\ kind[t] # "ready" => ReadyPlaces(t) = {}
      /\ kind[t] # "wait" => WaitPlaces(t) = {}
      /\ kind[t] # "held" => HeldPlaces(t) = {}
  BY <1>1, RunPlace, ReadyPlace, WaitPlace, HeldPlace
<1>5. CASE kind[t] = "free"
  <2>1. Places(t) = {}
    BY <1>4, <1>5 DEF Places
  <2> QED
    BY <1>3, <1>5, <2>1
<1>6. CASE kind[t] = "run"
  <2>1. Places(t) = RunPlaces(t)
    BY <1>4, <1>6 DEF Places
  <2> QED
    BY <1>1, <1>3, <1>6, <2>1, RunPlace
<1>7. CASE kind[t] = "ready"
  <2>1. Places(t) = ReadyPlaces(t)
    BY <1>4, <1>7 DEF Places
  <2> QED
    BY <1>1, <1>3, <1>7, <2>1, ReadyPlace
<1>8. CASE kind[t] = "wait"
  <2>1. Places(t) = WaitPlaces(t)
    BY <1>4, <1>8 DEF Places
  <2> QED
    BY <1>1, <1>3, <1>8, <2>1, WaitPlace
<1>9. CASE kind[t] = "held"
  <2>1. Places(t) = HeldPlaces(t)
    BY <1>4, <1>9 DEF Places
  <2> QED
    BY <1>1, <1>3, <1>9, <2>1, HeldPlace
<1> QED
  BY <1>2, <1>5, <1>6, <1>7, <1>8, <1>9

\* No task is lost and none is in two lists (or twice in one): from
\* kAllocateTCB to kFreeTCB a task is in exactly one place, whatever the
\* number of cores, tasks and priorities and however their steps interleave.
\* NoTaskLostOrDoubled without its exception, which needs a task that ends another.
OnePlaceEach ==
    \A t \in TCB : Cardinality(Places(t)) = IF qwID[t] = 0 THEN 0 ELSE 1
THEOREM NoTaskLost ==
    ASSUME OwnCallsOnly PROVE Spec => [](OnePlaceEach /\ NoTaskLostOrDoubled)
<1>1. ASSUME IInv PROVE OnePlaceEach /\ NoTaskLostOrDoubled
  <2> SUFFICES ASSUME NEW t \in TCB
               PROVE  Cardinality(Places(t)) = IF qwID[t] = 0 THEN 0 ELSE 1
    BY DEF OnePlaceEach, NoTaskLostOrDoubled
  <2>1. CASE qwID[t] = 0
    <3>1. Places(t) = {}
      BY <1>1, <2>1, PlacesOfTask
    <3> QED
      BY <2>1, <3>1, FS_EmptySet
  <2>2. CASE qwID[t] # 0
    <3>1. PICK w : Places(t) = {w}
      BY <1>1, <2>2, PlacesOfTask
    <3>2. Cardinality({w}) = 1
      BY FS_Singleton
    <3> QED
      BY <2>2, <3>1, <3>2
  <2> QED
    BY <2>1, <2>2
<1> QED
  BY <1>1, Invariance, PTL

\* The ready lists agree with the TCBs: a task is in the list that its core ID
\* and its priority name, by which kEndTask and kChangePriority find it, and it
\* has not ended.  The one exception is a task whose priority was changed under the
\* lock of a core it had left, until it is inserted again.
THEOREM ReadyLists == ASSUME OwnCallsOnly PROVE Spec => []ReadyListsConsistent
<1>1. ASSUME IInv PROVE ReadyListsConsistent
  <2>1. PICK kind \in [TCB -> Kinds], level \in [TCB -> Priority],
          holder \in [TCB -> Context] : Inv(kind, level, holder)
    BY <1>1 DEF IInv
  <2> SUFFICES ASSUME NEW c \in Core, NEW p \in Priority, NEW t \in Range(vstReadyList[c][p])
               PROVE  bAPICID[t] = c /\ (t \in late \/ (~endTask[t] /\ bPriority[t] = p))
    BY DEF ReadyListsConsistent
  <2>2. t \in ReadyTasks(kind, level, c, p)
    BY <2>1 DEF Inv, ListInv, IsList
  <2> QED
    BY <2>1, <2>2 DEF Inv, EndInv, ReadyTasks
<1> QED
  BY <1>1, Invariance, PTL

\* What the cores execute: two cores never execute one task, a core's scheduler
\* knows what the core executes, and a task in a wait list has stopped for good
\* or is just being switched from.
THEOREM Execution == ASSUME OwnCallsOnly PROVE Spec => []ExecutionIsConsistent
<1>1. ASSUME IInv PROVE ExecutionIsConsistent
  <2>1. PICK kind \in [TCB -> Kinds], level \in [TCB -> Priority],
          holder \in [TCB -> Context] : Inv(kind, level, holder)
    BY <1>1 DEF IInv
  <2>2. ASSUME NEW c \in Core, pc[c] = "none"
        PROVE  executing[c] \in TCB /\ Runs(c, executing[c])
    BY <2>1, <2>2 DEF Inv, ContextType, Runs
  <2>3. OneCoreExecutes
    <3> SUFFICES ASSUME NEW c \in Core, NEW d \in Core, pc[c] = "none", pc[d] = "none",
                        executing[c] = executing[d]
                 PROVE  c = d
      BY DEF OneCoreExecutes
    <3> QED
      BY <2>1, <2>2, OnCore
  <2>4. RunningTaskIsKnown
    <3> SUFFICES ASSUME NEW c \in Core
                 PROVE  /\ bAPICID[pstRunningTask[c]] = c
                        /\ pc[c] = "none" /\ pc[executing[c]] \notin Switching
                           => pstRunningTask[c] = executing[c]
      BY DEF RunningTaskIsKnown, Switching
    <3>1. bAPICID[pstRunningTask[c]] = c
      BY <2>1 DEF Inv, KernelType, RunInv
    <3>2. pc[c] = "none" /\ pc[executing[c]] \notin Switching
             => pstRunningTask[c] = executing[c]
      BY <2>1 DEF Inv, ExecInv
    <3> QED
      BY <3>1, <3>2
  <2>5. WaitingTaskHasStopped
    <3> SUFFICES ASSUME NEW c \in Core, NEW d \in Core, NEW t \in Range(stWaitList[c])
                 PROVE  /\ endTask[t]
                        /\ pc[d] = "none" /\ executing[d] = t
                              => c = d /\ pc[t] \in {"switch", "switchNull"}
      BY DEF WaitingTaskHasStopped
    <3>1. t \in TCB /\ kind[t] = "wait" /\ bAPICID[t] = c
      BY <2>1 DEF Inv, ListInv, IsList, WaitTasks
    <3>2. endTask[t]
      BY <2>1, <3>1 DEF Inv, EndInv
    <3>3. ASSUME pc[d] = "none", executing[d] = t
          PROVE  c = d /\ pc[t] \in {"switch", "switchNull"}
      <4>1. Runs(d, t)
        BY <3>3 DEF Runs
      <4> QED
        BY <2>1, <3>1, <4>1, OnCore DEF Switching
    <3> QED
      BY <3>2, <3>3
  <2> QED
    BY <2>3, <2>4, <2>5 DEF ExecutionIsConsistent
<1> QED
  BY <1>1, Invariance, PTL

\* The idle task never frees a task that a core executes or will load.
THEOREM NoFreedTask == ASSUME OwnCallsOnly PROVE Spec => []NoFreedTaskExecutes
<1>1. ASSUME IInv PROVE NoFreedTaskExecutes
  <2>1. PICK kind \in [TCB -> Kinds], level \in [TCB -> Priority],
          holder \in [TCB -> Context] : Inv(kind, level, holder)
    BY <1>1 DEF IInv
  <2> SUFFICES ASSUME NEW c \in Core
               PROVE  /\ qwID[pstRunningTask[c]] # 0
                      /\ pc[c] = "none" => qwID[executing[c]] # 0
    BY DEF NoFreedTaskExecutes
  <2>2. pstRunningTask[c] \in TCB /\ kind[pstRunningTask[c]] = "run"
    BY <2>1 DEF Inv, KernelType, RunInv
  <2>3. ASSUME pc[c] = "none" PROVE executing[c] \in TCB /\ kind[executing[c]] # "free"
    <3>1. executing[c] \in TCB /\ Runs(c, executing[c])
      BY <2>1, <2>3 DEF Inv, ContextType, Runs
    <3> QED
      BY <2>1, <3>1, OnCore
  <2> QED
    BY <2>1, <2>2, <2>3 DEF Inv, SlotInv
<1> QED
  BY <1>1, Invariance, PTL

(***************************************************************************)
(* An ended task is switched from for good.  At the end of kEndTask it     *)
(* calls kSchedule, which returns when no other task is ready on its core: *)
(* the idle task always is, since it never leaves its core.                *)
(***************************************************************************)
IdleLabels == {"idle", "take", "schedCount", "schedPick", "switch"} \cup Looking \cup Cleaning

\* An idle task is in kIdleTask for ever; it ends the threads of a process only.
IdleInv ==
    \A t \in Used : Boot[t].idle =>
        /\ pc[t] \in IdleLabels
        /\ pc[t] \in InterruptsOff \ Looking => local[t].ret = "idle"
        /\ pc[t] \in Looking => local[t].op \in {"unlink", "endChild"}

\* Only an ended task has the code after kEndTask's kSchedule to return to, and
\* its context is not saved.
DeadInv ==
    \A x \in TCB : /\ pc[x] # "dead"
                   /\ local[x].ret = "dead" => endTask[x] /\ pc[x] # "switch"

LEMMA InitIdle == Init => IdleInv /\ DeadInv
<1> SUFFICES ASSUME Init PROVE IdleInv /\ DeadInv
  OBVIOUS
<1> USE Contexts
<1>1. \A z \in Context : local[z] = Blank
  BY DEF Init
<1>2. IdleInv
  <2> SUFFICES ASSUME NEW t \in Used, Boot[t].idle PROVE pc[t] = "idle"
    BY DEF IdleInv, IdleLabels, InterruptsOff, Looking
  <2> QED
    BY DEF Init, Used
<1>3. DeadInv
  <2> SUFFICES ASSUME NEW x \in TCB PROVE pc[x] # "dead" /\ local[x].ret # "dead"
    BY DEF DeadInv
  <2>1. pc[x] # "dead"
    BY DEF Init
  <2> QED
    BY <1>1, <2>1, BlankFrame
<1> QED
  BY <1>2, <1>3

\* Nobody ends an idle task, and it stays on its core.
LEMMA IdleLives ==
    ASSUME OwnCallsOnly, NEW kind, NEW level, NEW holder, Inv(kind, level, holder),
           NEW t \in TCB, Boot[t].idle
    PROVE  /\ ~endTask[t] /\ bAPICID[t] = Boot[t].core
           /\ t \in Used => kind[t] # "free"
<1>1. Bound(t) /\ ~Mortal(t)
  BY DEF OwnCallsOnly, Mortal
<1>2. ~endTask[t]
  BY <1>1 DEF Inv, EndInv
<1> QED
  BY <1>1, <1>2 DEF Inv, EndInv, BoundInv

\* When a core executes an ended task, its idle task is ready there.
LEMMA IdleIsReady ==
    ASSUME OwnCallsOnly, NEW kind \in [TCB -> Kinds], NEW level \in [TCB -> Priority],
           NEW holder \in [TCB -> Context],
           Inv(kind, level, holder), NEW c \in Core, NEW x \in TCB, Runs(c, x),
           pc[x] \notin Switching, endTask[x]
    PROVE  Waiting(c) # {}
<1>1. PICK t \in TCB : t \in Used /\ Boot[t].idle /\ Boot[t].core = c
  BY IdleAssumption DEF IdleOf, Used
<1>2. ~endTask[t] /\ bAPICID[t] = c /\ kind[t] # "free"
  BY <1>1, IdleLives
<1>3. t # x
  BY <1>2
<1>4. pc[c] = "none" /\ pstRunningTask[c] = x
  BY OnCore
<1>5. kind[t] # "run" /\ kind[t] # "wait"
  <2>1. kind[t] # "run"
    BY <1>2, <1>3, <1>4 DEF Inv, RunInv
  <2>2. kind[t] # "wait"
    BY <1>2 DEF Inv, EndInv
  <2> QED
    BY <2>1, <2>2
<1>6. kind[t] # "held"
  <2> SUFFICES ASSUME kind[t] = "held" PROVE FALSE
    OBVIOUS
  <2>1. holder[t] \in Context /\ local[holder[t]].task = t
    BY DEF Inv, HeldInv
  <2>2. holder[t] \notin TCB
    BY <1>2 DEF Inv, EndInv
  <2>3. PICK d \in Core : d = holder[t]
    BY <2>1, <2>2 DEF Context
  <2>4. pc[d] \in Given
    BY <2>1, <2>3, Contexts DEF Inv, HandlerInv
  <2>5. d = c
    BY <1>2, <2>1, <2>3, <2>4 DEF Inv, HandlerInv
  <2> QED
    BY <1>4, <2>4, <2>5 DEF Given
<1>7. kind[t] = "ready"
  BY <1>2, <1>5, <1>6 DEF Kinds
<1>8. t \in ReadyTasks(kind, level, c, level[t]) /\ level[t] \in Priority
  BY <1>2, <1>7 DEF ReadyTasks
<1>9. vstReadyList[c][level[t]] # <<>>
  BY <1>8, ListOfNone DEF Inv, ListInv
<1> QED
  BY <1>8, <1>9 DEF Waiting

\* A step of task x that leaves an idle task in its loop.
LEMMA IdleStays ==
    ASSUME NEW kind, NEW level, NEW holder, Inv(kind, level, holder), IdleInv, DeadInv, NEW x \in TCB,
           NEW l, l # "dead", NEW f, Goto(x, l), Set(x, f),
           \A z \in TCB : endTask[z] => endTask'[z],
           x \in Used /\ Boot[x].idle =>
              /\ l \in IdleLabels
              /\ l \in InterruptsOff \ Looking => f.ret = "idle"
              /\ l \in Looking => f.op \in {"unlink", "endChild"},
           f.ret = "dead" => endTask'[x] /\ l # "switch"
    PROVE  IdleInv' /\ DeadInv'
<1> USE Contexts
<1>1. pc'[x] = l /\ local'[x] = f
  BY GotoAndSet
<1>2. \A z \in Context : z # x => pc'[z] = pc[z] /\ local'[z] = local[z]
  BY DEF Goto, Set, Inv, ContextType
<1>3. IdleInv'
  <2> SUFFICES ASSUME NEW t \in Used, Boot[t].idle
               PROVE  /\ pc'[t] \in IdleLabels
                      /\ pc'[t] \in InterruptsOff \ Looking => local'[t].ret = "idle"
                      /\ pc'[t] \in Looking => local'[t].op \in {"unlink", "endChild"}
    BY DEF IdleInv
  <2>1. CASE t = x
    BY <1>1, <2>1
  <2>2. CASE t # x
    BY <1>2, <2>2 DEF IdleInv, Used
  <2> QED
    BY <2>1, <2>2
<1>4. DeadInv'
  <2> SUFFICES ASSUME NEW z \in TCB
               PROVE  /\ pc'[z] # "dead"
                      /\ local'[z].ret = "dead" => endTask'[z] /\ pc'[z] # "switch"
    BY DEF DeadInv
  <2>1. CASE z = x
    BY <1>1, <2>1
  <2>2. CASE z # x
    BY <1>2, <2>2 DEF DeadInv
  <2> QED
    BY <2>1, <2>2
<1> QED
  BY <1>3, <1>4

\* kSchedule and the switch: a task that ended goes to the wait list.
LEMMA IdleOfSchedule ==
    ASSUME OwnCallsOnly, NEW kind \in [TCB -> Kinds], NEW level \in [TCB -> Priority],
           NEW holder \in [TCB -> Context],
           Inv(kind, level, holder), IdleInv, DeadInv, NEW c \in Core, NEW x \in TCB,
           ScheduleCount(c, x) \/ SchedulePick(c, x) \/ SwitchContext(c, x)
    PROVE  IdleInv' /\ DeadInv'
<1> USE DEF IdleLabels, InterruptsOff, Looking, Cleaning, Switching
<1>1. /\ Runs(c, x) /\ pc[x] \in {"schedCount", "schedPick", "switch", "switchNull"}
      /\ local[x] \in Frame /\ local[x].ret \in {"run", "idle", "dead", "iret"}
  <2>1. Runs(c, x) /\ pc[x] \in {"schedCount", "schedPick", "switch", "switchNull"}
    BY DEF ScheduleCount, SchedulePick, SwitchContext, At
  <2>2. local[x] \in Frame
    BY Contexts, ContextTypes
  <2> QED
    BY <2>1, <2>2 DEF Frame
<1>2. UNCHANGED endTask
  BY DEF ScheduleCount, SchedulePick, SwitchContext, flags
<1>3. local[x].ret = "dead" => endTask[x] /\ pc[x] # "switch"
  BY DEF DeadInv
<1>4. x \in Used /\ Boot[x].idle => ~endTask[x] /\ local[x].ret = "idle" /\ pc[x] # "switchNull"
  <2>1. Boot[x].idle => ~endTask[x]
    BY IdleLives
  <2> QED
    BY <1>1, <2>1 DEF IdleInv
<1>5. ASSUME Waiting(c) = {}, Return(x), pc[x] \notin Switching PROVE IdleInv' /\ DeadInv'
  <2>1. Goto(x, local[x].ret) /\ Set(x, Blank)
    BY <1>5 DEF Return
  <2>2. ~endTask[x]
    BY <1>1, <1>5, IdleIsReady
  <2>3. local[x].ret # "dead" /\ Blank.ret # "dead"
    BY <1>3, <2>2, BlankFrame
  <2> QED
    BY <1>2, <1>4, <2>1, <2>3, IdleStays
<1>6. CASE ScheduleCount(c, x)
  <2>1. CASE Waiting(c) = {} /\ Return(x)
    BY <1>5, <1>6, <2>1 DEF ScheduleCount, At
  <2>2. CASE Goto(x, "schedPick") /\ UNCHANGED local
    <3>1. Set(x, local[x])
      BY <2>2, StaysAsItIs
    <3> QED
      BY <1>2, <1>3, <1>4, <2>2, <3>1, IdleStays
  <2> QED
    BY <1>6, <2>1, <2>2 DEF ScheduleCount
<1>7. CASE SchedulePick(c, x)
  <2>1. CASE NoTaskToRun(c) /\ Return(x)
    BY <1>5, <1>7, <2>1 DEF SchedulePick, At, NoTaskToRun
  <2>2. CASE ~(NoTaskToRun(c) /\ Return(x))
    <3>1. At(c, x, "schedPick")
      BY <1>7 DEF SchedulePick
    <3>2. pstRunningTask[c] = x
      BY <3>1, Running
    <3> DEFINE l == IF endTask[x] THEN "switchNull" ELSE "switch"
    <3>3. PICK t \in TCB : Set(x, [local[x] EXCEPT !.next = t]) /\ Goto(x, l)
      BY <1>7, <2>2, <3>2 DEF SchedulePick
    <3> DEFINE f == [local[x] EXCEPT !.next = t]
    <3>4. f.ret = local[x].ret
      BY <1>1 DEF Frame
    <3>5. Set(x, f)
      BY <3>3
    <3>6. /\ l # "dead" /\ l \notin Looking /\ l \in {"switch", "switchNull"}
          /\ ~endTask[x] <=> l = "switch"
      OBVIOUS
    <3> HIDE DEF l, f
    <3>7. x \in Used /\ Boot[x].idle => l = "switch" /\ f.ret = "idle"
      BY <1>2, <1>4, <3>4, <3>6
    <3>8. f.ret = "dead" => endTask'[x] /\ l # "switch"
      BY <1>2, <1>3, <3>4, <3>6
    <3> QED
      BY <1>2, <3>3, <3>5, <3>6, <3>7, <3>8, IdleStays
  <2> QED
    BY <2>1, <2>2
<1>8. CASE SwitchContext(c, x)
  <2> DEFINE l == IF pc[x] = "switch" THEN local[x].ret ELSE "stopped"
  <2>1. Goto(x, l) /\ Set(x, Blank) /\ pc[x] \in Switching
    BY <1>8 DEF SwitchContext
  <2>2. l # "dead" /\ (pc[x] = "switch" => l = local[x].ret) /\ Blank.ret # "dead"
    BY <1>3, BlankFrame
  <2> HIDE DEF l
  <2>3. x \in Used /\ Boot[x].idle => l = "idle"
    BY <1>4, <2>1, <2>2
  <2> QED
    BY <1>2, <2>1, <2>2, <2>3, IdleStays
<1> QED
  BY <1>6, <1>7, <1>8

\* The calls a task makes: an idle task makes none.
LEMMA IdleOfCalls ==
    ASSUME OwnCallsOnly, NEW kind, NEW level, NEW holder, Inv(kind, level, holder), IdleInv, DeadInv,
           NEW c \in Core, NEW x \in TCB, UserCall(c, x)
    PROVE  IdleInv' /\ DeadInv'
<1>1. Yield(c, x) \/ kEndTask(c, x) \/ kChangePriority(c, x) \/ kChangeProcessorAffinity(c, x)
  BY OtherLabels DEF UserCall
<1>2. pc[x] = "run" /\ UNCHANGED endTask
  BY <1>1 DEF Yield, kEndTask, kChangePriority, kChangeProcessorAffinity, Call, At, flags
<1>3. ~(x \in Used /\ Boot[x].idle)
  BY <1>2 DEF IdleInv, IdleLabels, Looking, Cleaning
<1>4. PICK l, f :
          l \in {"schedCount", "find"} /\ Goto(x, l) /\ Set(x, f) /\ f.ret = "run"
  <2>1. \A op, id, arg : [Blank EXCEPT !.op = op, !.id = id, !.arg = arg].ret = "run"
    BY DEF Blank
  <2>2. [Blank EXCEPT !.ret = "run"].ret = "run"
    BY DEF Blank
  <2>3. CASE Yield(c, x)
    BY <2>2, <2>3 DEF Yield, kSchedule
  <2>4. CASE kEndTask(c, x) \/ kChangePriority(c, x) \/ kChangeProcessorAffinity(c, x)
    <3>1. PICK op, id, arg : Begin(x, op, id, arg)
      BY <2>4 DEF kEndTask, kChangePriority, kChangeProcessorAffinity
    <3> DEFINE f == [Blank EXCEPT !.op = op, !.id = id, !.arg = arg]
    <3>2. Goto(x, "find") /\ Set(x, f)
      BY <3>1 DEF Begin
    <3>3. f.ret = "run"
      BY <2>1
    <3> HIDE DEF f
    <3> QED
      BY <3>2, <3>3
  <2> QED
    BY <1>1, <2>3, <2>4
<1> QED
  BY <1>2, <1>3, <1>4, IdleStays

\* kFindSchedulerOfTaskAndLock and what is done under the lock.
LEMMA IdleOfFind ==
    ASSUME NEW kind, NEW level, NEW holder, Inv(kind, level, holder), IdleInv, DeadInv,
           NEW c \in Core, NEW x \in TCB,
           \/ Find(c, x) \/ Moved(c, x) \/ Elsewhere(c, x) \/ PriorityLocked(c, x)
           \/ MarkPriority(c, x) \/ MarkEnd(c, x) \/ UnlinkLocked(c, x)
    PROVE  IdleInv' /\ DeadInv'
<1> USE DEF IdleLabels, InterruptsOff, Looking, Cleaning, Switching
<1>1. At(c, x, "find") \/ At(c, x, "lock") \/ At(c, x, "mark")
  BY DEF Find, Moved, Elsewhere, PriorityLocked, MarkPriority, MarkEnd, UnlinkLocked, Locked
<1>2. pc[x] \in Looking /\ TaskAt(x) /\ local[x] \in Frame /\ Chosen(x)
  BY <1>1, Running
<1>3. ~endTask[x] /\ local[x].ret # "dead"
  BY <1>2 DEF TaskAt, EndingLabels, DeadInv
<1>4. x \in Used /\ Boot[x].idle => local[x].op \in {"unlink", "endChild"}
  BY <1>2 DEF IdleInv
<1> DEFINE Keeps == \A z \in TCB : endTask[z] => endTask'[z]
<1>5. Keeps
  <2>1. CASE MarkEnd(c, x)
    BY <2>1 DEF MarkEnd, SetEndTask, Inv, KernelType
  <2>2. CASE ~MarkEnd(c, x)
    BY <2>2 DEF Find, Moved, Elsewhere, PriorityLocked, MarkPriority, UnlinkLocked, flags
  <2> QED
    BY <2>1, <2>2
<1>6. ASSUME Return(x), local[x].op \notin {"unlink", "endChild"} PROVE IdleInv' /\ DeadInv'
  <2>1. Goto(x, local[x].ret) /\ Set(x, Blank) /\ Blank.ret # "dead"
    BY <1>6, BlankFrame DEF Return
  <2> QED
    BY <1>3, <1>4, <1>5, <1>6, <2>1, IdleStays
<1>7. ASSUME NEW l \in {"find", "mark", "kids", "free"}, Goto(x, l), UNCHANGED local
      PROVE  IdleInv' /\ DeadInv'
  <2>1. Set(x, local[x])
    BY <1>7, StaysAsItIs
  <2> QED
    BY <1>3, <1>4, <1>5, <1>7, <2>1, IdleStays
<1>8. CASE Find(c, x)
  <2>1. CASE Return(x) /\ local[x].op \notin {"unlink", "endChild"}
    BY <1>6, <2>1
  <2>2. CASE (Goto(x, "free") \/ Goto(x, "kids")) /\ UNCHANGED local
    BY <1>7, <2>2
  <2>3. CASE Goto(x, "lock") /\ Set(x, [local[x] EXCEPT !.apic = bAPICID[local[x].id.slot]])
    <3> DEFINE f == [local[x] EXCEPT !.apic = bAPICID[local[x].id.slot]]
    <3>1. f.ret = local[x].ret /\ f.op = local[x].op /\ Set(x, f)
      BY <1>2, <2>3 DEF Frame
    <3> HIDE DEF f
    <3> QED
      BY <1>3, <1>4, <1>5, <2>3, <3>1, IdleStays
  <2> QED
    BY <1>8, <2>1, <2>2, <2>3 DEF Find
<1>9. CASE Moved(c, x) \/ Elsewhere(c, x)
  BY <1>7, <1>9 DEF Moved, Elsewhere
<1>10. CASE PriorityLocked(c, x) \/ MarkPriority(c, x)
  BY <1>6, <1>10 DEF PriorityLocked, MarkPriority, Locked
<1>11. CASE MarkEnd(c, x)
  <2>1. local[x].op # "end"
    BY <1>2, <1>11 DEF TaskAt, LookingInv, MarkEnd, At
  <2> QED
    BY <1>7, <1>11, <2>1 DEF MarkEnd
<1>12. CASE UnlinkLocked(c, x)
  BY <1>7, <1>12 DEF UnlinkLocked
<1> QED
  BY <1>8, <1>9, <1>10, <1>11, <1>12

\* A task ends itself, an idle task the threads of the process it frees.
LEMMA IdleOfEnd ==
    ASSUME OwnCallsOnly, NEW kind, NEW level, NEW holder, Inv(kind, level, holder), IdleInv, DeadInv,
           NEW c \in Core, NEW x \in TCB, EndLocked(c, x) \/ EndSelf(c, x)
    PROVE  IdleInv' /\ DeadInv'
<1> USE DEF IdleLabels, InterruptsOff, Looking, Cleaning, Switching
<1>1. TaskAt(x) /\ local[x] \in Frame
  BY Contexts, ContextTypes DEF Inv, TaskInv
<1>2. CASE EndLocked(c, x)
  <2>1. /\ At(c, x, "lock") /\ pc[x] = "lock" /\ Locked(c, x, {"end", "endChild"})
        /\ local[x].op \in {"end", "endChild"}
    BY <1>2 DEF EndLocked, Locked, At
  <2>2. Chosen(x)
    BY <2>1, Running
  <2>3. ~endTask[x] /\ local[x].ret # "dead"
    BY <1>1, <2>1, <2>2 DEF TaskAt, EndingLabels, DeadInv
  <2>4. \A z \in TCB : endTask[z] => endTask'[z]
    BY <1>2 DEF EndLocked, SetEndTask, Inv, KernelType
  <2>5. CASE local[x].op = "end"
    <3>1. local[x].id = [slot |-> x, count |-> 1]
      BY <1>1, <2>1, <2>5 DEF TaskAt, LookingInv
    <3>2. IsRunning(x) /\ ~IsReady(x)
      BY <2>1, <3>1, FindsItselfRunning
    <3>3. Goto(x, "endSelf") /\ UNCHANGED local
      BY <1>2, <3>2 DEF EndLocked
    <3>4. Set(x, local[x])
      BY <3>3, StaysAsItIs
    <3>5. ~(x \in Used /\ Boot[x].idle)
      BY <2>1, <2>5 DEF IdleInv
    <3> QED
      BY <2>3, <2>4, <3>3, <3>4, <3>5, IdleStays
  <2>6. CASE local[x].op = "endChild"
    <3>1. ~IsRunning(x)
      BY <2>1, <2>6, EndsChild
    <3>2. Goto(x, "kids") /\ UNCHANGED local
      BY <1>2, <2>6, <3>1 DEF EndLocked
    <3>3. Set(x, local[x])
      BY <3>2, StaysAsItIs
    <3> QED
      BY <2>3, <2>4, <3>2, <3>3, IdleStays
  <2> QED
    BY <2>1, <2>5, <2>6
<1>3. CASE EndSelf(c, x)
  <2>1. At(c, x, "endSelf") /\ UNCHANGED endTask
    BY <1>3 DEF EndSelf, flags
  <2>2. bAPICID[x] = c /\ pc[x] = "endSelf"
    BY <2>1, Running
  <2>3. endTask[x] /\ local[x].apic = c
    BY <1>1, <2>2 DEF TaskAt
  <2> DEFINE f == [local[x] EXCEPT !.ret = "dead"]
  <2>4. Goto(x, "schedCount") /\ Set(x, f)
    BY <1>3, <2>3 DEF EndSelf
  <2>5. ~(x \in Used /\ Boot[x].idle)
    BY <2>2 DEF IdleInv
  <2> HIDE DEF f
  <2> QED
    BY <2>1, <2>3, <2>4, <2>5, IdleStays
<1> QED
  BY <1>2, <1>3

LEMMA IdleOfAffinity ==
    ASSUME NEW kind, NEW level, NEW holder, Inv(kind, level, holder), IdleInv, DeadInv,
           NEW c \in Core, NEW x \in TCB, AffinityLocked(c, x)
    PROVE  IdleInv' /\ DeadInv'
<1> USE DEF IdleLabels, InterruptsOff, Looking, Cleaning, Switching
<1>1. /\ pc[x] = "lock" /\ local[x].op = "affinity" /\ Locked(c, x, {"affinity"})
      /\ TaskAt(x) /\ Chosen(x)
  BY Running DEF AffinityLocked, Locked
<1>2. local[x].id = [slot |-> x, count |-> 1] /\ ~endTask[x]
  BY <1>1 DEF TaskAt, LookingInv, EndingLabels
<1>3. IsRunning(x) /\ ~IsReady(x)
  BY <1>1, <1>2, FindsItselfRunning
<1>4. local[x].ret # "dead" /\ Blank.ret # "dead"
  BY <1>2, BlankFrame DEF DeadInv
<1>5. ~(x \in Used /\ Boot[x].idle)
  BY <1>1 DEF IdleInv
<1>6. Goto(x, local[x].ret) /\ Set(x, Blank) /\ UNCHANGED endTask
  BY <1>3 DEF AffinityLocked, Return, flags
<1> QED
  BY <1>4, <1>5, <1>6, IdleStays

\* kIdleTask: it calls kSchedule to come back, and looks for the threads and the
\* process of the task it frees.
LEMMA IdleOfIdle ==
    ASSUME NEW kind, NEW level, NEW holder, Inv(kind, level, holder), IdleInv, DeadInv,
           NEW c \in Core, NEW x \in TCB,
           \/ Idle(c, x) \/ IdleTake(c, x) \/ IdleEndChild(c, x)
           \/ IdleProcess(c, x) \/ IdleThread(c, x)
    PROVE  IdleInv' /\ DeadInv'
<1> USE DEF IdleLabels, InterruptsOff, Looking, Cleaning, Switching
<1>1. At(c, x, "idle") \/ At(c, x, "take") \/ At(c, x, "kids") \/ At(c, x, "unlink")
  BY DEF Idle, IdleTake, IdleEndChild, IdleProcess, IdleThread
<1>2. /\ TaskAt(x) /\ local[x] \in Frame /\ pc[x] \in {"idle", "take", "kids", "unlink"}
      /\ Chosen(x)
  BY <1>1, Running
<1>3. UNCHANGED endTask
  BY DEF Idle, IdleTake, IdleEndChild, IdleProcess, IdleThread, flags
<1>4. ~endTask[x] /\ local[x].ret # "dead"
  BY <1>2 DEF TaskAt, EndingLabels, DeadInv
<1>5. ASSUME kSchedule(x, "idle") PROVE IdleInv' /\ DeadInv'
  <2> DEFINE f == [Blank EXCEPT !.ret = "idle"]
  <2>1. Goto(x, "schedCount") /\ Set(x, f)
    BY <1>5 DEF kSchedule
  <2>2. f.ret = "idle"
    BY DEF Blank
  <2> HIDE DEF f
  <2> QED
    BY <1>3, <1>4, <2>1, <2>2, IdleStays
<1>6. ASSUME NEW l \in {"take", "kids", "unlink", "free"}, Goto(x, l),
             NEW f, f.ret # "dead", Set(x, f)
      PROVE  IdleInv' /\ DeadInv'
  BY <1>3, <1>4, <1>6, IdleStays
<1>7. ASSUME Goto(x, "find"), NEW f, f.ret # "dead", f.op \in {"unlink", "endChild"}, Set(x, f)
      PROVE  IdleInv' /\ DeadInv'
  BY <1>3, <1>4, <1>7, IdleStays
<1>8. Set(x, local[x]) <=> UNCHANGED local
  BY Contexts DEF Set, Inv, ContextType
<1>9. CASE Idle(c, x)
  BY <1>4, <1>5, <1>6, <1>8, <1>9 DEF Idle
<1>10. CASE IdleTake(c, x)
  <2>1. CASE stWaitList[c] = <<>>
    BY <1>5, <1>10, <2>1 DEF IdleTake
  <2>2. CASE stWaitList[c] # <<>>
    <3> DEFINE t == Head(stWaitList[c])
               f == [Blank EXCEPT !.task = t, !.count = Len(stChildThreadList[t])]
               l == IF isProcess[t] THEN "kids" ELSE "unlink"
    <3>1. Goto(x, l) /\ Set(x, f)
      BY <1>10, <2>2 DEF IdleTake
    <3>2. f.ret = "run" /\ l \in {"kids", "unlink"}
      BY DEF Blank
    <3> HIDE DEF f, l
    <3> QED
      BY <1>6, <3>1, <3>2
  <2> QED
    BY <2>1, <2>2
<1>11. CASE IdleEndChild(c, x)
  <2> DEFINE kids == stChildThreadList[local[x].task]
             f == [local[x] EXCEPT !.count = 0]
             g == [local[x] EXCEPT !.op = "endChild", !.id = ID(Head(kids)), !.count = @ - 1]
  <2>1. f.ret = local[x].ret /\ g.ret = local[x].ret /\ g.op = "endChild"
    BY <1>2 DEF Frame
  <2>2. CASE kids = <<>>
    <3>1. Goto(x, "kids") /\ Set(x, f)
      BY <1>11, <2>2, StaysAsItIs DEF IdleEndChild, At
    <3> HIDE DEF f, g, kids
    <3> QED
      BY <1>4, <1>6, <2>1, <3>1
  <2>3. CASE kids # <<>>
    <3>1. Goto(x, "find") /\ Set(x, g)
      BY <1>11, <2>3 DEF IdleEndChild
    <3> HIDE DEF f, g, kids
    <3> QED
      BY <1>4, <1>7, <2>1, <3>1
  <2> QED
    BY <2>2, <2>3
<1>12. CASE IdleProcess(c, x)
  <2>1. CASE Goto(x, "free") /\ UNCHANGED local
    BY <1>4, <1>6, <1>8, <2>1
  <2>2. CASE Goto(x, "take") /\ Set(x, Blank)
    BY <1>6, <2>2, BlankFrame
  <2> QED
    BY <1>12, <2>1, <2>2 DEF IdleProcess
<1>13. CASE IdleThread(c, x)
  <2> DEFINE p == ProcessOf(local[x].task)
             f == [local[x] EXCEPT !.op = "unlink", !.id = ID(p)]
  <2>1. CASE Goto(x, "free") /\ UNCHANGED local
    BY <1>4, <1>6, <1>8, <2>1
  <2>2. CASE Goto(x, "find") /\ Set(x, f)
    <3>1. f.ret = local[x].ret /\ f.op = "unlink"
      BY <1>2 DEF Frame
    <3> HIDE DEF f
    <3> QED
      BY <1>4, <1>7, <2>2, <3>1
  <2> QED
    BY <1>13, <2>1, <2>2 DEF IdleThread
<1> QED
  BY <1>9, <1>10, <1>11, <1>12, <1>13

\* What it frees has ended, so it is no idle task.
LEMMA IdleOfFree ==
    ASSUME OwnCallsOnly, NEW kind, NEW level, NEW holder, Inv(kind, level, holder), IdleInv, DeadInv,
           NEW c \in Core, NEW x \in TCB, IdleFree(c, x)
    PROVE  IdleInv' /\ DeadInv'
<1> USE Contexts DEF IdleLabels, InterruptsOff, Looking, Cleaning
<1> DEFINE t == local[x].task
<1>1. t \in TCB /\ t # x /\ endTask[t] /\ pc[x] = "free"
  BY HeldByIdle DEF IdleFree, At
<1>2. ~Boot[t].idle
  BY <1>1, IdleLives
<1>3. /\ pc' = [pc EXCEPT ![x] = "take", ![t] = "stopped"]
      /\ local' = [local EXCEPT ![x] = Blank, ![t] = Blank]
      /\ UNCHANGED endTask
  BY DEF IdleFree, flags
<1> HIDE DEF t
<1>4. /\ pc'[x] = "take" /\ pc'[t] = "stopped" /\ local'[x] = Blank /\ local'[t] = Blank
      /\ \A z \in Context : z # x /\ z # t => pc'[z] = pc[z] /\ local'[z] = local[z]
  BY <1>1, <1>3 DEF Inv, ContextType
<1>5. IdleInv'
  <2> SUFFICES ASSUME NEW u \in Used, Boot[u].idle
               PROVE  /\ pc'[u] \in IdleLabels
                      /\ pc'[u] \in InterruptsOff \ Looking => local'[u].ret = "idle"
                      /\ pc'[u] \in Looking => local'[u].op \in {"unlink", "endChild"}
    BY DEF IdleInv
  <2>1. u \in TCB /\ u # t
    BY <1>2 DEF Used
  <2>2. CASE u = x
    BY <1>4, <2>2
  <2>3. CASE u # x
    BY <1>4, <2>1, <2>3 DEF IdleInv
  <2> QED
    BY <2>2, <2>3
<1>6. DeadInv'
  <2> SUFFICES ASSUME NEW z \in TCB
               PROVE  /\ pc'[z] # "dead"
                      /\ local'[z].ret = "dead" => endTask[z] /\ pc'[z] # "switch"
    BY <1>3 DEF DeadInv
  <2>1. CASE z = x \/ z = t
    BY <1>4, <2>1, BlankFrame
  <2>2. CASE ~(z = x \/ z = t)
    BY <1>4, <2>2 DEF DeadInv
  <2> QED
    BY <2>1, <2>2
<1> QED
  BY <1>5, <1>6

\* The handler of a core stops only an ended task, which no idle task is.
LEMMA IdleOfHandlers ==
    ASSUME OwnCallsOnly, NEW kind, NEW level, NEW holder, Inv(kind, level, holder), IdleInv, DeadInv,
           NEW c \in Core, Handler(c) \/ kScheduleInInterrupt(c)
    PROVE  IdleInv' /\ DeadInv'
<1> USE Contexts
<1>1. UNCHANGED endTask
  BY DEF Handler, Preempted, AddTarget, AddInsert, InterruptReturn, kScheduleInInterrupt, flags
<1>2. \A z \in TCB : /\ local'[z] = local[z]
                     /\ pc'[z] = pc[z] \/ (pc'[z] = "stopped" /\ endTask[z])
  <2>1. CASE kScheduleInInterrupt(c)
    <3>1. CASE UNCHANGED <<pc, local>>
      BY <3>1
    <3>2. CASE ~UNCHANGED <<pc, local>>
      <4> DEFINE old == pstRunningTask[c]
      <4>1. \E f : Set(c, f)
        BY <2>1, <3>2 DEF kScheduleInInterrupt
      <4>2. pc' = [pc EXCEPT ![c] = IF endTask[old] THEN "iret" ELSE "preempted",
                             ![old] = IF endTask[old] THEN "stopped" ELSE @]
        BY <2>1, <3>2 DEF kScheduleInInterrupt
      <4>3. old \in TCB /\ pc \in [Context -> Label] /\ local \in [Context -> Frame]
        BY DEF Inv, KernelType, ContextType
      <4> HIDE DEF old
      <4>4. \A z \in TCB : pc'[z] = IF z = old /\ endTask[z] THEN "stopped" ELSE pc[z]
        BY <4>2, <4>3
      <4>5. \A z \in TCB : local'[z] = local[z]
        BY <4>1, <4>3 DEF Set
      <4> QED
        BY <4>4, <4>5
    <3> QED
      BY <3>1, <3>2
  <2>2. CASE Handler(c)
    <3>1. Preempted(c) \/ InterruptReturn(c)
             => (\E l : Goto(c, l)) /\ (UNCHANGED local \/ \E f : Set(c, f))
      BY DEF Preempted, InterruptReturn
    <3>2. AddTarget(c, c) \/ AddInsert(c, c) => (\E l : Goto(c, l)) /\ \E f : Set(c, f)
      BY DEF AddTarget, AddInsert, Return
    <3>3. (\E l : Goto(c, l)) /\ (UNCHANGED local \/ \E f : Set(c, f))
      BY <2>2, <3>1, <3>2 DEF Handler
    <3>4. pc \in [Context -> Label] /\ local \in [Context -> Frame]
      BY DEF Inv, ContextType
    <3>5. \A z \in TCB : pc'[z] = pc[z]
      BY <3>3, <3>4 DEF Goto
    <3>6. \A z \in TCB : local'[z] = local[z]
      BY <3>3, <3>4 DEF Set
    <3> QED
      BY <3>5, <3>6
  <2> QED
    BY <2>1, <2>2
<1>3. IdleInv'
  <2> SUFFICES ASSUME NEW t \in Used, Boot[t].idle PROVE pc'[t] = pc[t] /\ local'[t] = local[t]
    BY DEF IdleInv
  <2>1. t \in TCB /\ ~endTask[t]
    BY IdleLives DEF Used
  <2> QED
    BY <1>2, <2>1
<1>4. DeadInv'
  <2> SUFFICES ASSUME NEW z \in TCB
               PROVE  /\ pc'[z] # "dead"
                      /\ local'[z].ret = "dead" => endTask[z] /\ pc'[z] # "switch"
    BY <1>1 DEF DeadInv
  <2> QED
    BY <1>2 DEF DeadInv
<1> QED
  BY <1>3, <1>4

LEMMA NextIdle ==
    OwnCallsOnly /\ IInv /\ IdleInv /\ DeadInv /\ [Next]_vars => IdleInv' /\ DeadInv'
<1> SUFFICES ASSUME OwnCallsOnly, IInv, IdleInv, DeadInv, [Next]_vars
             PROVE  IdleInv' /\ DeadInv'
  OBVIOUS
<1>1. PICK kind \in [TCB -> Kinds], level \in [TCB -> Priority],
          holder \in [TCB -> Context] : Inv(kind, level, holder)
  BY DEF IInv
<1>2. CASE UNCHANGED vars
  BY <1>2 DEF vars, flags, IdleInv, DeadInv
<1>3. CASE Next
  <2>1. PICK c \in Core : \/ kScheduleInInterrupt(c) \/ Handler(c)
                          \/ \E x \in TCB : Kernel(c, x) \/ UserCall(c, x)
    BY <1>3 DEF Next
  <2>2. CASE kScheduleInInterrupt(c) \/ Handler(c)
    BY <1>1, <2>2, IdleOfHandlers
  <2>3. ASSUME NEW x \in TCB, Kernel(c, x) PROVE IdleInv' /\ DeadInv'
    <3>1. /\ ~ExitRead(c, x) /\ ~CreateStack(c, x) /\ ~CreateLink(c, x)
          /\ ~CreateSetUp(c, x) /\ ~AddTarget(c, x) /\ ~AddInsert(c, x)
          /\ ~MarkAffinity(c, x)
      BY <1>1, OtherLabels, NoMarkAffinity
    <3> QED
      BY <1>1, <2>3, <3>1, IdleOfSchedule, IdleOfFind, IdleOfEnd, IdleOfAffinity, IdleOfIdle,
         IdleOfFree DEF Kernel, Mark
  <2>4. ASSUME NEW x \in TCB, UserCall(c, x) PROVE IdleInv' /\ DeadInv'
    BY <1>1, <2>4, IdleOfCalls
  <2> QED
    BY <2>1, <2>2, <2>3, <2>4
<1> QED
  BY <1>2, <1>3

\* A task that has ended never executes again: the idle task frees none that a
\* core executes or will load, and the loop at the end of kEndTask is never
\* reached, since the idle task of the core is always there to switch to.
THEOREM EndedTask == ASSUME OwnCallsOnly PROVE Spec => []EndedTaskNeverRuns
<1>1. Init => IdleInv /\ DeadInv
  BY InitIdle
<1>2. IInv /\ IdleInv /\ DeadInv /\ [Next]_vars => IdleInv' /\ DeadInv'
  BY NextIdle
<1>3. DeadInv /\ NoFreedTaskExecutes => EndedTaskNeverRuns
  BY DEF DeadInv, EndedTaskNeverRuns, NoEndedTaskLoops
<1> QED
  BY <1>1, <1>2, <1>3, Invariance, NoFreedTask, PTL DEF Spec

(***************************************************************************)
(* Processes and threads.  A thread is in the child list of its process    *)
(* until the idle task that frees it takes it out; what frees it finds the *)
(* process, since a process with threads is not freed.                     *)
(***************************************************************************)
HasLeft(t) == \E x \in TCB : local[x].task = t /\ pc[x] = "free"

ChildrenInv ==
    \A p \in TCB : \A t \in Range(stChildThreadList[p]) :
        /\ qwID[p] # 0 /\ qwID[t] # 0 /\ qwParentProcessID[t] = ID(p)
        /\ ~isProcess[t] /\ ~HasLeft(t) /\ isProcess[p]
ParentInv ==
    \A t \in TCB : qwID[t] # 0 /\ ~isProcess[t] /\ ~HasLeft(t) =>
        \E p \in TCB : qwParentProcessID[t] = ID(p) /\ Contains(stChildThreadList[p], t)

\* What idle task x does about the family of the task it frees.
Leaving(x) ==
    LET t == local[x].task IN
    /\ pc[x] = "kids" => isProcess[t]
    /\ pc[x] = "unlink" => ~isProcess[t]
    /\ pc[x] \in Looking /\ local[x].op = "endChild" => isProcess[t]
    /\ pc[x] \in Looking /\ local[x].op = "unlink"
          => ~isProcess[t] /\ local[x].id = qwParentProcessID[t]
    /\ pc[x] = "free" => stChildThreadList[t] = <<>>

FamilyInv == ChildrenInv /\ ParentInv /\ \A x \in TCB : Leaving(x)

LEMMA InitFamily == OwnCallsOnly /\ Init => FamilyInv
<1> SUFFICES ASSUME OwnCallsOnly, Init PROVE FamilyInv
  OBVIOUS
<1> USE Contexts
<1> DEFINE Threads(p) == {u \in Used : Boot[u].parent = p /\ ~Boot[u].process}
<1>1. \A x \in TCB : pc[x] \in {"idle", "run", "stopped"}
  BY DEF Init
<1>2. \A t \in TCB : ~HasLeft(t)
  BY <1>1 DEF HasLeft
<1>3. ASSUME NEW p \in TCB PROVE IsList(stChildThreadList[p], Threads(p))
  <2>1. Threads(p) \subseteq TCB /\ stChildThreadList[p] = SetToSeq(Threads(p))
    BY DEF Init, Used
  <2> HIDE DEF Threads
  <2> QED
    BY <2>1, ListOfSet
<1>4. \A t \in TCB : /\ qwID[t] = IF t \in Used THEN 1 ELSE 0
                     /\ isProcess[t] = Boot[t].process
                     /\ qwParentProcessID[t] = [slot |-> Boot[t].parent, count |-> 1]
  BY DEF Init
<1>5. ChildrenInv
  <2> SUFFICES ASSUME NEW p \in TCB, NEW t \in Range(stChildThreadList[p])
               PROVE  /\ qwID[p] # 0 /\ qwID[t] # 0 /\ qwParentProcessID[t] = ID(p)
                      /\ ~isProcess[t] /\ ~HasLeft(t) /\ isProcess[p]
    BY DEF ChildrenInv
  <2>1. t \in TCB /\ t \in Used /\ Boot[t].parent = p /\ ~Boot[t].process
    BY <1>3 DEF IsList, Used
  <2>2. p \in Used /\ Boot[p].process
    BY <2>1, FamilyAssumption DEF Used
  <2>3. qwID[p] = 1 /\ qwID[t] = 1 /\ ~isProcess[t] /\ isProcess[p]
    BY <1>4, <2>1, <2>2
  <2>4. qwParentProcessID[t] = ID(p)
    BY <1>4, <2>1, <2>3 DEF ID
  <2> QED
    BY <1>2, <2>1, <2>3, <2>4
<1>6. ParentInv
  <2> SUFFICES ASSUME NEW t \in TCB, qwID[t] # 0, ~isProcess[t]
               PROVE  \E p \in TCB : /\ qwParentProcessID[t] = ID(p)
                                     /\ Contains(stChildThreadList[p], t)
    BY DEF ParentInv
  <2> DEFINE p == Boot[t].parent
  <2>1. t \in Used /\ ~Boot[t].process /\ p \in TCB
    BY <1>4, BootAssumption
  <2>2. p \in Used
    BY <2>1, FamilyAssumption DEF Used
  <2>3. t \in Threads(p)
    BY <2>1
  <2> HIDE DEF Threads
  <2>4. Contains(stChildThreadList[p], t)
    BY <1>3, <2>1, <2>3, ListContains
  <2>5. qwParentProcessID[t] = ID(p)
    BY <1>4, <2>1, <2>2 DEF ID
  <2> QED
    BY <2>1, <2>4, <2>5
<1>7. \A x \in TCB : Leaving(x)
  BY <1>1 DEF Leaving, Looking
<1> QED
  BY <1>5, <1>6, <1>7 DEF FamilyInv

\* A step that leaves the pool and the families alone.
SameFamilies ==
    /\ UNCHANGED <<qwID, isProcess, qwParentProcessID>>
    /\ \A p \in TCB : Range(stChildThreadList'[p]) = Range(stChildThreadList[p])

LEMMA ListsAgain ==
    ASSUME IInv
    PROVE  /\ \A p \in TCB : IsList(stChildThreadList[p], Range(stChildThreadList[p]))
           /\ \A p \in TCB : Range(stChildThreadList[p]) \subseteq TCB
           /\ \A p, t \in TCB : Contains(stChildThreadList[p], t)
                                   <=> t \in Range(stChildThreadList[p])
           /\ \A p \in TCB : stChildThreadList[p] = <<>> <=> Range(stChildThreadList[p]) = {}
<1>1. \A p \in TCB : IsList(stChildThreadList[p], Range(stChildThreadList[p]))
  BY DEF IInv, Inv, EndInv
<1>2. \A p \in TCB : Range(stChildThreadList[p]) \subseteq TCB
  <2>1. \A list \in Seq(TCB) : Range(list) \subseteq TCB
    BY DEF Range
  <2> QED
    BY <1>1, <2>1 DEF IsList
<1>3. \A p, t \in TCB : Contains(stChildThreadList[p], t) <=> t \in Range(stChildThreadList[p])
  BY <1>1, ListContains
<1>4. \A p \in TCB : stChildThreadList[p] = <<>> <=> Range(stChildThreadList[p]) = {}
  BY <1>1, ListOfNone
<1> QED
  BY <1>1, <1>2, <1>3, <1>4

LEMMA FamilyStays ==
    ASSUME IInv, IInv', FamilyInv, SameFamilies,
           \A t \in TCB : ~isProcess[t] => (HasLeft(t)' <=> HasLeft(t)),
           \A x \in TCB : Leaving(x)'
    PROVE  FamilyInv'
<1>1. /\ \A p \in TCB : Range(stChildThreadList[p]) \subseteq TCB
      /\ \A p, t \in TCB : Contains(stChildThreadList[p], t) <=> t \in Range(stChildThreadList[p])
  BY ListsAgain
<1>2. \A p, t \in TCB :
          Contains(stChildThreadList'[p], t) <=> t \in Range(stChildThreadList'[p])
  <2>1. \A p \in TCB : IsList(stChildThreadList'[p], Range(stChildThreadList'[p]))
    BY DEF IInv, Inv, EndInv
  <2> QED
    BY <2>1, ListContains
<1>3. \A u : ID(u)' = ID(u)
  BY DEF SameFamilies, ID
<1>4. ChildrenInv'
  <2> SUFFICES ASSUME NEW p \in TCB, NEW t \in Range(stChildThreadList'[p])
               PROVE  /\ qwID[p] # 0 /\ qwID[t] # 0 /\ qwParentProcessID[t] = ID(p)
                      /\ ~isProcess[t] /\ ~HasLeft(t)' /\ isProcess[p]
    BY <1>3 DEF ChildrenInv, SameFamilies
  <2>1. t \in Range(stChildThreadList[p]) /\ t \in TCB
    BY <1>1 DEF SameFamilies
  <2> QED
    BY <2>1 DEF FamilyInv, ChildrenInv
<1>5. ParentInv'
  <2> SUFFICES ASSUME NEW t \in TCB, qwID[t] # 0, ~isProcess[t], ~HasLeft(t)'
               PROVE  \E p \in TCB : /\ qwParentProcessID[t] = ID(p)
                                     /\ Contains(stChildThreadList'[p], t)
    BY <1>3 DEF ParentInv, SameFamilies
  <2>1. PICK p \in TCB : qwParentProcessID[t] = ID(p) /\ Contains(stChildThreadList[p], t)
    BY DEF FamilyInv, ParentInv
  <2>2. Contains(stChildThreadList'[p], t)
    BY <1>1, <1>2, <2>1 DEF SameFamilies
  <2> QED
    BY <2>1, <2>2
<1> QED
  BY <1>4, <1>5 DEF FamilyInv

\* ... of one task, which does not begin or end to free a thread.
LEMMA FamilyOfTask ==
    ASSUME IInv, IInv', FamilyInv, NEW x \in TCB, SameFamilies,
           \A z \in TCB : z # x => pc'[z] = pc[z] /\ local'[z] = local[z],
           pc[x] # "free", pc'[x] = "free" => isProcess[local'[x].task], Leaving(x)'
    PROVE  FamilyInv'
<1>1. \A t \in TCB : ~isProcess[t] => (HasLeft(t)' <=> HasLeft(t))
  BY DEF HasLeft
<1>2. ASSUME NEW z \in TCB, z # x PROVE Leaving(z)'
  <2>1. /\ pc'[z] = pc[z] /\ local'[z] = local[z]
        /\ UNCHANGED <<isProcess, qwParentProcessID>> /\ Leaving(z)
    BY <1>2 DEF SameFamilies, FamilyInv
  <2>2. pc[z] = "free" => stChildThreadList'[local[z].task] = <<>>
    <3> SUFFICES ASSUME pc[z] = "free" PROVE stChildThreadList'[local[z].task] = <<>>
      OBVIOUS
    <3>1. local[z].task \in TCB
      BY Contexts, ContextTypes DEF IInv, Inv, TaskInv, TaskAt, Cleaning, Frame
    <3>2. stChildThreadList[local[z].task] = <<>>
      BY <2>1 DEF Leaving
    <3>3. Range(stChildThreadList[local[z].task]) = {}
      BY <3>1, <3>2, ListsAgain
    <3>4. Range(stChildThreadList'[local[z].task]) = {}
      BY <3>1, <3>3 DEF SameFamilies
    <3>5. IsList(stChildThreadList'[local[z].task], Range(stChildThreadList'[local[z].task]))
      BY <3>1 DEF IInv, Inv, EndInv
    <3> QED
      BY <3>4, <3>5, ListOfNone
  <2> QED
    BY <2>1, <2>2 DEF Leaving
<1>3. \A z \in TCB : Leaving(z)'
  BY <1>2
<1> QED
  BY <1>1, <1>3, FamilyStays

\* What an idle task frees is held by it alone.
LEMMA HeldAlone ==
    ASSUME NEW kind, NEW level, NEW holder, Inv(kind, level, holder), NEW x \in TCB, NEW y \in TCB,
           NEW t \in TCB, local[x].task = t, local[y].task = t
    PROVE  x = y /\ qwID[t] # 0
<1>1. kind[t] = "held" /\ holder[t] = x /\ holder[t] = y
  BY Contexts DEF Inv, HeldInv
<1> QED
  BY <1>1 DEF Inv, SlotInv

LEMMA FamilyOfOrdinary ==
    ASSUME OwnCallsOnly, IInv, IInv', FamilyInv, NEW c \in Core, NEW x \in TCB,
           \/ ScheduleCount(c, x) \/ SchedulePick(c, x) \/ SwitchContext(c, x)
           \/ EndLocked(c, x) /\ local[x].op = "end"
           \/ EndSelf(c, x) \/ PriorityLocked(c, x) \/ MarkPriority(c, x)
           \/ AffinityLocked(c, x) \/ Idle(c, x) \/ UserCall(c, x)
    PROVE  FamilyInv'
<1> USE Contexts DEF InterruptsOff, Looking, Cleaning
<1>1. PICK kind \in [TCB -> Kinds], level \in [TCB -> Priority],
          holder \in [TCB -> Context] : Inv(kind, level, holder)
  BY DEF IInv
<1>2. /\ TaskAt(x) /\ local[x] \in Frame
      /\ local[x].ret \in {"run", "idle", "dead", "iret"}
  <2>1. TaskAt(x) /\ local[x] \in Frame
    BY <1>1, ContextTypes DEF Inv, TaskInv
  <2> QED
    BY <2>1 DEF Frame
<1>3. UserCall(c, x) => \/ Yield(c, x) \/ kEndTask(c, x) \/ kChangePriority(c, x)
                        \/ kChangeProcessorAffinity(c, x)
  BY <1>1, OtherLabels DEF UserCall
<1>4. pc[x] # "free" /\ SameFamilies
  <2>1. pc[x] # "free" /\ UNCHANGED <<qwID, isProcess, links>>
    BY <1>3 DEF ScheduleCount, SchedulePick, SwitchContext, EndLocked, EndSelf, PriorityLocked,
                MarkPriority, AffinityLocked, Idle, Yield, kEndTask, kChangePriority,
                kChangeProcessorAffinity, Call, Locked, At, SetEndTask, pool, flags
  <2> QED
    BY <2>1 DEF SameFamilies, links
<1> DEFINE Quiet(l) == l \notin Cleaning \cup Looking
<1>5. \/ \E l : Quiet(l) /\ Goto(x, l) /\ (UNCHANGED local \/ \E f : Set(x, f))
      \/ \E op, id, arg : op \notin {"unlink", "endChild"} /\ Begin(x, op, id, arg)
  <2>1. Quiet(local[x].ret)
    BY <1>2
  <2>2. Return(x) => Goto(x, local[x].ret) /\ \E f : Set(x, f)
    BY DEF Return
  <2>3. \A ret : kSchedule(x, ret) => Goto(x, "schedCount") /\ \E f : Set(x, f)
    BY DEF kSchedule
  <2>4. /\ Quiet("schedCount") /\ Quiet("schedPick") /\ Quiet("switch") /\ Quiet("stopped")
        /\ Quiet("switchNull") /\ Quiet("endSelf") /\ Quiet("addTarget") /\ Quiet("take")
    OBVIOUS
  <2> HIDE DEF Quiet
  <2>5. CASE ScheduleCount(c, x)
    BY <2>1, <2>2, <2>4, <2>5 DEF ScheduleCount
  <2>6. CASE SchedulePick(c, x)
    <3>1. \/ Return(x)
          \/ \E t : /\ Set(x, [local[x] EXCEPT !.next = t])
                    /\ Goto(x, "switchNull") \/ Goto(x, "switch")
      BY <2>6 DEF SchedulePick
    <3>2. ASSUME NEW t, Set(x, [local[x] EXCEPT !.next = t]) PROVE \E f : Set(x, f)
      BY <3>2
    <3> QED
      BY <2>1, <2>2, <2>4, <3>1, <3>2
  <2>7. CASE SwitchContext(c, x)
    BY <2>1, <2>4, <2>7 DEF SwitchContext
  <2>8. CASE EndLocked(c, x) /\ local[x].op = "end"
    BY <2>1, <2>2, <2>4, <2>8 DEF EndLocked
  <2>9. CASE EndSelf(c, x)
    <3>1. At(c, x, "endSelf")
      BY <2>9 DEF EndSelf
    <3>2. local[x].apic = c
      BY <1>1, <1>2, <3>1, Running DEF TaskAt, At, Switching
    <3>3. Goto(x, "schedCount") /\ \E f : Set(x, f)
      BY <2>9, <3>2 DEF EndSelf
    <3> QED
      BY <2>4, <3>3
  <2>10. CASE PriorityLocked(c, x) \/ MarkPriority(c, x)
    BY <2>1, <2>2, <2>10 DEF PriorityLocked, MarkPriority
  <2>11. CASE AffinityLocked(c, x)
    <3>1. Return(x) \/ (Goto(x, "addTarget") /\ \E f : Set(x, f))
      BY <2>11 DEF AffinityLocked
    <3> QED
      BY <2>1, <2>2, <2>4, <3>1
  <2>12. CASE Idle(c, x)
    BY <2>3, <2>4, <2>12 DEF Idle
  <2>13. CASE Yield(c, x)
    BY <2>3, <2>4, <2>13 DEF Yield
  <2>14. CASE kEndTask(c, x) \/ kChangePriority(c, x) \/ kChangeProcessorAffinity(c, x)
    <3>1. \E op \in {"end", "priority", "affinity"} : \E id, arg : Begin(x, op, id, arg)
      BY <2>14 DEF kEndTask, kChangePriority, kChangeProcessorAffinity
    <3> QED
      BY <3>1
  <2> QED
    BY <1>3, <2>5, <2>6, <2>7, <2>8, <2>9, <2>10, <2>11, <2>12, <2>13, <2>14
<1>6. CASE \E l : Quiet(l) /\ Goto(x, l) /\ (UNCHANGED local \/ \E f : Set(x, f))
  <2>1. PICK l : Quiet(l) /\ Goto(x, l) /\ (UNCHANGED local \/ \E f : Set(x, f))
    BY <1>6
  <2>2. \A z \in TCB : z # x => pc'[z] = pc[z] /\ local'[z] = local[z]
    BY <1>1, <2>1 DEF Goto, Set, Inv, ContextType
  <2>3. pc'[x] = l
    BY <1>1, <2>1 DEF Goto, Inv, ContextType
  <2>4. Leaving(x)' /\ pc'[x] # "free"
    BY <2>1, <2>3 DEF Leaving
  <2> QED
    BY <1>4, <2>2, <2>4, FamilyOfTask
<1>7. CASE \E op, id, arg : op \notin {"unlink", "endChild"} /\ Begin(x, op, id, arg)
  <2>1. PICK op, id, arg : op \notin {"unlink", "endChild"} /\ Begin(x, op, id, arg)
    BY <1>7
  <2> DEFINE f == [Blank EXCEPT !.op = op, !.id = id, !.arg = arg]
  <2>2. Goto(x, "find") /\ Set(x, f)
    BY <2>1 DEF Begin
  <2>3. f.op \notin {"unlink", "endChild"}
    BY <2>1 DEF Blank
  <2> HIDE DEF f
  <2>4. \A z \in TCB : z # x => pc'[z] = pc[z] /\ local'[z] = local[z]
    BY <1>1, <2>2 DEF Goto, Set, Inv, ContextType
  <2>5. pc'[x] = "find" /\ local'[x] = f
    BY <1>1, <2>2, GotoAndSet
  <2>6. Leaving(x)' /\ pc'[x] # "free"
    BY <2>3, <2>5 DEF Leaving
  <2> QED
    BY <1>4, <2>4, <2>6, FamilyOfTask
<1> QED
  BY <1>5, <1>6, <1>7

\* The process of a thread that an idle task frees is there.
LEMMA ThreadFindsProcess ==
    ASSUME NEW kind, NEW level, NEW holder, Inv(kind, level, holder), FamilyInv, NEW c \in Core, NEW x \in TCB,
           NEW l, At(c, x, l), l # "free", local[x].task \in TCB, ~isProcess[local[x].task]
    PROVE  /\ ~HasLeft(local[x].task) /\ ProcessOf(local[x].task) \in TCB
           /\ qwParentProcessID[local[x].task] = ID(ProcessOf(local[x].task))
           /\ Names(qwParentProcessID[local[x].task], ProcessOf(local[x].task))
           /\ ID(ProcessOf(local[x].task)).slot = ProcessOf(local[x].task)
<1> DEFINE t == local[x].task
<1>1. pc[x] = l /\ \A y \in TCB : local[y].task = t => x = y
  BY HeldAlone DEF At
<1>2. qwID[t] # 0 /\ ~HasLeft(t)
  BY <1>1, HeldAlone DEF HasLeft
<1>3. PICK p \in TCB : qwParentProcessID[t] = ID(p)
  BY <1>2 DEF FamilyInv, ParentInv
<1>4. ID(p).slot = p /\ Names(ID(p), p)
  BY DEF ID, Names
<1>5. ProcessOf(t) = p
  BY <1>3, <1>4 DEF ProcessOf
<1> QED
  BY <1>2, <1>3, <1>4, <1>5

\* The steps of an idle task that frees a task, up to the lists.
LEMMA FamilyOfCleaning ==
    ASSUME OwnCallsOnly, IInv, IInv', FamilyInv, NEW c \in Core, NEW x \in TCB,
           \/ IdleTake(c, x) \/ IdleEndChild(c, x) \/ IdleProcess(c, x)
           \/ IdleThread(c, x) \/ Find(c, x) \/ Moved(c, x) \/ Elsewhere(c, x)
           \/ EndLocked(c, x) /\ local[x].op = "endChild"
           \/ MarkEnd(c, x)
    PROVE  FamilyInv'
<1> USE Contexts DEF InterruptsOff, Looking, Cleaning, Switching
<1>1. PICK kind \in [TCB -> Kinds], level \in [TCB -> Priority],
          holder \in [TCB -> Context] : Inv(kind, level, holder)
  BY DEF IInv
<1>2. TaskAt(x) /\ local[x] \in Frame /\ Leaving(x)
  BY <1>1, ContextTypes DEF Inv, TaskInv, FamilyInv
<1>3. ASSUME NEW l, NEW f, Goto(x, l), Set(x, f), SameFamilies,
             pc[x] # "free",
             l = "free" => isProcess[f.task] /\ stChildThreadList'[f.task] = <<>>,
             l = "kids" => isProcess[f.task], l = "unlink" => ~isProcess[f.task],
             l \in Looking /\ f.op = "endChild" => isProcess[f.task],
             l \in Looking /\ f.op = "unlink"
                => ~isProcess[f.task] /\ f.id = qwParentProcessID[f.task]
      PROVE  FamilyInv'
  <2>1. \A z \in TCB : z # x => pc'[z] = pc[z] /\ local'[z] = local[z]
    BY <1>1, <1>3 DEF Goto, Set, Inv, ContextType
  <2>2. pc'[x] = l /\ local'[x] = f
    BY <1>1, <1>3, GotoAndSet
  <2>3. Leaving(x)'
    BY <1>3, <2>2 DEF Leaving, SameFamilies
  <2> QED
    BY <1>3, <2>1, <2>2, <2>3, FamilyOfTask
<1>4. Set(x, local[x]) <=> UNCHANGED local
  BY <1>1 DEF Set, Inv, ContextType
<1>4a. UNCHANGED <<qwID, isProcess, links>> => SameFamilies
  BY DEF SameFamilies, links
<1>5. CASE IdleTake(c, x)
  <2>1. pc[x] # "free" /\ SameFamilies
    BY <1>4a, <1>5 DEF IdleTake, At, pool, flags
  <2>2. CASE stWaitList[c] = <<>>
    <3>1. Goto(x, "schedCount") /\ Set(x, [Blank EXCEPT !.ret = "idle"])
      BY <1>5, <2>2 DEF IdleTake, kSchedule
    <3> QED
      BY <1>3, <2>1, <3>1
  <2>3. CASE stWaitList[c] # <<>>
    <3> DEFINE t == Head(stWaitList[c])
               f == [Blank EXCEPT !.task = t, !.count = Len(stChildThreadList[t])]
               l == IF isProcess[t] THEN "kids" ELSE "unlink"
    <3>1. Goto(x, l) /\ Set(x, f)
      BY <1>5, <2>3 DEF IdleTake
    <3>2. f.task = t
      BY DEF Blank
    <3> HIDE DEF f
    <3>3. /\ l # "free" /\ l \notin Looking
          /\ l = "kids" => isProcess[f.task]
          /\ l = "unlink" => ~isProcess[f.task]
      BY <3>2
    <3> HIDE DEF l
    <3> QED
      BY <1>3, <2>1, <3>1, <3>3
  <2> QED
    BY <2>2, <2>3
<1>6. CASE IdleEndChild(c, x)
  <2> DEFINE p == local[x].task
             kids == stChildThreadList[p]
             f == [local[x] EXCEPT !.count = 0]
             g == [local[x] EXCEPT !.op = "endChild", !.id = ID(Head(kids)), !.count = @ - 1]
  <2>1. At(c, x, "kids") /\ pc[x] = "kids"
    BY <1>6 DEF IdleEndChild, At
  <2>2. p \in TCB /\ isProcess[p]
    BY <1>1, <1>2, <2>1, HeldByIdle DEF Leaving
  <2>3. f.task = p /\ g.task = p /\ g.op = "endChild"
    BY <1>2 DEF Frame
  <2>4. UNCHANGED <<qwID, isProcess, qwParentProcessID>>
    BY <1>6 DEF IdleEndChild, pool, flags
  <2>5. CASE kids = <<>>
    <3>1. Goto(x, "kids") /\ Set(x, f) /\ UNCHANGED stChildThreadList
      BY <1>1, <1>6, <2>1, <2>5, StaysAsItIs DEF IdleEndChild
    <3>2. SameFamilies
      BY <2>4, <3>1 DEF SameFamilies
    <3> HIDE DEF f, g, kids, p
    <3> QED
      BY <1>3, <2>1, <2>2, <2>3, <3>1, <3>2
  <2>6. CASE kids # <<>>
    <3>1. /\ Goto(x, "find") /\ Set(x, g)
          /\ stChildThreadList' = [stChildThreadList EXCEPT ![p] = Append(Tail(@), Head(@))]
      BY <1>6, <2>6 DEF IdleEndChild
    <3> HIDE DEF f, g, p
    <3>2. SameFamilies
      <4>1. IsList(kids, Range(kids))
        BY <2>2, ListsAgain
      <4>2. Range(Append(Tail(kids), Head(kids))) = Range(kids)
        BY <2>6, <4>1, ListRotate DEF IsList
      <4>3. stChildThreadList \in [TCB -> Seq(TCB)]
        BY <1>1 DEF Inv, KernelType
      <4>4. stChildThreadList'[p] = Append(Tail(kids), Head(kids))
        BY <2>2, <3>1, <4>3
      <4>5. \A q \in TCB : q # p => stChildThreadList'[q] = stChildThreadList[q]
        BY <3>1, <4>3
      <4> QED
        BY <2>4, <4>2, <4>4, <4>5 DEF SameFamilies
    <3> HIDE DEF kids
    <3> QED
      BY <1>3, <2>1, <2>2, <2>3, <3>1, <3>2
  <2> QED
    BY <2>5, <2>6
<1>7. CASE IdleProcess(c, x)
  <2>1. At(c, x, "kids") /\ pc[x] = "kids" /\ UNCHANGED links /\ SameFamilies
    BY <1>4a, <1>7 DEF IdleProcess, At, pool, flags
  <2>2. isProcess[local[x].task]
    BY <1>2, <2>1 DEF Leaving
  <2>3. CASE stChildThreadList[local[x].task] = <<>>
    <3>1. Goto(x, "free") /\ Set(x, local[x])
      BY <1>4, <1>7, <2>3 DEF IdleProcess
    <3>2. stChildThreadList'[local[x].task] = <<>>
      BY <2>1, <2>3 DEF links
    <3> QED
      BY <1>3, <2>1, <2>2, <3>1, <3>2
  <2>4. CASE stChildThreadList[local[x].task] # <<>>
    <3>1. Goto(x, "take") /\ Set(x, Blank)
      BY <1>7, <2>4 DEF IdleProcess
    <3> QED
      BY <1>3, <2>1, <3>1
  <2> QED
    BY <2>3, <2>4
<1>8. CASE IdleThread(c, x)
  <2> DEFINE t == local[x].task
             p == ProcessOf(t)
             f == [local[x] EXCEPT !.op = "unlink", !.id = ID(p)]
  <2>1. At(c, x, "unlink") /\ pc[x] = "unlink" /\ SameFamilies
    BY <1>4a, <1>8 DEF IdleThread, At, pool, flags
  <2>2. ~isProcess[t] /\ t \in TCB
    BY <1>1, <1>2, <2>1, HeldByIdle DEF Leaving
  <2>3. p \in TCB /\ qwParentProcessID[t] = ID(p)
    BY <1>1, <2>1, <2>2, ThreadFindsProcess
  <2>4. p # None
    BY <2>3
  <2>5. Goto(x, "find") /\ Set(x, f)
    BY <1>8, <2>4 DEF IdleThread
  <2>6. f.task = t /\ f.op = "unlink" /\ f.id = ID(p)
    BY <1>2 DEF Frame
  <2> HIDE DEF f, t, p
  <2> QED
    BY <1>3, <2>1, <2>2, <2>3, <2>5, <2>6
<1>9. CASE Find(c, x)
  <2> DEFINE t == local[x].task
             id == local[x].id
             f == [local[x] EXCEPT !.apic = bAPICID[id.slot]]
  <2>1. At(c, x, "find") /\ pc[x] = "find" /\ SameFamilies
    BY <1>4a, <1>9 DEF Find, At, pool, flags
  <2>2. local[x].op = "unlink" => ~isProcess[t] /\ id = qwParentProcessID[t]
    BY <1>2, <2>1 DEF Leaving
  <2>3. local[x].op = "unlink" => t \in TCB
    BY <1>2, <2>1 DEF TaskAt, LookingInv, Frame
  <2>4. local[x].op = "unlink" => Names(id, id.slot)
    <3>1. ASSUME local[x].op = "unlink" PROVE Names(id, id.slot)
      <4>1. t \in TCB /\ ~isProcess[t] /\ id = qwParentProcessID[t]
        BY <2>2, <2>3, <3>1
      <4> DEFINE p == ProcessOf(t)
      <4>2. qwParentProcessID[t] = ID(p) /\ Names(qwParentProcessID[t], p) /\ ID(p).slot = p
        BY <1>1, <2>1, <4>1, ThreadFindsProcess
      <4> HIDE DEF p, t, id
      <4> QED
        BY <4>1, <4>2
    <3> QED
      BY <3>1
  <2>5. local[x].op = "endChild" => isProcess[t]
    BY <1>2, <2>1 DEF Leaving
  <2>6. \/ Goto(x, "lock") /\ Set(x, f)
        \/ Return(x)
        \/ local[x].op = "endChild" /\ Goto(x, "kids") /\ Set(x, local[x])
    BY <1>4, <1>9, <2>4 DEF Find
  <2>7. CASE Goto(x, "lock") /\ Set(x, f)
    <3>1. f.task = t /\ f.op = local[x].op /\ f.id = id
      BY <1>2 DEF Frame
    <3> HIDE DEF f, t, id
    <3> QED
      BY <1>3, <2>1, <2>2, <2>5, <2>7, <3>1
  <2>8. CASE Return(x)
    <3>1. Goto(x, local[x].ret) /\ Set(x, Blank)
      BY <2>8 DEF Return
    <3>2. local[x].ret \in {"run", "idle", "dead", "iret"}
      BY <1>2 DEF Frame
    <3> QED
      BY <1>3, <2>1, <3>1, <3>2
  <2>9. CASE local[x].op = "endChild" /\ Goto(x, "kids") /\ Set(x, local[x])
    BY <1>3, <2>1, <2>5, <2>9
  <2> QED
    BY <2>6, <2>7, <2>8, <2>9
<1>10. CASE Moved(c, x) \/ Elsewhere(c, x)
  <2>1. /\ pc[x] = "lock" /\ Set(x, local[x]) /\ SameFamilies
        /\ Goto(x, "find") \/ Goto(x, "mark")
    BY <1>4, <1>4a, <1>10 DEF Moved, Elsewhere, Locked, At, pool, flags
  <2>2. /\ local[x].op = "endChild" => isProcess[local[x].task]
        /\ local[x].op = "unlink"
             => ~isProcess[local[x].task] /\ local[x].id = qwParentProcessID[local[x].task]
    BY <1>2, <2>1 DEF Leaving
  <2> QED
    BY <1>3, <2>1, <2>2
<1>11. CASE EndLocked(c, x) /\ local[x].op = "endChild"
  <2>1. pc[x] = "lock" /\ Locked(c, x, {"end", "endChild"})
    BY <1>11 DEF EndLocked, Locked, At
  <2>2. UNCHANGED <<qwID, isProcess, links>>
    BY <1>11 DEF EndLocked, SetEndTask, pool
  <2>3. ~IsRunning(x)
    BY <1>1, <1>11, <2>1, EndsChild
  <2>4. Goto(x, "kids") /\ Set(x, local[x])
    BY <1>4, <1>11, <2>3 DEF EndLocked
  <2>5. isProcess[local[x].task]
    BY <1>2, <1>11, <2>1 DEF Leaving
  <2> QED
    BY <1>3, <1>4a, <2>1, <2>2, <2>4, <2>5
<1>12. CASE MarkEnd(c, x)
  <2>1. pc[x] = "mark" /\ local[x].op \in {"end", "endChild"}
    BY <1>12 DEF MarkEnd, At
  <2>2. UNCHANGED <<qwID, isProcess, links>>
    BY <1>12 DEF MarkEnd, SetEndTask, pool
  <2>3. local[x].op # "end"
    BY <1>2, <2>1 DEF TaskAt, LookingInv
  <2>4. Goto(x, "kids") /\ Set(x, local[x])
    BY <1>4, <1>12, <2>1, <2>3 DEF MarkEnd
  <2>5. isProcess[local[x].task]
    BY <1>2, <2>1, <2>3 DEF Leaving
  <2> QED
    BY <1>3, <1>4a, <2>1, <2>2, <2>4, <2>5
<1> QED
  BY <1>5, <1>6, <1>7, <1>8, <1>9, <1>10, <1>11, <1>12

\* The thread leaves the one list it is in.
LEMMA FamilyOfUnlink ==
    ASSUME IInv, FamilyInv, NEW c \in Core, NEW x \in TCB, UnlinkLocked(c, x)
    PROVE  FamilyInv'
<1> USE Contexts DEF Looking, Switching
<1> DEFINE t == local[x].task
           p == local[x].id.slot
           new == kRemoveList(stChildThreadList[p], t)
<1>1. PICK kind \in [TCB -> Kinds], level \in [TCB -> Priority],
          holder \in [TCB -> Context] : Inv(kind, level, holder)
  BY DEF IInv
<1>2. At(c, x, "lock") /\ pc[x] = "lock" /\ local[x].op = "unlink" /\ local[x] \in Frame
  BY <1>1, ContextTypes DEF UnlinkLocked, Locked, At
<1>3. ~isProcess[t] /\ local[x].id = qwParentProcessID[t]
  BY <1>2 DEF FamilyInv, Leaving
<1>4. t \in TCB /\ p \in TCB
  BY <1>1, <1>2 DEF Inv, TaskInv, TaskAt, LookingInv, Frame
<1>5. /\ stChildThreadList' = [stChildThreadList EXCEPT ![p] = new]
      /\ pc' = [pc EXCEPT ![x] = "free"]
      /\ UNCHANGED <<qwID, isProcess, qwParentProcessID, local>>
  BY DEF UnlinkLocked, Goto, pool, flags
<1>6. \A u \in TCB : IsList(stChildThreadList[u], Range(stChildThreadList[u]))
  BY ListsAgain
<1>7. IsList(new, Range(stChildThreadList[p]) \ {t})
  BY <1>4, <1>6, ListRemove
<1> HIDE DEF new
<1>8. \A u \in TCB :
         stChildThreadList'[u] = IF u = p THEN new ELSE stChildThreadList[u]
  BY <1>1, <1>4, <1>5 DEF Inv, KernelType
<1>9. /\ pc'[x] = "free" /\ \A z \in TCB : z # x => pc'[z] = pc[z]
  BY <1>1, <1>5 DEF Inv, ContextType
<1> HIDE DEF t, p
<1>10. \A u \in TCB : HasLeft(u)' <=> HasLeft(u) \/ u = t
  BY <1>2, <1>4, <1>5, <1>9 DEF HasLeft, t
<1>11. ChildrenInv'
  <2> SUFFICES ASSUME NEW q \in TCB, NEW u \in Range(stChildThreadList'[q])
               PROVE  /\ qwID[q] # 0 /\ qwID[u] # 0 /\ qwParentProcessID[u] = ID(q)
                      /\ ~isProcess[u] /\ ~HasLeft(u)' /\ isProcess[q]
    BY <1>5 DEF ChildrenInv, ID
  <2>1. u \in Range(stChildThreadList[q]) /\ (q = p => u # t)
    BY <1>7, <1>8 DEF IsList
  <2>2. /\ qwID[q] # 0 /\ qwID[u] # 0 /\ qwParentProcessID[u] = ID(q)
        /\ ~isProcess[u] /\ ~HasLeft(u) /\ isProcess[q]
    BY <2>1 DEF FamilyInv, ChildrenInv
  <2>3. u # t
    <3> SUFFICES ASSUME u = t PROVE q = p
      BY <2>1
    <3>1. local[x].id = ID(q)
      BY <1>3, <2>2
    <3> QED
      BY <3>1 DEF ID, p
  <2>4. u \in TCB
    <3>1. stChildThreadList[q] \in Seq(TCB)
      BY <1>6 DEF IsList
    <3> QED
      BY <2>1, <3>1 DEF Range
  <2> QED
    BY <1>10, <2>2, <2>3, <2>4
<1>12. ParentInv'
  <2> SUFFICES ASSUME NEW u \in TCB, qwID[u] # 0, ~isProcess[u], ~HasLeft(u)'
               PROVE  \E q \in TCB : /\ qwParentProcessID[u] = ID(q)
                                     /\ Contains(stChildThreadList'[q], u)
    BY <1>5 DEF ParentInv, ID
  <2>1. u # t /\ ~HasLeft(u)
    BY <1>10
  <2>2. PICK q \in TCB : qwParentProcessID[u] = ID(q) /\ Contains(stChildThreadList[q], u)
    BY <2>1 DEF FamilyInv, ParentInv
  <2>3. Contains(stChildThreadList'[q], u)
    <3>1. CASE q = p
      <4>1. u \in Range(stChildThreadList[p])
        BY <1>4, <1>6, <2>2, <3>1, ListContains
      <4>2. Contains(new, u)
        BY <1>7, <2>1, <4>1, ListContains
      <4> QED
        BY <1>8, <3>1, <4>2
    <3>2. CASE q # p
      BY <1>8, <2>2, <3>2
    <3> QED
      BY <3>1, <3>2
  <2> QED
    BY <2>2, <2>3
<1>13. ASSUME NEW z \in TCB PROVE Leaving(z)'
  <2>1. pc'[z] = "free" => stChildThreadList[local[z].task] = <<>>
    <3>1. CASE z = x
      <4>1. t \in TCB /\ ~isProcess[t] /\ t = local[z].task
        BY <1>3, <1>4, <3>1 DEF t
      <4>2. Range(stChildThreadList[t]) = {}
        BY <4>1 DEF FamilyInv, ChildrenInv
      <4> QED
        BY <4>1, <4>2, ListsAgain
    <3>2. CASE z # x
      BY <1>9, <3>2 DEF FamilyInv, Leaving
    <3> QED
      BY <3>1, <3>2
  <2>2. pc'[z] = "free" => local[z].task \in TCB
    <3>1. z = x \/ pc'[z] = pc[z]
      BY <1>9
    <3>2. z = x => local[z].task \in TCB
      BY <1>4 DEF t
    <3>3. pc[z] = "free" => local[z].task \in TCB
      BY <1>1, ContextTypes DEF Inv, TaskInv, TaskAt, Cleaning, Frame
    <3> QED
      BY <3>1, <3>2, <3>3
  <2>3. pc'[z] = "free" => stChildThreadList'[local[z].task] = <<>>
    <3> SUFFICES ASSUME pc'[z] = "free" PROVE stChildThreadList'[local[z].task] = <<>>
      OBVIOUS
    <3>1. Range(stChildThreadList[local[z].task]) = {}
      BY <2>1, <2>2, ListsAgain
    <3>2. CASE local[z].task = p
      <4>1. IsList(new, {} \ {t})
        BY <1>7, <3>1, <3>2
      <4>2. new = <<>>
        BY <4>1, ListOfNone
      <4> QED
        BY <1>8, <2>2, <3>2, <4>2
    <3>3. CASE local[z].task # p
      BY <1>8, <2>1, <2>2, <3>3
    <3> QED
      BY <3>2, <3>3
  <2> QED
    BY <1>5, <1>9, <2>3 DEF FamilyInv, Leaving
<1> QED
  BY <1>11, <1>12, <1>13 DEF FamilyInv

\* A TCB that is freed is in no child list and has none.
LEMMA FamilyOfFree ==
    ASSUME OwnCallsOnly, IInv, FamilyInv, NEW c \in Core, NEW x \in TCB, IdleFree(c, x)
    PROVE  FamilyInv'
<1> USE Contexts DEF Looking
<1> DEFINE t == local[x].task
<1>1. PICK kind \in [TCB -> Kinds], level \in [TCB -> Priority],
          holder \in [TCB -> Context] : Inv(kind, level, holder)
  BY DEF IInv
<1>2. At(c, x, "free") /\ pc[x] = "free"
  BY DEF IdleFree, At
<1>3. t \in TCB /\ t # x /\ stChildThreadList[t] = <<>> /\ HasLeft(t)
  <2>1. t \in TCB /\ t # x
    BY <1>1, <1>2, HeldByIdle
  <2>2. Leaving(x)
    BY DEF FamilyInv
  <2> QED
    BY <1>2, <2>1, <2>2 DEF HasLeft, Leaving
<1>4. /\ qwID' = [qwID EXCEPT ![t] = 0]
      /\ pc' = [pc EXCEPT ![x] = "take", ![t] = "stopped"]
      /\ local' = [local EXCEPT ![x] = Blank, ![t] = Blank]
      /\ UNCHANGED <<isProcess, links>>
  BY DEF IdleFree, kFreeTCB, flags
<1>5. \A y \in TCB : local[y].task = t => y = x
  BY <1>1, <1>3, HeldAlone
<1>6. pc[t] # "free"
  <2>1. TaskAt(t) /\ endTask[t]
    BY <1>1, <1>2, <1>3, HeldByIdle DEF Inv, TaskInv
  <2>2. ~Boot[t].idle
    BY <1>1, <1>3, <2>1, IdleLives
  <2> QED
    BY <2>1, <2>2 DEF TaskAt, Cleaning
<1> HIDE DEF t
<1>7. /\ pc'[x] = "take" /\ pc'[t] = "stopped" /\ local'[x] = Blank /\ local'[t] = Blank
      /\ \A z \in TCB : z # x /\ z # t => pc'[z] = pc[z] /\ local'[z] = local[z]
      /\ \A z \in TCB : z # t => qwID'[z] = qwID[z]
      /\ qwID'[t] = 0
  BY <1>1, <1>3, <1>4 DEF Inv, ContextType, KernelType
<1>8. \A u \in TCB : u # t => (HasLeft(u)' <=> HasLeft(u))
  <2> SUFFICES ASSUME NEW u \in TCB, u # t PROVE HasLeft(u)' <=> HasLeft(u)
    OBVIOUS
  <2>1. local[x].task = t
    BY DEF t
  <2> QED
    BY <1>6, <1>7, <2>1 DEF HasLeft
<1>9. \A q \in TCB : stChildThreadList[q] \in Seq(TCB)
  BY <1>1 DEF Inv, KernelType
<1>10. \A u : ID(u)' = [slot |-> u, count |-> qwID'[u]] /\ ID(u) = [slot |-> u, count |-> qwID[u]]
  BY DEF ID
<1>11. ChildrenInv'
  <2> SUFFICES ASSUME NEW q \in TCB, NEW u \in Range(stChildThreadList[q])
               PROVE  /\ qwID'[q] # 0 /\ qwID'[u] # 0 /\ qwParentProcessID[u] = ID(q)'
                      /\ ~isProcess[u] /\ ~HasLeft(u)' /\ isProcess[q]
    BY <1>4 DEF ChildrenInv, links
  <2>1. /\ qwID[q] # 0 /\ qwID[u] # 0 /\ qwParentProcessID[u] = ID(q)
        /\ ~isProcess[u] /\ ~HasLeft(u) /\ isProcess[q]
    BY DEF FamilyInv, ChildrenInv
  <2>2. u \in TCB
    BY <1>9 DEF Range
  <2>3. u # t
    BY <1>3, <2>1
  <2>4. q # t
    BY <1>3 DEF Range
  <2> QED
    BY <1>7, <1>8, <1>10, <2>1, <2>2, <2>3, <2>4
<1>12. ParentInv'
  <2> SUFFICES ASSUME NEW u \in TCB, qwID'[u] # 0, ~isProcess[u], ~HasLeft(u)'
               PROVE  \E q \in TCB : /\ qwParentProcessID[u] = ID(q)'
                                     /\ Contains(stChildThreadList[q], u)
    BY <1>4 DEF ParentInv, links
  <2>1. u # t /\ qwID[u] # 0 /\ ~HasLeft(u)
    BY <1>7, <1>8
  <2>2. PICK q \in TCB : qwParentProcessID[u] = ID(q) /\ Contains(stChildThreadList[q], u)
    BY <2>1 DEF FamilyInv, ParentInv
  <2>3. q # t
    BY <1>3, <2>2 DEF Contains
  <2> QED
    BY <1>7, <1>10, <2>2, <2>3
<1>13. ASSUME NEW z \in TCB PROVE Leaving(z)'
  <2>1. CASE z = x \/ z = t
    BY <1>7, <2>1 DEF Leaving
  <2>2. CASE ~(z = x \/ z = t)
    <3>1. pc'[z] = pc[z] /\ local'[z] = local[z] /\ UNCHANGED <<isProcess, links>>
      BY <1>4, <1>7, <2>2
    <3> QED
      BY <3>1 DEF FamilyInv, Leaving, links
  <2> QED
    BY <2>1, <2>2
<1> QED
  BY <1>11, <1>12, <1>13 DEF FamilyInv

\* The handlers concern no family.
LEMMA FamilyOfHandlers ==
    ASSUME IInv, IInv', FamilyInv, NEW c \in Core, kScheduleInInterrupt(c) \/ Handler(c)
    PROVE  FamilyInv'
<1> USE Contexts
<1>1. PICK kind \in [TCB -> Kinds], level \in [TCB -> Priority],
          holder \in [TCB -> Context] : Inv(kind, level, holder)
  BY DEF IInv
<1>2. CASE Handler(c)
  <2>1. UNCHANGED <<qwID, isProcess, links>>
    BY <1>2 DEF Handler, Preempted, AddTarget, AddInsert, InterruptReturn, pool, flags
  <2>2. (\E l : Goto(c, l)) /\ (UNCHANGED local \/ \E f : Set(c, f))
    <3>1. CASE Preempted(c)
      BY <3>1 DEF Preempted
    <3>2. CASE AddTarget(c, c)
      BY <3>2 DEF AddTarget
    <3>3. CASE AddInsert(c, c)
      BY <3>3 DEF AddInsert
    <3>4. CASE InterruptReturn(c)
      BY <3>4 DEF InterruptReturn
    <3> QED
      BY <1>2, <3>1, <3>2, <3>3, <3>4 DEF Handler
  <2>3. \A z \in TCB : pc'[z] = pc[z] /\ local'[z] = local[z]
    BY <1>1, <2>2 DEF Goto, Set, Inv, ContextType
  <2>4. \A t \in TCB : HasLeft(t)' <=> HasLeft(t)
    BY <2>3 DEF HasLeft
  <2>5. \A z \in TCB : Leaving(z)'
    BY <2>1, <2>3 DEF FamilyInv, Leaving, links
  <2>6. SameFamilies
    BY <2>1 DEF SameFamilies, links
  <2> QED
    BY <2>4, <2>5, <2>6, FamilyStays
<1>3. CASE kScheduleInInterrupt(c)
  <2> DEFINE x == executing[c]
  <2>1. x \in TCB /\ TaskAt(x) /\ UNCHANGED <<qwID, isProcess, links>>
    BY <1>1, <1>3, Interrupted DEF kScheduleInInterrupt, flags
  <2>2. pstRunningTask[c] = x /\ Chosen(x)
    BY <1>1, <1>3, Interrupted DEF Chosen
  <2>3. /\ \A z \in TCB : local'[z] = local[z] /\ (z # x => pc'[z] = pc[z])
        /\ pc'[x] = pc[x] \/ (endTask[x] /\ pc'[x] = "stopped")
    <3>1. \/ UNCHANGED <<pc, local>>
          \/ /\ \E f : Set(c, f)
             /\ \E l : pc' = [pc EXCEPT ![c] = l, ![x] = IF endTask[x] THEN "stopped" ELSE @]
      BY <1>3, <2>2 DEF kScheduleInInterrupt
    <3> HIDE DEF x
    <3> QED
      BY <1>1, <2>1, <3>1 DEF Set, Inv, ContextType
  <2> HIDE DEF x
  <2>4. endTask[x] => pc[x] # "free"
    BY <2>1, <2>2 DEF TaskAt, EndingLabels, InterruptsOff
  <2>5. \A t \in TCB : HasLeft(t)' <=> HasLeft(t)
    BY <2>1, <2>3, <2>4 DEF HasLeft
  <2>6. ASSUME NEW z \in TCB PROVE Leaving(z)'
    BY <2>1, <2>3 DEF FamilyInv, Leaving, links, Looking
  <2>7. SameFamilies
    BY <2>1 DEF SameFamilies, links
  <2> QED
    BY <2>5, <2>6, <2>7, FamilyStays
<1> QED
  BY <1>2, <1>3

LEMMA NextFamily ==
    OwnCallsOnly /\ IInv /\ IInv' /\ FamilyInv /\ [Next]_vars => FamilyInv'
<1> SUFFICES ASSUME OwnCallsOnly, IInv, IInv', FamilyInv, [Next]_vars PROVE FamilyInv'
  OBVIOUS
<1>1. PICK kind \in [TCB -> Kinds], level \in [TCB -> Priority],
          holder \in [TCB -> Context] : Inv(kind, level, holder)
  BY DEF IInv
<1>2. CASE UNCHANGED vars
  BY <1>2 DEF vars, pool, flags, links, FamilyInv, ChildrenInv, ParentInv, Leaving, HasLeft, ID
<1>3. CASE Next
  <2>1. PICK c \in Core : \/ kScheduleInInterrupt(c) \/ Handler(c)
                          \/ \E x \in TCB : Kernel(c, x) \/ UserCall(c, x)
    BY <1>3 DEF Next
  <2>2. CASE kScheduleInInterrupt(c) \/ Handler(c)
    BY <2>2, FamilyOfHandlers
  <2>3. ASSUME NEW x \in TCB, Kernel(c, x) PROVE FamilyInv'
    <3>1. /\ ~ExitRead(c, x) /\ ~CreateStack(c, x) /\ ~CreateLink(c, x)
          /\ ~CreateSetUp(c, x) /\ ~AddTarget(c, x) /\ ~AddInsert(c, x)
          /\ ~MarkAffinity(c, x)
      BY <1>1, OtherLabels, NoMarkAffinity
    <3>2. EndLocked(c, x) => local[x].op \in {"end", "endChild"}
      BY DEF EndLocked, Locked
    <3>3. CASE \/ IdleTake(c, x) \/ IdleEndChild(c, x) \/ IdleProcess(c, x)
               \/ IdleThread(c, x) \/ Find(c, x) \/ Moved(c, x) \/ Elsewhere(c, x)
               \/ EndLocked(c, x) /\ local[x].op = "endChild"
               \/ MarkEnd(c, x)
      BY <3>3, FamilyOfCleaning
    <3>4. CASE UnlinkLocked(c, x) \/ IdleFree(c, x)
      BY <3>4, FamilyOfUnlink, FamilyOfFree
    <3>5. CASE \/ ScheduleCount(c, x) \/ SchedulePick(c, x) \/ SwitchContext(c, x)
               \/ EndLocked(c, x) /\ local[x].op = "end"
               \/ EndSelf(c, x) \/ PriorityLocked(c, x) \/ MarkPriority(c, x)
               \/ AffinityLocked(c, x) \/ Idle(c, x)
      BY <3>5, FamilyOfOrdinary
    <3> QED
      BY <2>3, <3>1, <3>2, <3>3, <3>4, <3>5 DEF Kernel, Mark
  <2>4. ASSUME NEW x \in TCB, UserCall(c, x) PROVE FamilyInv'
    BY <2>4, FamilyOfOrdinary
  <2> QED
    BY <2>1, <2>2, <2>3, <2>4
<1> QED
  BY <1>2, <1>3

\* Neither does a process go before its threads, nor is a thread that runs, or is
\* ready to, left without its process, in whose child list it is.
THEOREM Families == ASSUME OwnCallsOnly PROVE Spec => []FamilyIsConsistent
<1>1. Init => FamilyInv
  BY InitFamily
<1>2. IInv /\ IInv' /\ FamilyInv /\ [Next]_vars => FamilyInv'
  BY NextFamily
<1>3. ASSUME IInv, FamilyInv PROVE FamilyIsConsistent
  <2>1. PICK kind \in [TCB -> Kinds], level \in [TCB -> Priority],
          holder \in [TCB -> Context] : Inv(kind, level, holder)
    BY <1>3 DEF IInv
  <2>2. ChildListsConsistent
    BY <1>3 DEF FamilyInv, ChildrenInv, ChildListsConsistent
  <2>3. ThreadHasItsProcess
    <3> SUFFICES ASSUME NEW t \in TCB, ~isProcess[t],
                        \E c \in Core : \/ pstRunningTask[c] = t
                                        \/ \E p \in Priority : Contains(vstReadyList[c][p], t)
                 PROVE  \E p \in TCB : /\ qwParentProcessID[t] = ID(p) /\ qwID[p] # 0
                                       /\ Contains(stChildThreadList[p], t)
      BY DEF ThreadHasItsProcess
    <3>1. kind[t] = "run" \/ kind[t] = "ready"
      <4>1. \A c \in Core : pstRunningTask[c] = t => kind[t] = "run"
        BY <2>1 DEF Inv, RunInv
      <4>2. ASSUME NEW c \in Core, NEW p \in Priority, Contains(vstReadyList[c][p], t)
            PROVE  kind[t] = "ready"
        <5>1. IsList(vstReadyList[c][p], ReadyTasks(kind, level, c, p))
          BY <2>1 DEF Inv, ListInv
        <5>2. t \in ReadyTasks(kind, level, c, p)
          BY <4>2, <5>1, ListContains
        <5> QED
          BY <5>2 DEF ReadyTasks
      <4> QED
        BY <4>1, <4>2
    <3>2. qwID[t] # 0
      BY <2>1, <3>1 DEF Inv, SlotInv
    <3>3. ~HasLeft(t)
      BY <2>1, <3>1, Contexts DEF HasLeft, Inv, HeldInv
    <3>4. PICK p \in TCB : /\ qwParentProcessID[t] = ID(p)
                           /\ Contains(stChildThreadList[p], t)
      BY <1>3, <3>2, <3>3 DEF FamilyInv, ParentInv
    <3>5. t \in Range(stChildThreadList[p])
      BY <3>4 DEF Contains, Range
    <3>6. qwID[p] # 0
      BY <1>3, <3>5 DEF FamilyInv, ChildrenInv
    <3> QED
      BY <3>4, <3>6
  <2> QED
    BY <2>2, <2>3 DEF FamilyIsConsistent
<1> QED
  BY <1>1, <1>2, <1>3, Invariance, PTL DEF Spec
===============================================================================
