------------------------------ MODULE Allocator ------------------------------
(***************************************************************************)
(* What kAllocateMemory and kFreeMemory promise to their callers: a task   *)
(* gets a run of memory units that nobody else holds, and keeps it until   *)
(* it gives it back.  BuddyMemory implements this (BuddyMemory!Abstract).  *)
(***************************************************************************)
EXTENDS Naturals

CONSTANTS Task,     \* who allocates
          Unit      \* the addresses of the units of memory

VARIABLE allocated  \* allocated[t]: the runs of units that t holds

Run == {a .. b : a, b \in Unit} \ {{}}

Init == allocated = [t \in Task |-> {}]

Allocate(t, s) ==
    /\ \A u \in Task : \A r \in allocated[u] : r \cap s = {}
    /\ allocated' = [allocated EXCEPT ![t] = @ \cup {s}]

Free(t, s) ==
    /\ s \in allocated[t]
    /\ allocated' = [allocated EXCEPT ![t] = @ \ {s}]

Next == \E t \in Task, s \in Run : Allocate(t, s) \/ Free(t, s)

Spec == Init /\ [][Next]_allocated
===============================================================================
