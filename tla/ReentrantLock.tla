---------------------------- MODULE ReentrantLock ----------------------------
(***************************************************************************)
(* What the kernel's locks promise to their callers: a lock has at most    *)
(* one owner, the owner may take it again, and it becomes free when the    *)
(* owner has released it as often as it took it.  SpinLock and the mutex   *)
(* of TaskSync implement this (their instance Abstract).                   *)
(***************************************************************************)
EXTENDS Naturals

CONSTANTS Owner,    \* who can own a lock
          Lock,     \* the locks
          NoOwner   \* "nobody", not in Owner

VARIABLES owner,    \* owner[l]: who owns l, or NoOwner
          depth     \* depth[l]: how often its owner has taken l

lockVars == <<owner, depth>>

Init ==
    /\ owner = [l \in Lock |-> NoOwner]
    /\ depth = [l \in Lock |-> 0]

\* o takes l, which is free or already its own.
Acquire(o, l) ==
    /\ owner[l] \in {NoOwner, o}
    /\ owner' = [owner EXCEPT ![l] = o]
    /\ depth' = [depth EXCEPT ![l] = @ + 1]

\* The owner gives l back once; the last release frees it.
Release(o, l) ==
    /\ owner[l] = o
    /\ owner' = [owner EXCEPT ![l] = IF depth[l] = 1 THEN NoOwner ELSE o]
    /\ depth' = [depth EXCEPT ![l] = @ - 1]

Next == \E o \in Owner, l \in Lock : Acquire(o, l) \/ Release(o, l)

Spec == Init /\ [][Next]_lockVars
=============================================================================
