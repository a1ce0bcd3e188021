---------------------------- MODULE SpinLockProofs ----------------------------
(***************************************************************************)
(* Proofs that SpinLock keeps its safety properties for every set of cores *)
(* and every set of ranked locks.                                          *)
(*                                                                         *)
(* The argument: IInv (SpinLock) is inductive.  One lemma per action shows *)
(* that the action keeps IInv; each lemma is laid out the same way:        *)
(*   <1>i  the parts of IInv before the step                               *)
(*   <1>k  what IInv says of the lock l the step works on                  *)
(*   <1>e  the effect of the step, variable by variable                    *)
(*   <1>t  the types the arithmetic needs                                  *)
(*   <1>p  how the step changes who possesses a lock                       *)
(*   <1>h  how it changes what the levels hold                             *)
(*   <1>1 to <1>8  the parts of IInv after the step, in IInv's order       *)
(* The parts that quantify over a core d, a level w and a lock m are split *)
(* into the level and the lock that make the step, another lock of that    *)
(* level, and another level.                                               *)
(***************************************************************************)
EXTENDS SpinLock, TLAPS

USE LockAssumption, NoAPICIDAssumption DEF lockRecord, caller, vars

\* A step after which no level possesses a lock it did not possess before keeps
\* mutual exclusion.
LEMMA MutualExclusionKept ==
    ASSUME MutualExclusion,
           \A d \in Core, w \in Level, m \in Lock :
               Possesses(d, w, m)' => Possesses(d, w, m)
    PROVE  MutualExclusion'
BY DEF MutualExclusion

\* A lock call: the caller's flag is saved, then interrupts are off.
LEMMA CallLockStep ==
    ASSUME IInv, NEW c \in Core, NEW v \in Level, NEW l \in Lock, CallLock(c, v, l)
    PROVE  IInv'
<1>i. /\ TypeOK /\ LevelInv /\ MutualExclusion /\ OwnerInv
      /\ CountInv /\ RankInv /\ FlagInv /\ KeptInv
  BY DEF IInv
<1>1. TypeOK'
  BY <1>i DEF TypeOK, PC, Acquiring, Clearing, CallLock, Goto, kSetInterruptFlag
<1>e. /\ Running(c, v) /\ pc[c][v] = "idle" /\ pc'[c][v] = "tryLock"
      /\ \A d \in Core, w \in Level : d # c \/ w # v => pc'[d][w] = pc[d][w]
      /\ arg'[c][v] = l
      /\ \A d \in Core, w \in Level : d # c \/ w # v => arg'[d][w] = arg[d][w]
      /\ saved'[c][v] <=> rflagsIF[c]
      /\ \A d \in Core, w \in Level : d # c \/ w # v => saved'[d][w] = saved[d][w]
      /\ (rflagsIF'[c] <=> FALSE) /\ \A d \in Core : d # c => rflagsIF'[d] = rflagsIF[d]
      /\ UNCHANGED <<bLockFlag, bAPICID, dwLockCount, bInterruptFlag, inIrq, hold, callerIF>>
  BY <1>i DEF TypeOK, CallLock, Goto, kSetInterruptFlag
<1>t. \A d \in Core, w \in Level, m \in Lock :
         /\ hold[d][w][m] \in Nat /\ hold'[d][w][m] \in Nat
         /\ arg[d][w] \in Lock /\ m \in Nat /\ dwLockCount[m] \in Nat
  BY <1>i, <1>1 DEF TypeOK
<1>p. \A d \in Core, w \in Level, m \in Lock :
         Possesses(d, w, m)' <=> Possesses(d, w, m)
  <2> SUFFICES ASSUME NEW d \in Core, NEW w \in Level, NEW m \in Lock
               PROVE  Possesses(d, w, m)' <=> Possesses(d, w, m)
    OBVIOUS
  <2>1. CASE d = c /\ w = v /\ m = l
    BY <1>t, <1>e, <2>1 DEF Possesses, Acquiring
  <2>2. CASE d = c /\ w = v /\ m # l
    BY <1>t, <1>e, <2>2 DEF Possesses, Acquiring
  <2>3. CASE d # c \/ w # v
    BY <1>e, <2>3 DEF Possesses
  <2> QED
    BY <2>1, <2>2, <2>3
<1>h. \A d \in Core, w \in Level : d # c \/ w # v =>
         /\ HoldsNothing(d, w)' <=> HoldsNothing(d, w)
         /\ \A m \in Lock : Outermost(d, w, m)' <=> Outermost(d, w, m)
  BY <1>e DEF HoldsNothing, Outermost
<1>h0. HoldsNothing(c, v)' <=> HoldsNothing(c, v)
  BY <1>t, <1>e DEF HoldsNothing, Outermost
<1>h1. \A m \in Lock : Outermost(c, v, m)' <=> Outermost(c, v, m)
  BY <1>t, <1>e DEF HoldsNothing, Outermost
<1>2. LevelInv'
  BY <1>i, <1>e, <1>h, <1>h0, <1>h1 DEF LevelInv, Running
<1>3. MutualExclusion'
  BY <1>i, <1>p, MutualExclusionKept
<1>4. OwnerInv'
  <2> SUFFICES ASSUME NEW d \in Core, NEW w \in Level, NEW m \in Lock
               PROVE  OwnerAt(d, w, m)'
    BY DEF OwnerInv
  <2>i. /\ OwnerAt(d, w, m) /\ CountAt(d, w, m) /\ RankAt(d, w, m)
        /\ FlagAt(d, w) /\ KeptAt(d, w, m)
    BY <1>i DEF OwnerInv, CountInv, RankInv, FlagInv, KeptInv
  <2>1. CASE d = c /\ w = v /\ m = l
    BY <1>t, <1>e, <2>i, <1>p, <2>1 DEF OwnerAt, Possesses, Acquiring, Clearing, Running
  <2>2. CASE d = c /\ w = v /\ m # l
    BY <1>t, <1>e, <2>i, <1>p, <2>2 DEF OwnerAt, Possesses, Acquiring, Clearing, Running
  <2>3. CASE d # c \/ w # v
    <3>1. /\ pc'[d][w] = pc[d][w] /\ arg'[d][w] = arg[d][w]
          /\ hold'[d][w] = hold[d][w]
          /\ (Running(d, w)' <=> Running(d, w)) /\ UNCHANGED bAPICID
      BY <1>e, <2>3 DEF Running
    <3>2. Possesses(d, w, m)' => bLockFlag'[m]
      <4>1. Possesses(d, w, m) => bLockFlag[m]
        BY <2>i DEF OwnerAt
      <4> QED
        BY <1>e, <1>p, <2>3, <4>1
    <3> QED
      BY <3>1, <3>2, <2>i DEF OwnerAt
  <2> QED
    BY <2>1, <2>2, <2>3
<1>5. CountInv'
  <2> SUFFICES ASSUME NEW d \in Core, NEW w \in Level, NEW m \in Lock
               PROVE  CountAt(d, w, m)'
    BY DEF CountInv
  <2>i. /\ OwnerAt(d, w, m) /\ CountAt(d, w, m) /\ RankAt(d, w, m)
        /\ FlagAt(d, w) /\ KeptAt(d, w, m)
    BY <1>i DEF OwnerInv, CountInv, RankInv, FlagInv, KeptInv
  <2>1. CASE d = c /\ w = v /\ m = l
    BY <1>t, <1>e, <2>i, <2>1 DEF CountAt, OwnerAt, Acquiring, Clearing, Running
  <2>2. CASE d = c /\ w = v /\ m # l
    BY <1>t, <1>e, <2>i, <2>2 DEF CountAt, OwnerAt, Acquiring, Clearing, Running
  <2>3. CASE d # c \/ w # v
    BY <1>t, <1>e, <2>i, <1>i, <2>3 DEF CountAt, MutualExclusion, Possesses, Acquiring, Clearing
  <2> QED
    BY <2>1, <2>2, <2>3
<1>6. RankInv'
  <2> SUFFICES ASSUME NEW d \in Core, NEW w \in Level, NEW m \in Lock
               PROVE  RankAt(d, w, m)'
    BY DEF RankInv
  <2>i. /\ OwnerAt(d, w, m) /\ CountAt(d, w, m) /\ RankAt(d, w, m)
        /\ FlagAt(d, w) /\ KeptAt(d, w, m)
    BY <1>i DEF OwnerInv, CountInv, RankInv, FlagInv, KeptInv
  <2>1. CASE d = c /\ w = v /\ m = l
    BY <1>t, <1>e, <2>i, <2>1 DEF RankAt, Locking, Acquiring, Clearing, CallLock
  <2>2. CASE d = c /\ w = v /\ m # l
    BY <1>t, <1>e, <2>i, <2>2 DEF RankAt, Locking, Acquiring, Clearing, CallLock
  <2>3. CASE d # c \/ w # v
    BY <1>t, <1>e, <2>i, <1>i, <2>3 DEF RankAt, Locking, Acquiring, Clearing
  <2> QED
    BY <2>1, <2>2, <2>3
<1>7. FlagInv'
  <2> SUFFICES ASSUME NEW d \in Core, NEW w \in Level
               PROVE  FlagAt(d, w)'
    BY DEF FlagInv
  <2>1. CASE d = c /\ w = v
    BY <1>i, <1>1, <1>2, <1>e, <1>h, <1>h0, <1>h1, <2>1 DEF TypeOK, LevelInv, FlagInv, FlagAt, Locking, Acquiring, Clearing, Running
  <2>2. CASE d # c \/ w # v
    BY <1>i, <1>1, <1>2, <1>e, <1>h, <1>h0, <1>h1, <2>2 DEF TypeOK, LevelInv, FlagInv, FlagAt, Locking, Acquiring, Clearing, Running
  <2> QED
    BY <2>1, <2>2
<1>8. KeptInv'
  <2> SUFFICES ASSUME NEW d \in Core, NEW w \in Level, NEW m \in Lock
               PROVE  KeptAt(d, w, m)'
    BY DEF KeptInv
  <2>i. /\ OwnerAt(d, w, m) /\ CountAt(d, w, m) /\ RankAt(d, w, m)
        /\ FlagAt(d, w) /\ KeptAt(d, w, m)
    BY <1>i DEF OwnerInv, CountInv, RankInv, FlagInv, KeptInv
  <2>1. CASE d = c /\ w = v /\ m = l
    BY <1>t, <1>e, <2>i, <1>h, <1>h0, <1>h1, <2>1 DEF KeptAt, FlagAt, Locking, Acquiring, Clearing, Running
  <2>2. CASE d = c /\ w = v /\ m # l
    BY <1>t, <1>e, <2>i, <1>h, <1>h0, <1>h1, <2>2 DEF KeptAt, FlagAt, Locking, Acquiring, Clearing, Running
  <2>3. CASE d # c \/ w # v
    <3>1. /\ pc'[d][w] = pc[d][w] /\ arg'[d][w] = arg[d][w]
          /\ hold'[d][w] = hold[d][w]
          /\ UNCHANGED <<bInterruptFlag, callerIF>>
      BY <1>e, <2>3
    <3>2. Outermost(d, w, m)' <=> Outermost(d, w, m)
      BY <1>h, <2>3
    <3> QED
      BY <3>1, <3>2, <2>i DEF KeptAt
  <2> QED
    BY <2>1, <2>2, <2>3
<1> QED
  BY <1>1, <1>2, <1>3, <1>4, <1>5, <1>6, <1>7, <1>8 DEF IInv

\* The first kTestAndSet finds the flag clear: the level comes to possess the
\* lock, which nobody possessed because a possessed lock has its flag set.
LEMMA TryLockWinStep ==
    ASSUME IInv, NEW c \in Core, NEW v \in Level, NEW l \in Lock, TryLock(c, v),
           arg[c][v] = l, ~bLockFlag[l]
    PROVE  IInv'
<1>i. /\ TypeOK /\ LevelInv /\ MutualExclusion /\ OwnerInv
      /\ CountInv /\ RankInv /\ FlagInv /\ KeptInv
  BY DEF IInv
<1>k. hold[c][v][l] = 0
  <2>1. hold[c][v][l] \in Nat /\ arg[c][v] = l /\ OwnerAt(c, v, l) /\ CountAt(c, v, l)
    BY <1>i DEF TypeOK, OwnerInv, CountInv
  <2>2. \A m \in Lock : RankAt(c, v, m) /\ m \in Nat
    BY <1>i DEF RankInv
  <2> QED
    BY <2>1, <2>2 DEF OwnerAt, CountAt, RankAt, Locking, Acquiring, Clearing, TryLock, Goto, Possesses
<1>g. Goto(c, v, "tryLock", "setCount")
  BY DEF TryLock
<1>u. UNCHANGED <<bAPICID, dwLockCount, bInterruptFlag, rflagsIF, inIrq, arg, saved, hold, callerIF, calls>>
  BY DEF TryLock
<1>b. bLockFlag' = [bLockFlag EXCEPT ![l] = TRUE]
  BY DEF TryLock
<1>1. TypeOK'
  BY <1>i, <1>k, <1>g, <1>u, <1>b DEF TypeOK, PC, Acquiring, Clearing, Goto
<1>e. /\ Running(c, v) /\ pc[c][v] = "tryLock" /\ pc'[c][v] = "setCount"
      /\ \A d \in Core, w \in Level : d # c \/ w # v => pc'[d][w] = pc[d][w]
      /\ (bLockFlag'[l] <=> TRUE) /\ \A m \in Lock : m # l => bLockFlag'[m] = bLockFlag[m]
      /\ UNCHANGED <<bAPICID, dwLockCount, bInterruptFlag, rflagsIF, inIrq, arg, saved, hold, callerIF>>
  BY <1>i, <1>g, <1>u, <1>b DEF TypeOK, Goto
<1>t. \A d \in Core, w \in Level, m \in Lock :
         /\ hold[d][w][m] \in Nat /\ hold'[d][w][m] \in Nat
         /\ arg[d][w] \in Lock /\ m \in Nat /\ dwLockCount[m] \in Nat
  BY <1>i, <1>1 DEF TypeOK
<1>p. \A d \in Core, w \in Level, m \in Lock :
         Possesses(d, w, m)' <=> Possesses(d, w, m) \/ (d = c /\ w = v /\ m = l)
  <2> SUFFICES ASSUME NEW d \in Core, NEW w \in Level, NEW m \in Lock
               PROVE  Possesses(d, w, m)' <=> Possesses(d, w, m) \/ (d = c /\ w = v /\ m = l)
    OBVIOUS
  <2>1. CASE d = c /\ w = v /\ m = l
    BY <1>t, <1>k, <1>e, <2>1 DEF Possesses, Acquiring
  <2>2. CASE d = c /\ w = v /\ m # l
    BY <1>t, <1>k, <1>e, <2>2 DEF Possesses, Acquiring
  <2>3. CASE d # c \/ w # v
    BY <1>e, <2>3 DEF Possesses
  <2> QED
    BY <2>1, <2>2, <2>3
<1>h. \A d \in Core, w \in Level : d # c \/ w # v =>
         /\ HoldsNothing(d, w)' <=> HoldsNothing(d, w)
         /\ \A m \in Lock : Outermost(d, w, m)' <=> Outermost(d, w, m)
  BY <1>e DEF HoldsNothing, Outermost
<1>h0. HoldsNothing(c, v)' <=> HoldsNothing(c, v)
  BY <1>t, <1>k, <1>e DEF HoldsNothing, Outermost
<1>h1. \A m \in Lock : Outermost(c, v, m)' <=> Outermost(c, v, m)
  BY <1>t, <1>k, <1>e DEF HoldsNothing, Outermost
<1>2. LevelInv'
  BY <1>i, <1>e, <1>h, <1>h0, <1>h1 DEF LevelInv, Running
<1>3. MutualExclusion'
  BY <1>i, <1>p DEF MutualExclusion, OwnerInv, OwnerAt
<1>4. OwnerInv'
  <2> SUFFICES ASSUME NEW d \in Core, NEW w \in Level, NEW m \in Lock
               PROVE  OwnerAt(d, w, m)'
    BY DEF OwnerInv
  <2>i. /\ OwnerAt(d, w, m) /\ CountAt(d, w, m) /\ RankAt(d, w, m)
        /\ FlagAt(d, w) /\ KeptAt(d, w, m)
    BY <1>i DEF OwnerInv, CountInv, RankInv, FlagInv, KeptInv
  <2>1. CASE d = c /\ w = v /\ m = l
    BY <1>t, <1>k, <1>e, <2>i, <1>p, <2>1 DEF OwnerAt, Possesses, Acquiring, Clearing, Running
  <2>2. CASE d = c /\ w = v /\ m # l
    BY <1>t, <1>k, <1>e, <2>i, <1>p, <2>2 DEF OwnerAt, Possesses, Acquiring, Clearing, Running
  <2>3. CASE d # c \/ w # v
    <3>1. /\ pc'[d][w] = pc[d][w] /\ arg'[d][w] = arg[d][w]
          /\ hold'[d][w] = hold[d][w]
          /\ (Running(d, w)' <=> Running(d, w)) /\ UNCHANGED bAPICID
      BY <1>e, <2>3 DEF Running
    <3>2. Possesses(d, w, m)' => bLockFlag'[m]
      <4>1. Possesses(d, w, m) => bLockFlag[m]
        BY <2>i DEF OwnerAt
      <4> QED
        BY <1>e, <1>p, <2>3, <4>1
    <3> QED
      BY <3>1, <3>2, <2>i DEF OwnerAt
  <2> QED
    BY <2>1, <2>2, <2>3
<1>5. CountInv'
  <2> SUFFICES ASSUME NEW d \in Core, NEW w \in Level, NEW m \in Lock
               PROVE  CountAt(d, w, m)'
    BY DEF CountInv
  <2>i. /\ OwnerAt(d, w, m) /\ CountAt(d, w, m) /\ RankAt(d, w, m)
        /\ FlagAt(d, w) /\ KeptAt(d, w, m)
    BY <1>i DEF OwnerInv, CountInv, RankInv, FlagInv, KeptInv
  <2>1. CASE d = c /\ w = v /\ m = l
    BY <1>t, <1>k, <1>e, <2>i, <2>1 DEF CountAt, OwnerAt, Acquiring, Clearing, Running
  <2>2. CASE d = c /\ w = v /\ m # l
    BY <1>t, <1>k, <1>e, <2>i, <2>2 DEF CountAt, OwnerAt, Acquiring, Clearing, Running
  <2>3. CASE d # c \/ w # v
    BY <1>t, <1>k, <1>e, <2>i, <1>i, <2>3 DEF CountAt, MutualExclusion, Possesses, Acquiring, Clearing
  <2> QED
    BY <2>1, <2>2, <2>3
<1>6. RankInv'
  <2> SUFFICES ASSUME NEW d \in Core, NEW w \in Level, NEW m \in Lock
               PROVE  RankAt(d, w, m)'
    BY DEF RankInv
  <2>i. /\ OwnerAt(d, w, m) /\ CountAt(d, w, m) /\ RankAt(d, w, m)
        /\ FlagAt(d, w) /\ KeptAt(d, w, m)
    BY <1>i DEF OwnerInv, CountInv, RankInv, FlagInv, KeptInv
  <2>1. CASE d = c /\ w = v /\ m = l
    BY <1>t, <1>k, <1>e, <2>i, <2>1 DEF RankAt, Locking, Acquiring, Clearing
  <2>2. CASE d = c /\ w = v /\ m # l
    BY <1>t, <1>k, <1>e, <2>i, <2>2 DEF RankAt, Locking, Acquiring, Clearing
  <2>3. CASE d # c \/ w # v
    BY <1>t, <1>k, <1>e, <2>i, <1>i, <2>3 DEF RankAt, Locking, Acquiring, Clearing
  <2> QED
    BY <2>1, <2>2, <2>3
<1>7. FlagInv'
  <2> SUFFICES ASSUME NEW d \in Core, NEW w \in Level
               PROVE  FlagAt(d, w)'
    BY DEF FlagInv
  <2>1. CASE d = c /\ w = v
    BY <1>i, <1>k, <1>1, <1>2, <1>e, <1>h, <1>h0, <1>h1, <2>1 DEF TypeOK, LevelInv, FlagInv, FlagAt, Locking, Acquiring, Clearing, Running
  <2>2. CASE d # c \/ w # v
    BY <1>i, <1>k, <1>1, <1>2, <1>e, <1>h, <1>h0, <1>h1, <2>2 DEF TypeOK, LevelInv, FlagInv, FlagAt, Locking, Acquiring, Clearing, Running
  <2> QED
    BY <2>1, <2>2
<1>8. KeptInv'
  <2> SUFFICES ASSUME NEW d \in Core, NEW w \in Level, NEW m \in Lock
               PROVE  KeptAt(d, w, m)'
    BY DEF KeptInv
  <2>i. /\ OwnerAt(d, w, m) /\ CountAt(d, w, m) /\ RankAt(d, w, m)
        /\ FlagAt(d, w) /\ KeptAt(d, w, m)
    BY <1>i DEF OwnerInv, CountInv, RankInv, FlagInv, KeptInv
  <2>1. CASE d = c /\ w = v /\ m = l
    BY <1>t, <1>k, <1>e, <2>i, <1>h, <1>h0, <1>h1, <2>1 DEF KeptAt, FlagAt, Locking, Acquiring, Clearing, Running
  <2>2. CASE d = c /\ w = v /\ m # l
    BY <1>t, <1>k, <1>e, <2>i, <1>h, <1>h0, <1>h1, <2>2 DEF KeptAt, FlagAt, Locking, Acquiring, Clearing, Running
  <2>3. CASE d # c \/ w # v
    <3>1. /\ pc'[d][w] = pc[d][w] /\ arg'[d][w] = arg[d][w]
          /\ hold'[d][w] = hold[d][w]
          /\ UNCHANGED <<bInterruptFlag, callerIF>>
      BY <1>e, <2>3
    <3>2. Outermost(d, w, m)' <=> Outermost(d, w, m)
      BY <1>h, <2>3
    <3> QED
      BY <3>1, <3>2, <2>i DEF KeptAt
  <2> QED
    BY <2>1, <2>2, <2>3
<1> QED
  BY <1>1, <1>2, <1>3, <1>4, <1>5, <1>6, <1>7, <1>8 DEF IInv

\* The first kTestAndSet finds the flag set and changes nothing.
LEMMA TryLockLoseStep ==
    ASSUME IInv, NEW c \in Core, NEW v \in Level, NEW l \in Lock, TryLock(c, v),
           arg[c][v] = l, bLockFlag[l]
    PROVE  IInv'
<1>i. /\ TypeOK /\ LevelInv /\ MutualExclusion /\ OwnerInv
      /\ CountInv /\ RankInv /\ FlagInv /\ KeptInv
  BY DEF IInv
<1>g. Goto(c, v, "tryLock", "checkOwner")
  BY DEF TryLock
<1>u. UNCHANGED <<bAPICID, dwLockCount, bInterruptFlag, rflagsIF, inIrq, arg, saved, hold, callerIF, calls>>
  BY DEF TryLock
<1>b. UNCHANGED bLockFlag
  BY <1>i DEF TryLock, TypeOK
<1>1. TypeOK'
  BY <1>i, <1>g, <1>u, <1>b DEF TypeOK, PC, Acquiring, Clearing, Goto
<1>e. /\ Running(c, v) /\ pc[c][v] = "tryLock" /\ pc'[c][v] = "checkOwner"
      /\ \A d \in Core, w \in Level : d # c \/ w # v => pc'[d][w] = pc[d][w]
      /\ UNCHANGED <<bLockFlag, bAPICID, dwLockCount, bInterruptFlag, rflagsIF, inIrq, arg, saved, hold, callerIF>>
  BY <1>i, <1>g, <1>u, <1>b DEF TypeOK, Goto
<1>t. \A d \in Core, w \in Level, m \in Lock :
         /\ hold[d][w][m] \in Nat /\ hold'[d][w][m] \in Nat
         /\ arg[d][w] \in Lock /\ m \in Nat /\ dwLockCount[m] \in Nat
  BY <1>i, <1>1 DEF TypeOK
<1>p. \A d \in Core, w \in Level, m \in Lock :
         Possesses(d, w, m)' <=> Possesses(d, w, m)
  <2> SUFFICES ASSUME NEW d \in Core, NEW w \in Level, NEW m \in Lock
               PROVE  Possesses(d, w, m)' <=> Possesses(d, w, m)
    OBVIOUS
  <2>1. CASE d = c /\ w = v /\ m = l
    BY <1>t, <1>e, <2>1 DEF Possesses, Acquiring
  <2>2. CASE d = c /\ w = v /\ m # l
    BY <1>t, <1>e, <2>2 DEF Possesses, Acquiring
  <2>3. CASE d # c \/ w # v
    BY <1>e, <2>3 DEF Possesses
  <2> QED
    BY <2>1, <2>2, <2>3
<1>h. \A d \in Core, w \in Level : d # c \/ w # v =>
         /\ HoldsNothing(d, w)' <=> HoldsNothing(d, w)
         /\ \A m \in Lock : Outermost(d, w, m)' <=> Outermost(d, w, m)
  BY <1>e DEF HoldsNothing, Outermost
<1>h0. HoldsNothing(c, v)' <=> HoldsNothing(c, v)
  BY <1>t, <1>e DEF HoldsNothing, Outermost
<1>h1. \A m \in Lock : Outermost(c, v, m)' <=> Outermost(c, v, m)
  BY <1>t, <1>e DEF HoldsNothing, Outermost
<1>2. LevelInv'
  BY <1>i, <1>e, <1>h, <1>h0, <1>h1 DEF LevelInv, Running
<1>3. MutualExclusion'
  BY <1>i, <1>p, MutualExclusionKept
<1>4. OwnerInv'
  <2> SUFFICES ASSUME NEW d \in Core, NEW w \in Level, NEW m \in Lock
               PROVE  OwnerAt(d, w, m)'
    BY DEF OwnerInv
  <2>i. /\ OwnerAt(d, w, m) /\ CountAt(d, w, m) /\ RankAt(d, w, m)
        /\ FlagAt(d, w) /\ KeptAt(d, w, m)
    BY <1>i DEF OwnerInv, CountInv, RankInv, FlagInv, KeptInv
  <2>1. CASE d = c /\ w = v /\ m = l
    BY <1>t, <1>e, <2>i, <1>p, <2>1 DEF OwnerAt, Possesses, Acquiring, Clearing, Running
  <2>2. CASE d = c /\ w = v /\ m # l
    BY <1>t, <1>e, <2>i, <1>p, <2>2 DEF OwnerAt, Possesses, Acquiring, Clearing, Running
  <2>3. CASE d # c \/ w # v
    <3>1. /\ pc'[d][w] = pc[d][w] /\ arg'[d][w] = arg[d][w]
          /\ hold'[d][w] = hold[d][w]
          /\ (Running(d, w)' <=> Running(d, w)) /\ UNCHANGED bAPICID
      BY <1>e, <2>3 DEF Running
    <3>2. Possesses(d, w, m)' => bLockFlag'[m]
      <4>1. Possesses(d, w, m) => bLockFlag[m]
        BY <2>i DEF OwnerAt
      <4> QED
        BY <1>e, <1>p, <2>3, <4>1
    <3> QED
      BY <3>1, <3>2, <2>i DEF OwnerAt
  <2> QED
    BY <2>1, <2>2, <2>3
<1>5. CountInv'
  <2> SUFFICES ASSUME NEW d \in Core, NEW w \in Level, NEW m \in Lock
               PROVE  CountAt(d, w, m)'
    BY DEF CountInv
  <2>i. /\ OwnerAt(d, w, m) /\ CountAt(d, w, m) /\ RankAt(d, w, m)
        /\ FlagAt(d, w) /\ KeptAt(d, w, m)
    BY <1>i DEF OwnerInv, CountInv, RankInv, FlagInv, KeptInv
  <2>1. CASE d = c /\ w = v /\ m = l
    BY <1>t, <1>e, <2>i, <2>1 DEF CountAt, OwnerAt, Acquiring, Clearing, Running
  <2>2. CASE d = c /\ w = v /\ m # l
    BY <1>t, <1>e, <2>i, <2>2 DEF CountAt, OwnerAt, Acquiring, Clearing, Running
  <2>3. CASE d # c \/ w # v
    BY <1>t, <1>e, <2>i, <1>i, <2>3 DEF CountAt, MutualExclusion, Possesses, Acquiring, Clearing
  <2> QED
    BY <2>1, <2>2, <2>3
<1>6. RankInv'
  <2> SUFFICES ASSUME NEW d \in Core, NEW w \in Level, NEW m \in Lock
               PROVE  RankAt(d, w, m)'
    BY DEF RankInv
  <2>i. /\ OwnerAt(d, w, m) /\ CountAt(d, w, m) /\ RankAt(d, w, m)
        /\ FlagAt(d, w) /\ KeptAt(d, w, m)
    BY <1>i DEF OwnerInv, CountInv, RankInv, FlagInv, KeptInv
  <2>1. CASE d = c /\ w = v /\ m = l
    BY <1>t, <1>e, <2>i, <2>1 DEF RankAt, Locking, Acquiring, Clearing
  <2>2. CASE d = c /\ w = v /\ m # l
    BY <1>t, <1>e, <2>i, <2>2 DEF RankAt, Locking, Acquiring, Clearing
  <2>3. CASE d # c \/ w # v
    BY <1>t, <1>e, <2>i, <1>i, <2>3 DEF RankAt, Locking, Acquiring, Clearing
  <2> QED
    BY <2>1, <2>2, <2>3
<1>7. FlagInv'
  <2> SUFFICES ASSUME NEW d \in Core, NEW w \in Level
               PROVE  FlagAt(d, w)'
    BY DEF FlagInv
  <2>1. CASE d = c /\ w = v
    BY <1>i, <1>1, <1>2, <1>e, <1>h, <1>h0, <1>h1, <2>1 DEF TypeOK, LevelInv, FlagInv, FlagAt, Locking, Acquiring, Clearing, Running
  <2>2. CASE d # c \/ w # v
    BY <1>i, <1>1, <1>2, <1>e, <1>h, <1>h0, <1>h1, <2>2 DEF TypeOK, LevelInv, FlagInv, FlagAt, Locking, Acquiring, Clearing, Running
  <2> QED
    BY <2>1, <2>2
<1>8. KeptInv'
  <2> SUFFICES ASSUME NEW d \in Core, NEW w \in Level, NEW m \in Lock
               PROVE  KeptAt(d, w, m)'
    BY DEF KeptInv
  <2>i. /\ OwnerAt(d, w, m) /\ CountAt(d, w, m) /\ RankAt(d, w, m)
        /\ FlagAt(d, w) /\ KeptAt(d, w, m)
    BY <1>i DEF OwnerInv, CountInv, RankInv, FlagInv, KeptInv
  <2>1. CASE d = c /\ w = v /\ m = l
    BY <1>t, <1>e, <2>i, <1>h, <1>h0, <1>h1, <2>1 DEF KeptAt, FlagAt, Locking, Acquiring, Clearing, Running
  <2>2. CASE d = c /\ w = v /\ m # l
    BY <1>t, <1>e, <2>i, <1>h, <1>h0, <1>h1, <2>2 DEF KeptAt, FlagAt, Locking, Acquiring, Clearing, Running
  <2>3. CASE d # c \/ w # v
    <3>1. /\ pc'[d][w] = pc[d][w] /\ arg'[d][w] = arg[d][w]
          /\ hold'[d][w] = hold[d][w]
          /\ UNCHANGED <<bInterruptFlag, callerIF>>
      BY <1>e, <2>3
    <3>2. Outermost(d, w, m)' <=> Outermost(d, w, m)
      BY <1>h, <2>3
    <3> QED
      BY <3>1, <3>2, <2>i DEF KeptAt
  <2> QED
    BY <2>1, <2>2, <2>3
<1> QED
  BY <1>1, <1>2, <1>3, <1>4, <1>5, <1>6, <1>7, <1>8 DEF IInv

\* The owner is this core, so this very level holds the lock (OwnerInv).
LEMMA CheckOwnerOwnStep ==
    ASSUME IInv, NEW c \in Core, NEW v \in Level, NEW l \in Lock, CheckOwner(c, v),
           arg[c][v] = l, bAPICID[l] = c
    PROVE  IInv'
<1>i. /\ TypeOK /\ LevelInv /\ MutualExclusion /\ OwnerInv
      /\ CountInv /\ RankInv /\ FlagInv /\ KeptInv
  BY DEF IInv
<1>g. Goto(c, v, "checkOwner", "nest")
  BY DEF CheckOwner
<1>u. UNCHANGED <<bLockFlag, bAPICID, dwLockCount, bInterruptFlag, rflagsIF, inIrq, arg, saved, hold, callerIF, calls>>
  BY DEF CheckOwner
<1>1. TypeOK'
  BY <1>i, <1>g, <1>u DEF TypeOK, PC, Acquiring, Clearing, Goto
<1>e. /\ Running(c, v) /\ pc[c][v] = "checkOwner" /\ pc'[c][v] = "nest"
      /\ \A d \in Core, w \in Level : d # c \/ w # v => pc'[d][w] = pc[d][w]
      /\ UNCHANGED <<bLockFlag, bAPICID, dwLockCount, bInterruptFlag, rflagsIF, inIrq, arg, saved, hold, callerIF>>
  BY <1>i, <1>g, <1>u DEF TypeOK, Goto
<1>t. \A d \in Core, w \in Level, m \in Lock :
         /\ hold[d][w][m] \in Nat /\ hold'[d][w][m] \in Nat
         /\ arg[d][w] \in Lock /\ m \in Nat /\ dwLockCount[m] \in Nat
  BY <1>i, <1>1 DEF TypeOK
<1>p. \A d \in Core, w \in Level, m \in Lock :
         Possesses(d, w, m)' <=> Possesses(d, w, m)
  <2> SUFFICES ASSUME NEW d \in Core, NEW w \in Level, NEW m \in Lock
               PROVE  Possesses(d, w, m)' <=> Possesses(d, w, m)
    OBVIOUS
  <2>1. CASE d = c /\ w = v /\ m = l
    BY <1>t, <1>e, <2>1 DEF Possesses, Acquiring
  <2>2. CASE d = c /\ w = v /\ m # l
    BY <1>t, <1>e, <2>2 DEF Possesses, Acquiring
  <2>3. CASE d # c \/ w # v
    BY <1>e, <2>3 DEF Possesses
  <2> QED
    BY <2>1, <2>2, <2>3
<1>h. \A d \in Core, w \in Level : d # c \/ w # v =>
         /\ HoldsNothing(d, w)' <=> HoldsNothing(d, w)
         /\ \A m \in Lock : Outermost(d, w, m)' <=> Outermost(d, w, m)
  BY <1>e DEF HoldsNothing, Outermost
<1>h0. HoldsNothing(c, v)' <=> HoldsNothing(c, v)
  BY <1>t, <1>e DEF HoldsNothing, Outermost
<1>h1. \A m \in Lock : Outermost(c, v, m)' <=> Outermost(c, v, m)
  BY <1>t, <1>e DEF HoldsNothing, Outermost
<1>2. LevelInv'
  BY <1>i, <1>e, <1>h, <1>h0, <1>h1 DEF LevelInv, Running
<1>3. MutualExclusion'
  BY <1>i, <1>p, MutualExclusionKept
<1>4. OwnerInv'
  <2> SUFFICES ASSUME NEW d \in Core, NEW w \in Level, NEW m \in Lock
               PROVE  OwnerAt(d, w, m)'
    BY DEF OwnerInv
  <2>i. /\ OwnerAt(d, w, m) /\ CountAt(d, w, m) /\ RankAt(d, w, m)
        /\ FlagAt(d, w) /\ KeptAt(d, w, m)
    BY <1>i DEF OwnerInv, CountInv, RankInv, FlagInv, KeptInv
  <2>1. CASE d = c /\ w = v /\ m = l
    BY <1>t, <1>e, <2>i, <1>p, <2>1 DEF OwnerAt, Acquiring, Clearing, Running
  <2>2. CASE d = c /\ w = v /\ m # l
    BY <1>t, <1>e, <2>i, <1>p, <2>2 DEF OwnerAt, Acquiring, Clearing, Running
  <2>3. CASE d # c \/ w # v
    <3>1. /\ pc'[d][w] = pc[d][w] /\ arg'[d][w] = arg[d][w]
          /\ hold'[d][w] = hold[d][w]
          /\ (Running(d, w)' <=> Running(d, w)) /\ UNCHANGED bAPICID
      BY <1>e, <2>3 DEF Running
    <3>2. Possesses(d, w, m)' => bLockFlag'[m]
      <4>1. Possesses(d, w, m) => bLockFlag[m]
        BY <2>i DEF OwnerAt
      <4> QED
        BY <1>e, <1>p, <2>3, <4>1
    <3> QED
      BY <3>1, <3>2, <2>i DEF OwnerAt
  <2> QED
    BY <2>1, <2>2, <2>3
<1>5. CountInv'
  <2> SUFFICES ASSUME NEW d \in Core, NEW w \in Level, NEW m \in Lock
               PROVE  CountAt(d, w, m)'
    BY DEF CountInv
  <2>i. /\ OwnerAt(d, w, m) /\ CountAt(d, w, m) /\ RankAt(d, w, m)
        /\ FlagAt(d, w) /\ KeptAt(d, w, m)
    BY <1>i DEF OwnerInv, CountInv, RankInv, FlagInv, KeptInv
  <2>1. CASE d = c /\ w = v /\ m = l
    BY <1>t, <1>e, <2>i, <2>1 DEF CountAt, OwnerAt, Acquiring, Clearing, Running
  <2>2. CASE d = c /\ w = v /\ m # l
    BY <1>t, <1>e, <2>i, <2>2 DEF CountAt, OwnerAt, Acquiring, Clearing, Running
  <2>3. CASE d # c \/ w # v
    BY <1>t, <1>e, <2>i, <1>i, <2>3 DEF CountAt, MutualExclusion, Possesses, Acquiring, Clearing
  <2> QED
    BY <2>1, <2>2, <2>3
<1>6. RankInv'
  <2> SUFFICES ASSUME NEW d \in Core, NEW w \in Level, NEW m \in Lock
               PROVE  RankAt(d, w, m)'
    BY DEF RankInv
  <2>i. /\ OwnerAt(d, w, m) /\ CountAt(d, w, m) /\ RankAt(d, w, m)
        /\ FlagAt(d, w) /\ KeptAt(d, w, m)
    BY <1>i DEF OwnerInv, CountInv, RankInv, FlagInv, KeptInv
  <2>1. CASE d = c /\ w = v /\ m = l
    BY <1>t, <1>e, <2>i, <2>1 DEF RankAt, Locking, Acquiring, Clearing
  <2>2. CASE d = c /\ w = v /\ m # l
    BY <1>t, <1>e, <2>i, <2>2 DEF RankAt, Locking, Acquiring, Clearing
  <2>3. CASE d # c \/ w # v
    BY <1>t, <1>e, <2>i, <1>i, <2>3 DEF RankAt, Locking, Acquiring, Clearing
  <2> QED
    BY <2>1, <2>2, <2>3
<1>7. FlagInv'
  <2> SUFFICES ASSUME NEW d \in Core, NEW w \in Level
               PROVE  FlagAt(d, w)'
    BY DEF FlagInv
  <2>1. CASE d = c /\ w = v
    BY <1>i, <1>1, <1>2, <1>e, <1>h, <1>h0, <1>h1, <2>1 DEF TypeOK, LevelInv, FlagInv, FlagAt, Locking, Acquiring, Clearing, Running
  <2>2. CASE d # c \/ w # v
    BY <1>i, <1>1, <1>2, <1>e, <1>h, <1>h0, <1>h1, <2>2 DEF TypeOK, LevelInv, FlagInv, FlagAt, Locking, Acquiring, Clearing, Running
  <2> QED
    BY <2>1, <2>2
<1>8. KeptInv'
  <2> SUFFICES ASSUME NEW d \in Core, NEW w \in Level, NEW m \in Lock
               PROVE  KeptAt(d, w, m)'
    BY DEF KeptInv
  <2>i. /\ OwnerAt(d, w, m) /\ CountAt(d, w, m) /\ RankAt(d, w, m)
        /\ FlagAt(d, w) /\ KeptAt(d, w, m)
    BY <1>i DEF OwnerInv, CountInv, RankInv, FlagInv, KeptInv
  <2>1. CASE d = c /\ w = v /\ m = l
    BY <1>t, <1>e, <2>i, <1>h, <1>h0, <1>h1, <2>1 DEF KeptAt, FlagAt, Locking, Acquiring, Clearing, Running
  <2>2. CASE d = c /\ w = v /\ m # l
    BY <1>t, <1>e, <2>i, <1>h, <1>h0, <1>h1, <2>2 DEF KeptAt, FlagAt, Locking, Acquiring, Clearing, Running
  <2>3. CASE d # c \/ w # v
    <3>1. /\ pc'[d][w] = pc[d][w] /\ arg'[d][w] = arg[d][w]
          /\ hold'[d][w] = hold[d][w]
          /\ UNCHANGED <<bInterruptFlag, callerIF>>
      BY <1>e, <2>3
    <3>2. Outermost(d, w, m)' <=> Outermost(d, w, m)
      BY <1>h, <2>3
    <3> QED
      BY <3>1, <3>2, <2>i DEF KeptAt
  <2> QED
    BY <2>1, <2>2, <2>3
<1> QED
  BY <1>1, <1>2, <1>3, <1>4, <1>5, <1>6, <1>7, <1>8 DEF IInv

\* The owner is not this core, so this level does not hold the lock.
LEMMA CheckOwnerOtherStep ==
    ASSUME IInv, NEW c \in Core, NEW v \in Level, NEW l \in Lock, CheckOwner(c, v),
           arg[c][v] = l, bAPICID[l] # c
    PROVE  IInv'
<1>i. /\ TypeOK /\ LevelInv /\ MutualExclusion /\ OwnerInv
      /\ CountInv /\ RankInv /\ FlagInv /\ KeptInv
  BY DEF IInv
<1>g. Goto(c, v, "checkOwner", "spin")
  BY DEF CheckOwner
<1>u. UNCHANGED <<bLockFlag, bAPICID, dwLockCount, bInterruptFlag, rflagsIF, inIrq, arg, saved, hold, callerIF, calls>>
  BY DEF CheckOwner
<1>1. TypeOK'
  BY <1>i, <1>g, <1>u DEF TypeOK, PC, Acquiring, Clearing, Goto
<1>e. /\ Running(c, v) /\ pc[c][v] = "checkOwner" /\ pc'[c][v] = "spin"
      /\ \A d \in Core, w \in Level : d # c \/ w # v => pc'[d][w] = pc[d][w]
      /\ UNCHANGED <<bLockFlag, bAPICID, dwLockCount, bInterruptFlag, rflagsIF, inIrq, arg, saved, hold, callerIF>>
  BY <1>i, <1>g, <1>u DEF TypeOK, Goto
<1>t. \A d \in Core, w \in Level, m \in Lock :
         /\ hold[d][w][m] \in Nat /\ hold'[d][w][m] \in Nat
         /\ arg[d][w] \in Lock /\ m \in Nat /\ dwLockCount[m] \in Nat
  BY <1>i, <1>1 DEF TypeOK
<1>p. \A d \in Core, w \in Level, m \in Lock :
         Possesses(d, w, m)' <=> Possesses(d, w, m)
  <2> SUFFICES ASSUME NEW d \in Core, NEW w \in Level, NEW m \in Lock
               PROVE  Possesses(d, w, m)' <=> Possesses(d, w, m)
    OBVIOUS
  <2>1. CASE d = c /\ w = v /\ m = l
    BY <1>t, <1>e, <2>1 DEF Possesses, Acquiring
  <2>2. CASE d = c /\ w = v /\ m # l
    BY <1>t, <1>e, <2>2 DEF Possesses, Acquiring
  <2>3. CASE d # c \/ w # v
    BY <1>e, <2>3 DEF Possesses
  <2> QED
    BY <2>1, <2>2, <2>3
<1>h. \A d \in Core, w \in Level : d # c \/ w # v =>
         /\ HoldsNothing(d, w)' <=> HoldsNothing(d, w)
         /\ \A m \in Lock : Outermost(d, w, m)' <=> Outermost(d, w, m)
  BY <1>e DEF HoldsNothing, Outermost
<1>h0. HoldsNothing(c, v)' <=> HoldsNothing(c, v)
  BY <1>t, <1>e DEF HoldsNothing, Outermost
<1>h1. \A m \in Lock : Outermost(c, v, m)' <=> Outermost(c, v, m)
  BY <1>t, <1>e DEF HoldsNothing, Outermost
<1>2. LevelInv'
  BY <1>i, <1>e, <1>h, <1>h0, <1>h1 DEF LevelInv, Running
<1>3. MutualExclusion'
  BY <1>i, <1>p, MutualExclusionKept
<1>4. OwnerInv'
  <2> SUFFICES ASSUME NEW d \in Core, NEW w \in Level, NEW m \in Lock
               PROVE  OwnerAt(d, w, m)'
    BY DEF OwnerInv
  <2>i. /\ OwnerAt(d, w, m) /\ CountAt(d, w, m) /\ RankAt(d, w, m)
        /\ FlagAt(d, w) /\ KeptAt(d, w, m)
    BY <1>i DEF OwnerInv, CountInv, RankInv, FlagInv, KeptInv
  <2>1. CASE d = c /\ w = v /\ m = l
    BY <1>t, <1>e, <2>i, <1>p, <2>1 DEF OwnerAt, Acquiring, Clearing, Running
  <2>2. CASE d = c /\ w = v /\ m # l
    BY <1>t, <1>e, <2>i, <1>p, <2>2 DEF OwnerAt, Acquiring, Clearing, Running
  <2>3. CASE d # c \/ w # v
    <3>1. /\ pc'[d][w] = pc[d][w] /\ arg'[d][w] = arg[d][w]
          /\ hold'[d][w] = hold[d][w]
          /\ (Running(d, w)' <=> Running(d, w)) /\ UNCHANGED bAPICID
      BY <1>e, <2>3 DEF Running
    <3>2. Possesses(d, w, m)' => bLockFlag'[m]
      <4>1. Possesses(d, w, m) => bLockFlag[m]
        BY <2>i DEF OwnerAt
      <4> QED
        BY <1>e, <1>p, <2>3, <4>1
    <3> QED
      BY <3>1, <3>2, <2>i DEF OwnerAt
  <2> QED
    BY <2>1, <2>2, <2>3
<1>5. CountInv'
  <2> SUFFICES ASSUME NEW d \in Core, NEW w \in Level, NEW m \in Lock
               PROVE  CountAt(d, w, m)'
    BY DEF CountInv
  <2>i. /\ OwnerAt(d, w, m) /\ CountAt(d, w, m) /\ RankAt(d, w, m)
        /\ FlagAt(d, w) /\ KeptAt(d, w, m)
    BY <1>i DEF OwnerInv, CountInv, RankInv, FlagInv, KeptInv
  <2>1. CASE d = c /\ w = v /\ m = l
    BY <1>t, <1>e, <2>i, <2>1 DEF CountAt, OwnerAt, Acquiring, Clearing, Running
  <2>2. CASE d = c /\ w = v /\ m # l
    BY <1>t, <1>e, <2>i, <2>2 DEF CountAt, OwnerAt, Acquiring, Clearing, Running
  <2>3. CASE d # c \/ w # v
    BY <1>t, <1>e, <2>i, <1>i, <2>3 DEF CountAt, MutualExclusion, Possesses, Acquiring, Clearing
  <2> QED
    BY <2>1, <2>2, <2>3
<1>6. RankInv'
  <2> SUFFICES ASSUME NEW d \in Core, NEW w \in Level, NEW m \in Lock
               PROVE  RankAt(d, w, m)'
    BY DEF RankInv
  <2>i. /\ OwnerAt(d, w, m) /\ CountAt(d, w, m) /\ RankAt(d, w, m)
        /\ FlagAt(d, w) /\ KeptAt(d, w, m)
    BY <1>i DEF OwnerInv, CountInv, RankInv, FlagInv, KeptInv
  <2>1. CASE d = c /\ w = v /\ m = l
    BY <1>t, <1>e, <2>i, <2>1 DEF RankAt, Locking, Acquiring, Clearing
  <2>2. CASE d = c /\ w = v /\ m # l
    BY <1>t, <1>e, <2>i, <2>2 DEF RankAt, Locking, Acquiring, Clearing
  <2>3. CASE d # c \/ w # v
    BY <1>t, <1>e, <2>i, <1>i, <2>3 DEF RankAt, Locking, Acquiring, Clearing
  <2> QED
    BY <2>1, <2>2, <2>3
<1>7. FlagInv'
  <2> SUFFICES ASSUME NEW d \in Core, NEW w \in Level
               PROVE  FlagAt(d, w)'
    BY DEF FlagInv
  <2>1. CASE d = c /\ w = v
    BY <1>i, <1>1, <1>2, <1>e, <1>h, <1>h0, <1>h1, <2>1 DEF TypeOK, LevelInv, FlagInv, FlagAt, Locking, Acquiring, Clearing, Running
  <2>2. CASE d # c \/ w # v
    BY <1>i, <1>1, <1>2, <1>e, <1>h, <1>h0, <1>h1, <2>2 DEF TypeOK, LevelInv, FlagInv, FlagAt, Locking, Acquiring, Clearing, Running
  <2> QED
    BY <2>1, <2>2
<1>8. KeptInv'
  <2> SUFFICES ASSUME NEW d \in Core, NEW w \in Level, NEW m \in Lock
               PROVE  KeptAt(d, w, m)'
    BY DEF KeptInv
  <2>i. /\ OwnerAt(d, w, m) /\ CountAt(d, w, m) /\ RankAt(d, w, m)
        /\ FlagAt(d, w) /\ KeptAt(d, w, m)
    BY <1>i DEF OwnerInv, CountInv, RankInv, FlagInv, KeptInv
  <2>1. CASE d = c /\ w = v /\ m = l
    BY <1>t, <1>e, <2>i, <1>h, <1>h0, <1>h1, <2>1 DEF KeptAt, FlagAt, Locking, Acquiring, Clearing, Running
  <2>2. CASE d = c /\ w = v /\ m # l
    BY <1>t, <1>e, <2>i, <1>h, <1>h0, <1>h1, <2>2 DEF KeptAt, FlagAt, Locking, Acquiring, Clearing, Running
  <2>3. CASE d # c \/ w # v
    <3>1. /\ pc'[d][w] = pc[d][w] /\ arg'[d][w] = arg[d][w]
          /\ hold'[d][w] = hold[d][w]
          /\ UNCHANGED <<bInterruptFlag, callerIF>>
      BY <1>e, <2>3
    <3>2. Outermost(d, w, m)' <=> Outermost(d, w, m)
      BY <1>h, <2>3
    <3> QED
      BY <3>1, <3>2, <2>i DEF KeptAt
  <2> QED
    BY <2>1, <2>2, <2>3
<1> QED
  BY <1>1, <1>2, <1>3, <1>4, <1>5, <1>6, <1>7, <1>8 DEF IInv

\* A nested lock: count and depth grow together.
LEMMA NestStep ==
    ASSUME IInv, NEW c \in Core, NEW v \in Level, NEW l \in Lock, Nest(c, v),
           arg[c][v] = l
    PROVE  IInv'
<1>i. /\ TypeOK /\ LevelInv /\ MutualExclusion /\ OwnerInv
      /\ CountInv /\ RankInv /\ FlagInv /\ KeptInv
  BY DEF IInv
<1>k. hold[c][v][l] > 0 /\ bAPICID[l] = c
  <2>1. hold[c][v][l] \in Nat /\ arg[c][v] = l /\ OwnerAt(c, v, l) /\ CountAt(c, v, l)
    BY <1>i DEF TypeOK, OwnerInv, CountInv
  <2>2. \A m \in Lock : RankAt(c, v, m) /\ m \in Nat
    BY <1>i DEF RankInv
  <2> QED
    BY <2>1, <2>2 DEF OwnerAt, CountAt, RankAt, Locking, Acquiring, Clearing, Nest, Goto
<1>1. TypeOK'
  BY <1>i, <1>k DEF TypeOK, PC, Acquiring, Clearing, Nest, Goto
<1>e. /\ Running(c, v) /\ pc[c][v] = "nest" /\ pc'[c][v] = "idle"
      /\ \A d \in Core, w \in Level : d # c \/ w # v => pc'[d][w] = pc[d][w]
      /\ (dwLockCount'[l] = dwLockCount[l] + 1) /\ \A m \in Lock : m # l => dwLockCount'[m] = dwLockCount[m]
      /\ hold'[c][v][l] = hold[c][v][l] + 1
      /\ \A m \in Lock : m # l => hold'[c][v][m] = hold[c][v][m]
      /\ \A d \in Core, w \in Level : d # c \/ w # v => hold'[d][w] = hold[d][w]
      /\ UNCHANGED <<bLockFlag, bAPICID, bInterruptFlag, rflagsIF, inIrq, arg, saved, callerIF>>
  BY <1>i DEF TypeOK, Nest, Goto
<1>t. \A d \in Core, w \in Level, m \in Lock :
         /\ hold[d][w][m] \in Nat /\ hold'[d][w][m] \in Nat
         /\ arg[d][w] \in Lock /\ m \in Nat /\ dwLockCount[m] \in Nat
  BY <1>i, <1>1 DEF TypeOK
<1>p. \A d \in Core, w \in Level, m \in Lock :
         Possesses(d, w, m)' <=> Possesses(d, w, m)
  <2> SUFFICES ASSUME NEW d \in Core, NEW w \in Level, NEW m \in Lock
               PROVE  Possesses(d, w, m)' <=> Possesses(d, w, m)
    OBVIOUS
  <2>1. CASE d = c /\ w = v /\ m = l
    BY <1>t, <1>k, <1>e, <2>1 DEF Possesses, Acquiring
  <2>2. CASE d = c /\ w = v /\ m # l
    BY <1>t, <1>k, <1>e, <2>2 DEF Possesses, Acquiring
  <2>3. CASE d # c \/ w # v
    BY <1>e, <2>3 DEF Possesses
  <2> QED
    BY <2>1, <2>2, <2>3
<1>n. hold'[c][v][l] # 0
  BY <1>t, <1>k, <1>e
<1>h. \A d \in Core, w \in Level : d # c \/ w # v =>
         /\ HoldsNothing(d, w)' <=> HoldsNothing(d, w)
         /\ \A m \in Lock : Outermost(d, w, m)' <=> Outermost(d, w, m)
  BY <1>e DEF HoldsNothing, Outermost
<1>h0. ~HoldsNothing(c, v)'
  BY <1>n DEF HoldsNothing
<1>h1. ~HoldsNothing(c, v)
  BY <1>t, <1>k, <1>e DEF HoldsNothing, Outermost
<1>h2. \A m \in Lock : Outermost(c, v, m)' <=> Outermost(c, v, m)
  <2>1. \A x \in Lock : hold'[c][v][x] > 0 <=> hold[c][v][x] > 0
    BY <1>t, <1>k, <1>e
  <2> QED
    BY <2>1 DEF Outermost
<1>2. LevelInv'
  BY <1>i, <1>e, <1>h, <1>h0, <1>h1, <1>h2 DEF LevelInv, Running
<1>3. MutualExclusion'
  BY <1>i, <1>p, MutualExclusionKept
<1>4. OwnerInv'
  <2> SUFFICES ASSUME NEW d \in Core, NEW w \in Level, NEW m \in Lock
               PROVE  OwnerAt(d, w, m)'
    BY DEF OwnerInv
  <2>i. /\ OwnerAt(d, w, m) /\ CountAt(d, w, m) /\ RankAt(d, w, m)
        /\ FlagAt(d, w) /\ KeptAt(d, w, m)
    BY <1>i DEF OwnerInv, CountInv, RankInv, FlagInv, KeptInv
  <2>1. CASE d = c /\ w = v /\ m = l
    BY <1>t, <1>k, <1>e, <2>i, <1>p, <2>1 DEF OwnerAt, Possesses, Acquiring, Clearing, Running
  <2>2. CASE d = c /\ w = v /\ m # l
    BY <1>t, <1>k, <1>e, <2>i, <1>p, <2>2 DEF OwnerAt, Possesses, Acquiring, Clearing, Running
  <2>3. CASE d # c \/ w # v
    <3>1. /\ pc'[d][w] = pc[d][w] /\ arg'[d][w] = arg[d][w]
          /\ hold'[d][w] = hold[d][w]
          /\ (Running(d, w)' <=> Running(d, w)) /\ UNCHANGED bAPICID
      BY <1>e, <2>3 DEF Running
    <3>2. Possesses(d, w, m)' => bLockFlag'[m]
      <4>1. Possesses(d, w, m) => bLockFlag[m]
        BY <2>i DEF OwnerAt
      <4> QED
        BY <1>e, <1>p, <2>3, <4>1
    <3> QED
      BY <3>1, <3>2, <2>i DEF OwnerAt
  <2> QED
    BY <2>1, <2>2, <2>3
<1>5. CountInv'
  <2> SUFFICES ASSUME NEW d \in Core, NEW w \in Level, NEW m \in Lock
               PROVE  CountAt(d, w, m)'
    BY DEF CountInv
  <2>i. /\ OwnerAt(d, w, m) /\ CountAt(d, w, m) /\ RankAt(d, w, m)
        /\ FlagAt(d, w) /\ KeptAt(d, w, m)
    BY <1>i DEF OwnerInv, CountInv, RankInv, FlagInv, KeptInv
  <2>1. CASE d = c /\ w = v /\ m = l
    BY <1>t, <1>k, <1>e, <2>i, <2>1 DEF CountAt, OwnerAt, Acquiring, Clearing, Running
  <2>2. CASE d = c /\ w = v /\ m # l
    BY <1>t, <1>k, <1>e, <2>i, <2>2 DEF CountAt, OwnerAt, Acquiring, Clearing, Running
  <2>3. CASE d # c \/ w # v
    BY <1>t, <1>k, <1>e, <2>i, <1>i, <2>3 DEF CountAt, MutualExclusion, Possesses, Acquiring, Clearing
  <2> QED
    BY <2>1, <2>2, <2>3
<1>6. RankInv'
  <2> SUFFICES ASSUME NEW d \in Core, NEW w \in Level, NEW m \in Lock
               PROVE  RankAt(d, w, m)'
    BY DEF RankInv
  <2>i. /\ OwnerAt(d, w, m) /\ CountAt(d, w, m) /\ RankAt(d, w, m)
        /\ FlagAt(d, w) /\ KeptAt(d, w, m)
    BY <1>i DEF OwnerInv, CountInv, RankInv, FlagInv, KeptInv
  <2>1. CASE d = c /\ w = v /\ m = l
    BY <1>t, <1>k, <1>e, <2>i, <2>1 DEF RankAt, Locking, Acquiring, Clearing
  <2>2. CASE d = c /\ w = v /\ m # l
    BY <1>t, <1>k, <1>e, <2>i, <2>2 DEF RankAt, Locking, Acquiring, Clearing
  <2>3. CASE d # c \/ w # v
    BY <1>t, <1>k, <1>e, <2>i, <1>i, <2>3 DEF RankAt, Locking, Acquiring, Clearing
  <2> QED
    BY <2>1, <2>2, <2>3
<1>7. FlagInv'
  <2> SUFFICES ASSUME NEW d \in Core, NEW w \in Level
               PROVE  FlagAt(d, w)'
    BY DEF FlagInv
  <2>1. CASE d = c /\ w = v
    BY <1>i, <1>k, <1>1, <1>2, <1>e, <1>h, <1>h0, <1>h1, <1>h2, <2>1 DEF TypeOK, LevelInv, FlagInv, FlagAt, Locking, Acquiring, Clearing, Running
  <2>2. CASE d # c \/ w # v
    BY <1>i, <1>k, <1>1, <1>2, <1>e, <1>h, <1>h0, <1>h1, <1>h2, <2>2 DEF TypeOK, LevelInv, FlagInv, FlagAt, Locking, Acquiring, Clearing, Running
  <2> QED
    BY <2>1, <2>2
<1>8. KeptInv'
  <2> SUFFICES ASSUME NEW d \in Core, NEW w \in Level, NEW m \in Lock
               PROVE  KeptAt(d, w, m)'
    BY DEF KeptInv
  <2>i. /\ OwnerAt(d, w, m) /\ CountAt(d, w, m) /\ RankAt(d, w, m)
        /\ FlagAt(d, w) /\ KeptAt(d, w, m)
    BY <1>i DEF OwnerInv, CountInv, RankInv, FlagInv, KeptInv
  <2>1. CASE d = c /\ w = v /\ m = l
    BY <1>t, <1>k, <1>e, <2>i, <1>h, <1>h0, <1>h1, <1>h2, <2>1 DEF KeptAt, FlagAt, Locking, Acquiring, Clearing, Running
  <2>2. CASE d = c /\ w = v /\ m # l
    BY <1>t, <1>k, <1>e, <2>i, <1>h, <1>h0, <1>h1, <1>h2, <2>2 DEF KeptAt, FlagAt, Locking, Acquiring, Clearing, Running
  <2>3. CASE d # c \/ w # v
    <3>1. /\ pc'[d][w] = pc[d][w] /\ arg'[d][w] = arg[d][w]
          /\ hold'[d][w] = hold[d][w]
          /\ UNCHANGED <<bInterruptFlag, callerIF>>
      BY <1>e, <2>3
    <3>2. Outermost(d, w, m)' <=> Outermost(d, w, m)
      BY <1>h, <2>3
    <3> QED
      BY <3>1, <3>2, <2>i DEF KeptAt
  <2> QED
    BY <2>1, <2>2, <2>3
<1> QED
  BY <1>1, <1>2, <1>3, <1>4, <1>5, <1>6, <1>7, <1>8 DEF IInv

\* A spinning level wins the lock another core has freed.
LEMMA SpinStep ==
    ASSUME IInv, NEW c \in Core, NEW v \in Level, NEW l \in Lock, Spin(c, v),
           arg[c][v] = l
    PROVE  IInv'
<1>i. /\ TypeOK /\ LevelInv /\ MutualExclusion /\ OwnerInv
      /\ CountInv /\ RankInv /\ FlagInv /\ KeptInv
  BY DEF IInv
<1>1. TypeOK'
  BY <1>i DEF TypeOK, PC, Acquiring, Clearing, Spin, Goto
<1>e. /\ Running(c, v) /\ pc[c][v] = "spin" /\ pc'[c][v] = "setCount"
      /\ \A d \in Core, w \in Level : d # c \/ w # v => pc'[d][w] = pc[d][w]
      /\ (bLockFlag'[l] <=> TRUE) /\ \A m \in Lock : m # l => bLockFlag'[m] = bLockFlag[m]
      /\ UNCHANGED <<bAPICID, dwLockCount, bInterruptFlag, rflagsIF, inIrq, arg, saved, hold, callerIF>>
  BY <1>i DEF TypeOK, Spin, Goto
<1>t. \A d \in Core, w \in Level, m \in Lock :
         /\ hold[d][w][m] \in Nat /\ hold'[d][w][m] \in Nat
         /\ arg[d][w] \in Lock /\ m \in Nat /\ dwLockCount[m] \in Nat
  BY <1>i, <1>1 DEF TypeOK
<1>p. \A d \in Core, w \in Level, m \in Lock :
         Possesses(d, w, m)' <=> Possesses(d, w, m) \/ (d = c /\ w = v /\ m = l)
  <2> SUFFICES ASSUME NEW d \in Core, NEW w \in Level, NEW m \in Lock
               PROVE  Possesses(d, w, m)' <=> Possesses(d, w, m) \/ (d = c /\ w = v /\ m = l)
    OBVIOUS
  <2>1. CASE d = c /\ w = v /\ m = l
    BY <1>t, <1>e, <2>1 DEF Possesses, Acquiring
  <2>2. CASE d = c /\ w = v /\ m # l
    BY <1>t, <1>e, <2>2 DEF Possesses, Acquiring
  <2>3. CASE d # c \/ w # v
    BY <1>e, <2>3 DEF Possesses
  <2> QED
    BY <2>1, <2>2, <2>3
<1>h. \A d \in Core, w \in Level : d # c \/ w # v =>
         /\ HoldsNothing(d, w)' <=> HoldsNothing(d, w)
         /\ \A m \in Lock : Outermost(d, w, m)' <=> Outermost(d, w, m)
  BY <1>e DEF HoldsNothing, Outermost
<1>h0. HoldsNothing(c, v)' <=> HoldsNothing(c, v)
  BY <1>t, <1>e DEF HoldsNothing, Outermost
<1>h1. \A m \in Lock : Outermost(c, v, m)' <=> Outermost(c, v, m)
  BY <1>t, <1>e DEF HoldsNothing, Outermost
<1>2. LevelInv'
  BY <1>i, <1>e, <1>h, <1>h0, <1>h1 DEF LevelInv, Running
<1>3. MutualExclusion'
  BY <1>i, <1>p, <1>e DEF MutualExclusion, OwnerInv, OwnerAt, Spin
<1>4. OwnerInv'
  <2> SUFFICES ASSUME NEW d \in Core, NEW w \in Level, NEW m \in Lock
               PROVE  OwnerAt(d, w, m)'
    BY DEF OwnerInv
  <2>i. /\ OwnerAt(d, w, m) /\ CountAt(d, w, m) /\ RankAt(d, w, m)
        /\ FlagAt(d, w) /\ KeptAt(d, w, m)
    BY <1>i DEF OwnerInv, CountInv, RankInv, FlagInv, KeptInv
  <2>1. CASE d = c /\ w = v /\ m = l
    BY <1>t, <1>e, <2>i, <1>p, <2>1 DEF OwnerAt, Possesses, Acquiring, Clearing, Running
  <2>2. CASE d = c /\ w = v /\ m # l
    BY <1>t, <1>e, <2>i, <1>p, <2>2 DEF OwnerAt, Possesses, Acquiring, Clearing, Running
  <2>3. CASE d # c \/ w # v
    <3>1. /\ pc'[d][w] = pc[d][w] /\ arg'[d][w] = arg[d][w]
          /\ hold'[d][w] = hold[d][w]
          /\ (Running(d, w)' <=> Running(d, w)) /\ UNCHANGED bAPICID
      BY <1>e, <2>3 DEF Running
    <3>2. Possesses(d, w, m)' => bLockFlag'[m]
      <4>1. Possesses(d, w, m) => bLockFlag[m]
        BY <2>i DEF OwnerAt
      <4> QED
        BY <1>e, <1>p, <2>3, <4>1
    <3> QED
      BY <3>1, <3>2, <2>i DEF OwnerAt
  <2> QED
    BY <2>1, <2>2, <2>3
<1>5. CountInv'
  <2> SUFFICES ASSUME NEW d \in Core, NEW w \in Level, NEW m \in Lock
               PROVE  CountAt(d, w, m)'
    BY DEF CountInv
  <2>i. /\ OwnerAt(d, w, m) /\ CountAt(d, w, m) /\ RankAt(d, w, m)
        /\ FlagAt(d, w) /\ KeptAt(d, w, m)
    BY <1>i DEF OwnerInv, CountInv, RankInv, FlagInv, KeptInv
  <2>1. CASE d = c /\ w = v /\ m = l
    BY <1>t, <1>e, <2>i, <2>1 DEF CountAt, OwnerAt, Acquiring, Clearing, Running
  <2>2. CASE d = c /\ w = v /\ m # l
    BY <1>t, <1>e, <2>i, <2>2 DEF CountAt, OwnerAt, Acquiring, Clearing, Running
  <2>3. CASE d # c \/ w # v
    BY <1>t, <1>e, <2>i, <1>i, <2>3 DEF CountAt, MutualExclusion, Possesses, Acquiring, Clearing
  <2> QED
    BY <2>1, <2>2, <2>3
<1>6. RankInv'
  <2> SUFFICES ASSUME NEW d \in Core, NEW w \in Level, NEW m \in Lock
               PROVE  RankAt(d, w, m)'
    BY DEF RankInv
  <2>i. /\ OwnerAt(d, w, m) /\ CountAt(d, w, m) /\ RankAt(d, w, m)
        /\ FlagAt(d, w) /\ KeptAt(d, w, m)
    BY <1>i DEF OwnerInv, CountInv, RankInv, FlagInv, KeptInv
  <2>1. CASE d = c /\ w = v /\ m = l
    BY <1>t, <1>e, <2>i, <2>1 DEF RankAt, Locking, Acquiring, Clearing
  <2>2. CASE d = c /\ w = v /\ m # l
    BY <1>t, <1>e, <2>i, <2>2 DEF RankAt, Locking, Acquiring, Clearing
  <2>3. CASE d # c \/ w # v
    BY <1>t, <1>e, <2>i, <1>i, <2>3 DEF RankAt, Locking, Acquiring, Clearing
  <2> QED
    BY <2>1, <2>2, <2>3
<1>7. FlagInv'
  <2> SUFFICES ASSUME NEW d \in Core, NEW w \in Level
               PROVE  FlagAt(d, w)'
    BY DEF FlagInv
  <2>1. CASE d = c /\ w = v
    BY <1>i, <1>1, <1>2, <1>e, <1>h, <1>h0, <1>h1, <2>1 DEF TypeOK, LevelInv, FlagInv, FlagAt, Locking, Acquiring, Clearing, Running
  <2>2. CASE d # c \/ w # v
    BY <1>i, <1>1, <1>2, <1>e, <1>h, <1>h0, <1>h1, <2>2 DEF TypeOK, LevelInv, FlagInv, FlagAt, Locking, Acquiring, Clearing, Running
  <2> QED
    BY <2>1, <2>2
<1>8. KeptInv'
  <2> SUFFICES ASSUME NEW d \in Core, NEW w \in Level, NEW m \in Lock
               PROVE  KeptAt(d, w, m)'
    BY DEF KeptInv
  <2>i. /\ OwnerAt(d, w, m) /\ CountAt(d, w, m) /\ RankAt(d, w, m)
        /\ FlagAt(d, w) /\ KeptAt(d, w, m)
    BY <1>i DEF OwnerInv, CountInv, RankInv, FlagInv, KeptInv
  <2>1. CASE d = c /\ w = v /\ m = l
    BY <1>t, <1>e, <2>i, <1>h, <1>h0, <1>h1, <2>1 DEF KeptAt, FlagAt, Locking, Acquiring, Clearing, Running
  <2>2. CASE d = c /\ w = v /\ m # l
    BY <1>t, <1>e, <2>i, <1>h, <1>h0, <1>h1, <2>2 DEF KeptAt, FlagAt, Locking, Acquiring, Clearing, Running
  <2>3. CASE d # c \/ w # v
    <3>1. /\ pc'[d][w] = pc[d][w] /\ arg'[d][w] = arg[d][w]
          /\ hold'[d][w] = hold[d][w]
          /\ UNCHANGED <<bInterruptFlag, callerIF>>
      BY <1>e, <2>3
    <3>2. Outermost(d, w, m)' <=> Outermost(d, w, m)
      BY <1>h, <2>3
    <3> QED
      BY <3>1, <3>2, <2>i DEF KeptAt
  <2> QED
    BY <2>1, <2>2, <2>3
<1> QED
  BY <1>1, <1>2, <1>3, <1>4, <1>5, <1>6, <1>7, <1>8 DEF IInv

\* The winner sets the count.
LEMMA SetCountStep ==
    ASSUME IInv, NEW c \in Core, NEW v \in Level, NEW l \in Lock, SetCount(c, v),
           arg[c][v] = l
    PROVE  IInv'
<1>i. /\ TypeOK /\ LevelInv /\ MutualExclusion /\ OwnerInv
      /\ CountInv /\ RankInv /\ FlagInv /\ KeptInv
  BY DEF IInv
<1>1. TypeOK'
  BY <1>i DEF TypeOK, PC, Acquiring, Clearing, SetCount, Goto
<1>e. /\ Running(c, v) /\ pc[c][v] = "setCount" /\ pc'[c][v] = "setOwner"
      /\ \A d \in Core, w \in Level : d # c \/ w # v => pc'[d][w] = pc[d][w]
      /\ (dwLockCount'[l] = 1) /\ \A m \in Lock : m # l => dwLockCount'[m] = dwLockCount[m]
      /\ UNCHANGED <<bLockFlag, bAPICID, bInterruptFlag, rflagsIF, inIrq, arg, saved, hold, callerIF>>
  BY <1>i DEF TypeOK, SetCount, Goto
<1>t. \A d \in Core, w \in Level, m \in Lock :
         /\ hold[d][w][m] \in Nat /\ hold'[d][w][m] \in Nat
         /\ arg[d][w] \in Lock /\ m \in Nat /\ dwLockCount[m] \in Nat
  BY <1>i, <1>1 DEF TypeOK
<1>p. \A d \in Core, w \in Level, m \in Lock :
         Possesses(d, w, m)' <=> Possesses(d, w, m)
  <2> SUFFICES ASSUME NEW d \in Core, NEW w \in Level, NEW m \in Lock
               PROVE  Possesses(d, w, m)' <=> Possesses(d, w, m)
    OBVIOUS
  <2>1. CASE d = c /\ w = v /\ m = l
    BY <1>t, <1>e, <2>1 DEF Possesses, Acquiring
  <2>2. CASE d = c /\ w = v /\ m # l
    BY <1>t, <1>e, <2>2 DEF Possesses, Acquiring
  <2>3. CASE d # c \/ w # v
    BY <1>e, <2>3 DEF Possesses
  <2> QED
    BY <2>1, <2>2, <2>3
<1>h. \A d \in Core, w \in Level : d # c \/ w # v =>
         /\ HoldsNothing(d, w)' <=> HoldsNothing(d, w)
         /\ \A m \in Lock : Outermost(d, w, m)' <=> Outermost(d, w, m)
  BY <1>e DEF HoldsNothing, Outermost
<1>h0. HoldsNothing(c, v)' <=> HoldsNothing(c, v)
  BY <1>t, <1>e DEF HoldsNothing, Outermost
<1>h1. \A m \in Lock : Outermost(c, v, m)' <=> Outermost(c, v, m)
  BY <1>t, <1>e DEF HoldsNothing, Outermost
<1>2. LevelInv'
  BY <1>i, <1>e, <1>h, <1>h0, <1>h1 DEF LevelInv, Running
<1>3. MutualExclusion'
  BY <1>i, <1>p, MutualExclusionKept
<1>4. OwnerInv'
  <2> SUFFICES ASSUME NEW d \in Core, NEW w \in Level, NEW m \in Lock
               PROVE  OwnerAt(d, w, m)'
    BY DEF OwnerInv
  <2>i. /\ OwnerAt(d, w, m) /\ CountAt(d, w, m) /\ RankAt(d, w, m)
        /\ FlagAt(d, w) /\ KeptAt(d, w, m)
    BY <1>i DEF OwnerInv, CountInv, RankInv, FlagInv, KeptInv
  <2>1. CASE d = c /\ w = v /\ m = l
    BY <1>t, <1>e, <2>i, <1>p, <2>1 DEF OwnerAt, Possesses, Acquiring, Clearing, Running
  <2>2. CASE d = c /\ w = v /\ m # l
    BY <1>t, <1>e, <2>i, <1>p, <2>2 DEF OwnerAt, Possesses, Acquiring, Clearing, Running
  <2>3. CASE d # c \/ w # v
    <3>1. /\ pc'[d][w] = pc[d][w] /\ arg'[d][w] = arg[d][w]
          /\ hold'[d][w] = hold[d][w]
          /\ (Running(d, w)' <=> Running(d, w)) /\ UNCHANGED bAPICID
      BY <1>e, <2>3 DEF Running
    <3>2. Possesses(d, w, m)' => bLockFlag'[m]
      <4>1. Possesses(d, w, m) => bLockFlag[m]
        BY <2>i DEF OwnerAt
      <4> QED
        BY <1>e, <1>p, <2>3, <4>1
    <3> QED
      BY <3>1, <3>2, <2>i DEF OwnerAt
  <2> QED
    BY <2>1, <2>2, <2>3
<1>5. CountInv'
  <2> SUFFICES ASSUME NEW d \in Core, NEW w \in Level, NEW m \in Lock
               PROVE  CountAt(d, w, m)'
    BY DEF CountInv
  <2>i. /\ OwnerAt(d, w, m) /\ CountAt(d, w, m) /\ RankAt(d, w, m)
        /\ FlagAt(d, w) /\ KeptAt(d, w, m)
    BY <1>i DEF OwnerInv, CountInv, RankInv, FlagInv, KeptInv
  <2>1. CASE d = c /\ w = v /\ m = l
    BY <1>t, <1>e, <2>i, <2>1 DEF CountAt, OwnerAt, Acquiring, Clearing, Running
  <2>2. CASE d = c /\ w = v /\ m # l
    BY <1>t, <1>e, <2>i, <2>2 DEF CountAt, OwnerAt, Acquiring, Clearing, Running
  <2>3. CASE d # c \/ w # v
    BY <1>t, <1>e, <2>i, <1>i, <2>3 DEF CountAt, MutualExclusion, Possesses, Acquiring, Clearing
  <2> QED
    BY <2>1, <2>2, <2>3
<1>6. RankInv'
  <2> SUFFICES ASSUME NEW d \in Core, NEW w \in Level, NEW m \in Lock
               PROVE  RankAt(d, w, m)'
    BY DEF RankInv
  <2>i. /\ OwnerAt(d, w, m) /\ CountAt(d, w, m) /\ RankAt(d, w, m)
        /\ FlagAt(d, w) /\ KeptAt(d, w, m)
    BY <1>i DEF OwnerInv, CountInv, RankInv, FlagInv, KeptInv
  <2>1. CASE d = c /\ w = v /\ m = l
    BY <1>t, <1>e, <2>i, <2>1 DEF RankAt, Locking, Acquiring, Clearing
  <2>2. CASE d = c /\ w = v /\ m # l
    BY <1>t, <1>e, <2>i, <2>2 DEF RankAt, Locking, Acquiring, Clearing
  <2>3. CASE d # c \/ w # v
    BY <1>t, <1>e, <2>i, <1>i, <2>3 DEF RankAt, Locking, Acquiring, Clearing
  <2> QED
    BY <2>1, <2>2, <2>3
<1>7. FlagInv'
  <2> SUFFICES ASSUME NEW d \in Core, NEW w \in Level
               PROVE  FlagAt(d, w)'
    BY DEF FlagInv
  <2>1. CASE d = c /\ w = v
    BY <1>i, <1>1, <1>2, <1>e, <1>h, <1>h0, <1>h1, <2>1 DEF TypeOK, LevelInv, FlagInv, FlagAt, Locking, Acquiring, Clearing, Running
  <2>2. CASE d # c \/ w # v
    BY <1>i, <1>1, <1>2, <1>e, <1>h, <1>h0, <1>h1, <2>2 DEF TypeOK, LevelInv, FlagInv, FlagAt, Locking, Acquiring, Clearing, Running
  <2> QED
    BY <2>1, <2>2
<1>8. KeptInv'
  <2> SUFFICES ASSUME NEW d \in Core, NEW w \in Level, NEW m \in Lock
               PROVE  KeptAt(d, w, m)'
    BY DEF KeptInv
  <2>i. /\ OwnerAt(d, w, m) /\ CountAt(d, w, m) /\ RankAt(d, w, m)
        /\ FlagAt(d, w) /\ KeptAt(d, w, m)
    BY <1>i DEF OwnerInv, CountInv, RankInv, FlagInv, KeptInv
  <2>1. CASE d = c /\ w = v /\ m = l
    BY <1>t, <1>e, <2>i, <1>h, <1>h0, <1>h1, <2>1 DEF KeptAt, FlagAt, Locking, Acquiring, Clearing, Running
  <2>2. CASE d = c /\ w = v /\ m # l
    BY <1>t, <1>e, <2>i, <1>h, <1>h0, <1>h1, <2>2 DEF KeptAt, FlagAt, Locking, Acquiring, Clearing, Running
  <2>3. CASE d # c \/ w # v
    <3>1. /\ pc'[d][w] = pc[d][w] /\ arg'[d][w] = arg[d][w]
          /\ hold'[d][w] = hold[d][w]
          /\ UNCHANGED <<bInterruptFlag, callerIF>>
      BY <1>e, <2>3
    <3>2. Outermost(d, w, m)' <=> Outermost(d, w, m)
      BY <1>h, <2>3
    <3> QED
      BY <3>1, <3>2, <2>i DEF KeptAt
  <2> QED
    BY <2>1, <2>2, <2>3
<1> QED
  BY <1>1, <1>2, <1>3, <1>4, <1>5, <1>6, <1>7, <1>8 DEF IInv

\* The winner sets the owner; no other level has anything of this lock.
LEMMA SetOwnerStep ==
    ASSUME IInv, NEW c \in Core, NEW v \in Level, NEW l \in Lock, SetOwner(c, v),
           arg[c][v] = l
    PROVE  IInv'
<1>i. /\ TypeOK /\ LevelInv /\ MutualExclusion /\ OwnerInv
      /\ CountInv /\ RankInv /\ FlagInv /\ KeptInv
  BY DEF IInv
<1>1. TypeOK'
  BY <1>i DEF TypeOK, PC, Acquiring, Clearing, SetOwner, Goto
<1>e. /\ Running(c, v) /\ pc[c][v] = "setOwner" /\ pc'[c][v] = "saveIF"
      /\ \A d \in Core, w \in Level : d # c \/ w # v => pc'[d][w] = pc[d][w]
      /\ (bAPICID'[l] = c) /\ \A m \in Lock : m # l => bAPICID'[m] = bAPICID[m]
      /\ UNCHANGED <<bLockFlag, dwLockCount, bInterruptFlag, rflagsIF, inIrq, arg, saved, hold, callerIF>>
  BY <1>i DEF TypeOK, SetOwner, Goto
<1>t. \A d \in Core, w \in Level, m \in Lock :
         /\ hold[d][w][m] \in Nat /\ hold'[d][w][m] \in Nat
         /\ arg[d][w] \in Lock /\ m \in Nat /\ dwLockCount[m] \in Nat
  BY <1>i, <1>1 DEF TypeOK
<1>p. \A d \in Core, w \in Level, m \in Lock :
         Possesses(d, w, m)' <=> Possesses(d, w, m)
  <2> SUFFICES ASSUME NEW d \in Core, NEW w \in Level, NEW m \in Lock
               PROVE  Possesses(d, w, m)' <=> Possesses(d, w, m)
    OBVIOUS
  <2>1. CASE d = c /\ w = v /\ m = l
    BY <1>t, <1>e, <2>1 DEF Possesses, Acquiring
  <2>2. CASE d = c /\ w = v /\ m # l
    BY <1>t, <1>e, <2>2 DEF Possesses, Acquiring
  <2>3. CASE d # c \/ w # v
    BY <1>e, <2>3 DEF Possesses
  <2> QED
    BY <2>1, <2>2, <2>3
<1>h. \A d \in Core, w \in Level : d # c \/ w # v =>
         /\ HoldsNothing(d, w)' <=> HoldsNothing(d, w)
         /\ \A m \in Lock : Outermost(d, w, m)' <=> Outermost(d, w, m)
  BY <1>e DEF HoldsNothing, Outermost
<1>h0. HoldsNothing(c, v)' <=> HoldsNothing(c, v)
  BY <1>t, <1>e DEF HoldsNothing, Outermost
<1>h1. \A m \in Lock : Outermost(c, v, m)' <=> Outermost(c, v, m)
  BY <1>t, <1>e DEF HoldsNothing, Outermost
<1>2. LevelInv'
  BY <1>i, <1>e, <1>h, <1>h0, <1>h1 DEF LevelInv, Running
<1>3. MutualExclusion'
  BY <1>i, <1>p, MutualExclusionKept
<1>4. OwnerInv'
  <2> SUFFICES ASSUME NEW d \in Core, NEW w \in Level, NEW m \in Lock
               PROVE  OwnerAt(d, w, m)'
    BY DEF OwnerInv
  <2>i. /\ OwnerAt(d, w, m) /\ CountAt(d, w, m) /\ RankAt(d, w, m)
        /\ FlagAt(d, w) /\ KeptAt(d, w, m)
    BY <1>i DEF OwnerInv, CountInv, RankInv, FlagInv, KeptInv
  <2>1. CASE d = c /\ w = v /\ m = l
    BY <1>t, <1>e, <2>i, <1>p, <2>1 DEF OwnerAt, Possesses, Acquiring, Clearing, Running
  <2>2. CASE d = c /\ w = v /\ m # l
    BY <1>t, <1>e, <2>i, <1>p, <2>2 DEF OwnerAt, Possesses, Acquiring, Clearing, Running
  <2>3. CASE d # c \/ w # v
    <3>1. Possesses(c, v, l) /\ Running(c, v) /\ pc[c][v] = "setOwner" /\ ~Possesses(d, w, l)
      BY <1>i, <1>e, <2>3 DEF MutualExclusion, Possesses, Acquiring
    <3>2. /\ hold[d][w][l] = 0
          /\ arg[d][w] = l => pc[d][w] \notin Acquiring
          /\ pc[d][w] \in Clearing /\ arg[d][w] = l => hold[d][w][l] = 1
          /\ arg[d][w] = l => pc[d][w] # "nest"
      <4>1. OwnerAt(d, w, l) /\ CountAt(d, w, l)
        BY <1>i DEF OwnerInv, CountInv
      <4> QED
        BY <3>1, <4>1, <1>t DEF Possesses, OwnerAt, CountAt
    <3>3. d = c => ~Running(d, w)
      BY <3>1, <2>3 DEF Running
    <3>4. /\ pc'[d][w] = pc[d][w] /\ UNCHANGED <<arg, hold, bLockFlag>>
          /\ Running(d, w)' <=> Running(d, w)
          /\ Possesses(d, w, m)' <=> Possesses(d, w, m)
      BY <1>e, <1>p, <2>3 DEF Running
    <3>5. CASE m # l
      <4>1. bAPICID'[m] = bAPICID[m]
        BY <1>e, <3>5
      <4> QED
        BY <3>4, <4>1, <2>i DEF OwnerAt
    <3>6. CASE m = l
      <4>1. bAPICID'[m] = c /\ (d # c \/ ~Running(d, w))
        BY <1>e, <3>3, <3>6
      <4>2. arg[d][w] = m => pc[d][w] \notin Clearing
        BY <3>2, <3>6
      <4> QED
        BY <3>1, <3>2, <3>4, <3>6, <4>1, <4>2, <2>i DEF OwnerAt, Acquiring
    <3> QED
      BY <3>5, <3>6
  <2> QED
    BY <2>1, <2>2, <2>3
<1>5. CountInv'
  <2> SUFFICES ASSUME NEW d \in Core, NEW w \in Level, NEW m \in Lock
               PROVE  CountAt(d, w, m)'
    BY DEF CountInv
  <2>i. /\ OwnerAt(d, w, m) /\ CountAt(d, w, m) /\ RankAt(d, w, m)
        /\ FlagAt(d, w) /\ KeptAt(d, w, m)
    BY <1>i DEF OwnerInv, CountInv, RankInv, FlagInv, KeptInv
  <2>1. CASE d = c /\ w = v /\ m = l
    BY <1>t, <1>e, <2>i, <2>1 DEF CountAt, OwnerAt, Acquiring, Clearing, Running
  <2>2. CASE d = c /\ w = v /\ m # l
    BY <1>t, <1>e, <2>i, <2>2 DEF CountAt, OwnerAt, Acquiring, Clearing, Running
  <2>3. CASE d # c \/ w # v
    BY <1>t, <1>e, <2>i, <1>i, <2>3 DEF CountAt, MutualExclusion, Possesses, Acquiring, Clearing
  <2> QED
    BY <2>1, <2>2, <2>3
<1>6. RankInv'
  <2> SUFFICES ASSUME NEW d \in Core, NEW w \in Level, NEW m \in Lock
               PROVE  RankAt(d, w, m)'
    BY DEF RankInv
  <2>i. /\ OwnerAt(d, w, m) /\ CountAt(d, w, m) /\ RankAt(d, w, m)
        /\ FlagAt(d, w) /\ KeptAt(d, w, m)
    BY <1>i DEF OwnerInv, CountInv, RankInv, FlagInv, KeptInv
  <2>1. CASE d = c /\ w = v /\ m = l
    BY <1>t, <1>e, <2>i, <2>1 DEF RankAt, Locking, Acquiring, Clearing
  <2>2. CASE d = c /\ w = v /\ m # l
    BY <1>t, <1>e, <2>i, <2>2 DEF RankAt, Locking, Acquiring, Clearing
  <2>3. CASE d # c \/ w # v
    BY <1>t, <1>e, <2>i, <1>i, <2>3 DEF RankAt, Locking, Acquiring, Clearing
  <2> QED
    BY <2>1, <2>2, <2>3
<1>7. FlagInv'
  <2> SUFFICES ASSUME NEW d \in Core, NEW w \in Level
               PROVE  FlagAt(d, w)'
    BY DEF FlagInv
  <2>1. CASE d = c /\ w = v
    BY <1>i, <1>1, <1>2, <1>e, <1>h, <1>h0, <1>h1, <2>1 DEF TypeOK, LevelInv, FlagInv, FlagAt, Locking, Acquiring, Clearing, Running
  <2>2. CASE d # c \/ w # v
    BY <1>i, <1>1, <1>2, <1>e, <1>h, <1>h0, <1>h1, <2>2 DEF TypeOK, LevelInv, FlagInv, FlagAt, Locking, Acquiring, Clearing, Running
  <2> QED
    BY <2>1, <2>2
<1>8. KeptInv'
  <2> SUFFICES ASSUME NEW d \in Core, NEW w \in Level, NEW m \in Lock
               PROVE  KeptAt(d, w, m)'
    BY DEF KeptInv
  <2>i. /\ OwnerAt(d, w, m) /\ CountAt(d, w, m) /\ RankAt(d, w, m)
        /\ FlagAt(d, w) /\ KeptAt(d, w, m)
    BY <1>i DEF OwnerInv, CountInv, RankInv, FlagInv, KeptInv
  <2>1. CASE d = c /\ w = v /\ m = l
    BY <1>t, <1>e, <2>i, <1>h, <1>h0, <1>h1, <2>1 DEF KeptAt, FlagAt, Locking, Acquiring, Clearing, Running
  <2>2. CASE d = c /\ w = v /\ m # l
    BY <1>t, <1>e, <2>i, <1>h, <1>h0, <1>h1, <2>2 DEF KeptAt, FlagAt, Locking, Acquiring, Clearing, Running
  <2>3. CASE d # c \/ w # v
    <3>1. /\ pc'[d][w] = pc[d][w] /\ arg'[d][w] = arg[d][w]
          /\ hold'[d][w] = hold[d][w]
          /\ UNCHANGED <<bInterruptFlag, callerIF>>
      BY <1>e, <2>3
    <3>2. Outermost(d, w, m)' <=> Outermost(d, w, m)
      BY <1>h, <2>3
    <3> QED
      BY <3>1, <3>2, <2>i DEF KeptAt
  <2> QED
    BY <2>1, <2>2, <2>3
<1> QED
  BY <1>1, <1>2, <1>3, <1>4, <1>5, <1>6, <1>7, <1>8 DEF IInv

\* The winner stores its caller's flag and returns; the lock is now its
\* innermost one.
LEMMA SaveIFStep ==
    ASSUME IInv, NEW c \in Core, NEW v \in Level, NEW l \in Lock, SaveIF(c, v),
           arg[c][v] = l
    PROVE  IInv'
<1>i. /\ TypeOK /\ LevelInv /\ MutualExclusion /\ OwnerInv
      /\ CountInv /\ RankInv /\ FlagInv /\ KeptInv
  BY DEF IInv
<1>k. hold[c][v][l] = 0 /\ \A m \in Lock : hold[c][v][m] > 0 => m < l
  <2>1. hold[c][v][l] \in Nat /\ arg[c][v] = l /\ OwnerAt(c, v, l) /\ CountAt(c, v, l)
    BY <1>i DEF TypeOK, OwnerInv, CountInv
  <2>2. \A m \in Lock : RankAt(c, v, m) /\ m \in Nat
    BY <1>i DEF RankInv
  <2> QED
    BY <2>1, <2>2 DEF OwnerAt, CountAt, RankAt, Locking, Acquiring, Clearing, SaveIF, Goto
<1>1. TypeOK'
  BY <1>i, <1>k DEF TypeOK, PC, Acquiring, Clearing, SaveIF, Goto
<1>e. /\ Running(c, v) /\ pc[c][v] = "saveIF" /\ pc'[c][v] = "idle"
      /\ \A d \in Core, w \in Level : d # c \/ w # v => pc'[d][w] = pc[d][w]
      /\ (bInterruptFlag'[l] <=> saved[c][v]) /\ \A m \in Lock : m # l => bInterruptFlag'[m] = bInterruptFlag[m]
      /\ hold'[c][v][l] = hold[c][v][l] + 1
      /\ \A m \in Lock : m # l => hold'[c][v][m] = hold[c][v][m]
      /\ \A d \in Core, w \in Level : d # c \/ w # v => hold'[d][w] = hold[d][w]
      /\ UNCHANGED <<bLockFlag, bAPICID, dwLockCount, rflagsIF, inIrq, arg, saved, callerIF>>
  BY <1>i DEF TypeOK, SaveIF, Goto
<1>t. \A d \in Core, w \in Level, m \in Lock :
         /\ hold[d][w][m] \in Nat /\ hold'[d][w][m] \in Nat
         /\ arg[d][w] \in Lock /\ m \in Nat /\ dwLockCount[m] \in Nat
  BY <1>i, <1>1 DEF TypeOK
<1>p. \A d \in Core, w \in Level, m \in Lock :
         Possesses(d, w, m)' <=> Possesses(d, w, m)
  <2> SUFFICES ASSUME NEW d \in Core, NEW w \in Level, NEW m \in Lock
               PROVE  Possesses(d, w, m)' <=> Possesses(d, w, m)
    OBVIOUS
  <2>1. CASE d = c /\ w = v /\ m = l
    BY <1>t, <1>k, <1>e, <2>1 DEF Possesses, Acquiring
  <2>2. CASE d = c /\ w = v /\ m # l
    BY <1>t, <1>k, <1>e, <2>2 DEF Possesses, Acquiring
  <2>3. CASE d # c \/ w # v
    BY <1>e, <2>3 DEF Possesses
  <2> QED
    BY <2>1, <2>2, <2>3
<1>n. hold'[c][v][l] # 0
  BY <1>t, <1>k, <1>e
<1>h. \A d \in Core, w \in Level : d # c \/ w # v =>
         /\ HoldsNothing(d, w)' <=> HoldsNothing(d, w)
         /\ \A m \in Lock : Outermost(d, w, m)' <=> Outermost(d, w, m)
  BY <1>e DEF HoldsNothing, Outermost
<1>h0. ~HoldsNothing(c, v)'
  BY <1>n DEF HoldsNothing
<1>h1. Outermost(c, v, l)' <=> HoldsNothing(c, v)
  <2>1. ASSUME HoldsNothing(c, v)
        PROVE  Outermost(c, v, l)'
    <3>1. \A m \in Lock : m # l => hold'[c][v][m] = 0
      BY <1>e, <2>1 DEF HoldsNothing
    <3>2. l <= l
      BY <1>t
    <3> QED
      BY <3>1, <3>2 DEF Outermost
  <2>2. ASSUME Outermost(c, v, l)', NEW m \in Lock
        PROVE  hold[c][v][m] = 0
    <3>1. CASE m = l
      BY <1>k, <3>1
    <3>2. CASE m # l
      <4>1. hold'[c][v][m] = hold[c][v][m] /\ (hold'[c][v][m] > 0 => l <= m)
        BY <1>e, <2>2, <3>2 DEF Outermost
      <4>2. hold[c][v][m] > 0 => m < l
        BY <1>k
      <4>3. hold[c][v][m] \in Nat /\ m \in Nat /\ l \in Nat
        BY <1>t
      <4> QED
        BY <4>1, <4>2, <4>3
    <3> QED
      BY <3>1, <3>2
  <2> QED
    BY <2>1, <2>2 DEF HoldsNothing
<1>h2. \A m \in Lock : hold[c][v][m] > 0 => (Outermost(c, v, m)' <=> Outermost(c, v, m))
  BY <1>t, <1>k, <1>e DEF HoldsNothing, Outermost
<1>2. LevelInv'
  BY <1>i, <1>e, <1>h, <1>h0, <1>h1, <1>h2 DEF LevelInv, Running
<1>3. MutualExclusion'
  BY <1>i, <1>p, MutualExclusionKept
<1>4. OwnerInv'
  <2> SUFFICES ASSUME NEW d \in Core, NEW w \in Level, NEW m \in Lock
               PROVE  OwnerAt(d, w, m)'
    BY DEF OwnerInv
  <2>i. /\ OwnerAt(d, w, m) /\ CountAt(d, w, m) /\ RankAt(d, w, m)
        /\ FlagAt(d, w) /\ KeptAt(d, w, m)
    BY <1>i DEF OwnerInv, CountInv, RankInv, FlagInv, KeptInv
  <2>1. CASE d = c /\ w = v /\ m = l
    BY <1>t, <1>k, <1>e, <2>i, <1>p, <2>1 DEF OwnerAt, Possesses, Acquiring, Clearing, Running
  <2>2. CASE d = c /\ w = v /\ m # l
    BY <1>t, <1>k, <1>e, <2>i, <1>p, <2>2 DEF OwnerAt, Possesses, Acquiring, Clearing, Running
  <2>3. CASE d # c \/ w # v
    <3>1. /\ pc'[d][w] = pc[d][w] /\ arg'[d][w] = arg[d][w]
          /\ hold'[d][w] = hold[d][w]
          /\ (Running(d, w)' <=> Running(d, w)) /\ UNCHANGED bAPICID
      BY <1>e, <2>3 DEF Running
    <3>2. Possesses(d, w, m)' => bLockFlag'[m]
      <4>1. Possesses(d, w, m) => bLockFlag[m]
        BY <2>i DEF OwnerAt
      <4> QED
        BY <1>e, <1>p, <2>3, <4>1
    <3> QED
      BY <3>1, <3>2, <2>i DEF OwnerAt
  <2> QED
    BY <2>1, <2>2, <2>3
<1>5. CountInv'
  <2> SUFFICES ASSUME NEW d \in Core, NEW w \in Level, NEW m \in Lock
               PROVE  CountAt(d, w, m)'
    BY DEF CountInv
  <2>i. /\ OwnerAt(d, w, m) /\ CountAt(d, w, m) /\ RankAt(d, w, m)
        /\ FlagAt(d, w) /\ KeptAt(d, w, m)
    BY <1>i DEF OwnerInv, CountInv, RankInv, FlagInv, KeptInv
  <2>1. CASE d = c /\ w = v /\ m = l
    BY <1>t, <1>k, <1>e, <2>i, <2>1 DEF CountAt, OwnerAt, Acquiring, Clearing, Running
  <2>2. CASE d = c /\ w = v /\ m # l
    BY <1>t, <1>k, <1>e, <2>i, <2>2 DEF CountAt, OwnerAt, Acquiring, Clearing, Running
  <2>3. CASE d # c \/ w # v
    BY <1>t, <1>k, <1>e, <2>i, <1>i, <2>3 DEF CountAt, MutualExclusion, Possesses, Acquiring, Clearing
  <2> QED
    BY <2>1, <2>2, <2>3
<1>6. RankInv'
  <2> SUFFICES ASSUME NEW d \in Core, NEW w \in Level, NEW m \in Lock
               PROVE  RankAt(d, w, m)'
    BY DEF RankInv
  <2>i. /\ OwnerAt(d, w, m) /\ CountAt(d, w, m) /\ RankAt(d, w, m)
        /\ FlagAt(d, w) /\ KeptAt(d, w, m)
    BY <1>i DEF OwnerInv, CountInv, RankInv, FlagInv, KeptInv
  <2>1. CASE d = c /\ w = v /\ m = l
    BY <1>t, <1>k, <1>e, <2>i, <2>1 DEF RankAt, Locking, Acquiring, Clearing
  <2>2. CASE d = c /\ w = v /\ m # l
    BY <1>t, <1>k, <1>e, <2>i, <2>2 DEF RankAt, Locking, Acquiring, Clearing
  <2>3. CASE d # c \/ w # v
    BY <1>t, <1>k, <1>e, <2>i, <1>i, <2>3 DEF RankAt, Locking, Acquiring, Clearing
  <2> QED
    BY <2>1, <2>2, <2>3
<1>7. FlagInv'
  <2> SUFFICES ASSUME NEW d \in Core, NEW w \in Level
               PROVE  FlagAt(d, w)'
    BY DEF FlagInv
  <2>1. CASE d = c /\ w = v
    BY <1>i, <1>k, <1>1, <1>2, <1>e, <1>h, <1>h0, <1>h1, <1>h2, <2>1 DEF TypeOK, LevelInv, FlagInv, FlagAt, Locking, Acquiring, Clearing, Running
  <2>2. CASE d # c \/ w # v
    BY <1>i, <1>k, <1>1, <1>2, <1>e, <1>h, <1>h0, <1>h1, <1>h2, <2>2 DEF TypeOK, LevelInv, FlagInv, FlagAt, Locking, Acquiring, Clearing, Running
  <2> QED
    BY <2>1, <2>2
<1>8. KeptInv'
  <2> SUFFICES ASSUME NEW d \in Core, NEW w \in Level, NEW m \in Lock
               PROVE  KeptAt(d, w, m)'
    BY DEF KeptInv
  <2>i. /\ OwnerAt(d, w, m) /\ CountAt(d, w, m) /\ RankAt(d, w, m)
        /\ FlagAt(d, w) /\ KeptAt(d, w, m)
    BY <1>i DEF OwnerInv, CountInv, RankInv, FlagInv, KeptInv
  <2>1. CASE d = c /\ w = v /\ m = l
    BY <1>t, <1>k, <1>e, <2>i, <1>h, <1>h0, <1>h1, <1>h2, <2>1 DEF KeptAt, FlagAt, Locking, Acquiring, Clearing, Running
  <2>2. CASE d = c /\ w = v /\ m # l
    BY <1>t, <1>k, <1>e, <2>i, <1>h, <1>h0, <1>h1, <1>h2, <2>2 DEF KeptAt, FlagAt, Locking, Acquiring, Clearing, Running
  <2>3. CASE d # c \/ w # v
    BY <1>t, <1>k, <1>e, <2>i, <1>i, <1>h, <1>h0, <1>h1, <1>h2, <2>3 DEF KeptAt, MutualExclusion, Possesses, Acquiring, Clearing
  <2> QED
    BY <2>1, <2>2, <2>3
<1> QED
  BY <1>1, <1>2, <1>3, <1>4, <1>5, <1>6, <1>7, <1>8 DEF IInv

\* An unlock call: the flag is saved, then interrupts are off.
LEMMA CallUnlockStep ==
    ASSUME IInv, NEW c \in Core, NEW v \in Level, NEW l \in Lock, CallUnlock(c, v, l)
    PROVE  IInv'
<1>i. /\ TypeOK /\ LevelInv /\ MutualExclusion /\ OwnerInv
      /\ CountInv /\ RankInv /\ FlagInv /\ KeptInv
  BY DEF IInv
<1>1. TypeOK'
  BY <1>i DEF TypeOK, PC, Acquiring, Clearing, CallUnlock, Goto, kSetInterruptFlag
<1>e. /\ Running(c, v) /\ pc[c][v] = "idle" /\ pc'[c][v] = "checkUnlock"
      /\ \A d \in Core, w \in Level : d # c \/ w # v => pc'[d][w] = pc[d][w]
      /\ arg'[c][v] = l
      /\ \A d \in Core, w \in Level : d # c \/ w # v => arg'[d][w] = arg[d][w]
      /\ saved'[c][v] <=> rflagsIF[c]
      /\ \A d \in Core, w \in Level : d # c \/ w # v => saved'[d][w] = saved[d][w]
      /\ (rflagsIF'[c] <=> FALSE) /\ \A d \in Core : d # c => rflagsIF'[d] = rflagsIF[d]
      /\ UNCHANGED <<bLockFlag, bAPICID, dwLockCount, bInterruptFlag, inIrq, hold, callerIF>>
  BY <1>i DEF TypeOK, CallUnlock, Goto, kSetInterruptFlag
<1>t. \A d \in Core, w \in Level, m \in Lock :
         /\ hold[d][w][m] \in Nat /\ hold'[d][w][m] \in Nat
         /\ arg[d][w] \in Lock /\ m \in Nat /\ dwLockCount[m] \in Nat
  BY <1>i, <1>1 DEF TypeOK
<1>p. \A d \in Core, w \in Level, m \in Lock :
         Possesses(d, w, m)' <=> Possesses(d, w, m)
  <2> SUFFICES ASSUME NEW d \in Core, NEW w \in Level, NEW m \in Lock
               PROVE  Possesses(d, w, m)' <=> Possesses(d, w, m)
    OBVIOUS
  <2>1. CASE d = c /\ w = v /\ m = l
    BY <1>t, <1>e, <2>1 DEF Possesses, Acquiring
  <2>2. CASE d = c /\ w = v /\ m # l
    BY <1>t, <1>e, <2>2 DEF Possesses, Acquiring
  <2>3. CASE d # c \/ w # v
    BY <1>e, <2>3 DEF Possesses
  <2> QED
    BY <2>1, <2>2, <2>3
<1>h. \A d \in Core, w \in Level : d # c \/ w # v =>
         /\ HoldsNothing(d, w)' <=> HoldsNothing(d, w)
         /\ \A m \in Lock : Outermost(d, w, m)' <=> Outermost(d, w, m)
  BY <1>e DEF HoldsNothing, Outermost
<1>h0. HoldsNothing(c, v)' <=> HoldsNothing(c, v)
  BY <1>t, <1>e DEF HoldsNothing, Outermost
<1>h1. \A m \in Lock : Outermost(c, v, m)' <=> Outermost(c, v, m)
  BY <1>t, <1>e DEF HoldsNothing, Outermost
<1>2. LevelInv'
  BY <1>i, <1>e, <1>h, <1>h0, <1>h1 DEF LevelInv, Running
<1>3. MutualExclusion'
  BY <1>i, <1>p, MutualExclusionKept
<1>4. OwnerInv'
  <2> SUFFICES ASSUME NEW d \in Core, NEW w \in Level, NEW m \in Lock
               PROVE  OwnerAt(d, w, m)'
    BY DEF OwnerInv
  <2>i. /\ OwnerAt(d, w, m) /\ CountAt(d, w, m) /\ RankAt(d, w, m)
        /\ FlagAt(d, w) /\ KeptAt(d, w, m)
    BY <1>i DEF OwnerInv, CountInv, RankInv, FlagInv, KeptInv
  <2>1. CASE d = c /\ w = v /\ m = l
    BY <1>t, <1>e, <2>i, <1>p, <2>1 DEF OwnerAt, Possesses, Acquiring, Clearing, Running
  <2>2. CASE d = c /\ w = v /\ m # l
    BY <1>t, <1>e, <2>i, <1>p, <2>2 DEF OwnerAt, Possesses, Acquiring, Clearing, Running
  <2>3. CASE d # c \/ w # v
    <3>1. /\ pc'[d][w] = pc[d][w] /\ arg'[d][w] = arg[d][w]
          /\ hold'[d][w] = hold[d][w]
          /\ (Running(d, w)' <=> Running(d, w)) /\ UNCHANGED bAPICID
      BY <1>e, <2>3 DEF Running
    <3>2. Possesses(d, w, m)' => bLockFlag'[m]
      <4>1. Possesses(d, w, m) => bLockFlag[m]
        BY <2>i DEF OwnerAt
      <4> QED
        BY <1>e, <1>p, <2>3, <4>1
    <3> QED
      BY <3>1, <3>2, <2>i DEF OwnerAt
  <2> QED
    BY <2>1, <2>2, <2>3
<1>5. CountInv'
  <2> SUFFICES ASSUME NEW d \in Core, NEW w \in Level, NEW m \in Lock
               PROVE  CountAt(d, w, m)'
    BY DEF CountInv
  <2>i. /\ OwnerAt(d, w, m) /\ CountAt(d, w, m) /\ RankAt(d, w, m)
        /\ FlagAt(d, w) /\ KeptAt(d, w, m)
    BY <1>i DEF OwnerInv, CountInv, RankInv, FlagInv, KeptInv
  <2>1. CASE d = c /\ w = v /\ m = l
    BY <1>t, <1>e, <2>i, <2>1 DEF CountAt, OwnerAt, Acquiring, Clearing, Running
  <2>2. CASE d = c /\ w = v /\ m # l
    BY <1>t, <1>e, <2>i, <2>2 DEF CountAt, OwnerAt, Acquiring, Clearing, Running
  <2>3. CASE d # c \/ w # v
    BY <1>t, <1>e, <2>i, <1>i, <2>3 DEF CountAt, MutualExclusion, Possesses, Acquiring, Clearing
  <2> QED
    BY <2>1, <2>2, <2>3
<1>6. RankInv'
  <2> SUFFICES ASSUME NEW d \in Core, NEW w \in Level, NEW m \in Lock
               PROVE  RankAt(d, w, m)'
    BY DEF RankInv
  <2>i. /\ OwnerAt(d, w, m) /\ CountAt(d, w, m) /\ RankAt(d, w, m)
        /\ FlagAt(d, w) /\ KeptAt(d, w, m)
    BY <1>i DEF OwnerInv, CountInv, RankInv, FlagInv, KeptInv
  <2>1. CASE d = c /\ w = v /\ m = l
    BY <1>t, <1>e, <2>i, <2>1 DEF RankAt, Locking, Acquiring, Clearing, CallUnlock
  <2>2. CASE d = c /\ w = v /\ m # l
    BY <1>t, <1>e, <2>i, <2>2 DEF RankAt, Locking, Acquiring, Clearing, CallUnlock
  <2>3. CASE d # c \/ w # v
    BY <1>t, <1>e, <2>i, <1>i, <2>3 DEF RankAt, Locking, Acquiring, Clearing
  <2> QED
    BY <2>1, <2>2, <2>3
<1>7. FlagInv'
  <2> SUFFICES ASSUME NEW d \in Core, NEW w \in Level
               PROVE  FlagAt(d, w)'
    BY DEF FlagInv
  <2>1. CASE d = c /\ w = v
    BY <1>i, <1>1, <1>2, <1>e, <1>h, <1>h0, <1>h1, <2>1 DEF TypeOK, LevelInv, FlagInv, FlagAt, Locking, Acquiring, Clearing, Running
  <2>2. CASE d # c \/ w # v
    BY <1>i, <1>1, <1>2, <1>e, <1>h, <1>h0, <1>h1, <2>2 DEF TypeOK, LevelInv, FlagInv, FlagAt, Locking, Acquiring, Clearing, Running
  <2> QED
    BY <2>1, <2>2
<1>8. KeptInv'
  <2> SUFFICES ASSUME NEW d \in Core, NEW w \in Level, NEW m \in Lock
               PROVE  KeptAt(d, w, m)'
    BY DEF KeptInv
  <2>i. /\ OwnerAt(d, w, m) /\ CountAt(d, w, m) /\ RankAt(d, w, m)
        /\ FlagAt(d, w) /\ KeptAt(d, w, m)
    BY <1>i DEF OwnerInv, CountInv, RankInv, FlagInv, KeptInv
  <2>1. CASE d = c /\ w = v /\ m = l
    BY <1>t, <1>e, <2>i, <1>h, <1>h0, <1>h1, <2>1 DEF KeptAt, FlagAt, Locking, Acquiring, Clearing, Running
  <2>2. CASE d = c /\ w = v /\ m # l
    BY <1>t, <1>e, <2>i, <1>h, <1>h0, <1>h1, <2>2 DEF KeptAt, FlagAt, Locking, Acquiring, Clearing, Running
  <2>3. CASE d # c \/ w # v
    <3>1. /\ pc'[d][w] = pc[d][w] /\ arg'[d][w] = arg[d][w]
          /\ hold'[d][w] = hold[d][w]
          /\ UNCHANGED <<bInterruptFlag, callerIF>>
      BY <1>e, <2>3
    <3>2. Outermost(d, w, m)' <=> Outermost(d, w, m)
      BY <1>h, <2>3
    <3> QED
      BY <3>1, <3>2, <2>i DEF KeptAt
  <2> QED
    BY <2>1, <2>2, <2>3
<1> QED
  BY <1>1, <1>2, <1>3, <1>4, <1>5, <1>6, <1>7, <1>8 DEF IInv

\* An unlock of a free or foreign lock puts the saved flag back.
LEMMA RefuseUnlockStep ==
    ASSUME IInv, NEW c \in Core, NEW v \in Level, NEW l \in Lock, RefuseUnlock(c, v),
           arg[c][v] = l
    PROVE  IInv'
<1>i. /\ TypeOK /\ LevelInv /\ MutualExclusion /\ OwnerInv
      /\ CountInv /\ RankInv /\ FlagInv /\ KeptInv
  BY DEF IInv
<1>1. TypeOK'
  BY <1>i DEF TypeOK, PC, Acquiring, Clearing, RefuseUnlock, Goto
<1>e. /\ Running(c, v) /\ pc[c][v] = "checkUnlock" /\ pc'[c][v] = "idle"
      /\ \A d \in Core, w \in Level : d # c \/ w # v => pc'[d][w] = pc[d][w]
      /\ (rflagsIF'[c] <=> saved[c][v]) /\ \A d \in Core : d # c => rflagsIF'[d] = rflagsIF[d]
      /\ UNCHANGED <<bLockFlag, bAPICID, dwLockCount, bInterruptFlag, inIrq, arg, saved, hold, callerIF>>
  BY <1>i DEF TypeOK, RefuseUnlock, Goto
<1>t. \A d \in Core, w \in Level, m \in Lock :
         /\ hold[d][w][m] \in Nat /\ hold'[d][w][m] \in Nat
         /\ arg[d][w] \in Lock /\ m \in Nat /\ dwLockCount[m] \in Nat
  BY <1>i, <1>1 DEF TypeOK
<1>p. \A d \in Core, w \in Level, m \in Lock :
         Possesses(d, w, m)' <=> Possesses(d, w, m)
  <2> SUFFICES ASSUME NEW d \in Core, NEW w \in Level, NEW m \in Lock
               PROVE  Possesses(d, w, m)' <=> Possesses(d, w, m)
    OBVIOUS
  <2>1. CASE d = c /\ w = v /\ m = l
    BY <1>t, <1>e, <2>1 DEF Possesses, Acquiring
  <2>2. CASE d = c /\ w = v /\ m # l
    BY <1>t, <1>e, <2>2 DEF Possesses, Acquiring
  <2>3. CASE d # c \/ w # v
    BY <1>e, <2>3 DEF Possesses
  <2> QED
    BY <2>1, <2>2, <2>3
<1>h. \A d \in Core, w \in Level : d # c \/ w # v =>
         /\ HoldsNothing(d, w)' <=> HoldsNothing(d, w)
         /\ \A m \in Lock : Outermost(d, w, m)' <=> Outermost(d, w, m)
  BY <1>e DEF HoldsNothing, Outermost
<1>h0. HoldsNothing(c, v)' <=> HoldsNothing(c, v)
  BY <1>t, <1>e DEF HoldsNothing, Outermost
<1>h1. \A m \in Lock : Outermost(c, v, m)' <=> Outermost(c, v, m)
  BY <1>t, <1>e DEF HoldsNothing, Outermost
<1>2. LevelInv'
  BY <1>i, <1>e, <1>h, <1>h0, <1>h1 DEF LevelInv, Running, FlagInv, FlagAt, Locking, Clearing
<1>3. MutualExclusion'
  BY <1>i, <1>p, MutualExclusionKept
<1>4. OwnerInv'
  <2> SUFFICES ASSUME NEW d \in Core, NEW w \in Level, NEW m \in Lock
               PROVE  OwnerAt(d, w, m)'
    BY DEF OwnerInv
  <2>i. /\ OwnerAt(d, w, m) /\ CountAt(d, w, m) /\ RankAt(d, w, m)
        /\ FlagAt(d, w) /\ KeptAt(d, w, m)
    BY <1>i DEF OwnerInv, CountInv, RankInv, FlagInv, KeptInv
  <2>1. CASE d = c /\ w = v /\ m = l
    BY <1>t, <1>e, <2>i, <1>p, <2>1 DEF OwnerAt, Possesses, Acquiring, Clearing, Running
  <2>2. CASE d = c /\ w = v /\ m # l
    BY <1>t, <1>e, <2>i, <1>p, <2>2 DEF OwnerAt, Possesses, Acquiring, Clearing, Running
  <2>3. CASE d # c \/ w # v
    <3>1. /\ pc'[d][w] = pc[d][w] /\ arg'[d][w] = arg[d][w]
          /\ hold'[d][w] = hold[d][w]
          /\ (Running(d, w)' <=> Running(d, w)) /\ UNCHANGED bAPICID
      BY <1>e, <2>3 DEF Running
    <3>2. Possesses(d, w, m)' => bLockFlag'[m]
      <4>1. Possesses(d, w, m) => bLockFlag[m]
        BY <2>i DEF OwnerAt
      <4> QED
        BY <1>e, <1>p, <2>3, <4>1
    <3> QED
      BY <3>1, <3>2, <2>i DEF OwnerAt
  <2> QED
    BY <2>1, <2>2, <2>3
<1>5. CountInv'
  <2> SUFFICES ASSUME NEW d \in Core, NEW w \in Level, NEW m \in Lock
               PROVE  CountAt(d, w, m)'
    BY DEF CountInv
  <2>i. /\ OwnerAt(d, w, m) /\ CountAt(d, w, m) /\ RankAt(d, w, m)
        /\ FlagAt(d, w) /\ KeptAt(d, w, m)
    BY <1>i DEF OwnerInv, CountInv, RankInv, FlagInv, KeptInv
  <2>1. CASE d = c /\ w = v /\ m = l
    BY <1>t, <1>e, <2>i, <2>1 DEF CountAt, OwnerAt, Acquiring, Clearing, Running
  <2>2. CASE d = c /\ w = v /\ m # l
    BY <1>t, <1>e, <2>i, <2>2 DEF CountAt, OwnerAt, Acquiring, Clearing, Running
  <2>3. CASE d # c \/ w # v
    BY <1>t, <1>e, <2>i, <1>i, <2>3 DEF CountAt, MutualExclusion, Possesses, Acquiring, Clearing
  <2> QED
    BY <2>1, <2>2, <2>3
<1>6. RankInv'
  <2> SUFFICES ASSUME NEW d \in Core, NEW w \in Level, NEW m \in Lock
               PROVE  RankAt(d, w, m)'
    BY DEF RankInv
  <2>i. /\ OwnerAt(d, w, m) /\ CountAt(d, w, m) /\ RankAt(d, w, m)
        /\ FlagAt(d, w) /\ KeptAt(d, w, m)
    BY <1>i DEF OwnerInv, CountInv, RankInv, FlagInv, KeptInv
  <2>1. CASE d = c /\ w = v /\ m = l
    BY <1>t, <1>e, <2>i, <2>1 DEF RankAt, Locking, Acquiring, Clearing
  <2>2. CASE d = c /\ w = v /\ m # l
    BY <1>t, <1>e, <2>i, <2>2 DEF RankAt, Locking, Acquiring, Clearing
  <2>3. CASE d # c \/ w # v
    BY <1>t, <1>e, <2>i, <1>i, <2>3 DEF RankAt, Locking, Acquiring, Clearing
  <2> QED
    BY <2>1, <2>2, <2>3
<1>7. FlagInv'
  <2> SUFFICES ASSUME NEW d \in Core, NEW w \in Level
               PROVE  FlagAt(d, w)'
    BY DEF FlagInv
  <2>1. CASE d = c /\ w = v
    BY <1>i, <1>1, <1>2, <1>e, <1>h, <1>h0, <1>h1, <2>1 DEF TypeOK, LevelInv, FlagInv, FlagAt, Locking, Acquiring, Clearing, Running
  <2>2. CASE d # c \/ w # v
    BY <1>i, <1>1, <1>2, <1>e, <1>h, <1>h0, <1>h1, <2>2 DEF TypeOK, LevelInv, FlagInv, FlagAt, Locking, Acquiring, Clearing, Running
  <2> QED
    BY <2>1, <2>2
<1>8. KeptInv'
  <2> SUFFICES ASSUME NEW d \in Core, NEW w \in Level, NEW m \in Lock
               PROVE  KeptAt(d, w, m)'
    BY DEF KeptInv
  <2>i. /\ OwnerAt(d, w, m) /\ CountAt(d, w, m) /\ RankAt(d, w, m)
        /\ FlagAt(d, w) /\ KeptAt(d, w, m)
    BY <1>i DEF OwnerInv, CountInv, RankInv, FlagInv, KeptInv
  <2>1. CASE d = c /\ w = v /\ m = l
    BY <1>t, <1>e, <2>i, <1>h, <1>h0, <1>h1, <2>1 DEF KeptAt, FlagAt, Locking, Acquiring, Clearing, Running
  <2>2. CASE d = c /\ w = v /\ m # l
    BY <1>t, <1>e, <2>i, <1>h, <1>h0, <1>h1, <2>2 DEF KeptAt, FlagAt, Locking, Acquiring, Clearing, Running
  <2>3. CASE d # c \/ w # v
    <3>1. /\ pc'[d][w] = pc[d][w] /\ arg'[d][w] = arg[d][w]
          /\ hold'[d][w] = hold[d][w]
          /\ UNCHANGED <<bInterruptFlag, callerIF>>
      BY <1>e, <2>3
    <3>2. Outermost(d, w, m)' <=> Outermost(d, w, m)
      BY <1>h, <2>3
    <3> QED
      BY <3>1, <3>2, <2>i DEF KeptAt
  <2> QED
    BY <2>1, <2>2, <2>3
<1> QED
  BY <1>1, <1>2, <1>3, <1>4, <1>5, <1>6, <1>7, <1>8 DEF IInv

\* A nested unlock: count and depth shrink together.
LEMMA UnlockNestedStep ==
    ASSUME IInv, NEW c \in Core, NEW v \in Level, NEW l \in Lock, UnlockNested(c, v),
           arg[c][v] = l
    PROVE  IInv'
<1>i. /\ TypeOK /\ LevelInv /\ MutualExclusion /\ OwnerInv
      /\ CountInv /\ RankInv /\ FlagInv /\ KeptInv
  BY DEF IInv
<1>k. hold[c][v][l] > 1 /\ dwLockCount[l] = hold[c][v][l]
  <2>1. hold[c][v][l] \in Nat /\ arg[c][v] = l /\ OwnerAt(c, v, l) /\ CountAt(c, v, l)
    BY <1>i DEF TypeOK, OwnerInv, CountInv
  <2>2. \A m \in Lock : RankAt(c, v, m) /\ m \in Nat
    BY <1>i DEF RankInv
  <2> QED
    BY <2>1, <2>2 DEF OwnerAt, CountAt, RankAt, Locking, Acquiring, Clearing, UnlockNested, Goto
<1>1. TypeOK'
  BY <1>i, <1>k DEF TypeOK, PC, Acquiring, Clearing, UnlockNested, Goto
<1>e. /\ Running(c, v) /\ pc[c][v] = "checkUnlock" /\ pc'[c][v] = "idle"
      /\ \A d \in Core, w \in Level : d # c \/ w # v => pc'[d][w] = pc[d][w]
      /\ (dwLockCount'[l] = dwLockCount[l] - 1) /\ \A m \in Lock : m # l => dwLockCount'[m] = dwLockCount[m]
      /\ hold'[c][v][l] = hold[c][v][l] - 1
      /\ \A m \in Lock : m # l => hold'[c][v][m] = hold[c][v][m]
      /\ \A d \in Core, w \in Level : d # c \/ w # v => hold'[d][w] = hold[d][w]
      /\ UNCHANGED <<bLockFlag, bAPICID, bInterruptFlag, rflagsIF, inIrq, arg, saved, callerIF>>
  BY <1>i DEF TypeOK, UnlockNested, Goto
<1>t. \A d \in Core, w \in Level, m \in Lock :
         /\ hold[d][w][m] \in Nat /\ hold'[d][w][m] \in Nat
         /\ arg[d][w] \in Lock /\ m \in Nat /\ dwLockCount[m] \in Nat
  BY <1>i, <1>1 DEF TypeOK
<1>p. \A d \in Core, w \in Level, m \in Lock :
         Possesses(d, w, m)' <=> Possesses(d, w, m)
  <2> SUFFICES ASSUME NEW d \in Core, NEW w \in Level, NEW m \in Lock
               PROVE  Possesses(d, w, m)' <=> Possesses(d, w, m)
    OBVIOUS
  <2>1. CASE d = c /\ w = v /\ m = l
    BY <1>t, <1>k, <1>e, <2>1 DEF Possesses, Acquiring
  <2>2. CASE d = c /\ w = v /\ m # l
    BY <1>t, <1>k, <1>e, <2>2 DEF Possesses, Acquiring
  <2>3. CASE d # c \/ w # v
    BY <1>e, <2>3 DEF Possesses
  <2> QED
    BY <2>1, <2>2, <2>3
<1>n. hold'[c][v][l] # 0
  BY <1>t, <1>k, <1>e
<1>h. \A d \in Core, w \in Level : d # c \/ w # v =>
         /\ HoldsNothing(d, w)' <=> HoldsNothing(d, w)
         /\ \A m \in Lock : Outermost(d, w, m)' <=> Outermost(d, w, m)
  BY <1>e DEF HoldsNothing, Outermost
<1>h0. ~HoldsNothing(c, v)'
  BY <1>n DEF HoldsNothing
<1>h1. ~HoldsNothing(c, v)
  BY <1>t, <1>k, <1>e DEF HoldsNothing, Outermost
<1>h2. \A m \in Lock : Outermost(c, v, m)' <=> Outermost(c, v, m)
  <2>1. \A x \in Lock : hold'[c][v][x] > 0 <=> hold[c][v][x] > 0
    BY <1>t, <1>k, <1>e
  <2> QED
    BY <2>1 DEF Outermost
<1>2. LevelInv'
  BY <1>i, <1>e, <1>h, <1>h0, <1>h1, <1>h2 DEF LevelInv, Running
<1>3. MutualExclusion'
  BY <1>i, <1>p, MutualExclusionKept
<1>4. OwnerInv'
  <2> SUFFICES ASSUME NEW d \in Core, NEW w \in Level, NEW m \in Lock
               PROVE  OwnerAt(d, w, m)'
    BY DEF OwnerInv
  <2>i. /\ OwnerAt(d, w, m) /\ CountAt(d, w, m) /\ RankAt(d, w, m)
        /\ FlagAt(d, w) /\ KeptAt(d, w, m)
    BY <1>i DEF OwnerInv, CountInv, RankInv, FlagInv, KeptInv
  <2>1. CASE d = c /\ w = v /\ m = l
    BY <1>t, <1>k, <1>e, <2>i, <1>p, <2>1 DEF OwnerAt, Possesses, Acquiring, Clearing, Running
  <2>2. CASE d = c /\ w = v /\ m # l
    BY <1>t, <1>k, <1>e, <2>i, <1>p, <2>2 DEF OwnerAt, Possesses, Acquiring, Clearing, Running
  <2>3. CASE d # c \/ w # v
    <3>1. /\ pc'[d][w] = pc[d][w] /\ arg'[d][w] = arg[d][w]
          /\ hold'[d][w] = hold[d][w]
          /\ (Running(d, w)' <=> Running(d, w)) /\ UNCHANGED bAPICID
      BY <1>e, <2>3 DEF Running
    <3>2. Possesses(d, w, m)' => bLockFlag'[m]
      <4>1. Possesses(d, w, m) => bLockFlag[m]
        BY <2>i DEF OwnerAt
      <4> QED
        BY <1>e, <1>p, <2>3, <4>1
    <3> QED
      BY <3>1, <3>2, <2>i DEF OwnerAt
  <2> QED
    BY <2>1, <2>2, <2>3
<1>5. CountInv'
  <2> SUFFICES ASSUME NEW d \in Core, NEW w \in Level, NEW m \in Lock
               PROVE  CountAt(d, w, m)'
    BY DEF CountInv
  <2>i. /\ OwnerAt(d, w, m) /\ CountAt(d, w, m) /\ RankAt(d, w, m)
        /\ FlagAt(d, w) /\ KeptAt(d, w, m)
    BY <1>i DEF OwnerInv, CountInv, RankInv, FlagInv, KeptInv
  <2>1. CASE d = c /\ w = v /\ m = l
    BY <1>t, <1>k, <1>e, <2>i, <2>1 DEF CountAt, OwnerAt, Acquiring, Clearing, Running
  <2>2. CASE d = c /\ w = v /\ m # l
    BY <1>t, <1>k, <1>e, <2>i, <2>2 DEF CountAt, OwnerAt, Acquiring, Clearing, Running
  <2>3. CASE d # c \/ w # v
    BY <1>t, <1>k, <1>e, <2>i, <1>i, <2>3 DEF CountAt, MutualExclusion, Possesses, Acquiring, Clearing
  <2> QED
    BY <2>1, <2>2, <2>3
<1>6. RankInv'
  <2> SUFFICES ASSUME NEW d \in Core, NEW w \in Level, NEW m \in Lock
               PROVE  RankAt(d, w, m)'
    BY DEF RankInv
  <2>i. /\ OwnerAt(d, w, m) /\ CountAt(d, w, m) /\ RankAt(d, w, m)
        /\ FlagAt(d, w) /\ KeptAt(d, w, m)
    BY <1>i DEF OwnerInv, CountInv, RankInv, FlagInv, KeptInv
  <2>1. CASE d = c /\ w = v /\ m = l
    BY <1>t, <1>k, <1>e, <2>i, <2>1 DEF RankAt, Locking, Acquiring, Clearing
  <2>2. CASE d = c /\ w = v /\ m # l
    BY <1>t, <1>k, <1>e, <2>i, <2>2 DEF RankAt, Locking, Acquiring, Clearing
  <2>3. CASE d # c \/ w # v
    BY <1>t, <1>k, <1>e, <2>i, <1>i, <2>3 DEF RankAt, Locking, Acquiring, Clearing
  <2> QED
    BY <2>1, <2>2, <2>3
<1>7. FlagInv'
  <2> SUFFICES ASSUME NEW d \in Core, NEW w \in Level
               PROVE  FlagAt(d, w)'
    BY DEF FlagInv
  <2>1. CASE d = c /\ w = v
    BY <1>i, <1>k, <1>1, <1>2, <1>e, <1>h, <1>h0, <1>h1, <1>h2, <2>1 DEF TypeOK, LevelInv, FlagInv, FlagAt, Locking, Acquiring, Clearing, Running
  <2>2. CASE d # c \/ w # v
    BY <1>i, <1>k, <1>1, <1>2, <1>e, <1>h, <1>h0, <1>h1, <1>h2, <2>2 DEF TypeOK, LevelInv, FlagInv, FlagAt, Locking, Acquiring, Clearing, Running
  <2> QED
    BY <2>1, <2>2
<1>8. KeptInv'
  <2> SUFFICES ASSUME NEW d \in Core, NEW w \in Level, NEW m \in Lock
               PROVE  KeptAt(d, w, m)'
    BY DEF KeptInv
  <2>i. /\ OwnerAt(d, w, m) /\ CountAt(d, w, m) /\ RankAt(d, w, m)
        /\ FlagAt(d, w) /\ KeptAt(d, w, m)
    BY <1>i DEF OwnerInv, CountInv, RankInv, FlagInv, KeptInv
  <2>1. CASE d = c /\ w = v /\ m = l
    BY <1>t, <1>k, <1>e, <2>i, <1>h, <1>h0, <1>h1, <1>h2, <2>1 DEF KeptAt, FlagAt, Locking, Acquiring, Clearing, Running
  <2>2. CASE d = c /\ w = v /\ m # l
    BY <1>t, <1>k, <1>e, <2>i, <1>h, <1>h0, <1>h1, <1>h2, <2>2 DEF KeptAt, FlagAt, Locking, Acquiring, Clearing, Running
  <2>3. CASE d # c \/ w # v
    <3>1. /\ pc'[d][w] = pc[d][w] /\ arg'[d][w] = arg[d][w]
          /\ hold'[d][w] = hold[d][w]
          /\ UNCHANGED <<bInterruptFlag, callerIF>>
      BY <1>e, <2>3
    <3>2. Outermost(d, w, m)' <=> Outermost(d, w, m)
      BY <1>h, <2>3
    <3> QED
      BY <3>1, <3>2, <2>i DEF KeptAt
  <2> QED
    BY <2>1, <2>2, <2>3
<1> QED
  BY <1>1, <1>2, <1>3, <1>4, <1>5, <1>6, <1>7, <1>8 DEF IInv

\* The last unlock takes the outermost caller's flag out of the lock.
LEMMA FetchIFStep ==
    ASSUME IInv, NEW c \in Core, NEW v \in Level, NEW l \in Lock, FetchIF(c, v),
           arg[c][v] = l
    PROVE  IInv'
<1>i. /\ TypeOK /\ LevelInv /\ MutualExclusion /\ OwnerInv
      /\ CountInv /\ RankInv /\ FlagInv /\ KeptInv
  BY DEF IInv
<1>k. hold[c][v][l] = 1 /\ \A m \in Lock : hold[c][v][m] > 0 => m <= l
  <2>1. hold[c][v][l] \in Nat /\ arg[c][v] = l /\ OwnerAt(c, v, l) /\ CountAt(c, v, l)
    BY <1>i DEF TypeOK, OwnerInv, CountInv
  <2>2. \A m \in Lock : RankAt(c, v, m) /\ m \in Nat
    BY <1>i DEF RankInv
  <2> QED
    BY <2>1, <2>2 DEF OwnerAt, CountAt, RankAt, Locking, Acquiring, Clearing, FetchIF, Goto
<1>1. TypeOK'
  BY <1>i, <1>k DEF TypeOK, PC, Acquiring, Clearing, FetchIF, Goto
<1>e. /\ Running(c, v) /\ pc[c][v] = "checkUnlock" /\ pc'[c][v] = "clearOwner"
      /\ \A d \in Core, w \in Level : d # c \/ w # v => pc'[d][w] = pc[d][w]
      /\ saved'[c][v] <=> bInterruptFlag[l]
      /\ \A d \in Core, w \in Level : d # c \/ w # v => saved'[d][w] = saved[d][w]
      /\ UNCHANGED <<bLockFlag, bAPICID, dwLockCount, bInterruptFlag, rflagsIF, inIrq, arg, hold, callerIF>>
  BY <1>i DEF TypeOK, FetchIF, Goto
<1>t. \A d \in Core, w \in Level, m \in Lock :
         /\ hold[d][w][m] \in Nat /\ hold'[d][w][m] \in Nat
         /\ arg[d][w] \in Lock /\ m \in Nat /\ dwLockCount[m] \in Nat
  BY <1>i, <1>1 DEF TypeOK
<1>p. \A d \in Core, w \in Level, m \in Lock :
         Possesses(d, w, m)' <=> Possesses(d, w, m)
  <2> SUFFICES ASSUME NEW d \in Core, NEW w \in Level, NEW m \in Lock
               PROVE  Possesses(d, w, m)' <=> Possesses(d, w, m)
    OBVIOUS
  <2>1. CASE d = c /\ w = v /\ m = l
    BY <1>t, <1>k, <1>e, <2>1 DEF Possesses, Acquiring
  <2>2. CASE d = c /\ w = v /\ m # l
    BY <1>t, <1>k, <1>e, <2>2 DEF Possesses, Acquiring
  <2>3. CASE d # c \/ w # v
    BY <1>e, <2>3 DEF Possesses
  <2> QED
    BY <2>1, <2>2, <2>3
<1>h. \A d \in Core, w \in Level : d # c \/ w # v =>
         /\ HoldsNothing(d, w)' <=> HoldsNothing(d, w)
         /\ \A m \in Lock : Outermost(d, w, m)' <=> Outermost(d, w, m)
  BY <1>e DEF HoldsNothing, Outermost
<1>h0. HoldsNothing(c, v)' <=> HoldsNothing(c, v)
  BY <1>t, <1>k, <1>e DEF HoldsNothing, Outermost
<1>h1. \A m \in Lock : Outermost(c, v, m)' <=> Outermost(c, v, m)
  BY <1>t, <1>k, <1>e DEF HoldsNothing, Outermost
<1>2. LevelInv'
  BY <1>i, <1>e, <1>h, <1>h0, <1>h1 DEF LevelInv, Running
<1>3. MutualExclusion'
  BY <1>i, <1>p, MutualExclusionKept
<1>4. OwnerInv'
  <2> SUFFICES ASSUME NEW d \in Core, NEW w \in Level, NEW m \in Lock
               PROVE  OwnerAt(d, w, m)'
    BY DEF OwnerInv
  <2>i. /\ OwnerAt(d, w, m) /\ CountAt(d, w, m) /\ RankAt(d, w, m)
        /\ FlagAt(d, w) /\ KeptAt(d, w, m)
    BY <1>i DEF OwnerInv, CountInv, RankInv, FlagInv, KeptInv
  <2>1. CASE d = c /\ w = v /\ m = l
    BY <1>t, <1>k, <1>e, <2>i, <1>p, <2>1 DEF OwnerAt, Possesses, Acquiring, Clearing, Running
  <2>2. CASE d = c /\ w = v /\ m # l
    BY <1>t, <1>k, <1>e, <2>i, <1>p, <2>2 DEF OwnerAt, Possesses, Acquiring, Clearing, Running
  <2>3. CASE d # c \/ w # v
    <3>1. /\ pc'[d][w] = pc[d][w] /\ arg'[d][w] = arg[d][w]
          /\ hold'[d][w] = hold[d][w]
          /\ (Running(d, w)' <=> Running(d, w)) /\ UNCHANGED bAPICID
      BY <1>e, <2>3 DEF Running
    <3>2. Possesses(d, w, m)' => bLockFlag'[m]
      <4>1. Possesses(d, w, m) => bLockFlag[m]
        BY <2>i DEF OwnerAt
      <4> QED
        BY <1>e, <1>p, <2>3, <4>1
    <3> QED
      BY <3>1, <3>2, <2>i DEF OwnerAt
  <2> QED
    BY <2>1, <2>2, <2>3
<1>5. CountInv'
  <2> SUFFICES ASSUME NEW d \in Core, NEW w \in Level, NEW m \in Lock
               PROVE  CountAt(d, w, m)'
    BY DEF CountInv
  <2>i. /\ OwnerAt(d, w, m) /\ CountAt(d, w, m) /\ RankAt(d, w, m)
        /\ FlagAt(d, w) /\ KeptAt(d, w, m)
    BY <1>i DEF OwnerInv, CountInv, RankInv, FlagInv, KeptInv
  <2>1. CASE d = c /\ w = v /\ m = l
    BY <1>t, <1>k, <1>e, <2>i, <2>1 DEF CountAt, OwnerAt, Acquiring, Clearing, Running
  <2>2. CASE d = c /\ w = v /\ m # l
    BY <1>t, <1>k, <1>e, <2>i, <2>2 DEF CountAt, OwnerAt, Acquiring, Clearing, Running
  <2>3. CASE d # c \/ w # v
    BY <1>t, <1>k, <1>e, <2>i, <1>i, <2>3 DEF CountAt, MutualExclusion, Possesses, Acquiring, Clearing
  <2> QED
    BY <2>1, <2>2, <2>3
<1>6. RankInv'
  <2> SUFFICES ASSUME NEW d \in Core, NEW w \in Level, NEW m \in Lock
               PROVE  RankAt(d, w, m)'
    BY DEF RankInv
  <2>i. /\ OwnerAt(d, w, m) /\ CountAt(d, w, m) /\ RankAt(d, w, m)
        /\ FlagAt(d, w) /\ KeptAt(d, w, m)
    BY <1>i DEF OwnerInv, CountInv, RankInv, FlagInv, KeptInv
  <2>1. CASE d = c /\ w = v /\ m = l
    BY <1>t, <1>k, <1>e, <2>i, <2>1 DEF RankAt, Locking, Acquiring, Clearing
  <2>2. CASE d = c /\ w = v /\ m # l
    BY <1>t, <1>k, <1>e, <2>i, <2>2 DEF RankAt, Locking, Acquiring, Clearing
  <2>3. CASE d # c \/ w # v
    BY <1>t, <1>k, <1>e, <2>i, <1>i, <2>3 DEF RankAt, Locking, Acquiring, Clearing
  <2> QED
    BY <2>1, <2>2, <2>3
<1>7. FlagInv'
  <2> SUFFICES ASSUME NEW d \in Core, NEW w \in Level
               PROVE  FlagAt(d, w)'
    BY DEF FlagInv
  <2>k. KeptAt(c, v, l)
    BY <1>i DEF KeptInv
  <2>1. CASE d = c /\ w = v
    BY <1>i, <1>k, <1>1, <1>2, <1>e, <1>h, <1>h0, <1>h1, <2>k, <2>1 DEF TypeOK, LevelInv, FlagInv, FlagAt, Locking, Acquiring, Clearing, Running, KeptAt
  <2>2. CASE d # c \/ w # v
    BY <1>i, <1>k, <1>1, <1>2, <1>e, <1>h, <1>h0, <1>h1, <2>2 DEF TypeOK, LevelInv, FlagInv, FlagAt, Locking, Acquiring, Clearing, Running
  <2> QED
    BY <2>1, <2>2
<1>8. KeptInv'
  <2> SUFFICES ASSUME NEW d \in Core, NEW w \in Level, NEW m \in Lock
               PROVE  KeptAt(d, w, m)'
    BY DEF KeptInv
  <2>i. /\ OwnerAt(d, w, m) /\ CountAt(d, w, m) /\ RankAt(d, w, m)
        /\ FlagAt(d, w) /\ KeptAt(d, w, m)
    BY <1>i DEF OwnerInv, CountInv, RankInv, FlagInv, KeptInv
  <2>1. CASE d = c /\ w = v /\ m = l
    BY <1>t, <1>k, <1>e, <2>i, <1>h, <1>h0, <1>h1, <2>1 DEF KeptAt, FlagAt, Locking, Acquiring, Clearing, Running
  <2>2. CASE d = c /\ w = v /\ m # l
    BY <1>t, <1>k, <1>e, <2>i, <1>h, <1>h0, <1>h1, <2>2 DEF KeptAt, FlagAt, Locking, Acquiring, Clearing, Running
  <2>3. CASE d # c \/ w # v
    <3>1. /\ pc'[d][w] = pc[d][w] /\ arg'[d][w] = arg[d][w]
          /\ hold'[d][w] = hold[d][w]
          /\ UNCHANGED <<bInterruptFlag, callerIF>>
      BY <1>e, <2>3
    <3>2. Outermost(d, w, m)' <=> Outermost(d, w, m)
      BY <1>h, <2>3
    <3> QED
      BY <3>1, <3>2, <2>i DEF KeptAt
  <2> QED
    BY <2>1, <2>2, <2>3
<1> QED
  BY <1>1, <1>2, <1>3, <1>4, <1>5, <1>6, <1>7, <1>8 DEF IInv

\* The owner is reset while the flag still keeps the lock closed.
LEMMA ClearOwnerStep ==
    ASSUME IInv, NEW c \in Core, NEW v \in Level, NEW l \in Lock, ClearOwner(c, v),
           arg[c][v] = l
    PROVE  IInv'
<1>i. /\ TypeOK /\ LevelInv /\ MutualExclusion /\ OwnerInv
      /\ CountInv /\ RankInv /\ FlagInv /\ KeptInv
  BY DEF IInv
<1>k. hold[c][v][l] = 1
  <2>1. hold[c][v][l] \in Nat /\ arg[c][v] = l /\ OwnerAt(c, v, l) /\ CountAt(c, v, l)
    BY <1>i DEF TypeOK, OwnerInv, CountInv
  <2>2. \A m \in Lock : RankAt(c, v, m) /\ m \in Nat
    BY <1>i DEF RankInv
  <2> QED
    BY <2>1, <2>2 DEF OwnerAt, CountAt, RankAt, Locking, Acquiring, Clearing, ClearOwner, Goto
<1>1. TypeOK'
  BY <1>i, <1>k DEF TypeOK, PC, Acquiring, Clearing, ClearOwner, Goto
<1>e. /\ Running(c, v) /\ pc[c][v] = "clearOwner" /\ pc'[c][v] = "clearCount"
      /\ \A d \in Core, w \in Level : d # c \/ w # v => pc'[d][w] = pc[d][w]
      /\ (bAPICID'[l] = NoAPICID) /\ \A m \in Lock : m # l => bAPICID'[m] = bAPICID[m]
      /\ UNCHANGED <<bLockFlag, dwLockCount, bInterruptFlag, rflagsIF, inIrq, arg, saved, hold, callerIF>>
  BY <1>i DEF TypeOK, ClearOwner, Goto
<1>t. \A d \in Core, w \in Level, m \in Lock :
         /\ hold[d][w][m] \in Nat /\ hold'[d][w][m] \in Nat
         /\ arg[d][w] \in Lock /\ m \in Nat /\ dwLockCount[m] \in Nat
  BY <1>i, <1>1 DEF TypeOK
<1>p. \A d \in Core, w \in Level, m \in Lock :
         Possesses(d, w, m)' <=> Possesses(d, w, m)
  <2> SUFFICES ASSUME NEW d \in Core, NEW w \in Level, NEW m \in Lock
               PROVE  Possesses(d, w, m)' <=> Possesses(d, w, m)
    OBVIOUS
  <2>1. CASE d = c /\ w = v /\ m = l
    BY <1>t, <1>k, <1>e, <2>1 DEF Possesses, Acquiring
  <2>2. CASE d = c /\ w = v /\ m # l
    BY <1>t, <1>k, <1>e, <2>2 DEF Possesses, Acquiring
  <2>3. CASE d # c \/ w # v
    BY <1>e, <2>3 DEF Possesses
  <2> QED
    BY <2>1, <2>2, <2>3
<1>h. \A d \in Core, w \in Level : d # c \/ w # v =>
         /\ HoldsNothing(d, w)' <=> HoldsNothing(d, w)
         /\ \A m \in Lock : Outermost(d, w, m)' <=> Outermost(d, w, m)
  BY <1>e DEF HoldsNothing, Outermost
<1>h0. HoldsNothing(c, v)' <=> HoldsNothing(c, v)
  BY <1>t, <1>k, <1>e DEF HoldsNothing, Outermost
<1>h1. \A m \in Lock : Outermost(c, v, m)' <=> Outermost(c, v, m)
  BY <1>t, <1>k, <1>e DEF HoldsNothing, Outermost
<1>2. LevelInv'
  BY <1>i, <1>e, <1>h, <1>h0, <1>h1 DEF LevelInv, Running
<1>3. MutualExclusion'
  BY <1>i, <1>p, MutualExclusionKept
<1>4. OwnerInv'
  <2> SUFFICES ASSUME NEW d \in Core, NEW w \in Level, NEW m \in Lock
               PROVE  OwnerAt(d, w, m)'
    BY DEF OwnerInv
  <2>i. /\ OwnerAt(d, w, m) /\ CountAt(d, w, m) /\ RankAt(d, w, m)
        /\ FlagAt(d, w) /\ KeptAt(d, w, m)
    BY <1>i DEF OwnerInv, CountInv, RankInv, FlagInv, KeptInv
  <2>1. CASE d = c /\ w = v /\ m = l
    BY <1>t, <1>k, <1>e, <2>i, <1>p, <2>1 DEF OwnerAt, Possesses, Acquiring, Clearing, Running
  <2>2. CASE d = c /\ w = v /\ m # l
    BY <1>t, <1>k, <1>e, <2>i, <1>p, <2>2 DEF OwnerAt, Possesses, Acquiring, Clearing, Running
  <2>3. CASE d # c \/ w # v
    BY <1>t, <1>k, <1>e, <2>i, <1>i, <1>p, <2>3 DEF OwnerAt, MutualExclusion, Acquiring, Clearing, Running, Possesses
  <2> QED
    BY <2>1, <2>2, <2>3
<1>5. CountInv'
  <2> SUFFICES ASSUME NEW d \in Core, NEW w \in Level, NEW m \in Lock
               PROVE  CountAt(d, w, m)'
    BY DEF CountInv
  <2>i. /\ OwnerAt(d, w, m) /\ CountAt(d, w, m) /\ RankAt(d, w, m)
        /\ FlagAt(d, w) /\ KeptAt(d, w, m)
    BY <1>i DEF OwnerInv, CountInv, RankInv, FlagInv, KeptInv
  <2>1. CASE d = c /\ w = v /\ m = l
    BY <1>t, <1>k, <1>e, <2>i, <2>1 DEF CountAt, OwnerAt, Acquiring, Clearing, Running
  <2>2. CASE d = c /\ w = v /\ m # l
    BY <1>t, <1>k, <1>e, <2>i, <2>2 DEF CountAt, OwnerAt, Acquiring, Clearing, Running
  <2>3. CASE d # c \/ w # v
    BY <1>t, <1>k, <1>e, <2>i, <1>i, <2>3 DEF CountAt, MutualExclusion, Possesses, Acquiring, Clearing
  <2> QED
    BY <2>1, <2>2, <2>3
<1>6. RankInv'
  <2> SUFFICES ASSUME NEW d \in Core, NEW w \in Level, NEW m \in Lock
               PROVE  RankAt(d, w, m)'
    BY DEF RankInv
  <2>i. /\ OwnerAt(d, w, m) /\ CountAt(d, w, m) /\ RankAt(d, w, m)
        /\ FlagAt(d, w) /\ KeptAt(d, w, m)
    BY <1>i DEF OwnerInv, CountInv, RankInv, FlagInv, KeptInv
  <2>1. CASE d = c /\ w = v /\ m = l
    BY <1>t, <1>k, <1>e, <2>i, <2>1 DEF RankAt, Locking, Acquiring, Clearing
  <2>2. CASE d = c /\ w = v /\ m # l
    BY <1>t, <1>k, <1>e, <2>i, <2>2 DEF RankAt, Locking, Acquiring, Clearing
  <2>3. CASE d # c \/ w # v
    BY <1>t, <1>k, <1>e, <2>i, <1>i, <2>3 DEF RankAt, Locking, Acquiring, Clearing
  <2> QED
    BY <2>1, <2>2, <2>3
<1>7. FlagInv'
  <2> SUFFICES ASSUME NEW d \in Core, NEW w \in Level
               PROVE  FlagAt(d, w)'
    BY DEF FlagInv
  <2>1. CASE d = c /\ w = v
    BY <1>i, <1>k, <1>1, <1>2, <1>e, <1>h, <1>h0, <1>h1, <2>1 DEF TypeOK, LevelInv, FlagInv, FlagAt, Locking, Acquiring, Clearing, Running
  <2>2. CASE d # c \/ w # v
    BY <1>i, <1>k, <1>1, <1>2, <1>e, <1>h, <1>h0, <1>h1, <2>2 DEF TypeOK, LevelInv, FlagInv, FlagAt, Locking, Acquiring, Clearing, Running
  <2> QED
    BY <2>1, <2>2
<1>8. KeptInv'
  <2> SUFFICES ASSUME NEW d \in Core, NEW w \in Level, NEW m \in Lock
               PROVE  KeptAt(d, w, m)'
    BY DEF KeptInv
  <2>i. /\ OwnerAt(d, w, m) /\ CountAt(d, w, m) /\ RankAt(d, w, m)
        /\ FlagAt(d, w) /\ KeptAt(d, w, m)
    BY <1>i DEF OwnerInv, CountInv, RankInv, FlagInv, KeptInv
  <2>1. CASE d = c /\ w = v /\ m = l
    BY <1>t, <1>k, <1>e, <2>i, <1>h, <1>h0, <1>h1, <2>1 DEF KeptAt, FlagAt, Locking, Acquiring, Clearing, Running
  <2>2. CASE d = c /\ w = v /\ m # l
    BY <1>t, <1>k, <1>e, <2>i, <1>h, <1>h0, <1>h1, <2>2 DEF KeptAt, FlagAt, Locking, Acquiring, Clearing, Running
  <2>3. CASE d # c \/ w # v
    <3>1. /\ pc'[d][w] = pc[d][w] /\ arg'[d][w] = arg[d][w]
          /\ hold'[d][w] = hold[d][w]
          /\ UNCHANGED <<bInterruptFlag, callerIF>>
      BY <1>e, <2>3
    <3>2. Outermost(d, w, m)' <=> Outermost(d, w, m)
      BY <1>h, <2>3
    <3> QED
      BY <3>1, <3>2, <2>i DEF KeptAt
  <2> QED
    BY <2>1, <2>2, <2>3
<1> QED
  BY <1>1, <1>2, <1>3, <1>4, <1>5, <1>6, <1>7, <1>8 DEF IInv

\* The count is reset while the flag still keeps the lock closed.
LEMMA ClearCountStep ==
    ASSUME IInv, NEW c \in Core, NEW v \in Level, NEW l \in Lock, ClearCount(c, v),
           arg[c][v] = l
    PROVE  IInv'
<1>i. /\ TypeOK /\ LevelInv /\ MutualExclusion /\ OwnerInv
      /\ CountInv /\ RankInv /\ FlagInv /\ KeptInv
  BY DEF IInv
<1>k. hold[c][v][l] = 1
  <2>1. hold[c][v][l] \in Nat /\ arg[c][v] = l /\ OwnerAt(c, v, l) /\ CountAt(c, v, l)
    BY <1>i DEF TypeOK, OwnerInv, CountInv
  <2>2. \A m \in Lock : RankAt(c, v, m) /\ m \in Nat
    BY <1>i DEF RankInv
  <2> QED
    BY <2>1, <2>2 DEF OwnerAt, CountAt, RankAt, Locking, Acquiring, Clearing, ClearCount, Goto
<1>1. TypeOK'
  BY <1>i, <1>k DEF TypeOK, PC, Acquiring, Clearing, ClearCount, Goto
<1>e. /\ Running(c, v) /\ pc[c][v] = "clearCount" /\ pc'[c][v] = "clearIF"
      /\ \A d \in Core, w \in Level : d # c \/ w # v => pc'[d][w] = pc[d][w]
      /\ (dwLockCount'[l] = 0) /\ \A m \in Lock : m # l => dwLockCount'[m] = dwLockCount[m]
      /\ UNCHANGED <<bLockFlag, bAPICID, bInterruptFlag, rflagsIF, inIrq, arg, saved, hold, callerIF>>
  BY <1>i DEF TypeOK, ClearCount, Goto
<1>t. \A d \in Core, w \in Level, m \in Lock :
         /\ hold[d][w][m] \in Nat /\ hold'[d][w][m] \in Nat
         /\ arg[d][w] \in Lock /\ m \in Nat /\ dwLockCount[m] \in Nat
  BY <1>i, <1>1 DEF TypeOK
<1>p. \A d \in Core, w \in Level, m \in Lock :
         Possesses(d, w, m)' <=> Possesses(d, w, m)
  <2> SUFFICES ASSUME NEW d \in Core, NEW w \in Level, NEW m \in Lock
               PROVE  Possesses(d, w, m)' <=> Possesses(d, w, m)
    OBVIOUS
  <2>1. CASE d = c /\ w = v /\ m = l
    BY <1>t, <1>k, <1>e, <2>1 DEF Possesses, Acquiring
  <2>2. CASE d = c /\ w = v /\ m # l
    BY <1>t, <1>k, <1>e, <2>2 DEF Possesses, Acquiring
  <2>3. CASE d # c \/ w # v
    BY <1>e, <2>3 DEF Possesses
  <2> QED
    BY <2>1, <2>2, <2>3
<1>h. \A d \in Core, w \in Level : d # c \/ w # v =>
         /\ HoldsNothing(d, w)' <=> HoldsNothing(d, w)
         /\ \A m \in Lock : Outermost(d, w, m)' <=> Outermost(d, w, m)
  BY <1>e DEF HoldsNothing, Outermost
<1>h0. HoldsNothing(c, v)' <=> HoldsNothing(c, v)
  BY <1>t, <1>k, <1>e DEF HoldsNothing, Outermost
<1>h1. \A m \in Lock : Outermost(c, v, m)' <=> Outermost(c, v, m)
  BY <1>t, <1>k, <1>e DEF HoldsNothing, Outermost
<1>2. LevelInv'
  BY <1>i, <1>e, <1>h, <1>h0, <1>h1 DEF LevelInv, Running
<1>3. MutualExclusion'
  BY <1>i, <1>p, MutualExclusionKept
<1>4. OwnerInv'
  <2> SUFFICES ASSUME NEW d \in Core, NEW w \in Level, NEW m \in Lock
               PROVE  OwnerAt(d, w, m)'
    BY DEF OwnerInv
  <2>i. /\ OwnerAt(d, w, m) /\ CountAt(d, w, m) /\ RankAt(d, w, m)
        /\ FlagAt(d, w) /\ KeptAt(d, w, m)
    BY <1>i DEF OwnerInv, CountInv, RankInv, FlagInv, KeptInv
  <2>1. CASE d = c /\ w = v /\ m = l
    BY <1>t, <1>k, <1>e, <2>i, <1>p, <2>1 DEF OwnerAt, Possesses, Acquiring, Clearing, Running
  <2>2. CASE d = c /\ w = v /\ m # l
    BY <1>t, <1>k, <1>e, <2>i, <1>p, <2>2 DEF OwnerAt, Possesses, Acquiring, Clearing, Running
  <2>3. CASE d # c \/ w # v
    <3>1. /\ pc'[d][w] = pc[d][w] /\ arg'[d][w] = arg[d][w]
          /\ hold'[d][w] = hold[d][w]
          /\ (Running(d, w)' <=> Running(d, w)) /\ UNCHANGED bAPICID
      BY <1>e, <2>3 DEF Running
    <3>2. Possesses(d, w, m)' => bLockFlag'[m]
      <4>1. Possesses(d, w, m) => bLockFlag[m]
        BY <2>i DEF OwnerAt
      <4> QED
        BY <1>e, <1>p, <2>3, <4>1
    <3> QED
      BY <3>1, <3>2, <2>i DEF OwnerAt
  <2> QED
    BY <2>1, <2>2, <2>3
<1>5. CountInv'
  <2> SUFFICES ASSUME NEW d \in Core, NEW w \in Level, NEW m \in Lock
               PROVE  CountAt(d, w, m)'
    BY DEF CountInv
  <2>i. /\ OwnerAt(d, w, m) /\ CountAt(d, w, m) /\ RankAt(d, w, m)
        /\ FlagAt(d, w) /\ KeptAt(d, w, m)
    BY <1>i DEF OwnerInv, CountInv, RankInv, FlagInv, KeptInv
  <2>1. CASE d = c /\ w = v /\ m = l
    BY <1>t, <1>k, <1>e, <2>i, <2>1 DEF CountAt, OwnerAt, Acquiring, Clearing, Running
  <2>2. CASE d = c /\ w = v /\ m # l
    BY <1>t, <1>k, <1>e, <2>i, <2>2 DEF CountAt, OwnerAt, Acquiring, Clearing, Running
  <2>3. CASE d # c \/ w # v
    BY <1>t, <1>k, <1>e, <2>i, <1>i, <2>3 DEF CountAt, MutualExclusion, Possesses, Acquiring, Clearing
  <2> QED
    BY <2>1, <2>2, <2>3
<1>6. RankInv'
  <2> SUFFICES ASSUME NEW d \in Core, NEW w \in Level, NEW m \in Lock
               PROVE  RankAt(d, w, m)'
    BY DEF RankInv
  <2>i. /\ OwnerAt(d, w, m) /\ CountAt(d, w, m) /\ RankAt(d, w, m)
        /\ FlagAt(d, w) /\ KeptAt(d, w, m)
    BY <1>i DEF OwnerInv, CountInv, RankInv, FlagInv, KeptInv
  <2>1. CASE d = c /\ w = v /\ m = l
    BY <1>t, <1>k, <1>e, <2>i, <2>1 DEF RankAt, Locking, Acquiring, Clearing
  <2>2. CASE d = c /\ w = v /\ m # l
    BY <1>t, <1>k, <1>e, <2>i, <2>2 DEF RankAt, Locking, Acquiring, Clearing
  <2>3. CASE d # c \/ w # v
    BY <1>t, <1>k, <1>e, <2>i, <1>i, <2>3 DEF RankAt, Locking, Acquiring, Clearing
  <2> QED
    BY <2>1, <2>2, <2>3
<1>7. FlagInv'
  <2> SUFFICES ASSUME NEW d \in Core, NEW w \in Level
               PROVE  FlagAt(d, w)'
    BY DEF FlagInv
  <2>1. CASE d = c /\ w = v
    BY <1>i, <1>k, <1>1, <1>2, <1>e, <1>h, <1>h0, <1>h1, <2>1 DEF TypeOK, LevelInv, FlagInv, FlagAt, Locking, Acquiring, Clearing, Running
  <2>2. CASE d # c \/ w # v
    BY <1>i, <1>k, <1>1, <1>2, <1>e, <1>h, <1>h0, <1>h1, <2>2 DEF TypeOK, LevelInv, FlagInv, FlagAt, Locking, Acquiring, Clearing, Running
  <2> QED
    BY <2>1, <2>2
<1>8. KeptInv'
  <2> SUFFICES ASSUME NEW d \in Core, NEW w \in Level, NEW m \in Lock
               PROVE  KeptAt(d, w, m)'
    BY DEF KeptInv
  <2>i. /\ OwnerAt(d, w, m) /\ CountAt(d, w, m) /\ RankAt(d, w, m)
        /\ FlagAt(d, w) /\ KeptAt(d, w, m)
    BY <1>i DEF OwnerInv, CountInv, RankInv, FlagInv, KeptInv
  <2>1. CASE d = c /\ w = v /\ m = l
    BY <1>t, <1>k, <1>e, <2>i, <1>h, <1>h0, <1>h1, <2>1 DEF KeptAt, FlagAt, Locking, Acquiring, Clearing, Running
  <2>2. CASE d = c /\ w = v /\ m # l
    BY <1>t, <1>k, <1>e, <2>i, <1>h, <1>h0, <1>h1, <2>2 DEF KeptAt, FlagAt, Locking, Acquiring, Clearing, Running
  <2>3. CASE d # c \/ w # v
    <3>1. /\ pc'[d][w] = pc[d][w] /\ arg'[d][w] = arg[d][w]
          /\ hold'[d][w] = hold[d][w]
          /\ UNCHANGED <<bInterruptFlag, callerIF>>
      BY <1>e, <2>3
    <3>2. Outermost(d, w, m)' <=> Outermost(d, w, m)
      BY <1>h, <2>3
    <3> QED
      BY <3>1, <3>2, <2>i DEF KeptAt
  <2> QED
    BY <2>1, <2>2, <2>3
<1> QED
  BY <1>1, <1>2, <1>3, <1>4, <1>5, <1>6, <1>7, <1>8 DEF IInv

\* The lock's copy of the caller's flag is reset; the call has its own.
LEMMA ClearIFStep ==
    ASSUME IInv, NEW c \in Core, NEW v \in Level, NEW l \in Lock, ClearIF(c, v),
           arg[c][v] = l
    PROVE  IInv'
<1>i. /\ TypeOK /\ LevelInv /\ MutualExclusion /\ OwnerInv
      /\ CountInv /\ RankInv /\ FlagInv /\ KeptInv
  BY DEF IInv
<1>k. hold[c][v][l] = 1
  <2>1. hold[c][v][l] \in Nat /\ arg[c][v] = l /\ OwnerAt(c, v, l) /\ CountAt(c, v, l)
    BY <1>i DEF TypeOK, OwnerInv, CountInv
  <2>2. \A m \in Lock : RankAt(c, v, m) /\ m \in Nat
    BY <1>i DEF RankInv
  <2> QED
    BY <2>1, <2>2 DEF OwnerAt, CountAt, RankAt, Locking, Acquiring, Clearing, ClearIF, Goto
<1>1. TypeOK'
  BY <1>i, <1>k DEF TypeOK, PC, Acquiring, Clearing, ClearIF, Goto
<1>e. /\ Running(c, v) /\ pc[c][v] = "clearIF" /\ pc'[c][v] = "clearFlag"
      /\ \A d \in Core, w \in Level : d # c \/ w # v => pc'[d][w] = pc[d][w]
      /\ (bInterruptFlag'[l] <=> FALSE) /\ \A m \in Lock : m # l => bInterruptFlag'[m] = bInterruptFlag[m]
      /\ UNCHANGED <<bLockFlag, bAPICID, dwLockCount, rflagsIF, inIrq, arg, saved, hold, callerIF>>
  BY <1>i DEF TypeOK, ClearIF, Goto
<1>t. \A d \in Core, w \in Level, m \in Lock :
         /\ hold[d][w][m] \in Nat /\ hold'[d][w][m] \in Nat
         /\ arg[d][w] \in Lock /\ m \in Nat /\ dwLockCount[m] \in Nat
  BY <1>i, <1>1 DEF TypeOK
<1>p. \A d \in Core, w \in Level, m \in Lock :
         Possesses(d, w, m)' <=> Possesses(d, w, m)
  <2> SUFFICES ASSUME NEW d \in Core, NEW w \in Level, NEW m \in Lock
               PROVE  Possesses(d, w, m)' <=> Possesses(d, w, m)
    OBVIOUS
  <2>1. CASE d = c /\ w = v /\ m = l
    BY <1>t, <1>k, <1>e, <2>1 DEF Possesses, Acquiring
  <2>2. CASE d = c /\ w = v /\ m # l
    BY <1>t, <1>k, <1>e, <2>2 DEF Possesses, Acquiring
  <2>3. CASE d # c \/ w # v
    BY <1>e, <2>3 DEF Possesses
  <2> QED
    BY <2>1, <2>2, <2>3
<1>h. \A d \in Core, w \in Level : d # c \/ w # v =>
         /\ HoldsNothing(d, w)' <=> HoldsNothing(d, w)
         /\ \A m \in Lock : Outermost(d, w, m)' <=> Outermost(d, w, m)
  BY <1>e DEF HoldsNothing, Outermost
<1>h0. HoldsNothing(c, v)' <=> HoldsNothing(c, v)
  BY <1>t, <1>k, <1>e DEF HoldsNothing, Outermost
<1>h1. \A m \in Lock : Outermost(c, v, m)' <=> Outermost(c, v, m)
  BY <1>t, <1>k, <1>e DEF HoldsNothing, Outermost
<1>2. LevelInv'
  BY <1>i, <1>e, <1>h, <1>h0, <1>h1 DEF LevelInv, Running
<1>3. MutualExclusion'
  BY <1>i, <1>p, MutualExclusionKept
<1>4. OwnerInv'
  <2> SUFFICES ASSUME NEW d \in Core, NEW w \in Level, NEW m \in Lock
               PROVE  OwnerAt(d, w, m)'
    BY DEF OwnerInv
  <2>i. /\ OwnerAt(d, w, m) /\ CountAt(d, w, m) /\ RankAt(d, w, m)
        /\ FlagAt(d, w) /\ KeptAt(d, w, m)
    BY <1>i DEF OwnerInv, CountInv, RankInv, FlagInv, KeptInv
  <2>1. CASE d = c /\ w = v /\ m = l
    BY <1>t, <1>k, <1>e, <2>i, <1>p, <2>1 DEF OwnerAt, Possesses, Acquiring, Clearing, Running
  <2>2. CASE d = c /\ w = v /\ m # l
    BY <1>t, <1>k, <1>e, <2>i, <1>p, <2>2 DEF OwnerAt, Possesses, Acquiring, Clearing, Running
  <2>3. CASE d # c \/ w # v
    <3>1. /\ pc'[d][w] = pc[d][w] /\ arg'[d][w] = arg[d][w]
          /\ hold'[d][w] = hold[d][w]
          /\ (Running(d, w)' <=> Running(d, w)) /\ UNCHANGED bAPICID
      BY <1>e, <2>3 DEF Running
    <3>2. Possesses(d, w, m)' => bLockFlag'[m]
      <4>1. Possesses(d, w, m) => bLockFlag[m]
        BY <2>i DEF OwnerAt
      <4> QED
        BY <1>e, <1>p, <2>3, <4>1
    <3> QED
      BY <3>1, <3>2, <2>i DEF OwnerAt
  <2> QED
    BY <2>1, <2>2, <2>3
<1>5. CountInv'
  <2> SUFFICES ASSUME NEW d \in Core, NEW w \in Level, NEW m \in Lock
               PROVE  CountAt(d, w, m)'
    BY DEF CountInv
  <2>i. /\ OwnerAt(d, w, m) /\ CountAt(d, w, m) /\ RankAt(d, w, m)
        /\ FlagAt(d, w) /\ KeptAt(d, w, m)
    BY <1>i DEF OwnerInv, CountInv, RankInv, FlagInv, KeptInv
  <2>1. CASE d = c /\ w = v /\ m = l
    BY <1>t, <1>k, <1>e, <2>i, <2>1 DEF CountAt, OwnerAt, Acquiring, Clearing, Running
  <2>2. CASE d = c /\ w = v /\ m # l
    BY <1>t, <1>k, <1>e, <2>i, <2>2 DEF CountAt, OwnerAt, Acquiring, Clearing, Running
  <2>3. CASE d # c \/ w # v
    BY <1>t, <1>k, <1>e, <2>i, <1>i, <2>3 DEF CountAt, MutualExclusion, Possesses, Acquiring, Clearing
  <2> QED
    BY <2>1, <2>2, <2>3
<1>6. RankInv'
  <2> SUFFICES ASSUME NEW d \in Core, NEW w \in Level, NEW m \in Lock
               PROVE  RankAt(d, w, m)'
    BY DEF RankInv
  <2>i. /\ OwnerAt(d, w, m) /\ CountAt(d, w, m) /\ RankAt(d, w, m)
        /\ FlagAt(d, w) /\ KeptAt(d, w, m)
    BY <1>i DEF OwnerInv, CountInv, RankInv, FlagInv, KeptInv
  <2>1. CASE d = c /\ w = v /\ m = l
    BY <1>t, <1>k, <1>e, <2>i, <2>1 DEF RankAt, Locking, Acquiring, Clearing
  <2>2. CASE d = c /\ w = v /\ m # l
    BY <1>t, <1>k, <1>e, <2>i, <2>2 DEF RankAt, Locking, Acquiring, Clearing
  <2>3. CASE d # c \/ w # v
    BY <1>t, <1>k, <1>e, <2>i, <1>i, <2>3 DEF RankAt, Locking, Acquiring, Clearing
  <2> QED
    BY <2>1, <2>2, <2>3
<1>7. FlagInv'
  <2> SUFFICES ASSUME NEW d \in Core, NEW w \in Level
               PROVE  FlagAt(d, w)'
    BY DEF FlagInv
  <2>1. CASE d = c /\ w = v
    BY <1>i, <1>k, <1>1, <1>2, <1>e, <1>h, <1>h0, <1>h1, <2>1 DEF TypeOK, LevelInv, FlagInv, FlagAt, Locking, Acquiring, Clearing, Running
  <2>2. CASE d # c \/ w # v
    BY <1>i, <1>k, <1>1, <1>2, <1>e, <1>h, <1>h0, <1>h1, <2>2 DEF TypeOK, LevelInv, FlagInv, FlagAt, Locking, Acquiring, Clearing, Running
  <2> QED
    BY <2>1, <2>2
<1>8. KeptInv'
  <2> SUFFICES ASSUME NEW d \in Core, NEW w \in Level, NEW m \in Lock
               PROVE  KeptAt(d, w, m)'
    BY DEF KeptInv
  <2>i. /\ OwnerAt(d, w, m) /\ CountAt(d, w, m) /\ RankAt(d, w, m)
        /\ FlagAt(d, w) /\ KeptAt(d, w, m)
    BY <1>i DEF OwnerInv, CountInv, RankInv, FlagInv, KeptInv
  <2>1. CASE d = c /\ w = v /\ m = l
    BY <1>t, <1>k, <1>e, <2>i, <1>h, <1>h0, <1>h1, <2>1 DEF KeptAt, FlagAt, Locking, Acquiring, Clearing, Running
  <2>2. CASE d = c /\ w = v /\ m # l
    BY <1>t, <1>k, <1>e, <2>i, <1>h, <1>h0, <1>h1, <2>2 DEF KeptAt, FlagAt, Locking, Acquiring, Clearing, Running
  <2>3. CASE d # c \/ w # v
    BY <1>t, <1>k, <1>e, <2>i, <1>i, <1>h, <1>h0, <1>h1, <2>3 DEF KeptAt, MutualExclusion, Possesses, Acquiring, Clearing
  <2> QED
    BY <2>1, <2>2, <2>3
<1> QED
  BY <1>1, <1>2, <1>3, <1>4, <1>5, <1>6, <1>7, <1>8 DEF IInv

\* The flag is cleared: the level possesses the lock no more.
LEMMA ClearFlagStep ==
    ASSUME IInv, NEW c \in Core, NEW v \in Level, NEW l \in Lock, ClearFlag(c, v),
           arg[c][v] = l
    PROVE  IInv'
<1>i. /\ TypeOK /\ LevelInv /\ MutualExclusion /\ OwnerInv
      /\ CountInv /\ RankInv /\ FlagInv /\ KeptInv
  BY DEF IInv
<1>k. hold[c][v][l] = 1 /\ \A m \in Lock : hold[c][v][m] > 0 => m <= l
  <2>1. hold[c][v][l] \in Nat /\ arg[c][v] = l /\ OwnerAt(c, v, l) /\ CountAt(c, v, l)
    BY <1>i DEF TypeOK, OwnerInv, CountInv
  <2>2. \A m \in Lock : RankAt(c, v, m) /\ m \in Nat
    BY <1>i DEF RankInv
  <2> QED
    BY <2>1, <2>2 DEF OwnerAt, CountAt, RankAt, Locking, Acquiring, Clearing, ClearFlag, Goto
<1>1. TypeOK'
  BY <1>i, <1>k DEF TypeOK, PC, Acquiring, Clearing, ClearFlag, Goto
<1>e. /\ Running(c, v) /\ pc[c][v] = "clearFlag" /\ pc'[c][v] = "restoreIF"
      /\ \A d \in Core, w \in Level : d # c \/ w # v => pc'[d][w] = pc[d][w]
      /\ (bLockFlag'[l] <=> FALSE) /\ \A m \in Lock : m # l => bLockFlag'[m] = bLockFlag[m]
      /\ hold'[c][v][l] = hold[c][v][l] - 1
      /\ \A m \in Lock : m # l => hold'[c][v][m] = hold[c][v][m]
      /\ \A d \in Core, w \in Level : d # c \/ w # v => hold'[d][w] = hold[d][w]
      /\ UNCHANGED <<bAPICID, dwLockCount, bInterruptFlag, rflagsIF, inIrq, arg, saved, callerIF>>
  BY <1>i DEF TypeOK, ClearFlag, Goto
<1>t. \A d \in Core, w \in Level, m \in Lock :
         /\ hold[d][w][m] \in Nat /\ hold'[d][w][m] \in Nat
         /\ arg[d][w] \in Lock /\ m \in Nat /\ dwLockCount[m] \in Nat
  BY <1>i, <1>1 DEF TypeOK
<1>p. \A d \in Core, w \in Level, m \in Lock :
         Possesses(d, w, m)' <=> Possesses(d, w, m) /\ ~(d = c /\ w = v /\ m = l)
  <2> SUFFICES ASSUME NEW d \in Core, NEW w \in Level, NEW m \in Lock
               PROVE  Possesses(d, w, m)' <=> Possesses(d, w, m) /\ ~(d = c /\ w = v /\ m = l)
    OBVIOUS
  <2>1. CASE d = c /\ w = v /\ m = l
    BY <1>t, <1>k, <1>e, <2>1 DEF Possesses, Acquiring
  <2>2. CASE d = c /\ w = v /\ m # l
    BY <1>t, <1>k, <1>e, <2>2 DEF Possesses, Acquiring
  <2>3. CASE d # c \/ w # v
    BY <1>e, <2>3 DEF Possesses
  <2> QED
    BY <2>1, <2>2, <2>3
<1>h. \A d \in Core, w \in Level : d # c \/ w # v =>
         /\ HoldsNothing(d, w)' <=> HoldsNothing(d, w)
         /\ \A m \in Lock : Outermost(d, w, m)' <=> Outermost(d, w, m)
  BY <1>e DEF HoldsNothing, Outermost
<1>h0. ~HoldsNothing(c, v)
  BY <1>t, <1>k, <1>e DEF HoldsNothing, Outermost
<1>h1. HoldsNothing(c, v)' <=> Outermost(c, v, l)
  BY <1>t, <1>k, <1>e DEF HoldsNothing, Outermost
<1>h2. \A m \in Lock : hold'[c][v][m] > 0 => (Outermost(c, v, m)' <=> Outermost(c, v, m))
  BY <1>t, <1>k, <1>e DEF HoldsNothing, Outermost
<1>2. LevelInv'
  BY <1>i, <1>e, <1>h, <1>h0, <1>h1, <1>h2 DEF LevelInv, Running
<1>3. MutualExclusion'
  BY <1>i, <1>p, MutualExclusionKept
<1>4. OwnerInv'
  <2> SUFFICES ASSUME NEW d \in Core, NEW w \in Level, NEW m \in Lock
               PROVE  OwnerAt(d, w, m)'
    BY DEF OwnerInv
  <2>i. /\ OwnerAt(d, w, m) /\ CountAt(d, w, m) /\ RankAt(d, w, m)
        /\ FlagAt(d, w) /\ KeptAt(d, w, m)
    BY <1>i DEF OwnerInv, CountInv, RankInv, FlagInv, KeptInv
  <2>1. CASE d = c /\ w = v /\ m = l
    BY <1>t, <1>k, <1>e, <2>i, <1>p, <2>1 DEF OwnerAt, Possesses, Acquiring, Clearing, Running
  <2>2. CASE d = c /\ w = v /\ m # l
    BY <1>t, <1>k, <1>e, <2>i, <1>p, <2>2 DEF OwnerAt, Possesses, Acquiring, Clearing, Running
  <2>3. CASE d # c \/ w # v
    <3>1. /\ pc'[d][w] = pc[d][w] /\ arg'[d][w] = arg[d][w]
          /\ hold'[d][w] = hold[d][w]
          /\ (Running(d, w)' <=> Running(d, w)) /\ UNCHANGED bAPICID
      BY <1>e, <2>3 DEF Running
    <3>2. Possesses(d, w, m)' => bLockFlag'[m]
      <4>1. Possesses(c, v, l)
        BY <1>k DEF Possesses
      <4>2. ~Possesses(d, w, l)
        BY <1>i, <2>3, <4>1 DEF MutualExclusion
      <4>3. Possesses(d, w, m) => bLockFlag[m]
        BY <2>i DEF OwnerAt
      <4> QED
        BY <1>e, <1>p, <4>2, <4>3
    <3> QED
      BY <3>1, <3>2, <2>i DEF OwnerAt
  <2> QED
    BY <2>1, <2>2, <2>3
<1>5. CountInv'
  <2> SUFFICES ASSUME NEW d \in Core, NEW w \in Level, NEW m \in Lock
               PROVE  CountAt(d, w, m)'
    BY DEF CountInv
  <2>i. /\ OwnerAt(d, w, m) /\ CountAt(d, w, m) /\ RankAt(d, w, m)
        /\ FlagAt(d, w) /\ KeptAt(d, w, m)
    BY <1>i DEF OwnerInv, CountInv, RankInv, FlagInv, KeptInv
  <2>1. CASE d = c /\ w = v /\ m = l
    BY <1>t, <1>k, <1>e, <2>i, <2>1 DEF CountAt, OwnerAt, Acquiring, Clearing, Running
  <2>2. CASE d = c /\ w = v /\ m # l
    BY <1>t, <1>k, <1>e, <2>i, <2>2 DEF CountAt, OwnerAt, Acquiring, Clearing, Running
  <2>3. CASE d # c \/ w # v
    BY <1>t, <1>k, <1>e, <2>i, <1>i, <2>3 DEF CountAt, MutualExclusion, Possesses, Acquiring, Clearing
  <2> QED
    BY <2>1, <2>2, <2>3
<1>6. RankInv'
  <2> SUFFICES ASSUME NEW d \in Core, NEW w \in Level, NEW m \in Lock
               PROVE  RankAt(d, w, m)'
    BY DEF RankInv
  <2>i. /\ OwnerAt(d, w, m) /\ CountAt(d, w, m) /\ RankAt(d, w, m)
        /\ FlagAt(d, w) /\ KeptAt(d, w, m)
    BY <1>i DEF OwnerInv, CountInv, RankInv, FlagInv, KeptInv
  <2>1. CASE d = c /\ w = v /\ m = l
    BY <1>t, <1>k, <1>e, <2>i, <2>1 DEF RankAt, Locking, Acquiring, Clearing
  <2>2. CASE d = c /\ w = v /\ m # l
    BY <1>t, <1>k, <1>e, <2>i, <2>2 DEF RankAt, Locking, Acquiring, Clearing
  <2>3. CASE d # c \/ w # v
    BY <1>t, <1>k, <1>e, <2>i, <1>i, <2>3 DEF RankAt, Locking, Acquiring, Clearing
  <2> QED
    BY <2>1, <2>2, <2>3
<1>7. FlagInv'
  <2> SUFFICES ASSUME NEW d \in Core, NEW w \in Level
               PROVE  FlagAt(d, w)'
    BY DEF FlagInv
  <2>1. CASE d = c /\ w = v
    BY <1>i, <1>k, <1>1, <1>2, <1>e, <1>h, <1>h0, <1>h1, <1>h2, <2>1 DEF TypeOK, LevelInv, FlagInv, FlagAt, Locking, Acquiring, Clearing, Running
  <2>2. CASE d # c \/ w # v
    BY <1>i, <1>k, <1>1, <1>2, <1>e, <1>h, <1>h0, <1>h1, <1>h2, <2>2 DEF TypeOK, LevelInv, FlagInv, FlagAt, Locking, Acquiring, Clearing, Running
  <2> QED
    BY <2>1, <2>2
<1>8. KeptInv'
  <2> SUFFICES ASSUME NEW d \in Core, NEW w \in Level, NEW m \in Lock
               PROVE  KeptAt(d, w, m)'
    BY DEF KeptInv
  <2>i. /\ OwnerAt(d, w, m) /\ CountAt(d, w, m) /\ RankAt(d, w, m)
        /\ FlagAt(d, w) /\ KeptAt(d, w, m)
    BY <1>i DEF OwnerInv, CountInv, RankInv, FlagInv, KeptInv
  <2>1. CASE d = c /\ w = v /\ m = l
    BY <1>t, <1>k, <1>e, <2>i, <1>h, <1>h0, <1>h1, <1>h2, <2>1 DEF KeptAt, FlagAt, Locking, Acquiring, Clearing, Running
  <2>2. CASE d = c /\ w = v /\ m # l
    BY <1>t, <1>k, <1>e, <2>i, <1>h, <1>h0, <1>h1, <1>h2, <2>2 DEF KeptAt, FlagAt, Locking, Acquiring, Clearing, Running
  <2>3. CASE d # c \/ w # v
    <3>1. /\ pc'[d][w] = pc[d][w] /\ arg'[d][w] = arg[d][w]
          /\ hold'[d][w] = hold[d][w]
          /\ UNCHANGED <<bInterruptFlag, callerIF>>
      BY <1>e, <2>3
    <3>2. Outermost(d, w, m)' <=> Outermost(d, w, m)
      BY <1>h, <2>3
    <3> QED
      BY <3>1, <3>2, <2>i DEF KeptAt
  <2> QED
    BY <2>1, <2>2, <2>3
<1> QED
  BY <1>1, <1>2, <1>3, <1>4, <1>5, <1>6, <1>7, <1>8 DEF IInv

\* The flag the outermost caller had is put back: by then it holds nothing,
\* or an outer lock, whose caller ran with interrupts off.
LEMMA RestoreIFStep ==
    ASSUME IInv, NEW c \in Core, NEW v \in Level, NEW l \in Lock, RestoreIF(c, v),
           arg[c][v] = l
    PROVE  IInv'
<1>i. /\ TypeOK /\ LevelInv /\ MutualExclusion /\ OwnerInv
      /\ CountInv /\ RankInv /\ FlagInv /\ KeptInv
  BY DEF IInv
<1>1. TypeOK'
  BY <1>i DEF TypeOK, PC, Acquiring, Clearing, RestoreIF, Goto
<1>e. /\ Running(c, v) /\ pc[c][v] = "restoreIF" /\ pc'[c][v] = "idle"
      /\ \A d \in Core, w \in Level : d # c \/ w # v => pc'[d][w] = pc[d][w]
      /\ (rflagsIF'[c] <=> saved[c][v]) /\ \A d \in Core : d # c => rflagsIF'[d] = rflagsIF[d]
      /\ UNCHANGED <<bLockFlag, bAPICID, dwLockCount, bInterruptFlag, inIrq, arg, saved, hold, callerIF>>
  BY <1>i DEF TypeOK, RestoreIF, Goto
<1>t. \A d \in Core, w \in Level, m \in Lock :
         /\ hold[d][w][m] \in Nat /\ hold'[d][w][m] \in Nat
         /\ arg[d][w] \in Lock /\ m \in Nat /\ dwLockCount[m] \in Nat
  BY <1>i, <1>1 DEF TypeOK
<1>p. \A d \in Core, w \in Level, m \in Lock :
         Possesses(d, w, m)' <=> Possesses(d, w, m)
  <2> SUFFICES ASSUME NEW d \in Core, NEW w \in Level, NEW m \in Lock
               PROVE  Possesses(d, w, m)' <=> Possesses(d, w, m)
    OBVIOUS
  <2>1. CASE d = c /\ w = v /\ m = l
    BY <1>t, <1>e, <2>1 DEF Possesses, Acquiring
  <2>2. CASE d = c /\ w = v /\ m # l
    BY <1>t, <1>e, <2>2 DEF Possesses, Acquiring
  <2>3. CASE d # c \/ w # v
    BY <1>e, <2>3 DEF Possesses
  <2> QED
    BY <2>1, <2>2, <2>3
<1>h. \A d \in Core, w \in Level : d # c \/ w # v =>
         /\ HoldsNothing(d, w)' <=> HoldsNothing(d, w)
         /\ \A m \in Lock : Outermost(d, w, m)' <=> Outermost(d, w, m)
  BY <1>e DEF HoldsNothing, Outermost
<1>h0. HoldsNothing(c, v)' <=> HoldsNothing(c, v)
  BY <1>t, <1>e DEF HoldsNothing, Outermost
<1>h1. \A m \in Lock : Outermost(c, v, m)' <=> Outermost(c, v, m)
  BY <1>t, <1>e DEF HoldsNothing, Outermost
<1>2. LevelInv'
  BY <1>i, <1>e, <1>h, <1>h0, <1>h1 DEF LevelInv, Running, FlagInv, FlagAt, Locking, Clearing
<1>3. MutualExclusion'
  BY <1>i, <1>p, MutualExclusionKept
<1>4. OwnerInv'
  <2> SUFFICES ASSUME NEW d \in Core, NEW w \in Level, NEW m \in Lock
               PROVE  OwnerAt(d, w, m)'
    BY DEF OwnerInv
  <2>i. /\ OwnerAt(d, w, m) /\ CountAt(d, w, m) /\ RankAt(d, w, m)
        /\ FlagAt(d, w) /\ KeptAt(d, w, m)
    BY <1>i DEF OwnerInv, CountInv, RankInv, FlagInv, KeptInv
  <2>1. CASE d = c /\ w = v /\ m = l
    BY <1>t, <1>e, <2>i, <1>p, <2>1 DEF OwnerAt, Possesses, Acquiring, Clearing, Running
  <2>2. CASE d = c /\ w = v /\ m # l
    BY <1>t, <1>e, <2>i, <1>p, <2>2 DEF OwnerAt, Possesses, Acquiring, Clearing, Running
  <2>3. CASE d # c \/ w # v
    <3>1. /\ pc'[d][w] = pc[d][w] /\ arg'[d][w] = arg[d][w]
          /\ hold'[d][w] = hold[d][w]
          /\ (Running(d, w)' <=> Running(d, w)) /\ UNCHANGED bAPICID
      BY <1>e, <2>3 DEF Running
    <3>2. Possesses(d, w, m)' => bLockFlag'[m]
      <4>1. Possesses(d, w, m) => bLockFlag[m]
        BY <2>i DEF OwnerAt
      <4> QED
        BY <1>e, <1>p, <2>3, <4>1
    <3> QED
      BY <3>1, <3>2, <2>i DEF OwnerAt
  <2> QED
    BY <2>1, <2>2, <2>3
<1>5. CountInv'
  <2> SUFFICES ASSUME NEW d \in Core, NEW w \in Level, NEW m \in Lock
               PROVE  CountAt(d, w, m)'
    BY DEF CountInv
  <2>i. /\ OwnerAt(d, w, m) /\ CountAt(d, w, m) /\ RankAt(d, w, m)
        /\ FlagAt(d, w) /\ KeptAt(d, w, m)
    BY <1>i DEF OwnerInv, CountInv, RankInv, FlagInv, KeptInv
  <2>1. CASE d = c /\ w = v /\ m = l
    BY <1>t, <1>e, <2>i, <2>1 DEF CountAt, OwnerAt, Acquiring, Clearing, Running
  <2>2. CASE d = c /\ w = v /\ m # l
    BY <1>t, <1>e, <2>i, <2>2 DEF CountAt, OwnerAt, Acquiring, Clearing, Running
  <2>3. CASE d # c \/ w # v
    BY <1>t, <1>e, <2>i, <1>i, <2>3 DEF CountAt, MutualExclusion, Possesses, Acquiring, Clearing
  <2> QED
    BY <2>1, <2>2, <2>3
<1>6. RankInv'
  <2> SUFFICES ASSUME NEW d \in Core, NEW w \in Level, NEW m \in Lock
               PROVE  RankAt(d, w, m)'
    BY DEF RankInv
  <2>i. /\ OwnerAt(d, w, m) /\ CountAt(d, w, m) /\ RankAt(d, w, m)
        /\ FlagAt(d, w) /\ KeptAt(d, w, m)
    BY <1>i DEF OwnerInv, CountInv, RankInv, FlagInv, KeptInv
  <2>1. CASE d = c /\ w = v /\ m = l
    BY <1>t, <1>e, <2>i, <2>1 DEF RankAt, Locking, Acquiring, Clearing
  <2>2. CASE d = c /\ w = v /\ m # l
    BY <1>t, <1>e, <2>i, <2>2 DEF RankAt, Locking, Acquiring, Clearing
  <2>3. CASE d # c \/ w # v
    BY <1>t, <1>e, <2>i, <1>i, <2>3 DEF RankAt, Locking, Acquiring, Clearing
  <2> QED
    BY <2>1, <2>2, <2>3
<1>7. FlagInv'
  <2> SUFFICES ASSUME NEW d \in Core, NEW w \in Level
               PROVE  FlagAt(d, w)'
    BY DEF FlagInv
  <2>1. CASE d = c /\ w = v
    BY <1>i, <1>1, <1>2, <1>e, <1>h, <1>h0, <1>h1, <2>1 DEF TypeOK, LevelInv, FlagInv, FlagAt, Locking, Acquiring, Clearing, Running
  <2>2. CASE d # c \/ w # v
    BY <1>i, <1>1, <1>2, <1>e, <1>h, <1>h0, <1>h1, <2>2 DEF TypeOK, LevelInv, FlagInv, FlagAt, Locking, Acquiring, Clearing, Running
  <2> QED
    BY <2>1, <2>2
<1>8. KeptInv'
  <2> SUFFICES ASSUME NEW d \in Core, NEW w \in Level, NEW m \in Lock
               PROVE  KeptAt(d, w, m)'
    BY DEF KeptInv
  <2>i. /\ OwnerAt(d, w, m) /\ CountAt(d, w, m) /\ RankAt(d, w, m)
        /\ FlagAt(d, w) /\ KeptAt(d, w, m)
    BY <1>i DEF OwnerInv, CountInv, RankInv, FlagInv, KeptInv
  <2>1. CASE d = c /\ w = v /\ m = l
    BY <1>t, <1>e, <2>i, <1>h, <1>h0, <1>h1, <2>1 DEF KeptAt, FlagAt, Locking, Acquiring, Clearing, Running
  <2>2. CASE d = c /\ w = v /\ m # l
    BY <1>t, <1>e, <2>i, <1>h, <1>h0, <1>h1, <2>2 DEF KeptAt, FlagAt, Locking, Acquiring, Clearing, Running
  <2>3. CASE d # c \/ w # v
    <3>1. /\ pc'[d][w] = pc[d][w] /\ arg'[d][w] = arg[d][w]
          /\ hold'[d][w] = hold[d][w]
          /\ UNCHANGED <<bInterruptFlag, callerIF>>
      BY <1>e, <2>3
    <3>2. Outermost(d, w, m)' <=> Outermost(d, w, m)
      BY <1>h, <2>3
    <3> QED
      BY <3>1, <3>2, <2>i DEF KeptAt
  <2> QED
    BY <2>1, <2>2, <2>3
<1> QED
  BY <1>1, <1>2, <1>3, <1>4, <1>5, <1>6, <1>7, <1>8 DEF IInv

(***************************************************************************)
(* Interrupts and cli/sti touch no lock, so what is said of the locks      *)
(* alone carries over.                                                     *)
(***************************************************************************)
\* A step that changes neither the locks nor where the calls stand keeps the
\* parts of IInv that speak of these only.
LEMMA LocksUntouched ==
    ASSUME MutualExclusion, CountInv, RankInv,
           UNCHANGED <<lockRecord, pc, arg, saved, hold>>
    PROVE  /\ MutualExclusion' /\ CountInv' /\ RankInv'
           /\ \A d \in Core, w \in Level :
                 /\ HoldsNothing(d, w)' <=> HoldsNothing(d, w)
                 /\ \A m \in Lock : /\ Outermost(d, w, m)' <=> Outermost(d, w, m)
                                    /\ Possesses(d, w, m)' <=> Possesses(d, w, m)
<1>1. \A d \in Core, w \in Level :
          /\ HoldsNothing(d, w)' <=> HoldsNothing(d, w)
          /\ \A m \in Lock : /\ Outermost(d, w, m)' <=> Outermost(d, w, m)
                             /\ Possesses(d, w, m)' <=> Possesses(d, w, m)
  BY DEF HoldsNothing, Outermost, Possesses
<1>2. MutualExclusion'
  BY <1>1, MutualExclusionKept
<1>3. CountInv' /\ RankInv'
  BY DEF CountInv, CountAt, RankInv, RankAt
<1> QED
  BY <1>1, <1>2, <1>3

\* cli and sti in task code that holds nothing: the flag and the caller's idea
\* of it change together.
LEMMA SwitchInterruptsStep ==
    ASSUME IInv, NEW c \in Core, SwitchInterrupts(c)
    PROVE  IInv'
<1>i. /\ TypeOK /\ LevelInv /\ MutualExclusion /\ OwnerInv
      /\ CountInv /\ RankInv /\ FlagInv /\ KeptInv
  BY DEF IInv
<1>1. TypeOK'
  BY <1>i DEF TypeOK, SwitchInterrupts, Level
<1>2. /\ MutualExclusion' /\ CountInv' /\ RankInv'
      /\ \A d \in Core, w \in Level :
            /\ HoldsNothing(d, w)' <=> HoldsNothing(d, w)
            /\ \A m \in Lock : /\ Outermost(d, w, m)' <=> Outermost(d, w, m)
                               /\ Possesses(d, w, m)' <=> Possesses(d, w, m)
  BY <1>i, LocksUntouched DEF SwitchInterrupts
<1>e. /\ Running(c, "task") /\ pc[c]["task"] = "idle" /\ HoldsNothing(c, "task")
      /\ rflagsIF'[c] <=> ~rflagsIF[c]
      /\ \A d \in Core : d # c => rflagsIF'[d] = rflagsIF[d]
      /\ callerIF'[c]["task"] <=> ~rflagsIF[c]
      /\ \A d \in Core, w \in Level : d # c \/ w # "task" =>
             callerIF'[d][w] = callerIF[d][w]
      /\ UNCHANGED <<lockRecord, inIrq, pc, arg, saved, hold>>
  <2>1. /\ rflagsIF \in [Core -> BOOLEAN]
        /\ callerIF \in [Core -> [Level -> BOOLEAN]] /\ "task" \in Level
    BY <1>i DEF TypeOK, Level
  <2>2. /\ rflagsIF' = [rflagsIF EXCEPT ![c] = ~@]
        /\ callerIF' = [callerIF EXCEPT ![c]["task"] = ~rflagsIF[c]]
    BY DEF SwitchInterrupts
  <2>3. /\ callerIF'[c]["task"] <=> ~rflagsIF[c]
        /\ \A d \in Core, w \in Level : d # c \/ w # "task" =>
               callerIF'[d][w] = callerIF[d][w]
    BY <2>1, <2>2
  <2>4. /\ rflagsIF'[c] <=> ~rflagsIF[c]
        /\ \A d \in Core : d # c => rflagsIF'[d] = rflagsIF[d]
    BY <2>1, <2>2
  <2> QED
    BY <2>3, <2>4 DEF SwitchInterrupts
<1>3. LevelInv'
  BY <1>i, <1>2, <1>e DEF LevelInv, Running, Level
<1>4. OwnerInv'
  BY <1>i, <1>2, <1>e DEF OwnerInv, OwnerAt, Running
<1>5. FlagInv'
  <2> SUFFICES ASSUME NEW d \in Core, NEW w \in Level
               PROVE  FlagAt(d, w)'
    BY DEF FlagInv
  <2>1. FlagAt(d, w)
    BY <1>i DEF FlagInv
  <2>2. CASE d = c /\ w = "task"
    BY <1>2, <1>e, <2>2 DEF FlagAt, Locking, Acquiring, Clearing
  <2>3. CASE d = c /\ w # "task"
    BY <1>2, <1>e, <2>1, <2>3 DEF FlagAt, Running
  <2>4. CASE d # c
    BY <1>2, <1>e, <2>1, <2>4 DEF FlagAt, Running
  <2> QED
    BY <2>2, <2>3, <2>4
<1>6. KeptInv'
  <2> SUFFICES ASSUME NEW d \in Core, NEW w \in Level, NEW m \in Lock
               PROVE  KeptAt(d, w, m)'
    BY DEF KeptInv
  <2>1. KeptAt(d, w, m)
    BY <1>i DEF KeptInv
  <2>2. CASE d = c /\ w = "task"
    BY <1>e, <2>2 DEF KeptAt, HoldsNothing
  <2>3. CASE d # c \/ w # "task"
    BY <1>2, <1>e, <2>1, <2>3 DEF KeptAt
  <2> QED
    BY <2>2, <2>3
<1> QED
  BY <1>1, <1>2, <1>3, <1>4, <1>5, <1>6 DEF IInv

\* An interrupt is taken only where the task code holds nothing and stands in
\* no call, for elsewhere the flag is clear (FlagInv).
LEMMA InterruptStep ==
    ASSUME IInv, NEW c \in Core, Interrupt(c)
    PROVE  IInv'
<1>i. /\ TypeOK /\ LevelInv /\ MutualExclusion /\ OwnerInv
      /\ CountInv /\ RankInv /\ FlagInv /\ KeptInv
  BY DEF IInv
<1>1. TypeOK'
  BY <1>i DEF TypeOK, Interrupt
<1>2. /\ MutualExclusion' /\ CountInv' /\ RankInv'
      /\ \A d \in Core, w \in Level :
            /\ HoldsNothing(d, w)' <=> HoldsNothing(d, w)
            /\ \A m \in Lock : /\ Outermost(d, w, m)' <=> Outermost(d, w, m)
                               /\ Possesses(d, w, m)' <=> Possesses(d, w, m)
  BY <1>i, LocksUntouched DEF Interrupt
<1>e. /\ rflagsIF[c] /\ ~inIrq[c] /\ inIrq'[c] /\ ~rflagsIF'[c]
      /\ \A d \in Core : d # c => rflagsIF'[d] = rflagsIF[d] /\ inIrq'[d] = inIrq[d]
      /\ UNCHANGED <<lockRecord, pc, arg, saved, hold, callerIF>>
  BY <1>i DEF Interrupt, TypeOK
<1>f. /\ callerIF[c]["task"] /\ ~callerIF[c]["irq"]
      /\ \A v \in Level : pc[c][v] = "idle" /\ HoldsNothing(c, v)
      /\ \A l \in Lock : bAPICID[l] # c
  <2>1. "task" \in Level /\ "irq" \in Level /\ Running(c, "task")
    BY <1>e DEF Level, Running
  <2>2. FlagAt(c, "task") /\ \A l \in Lock : OwnerAt(c, "task", l)
    BY <1>i, <2>1 DEF FlagInv, OwnerInv
  <2>3. callerIF[c]["task"] /\ HoldsNothing(c, "task") /\ pc[c]["task"] = "idle"
    BY <1>e, <2>1, <2>2 DEF FlagAt
  <2>4. pc[c]["irq"] = "idle" /\ HoldsNothing(c, "irq") /\ ~callerIF[c]["irq"]
    BY <1>i, <1>e, <2>1 DEF LevelInv, Running
  <2>5. \A l \in Lock : bAPICID[l] # c
    BY <2>1, <2>2, <2>3 DEF OwnerAt, HoldsNothing
  <2> QED
    BY <2>3, <2>4, <2>5 DEF Level
<1>3. LevelInv'
  BY <1>i, <1>2, <1>e, <1>f DEF LevelInv, Running
<1>4. OwnerInv'
  <2> SUFFICES ASSUME NEW d \in Core, NEW w \in Level, NEW m \in Lock
               PROVE  OwnerAt(d, w, m)'
    BY DEF OwnerInv
  <2>1. OwnerAt(d, w, m)
    BY <1>i DEF OwnerInv
  <2> QED
    BY <1>2, <1>e, <1>f, <2>1 DEF OwnerAt, Running
<1>5. FlagInv'
  <2> SUFFICES ASSUME NEW d \in Core, NEW w \in Level
               PROVE  FlagAt(d, w)'
    BY DEF FlagInv
  <2>1. FlagAt(d, w)
    BY <1>i DEF FlagInv
  <2>2. CASE d = c
    BY <1>2, <1>e, <1>f, <2>2 DEF FlagAt, Running, Locking, Acquiring, Clearing
  <2>3. CASE d # c
    BY <1>2, <1>e, <2>1, <2>3 DEF FlagAt, Running
  <2> QED
    BY <2>2, <2>3
<1>6. KeptInv'
  BY <1>i, <1>2, <1>e DEF KeptInv, KeptAt
<1> QED
  BY <1>1, <1>2, <1>3, <1>4, <1>5, <1>6 DEF IInv

\* iretq: the handler holds nothing, and the task code it returns to ran with
\* interrupts on.
LEMMA EndOfInterruptStep ==
    ASSUME IInv, NEW c \in Core, EndOfInterrupt(c)
    PROVE  IInv'
<1>i. /\ TypeOK /\ LevelInv /\ MutualExclusion /\ OwnerInv
      /\ CountInv /\ RankInv /\ FlagInv /\ KeptInv
  BY DEF IInv
<1>1. TypeOK'
  BY <1>i DEF TypeOK, EndOfInterrupt
<1>2. /\ MutualExclusion' /\ CountInv' /\ RankInv'
      /\ \A d \in Core, w \in Level :
            /\ HoldsNothing(d, w)' <=> HoldsNothing(d, w)
            /\ \A m \in Lock : /\ Outermost(d, w, m)' <=> Outermost(d, w, m)
                               /\ Possesses(d, w, m)' <=> Possesses(d, w, m)
  BY <1>i, LocksUntouched DEF EndOfInterrupt
<1>e. /\ inIrq[c] /\ ~inIrq'[c] /\ rflagsIF'[c]
      /\ \A d \in Core : d # c => rflagsIF'[d] = rflagsIF[d] /\ inIrq'[d] = inIrq[d]
      /\ UNCHANGED <<lockRecord, pc, arg, saved, hold, callerIF>>
  BY <1>i DEF EndOfInterrupt, TypeOK
<1>f. /\ callerIF[c]["task"] /\ ~callerIF[c]["irq"]
      /\ \A v \in Level : pc[c][v] = "idle" /\ HoldsNothing(c, v)
      /\ \A l \in Lock : bAPICID[l] # c
  <2>1. "task" \in Level /\ "irq" \in Level /\ Running(c, "irq")
    BY <1>e DEF Level, Running
  <2>2. \A l \in Lock : OwnerAt(c, "irq", l)
    BY <1>i, <2>1 DEF OwnerInv
  <2>3. HoldsNothing(c, "irq") /\ pc[c]["irq"] = "idle"
    BY DEF EndOfInterrupt
  <2>4. /\ pc[c]["task"] = "idle" /\ HoldsNothing(c, "task")
        /\ callerIF[c]["task"] /\ ~callerIF[c]["irq"]
    BY <1>i, <1>e, <2>1 DEF LevelInv, Running
  <2>5. \A l \in Lock : bAPICID[l] # c
    BY <2>1, <2>2, <2>3 DEF OwnerAt, HoldsNothing
  <2> QED
    BY <2>3, <2>4, <2>5 DEF Level
<1>3. LevelInv'
  BY <1>i, <1>2, <1>e, <1>f DEF LevelInv, Running
<1>4. OwnerInv'
  <2> SUFFICES ASSUME NEW d \in Core, NEW w \in Level, NEW m \in Lock
               PROVE  OwnerAt(d, w, m)'
    BY DEF OwnerInv
  <2>1. OwnerAt(d, w, m)
    BY <1>i DEF OwnerInv
  <2> QED
    BY <1>2, <1>e, <1>f, <2>1 DEF OwnerAt, Running
<1>5. FlagInv'
  <2> SUFFICES ASSUME NEW d \in Core, NEW w \in Level
               PROVE  FlagAt(d, w)'
    BY DEF FlagInv
  <2>1. FlagAt(d, w)
    BY <1>i DEF FlagInv
  <2>2. CASE d = c
    BY <1>2, <1>e, <1>f, <2>2 DEF FlagAt, Running, Locking, Acquiring, Clearing, Level
  <2>3. CASE d # c
    BY <1>2, <1>e, <2>1, <2>3 DEF FlagAt, Running
  <2> QED
    BY <2>2, <2>3
<1>6. KeptInv'
  BY <1>i, <1>2, <1>e DEF KeptInv, KeptAt
<1> QED
  BY <1>1, <1>2, <1>3, <1>4, <1>5, <1>6 DEF IInv

(***************************************************************************)
(* The invariant, and what follows from it.                                *)
(***************************************************************************)
\* Every step of the system keeps the invariant.
LEMMA NextStep ==
    ASSUME IInv, [Next]_vars
    PROVE  IInv'
<1>i. TypeOK
  BY DEF IInv
<1>1. ASSUME NEW c \in Core, NEW v \in Level, Step(c, v)
      PROVE  IInv'
  <2>1. arg[c][v] \in Lock
    BY <1>i DEF TypeOK
  <2>2. CASE TryLock(c, v)
    <3>1. CASE bLockFlag[arg[c][v]]
      BY <2>1, <2>2, <3>1, TryLockLoseStep
    <3>2. CASE ~bLockFlag[arg[c][v]]
      BY <2>1, <2>2, <3>2, TryLockWinStep
    <3> QED
      BY <3>1, <3>2
  <2>3. CASE CheckOwner(c, v)
    <3>1. CASE bAPICID[arg[c][v]] = c
      BY <2>1, <2>3, <3>1, CheckOwnerOwnStep
    <3>2. CASE bAPICID[arg[c][v]] # c
      BY <2>1, <2>3, <3>2, CheckOwnerOtherStep
    <3> QED
      BY <3>1, <3>2
  <2>4. CASE Nest(c, v)
    BY <2>1, <2>4, NestStep
  <2>5. CASE Spin(c, v)
    BY <2>1, <2>5, SpinStep
  <2>6. CASE SetCount(c, v)
    BY <2>1, <2>6, SetCountStep
  <2>7. CASE SetOwner(c, v)
    BY <2>1, <2>7, SetOwnerStep
  <2>8. CASE SaveIF(c, v)
    BY <2>1, <2>8, SaveIFStep
  <2>9. CASE RefuseUnlock(c, v)
    BY <2>1, <2>9, RefuseUnlockStep
  <2>10. CASE UnlockNested(c, v)
    BY <2>1, <2>10, UnlockNestedStep
  <2>11. CASE FetchIF(c, v)
    BY <2>1, <2>11, FetchIFStep
  <2>12. CASE ClearOwner(c, v)
    BY <2>1, <2>12, ClearOwnerStep
  <2>13. CASE ClearCount(c, v)
    BY <2>1, <2>13, ClearCountStep
  <2>14. CASE ClearIF(c, v)
    BY <2>1, <2>14, ClearIFStep
  <2>15. CASE ClearFlag(c, v)
    BY <2>1, <2>15, ClearFlagStep
  <2>16. CASE RestoreIF(c, v)
    BY <2>1, <2>16, RestoreIFStep
  <2> QED
    BY <1>1, <2>2, <2>3, <2>4, <2>5, <2>6, <2>7, <2>8, <2>9, <2>10, <2>11,
       <2>12, <2>13, <2>14, <2>15, <2>16 DEF Step
<1>2. ASSUME NEW c \in Core, NEW v \in Level, CallStep(c, v)
      PROVE  IInv'
  BY <1>2, CallLockStep, CallUnlockStep DEF CallStep
<1>3. ASSUME NEW c \in Core, CoreStep(c)
      PROVE  IInv'
  BY <1>1, <1>2, <1>3, SwitchInterruptsStep, InterruptStep, EndOfInterruptStep
     DEF CoreStep
<1>4. CASE UNCHANGED vars
  BY <1>4 DEF IInv, TypeOK, LevelInv, MutualExclusion, OwnerInv, OwnerAt,
     CountInv, CountAt, RankInv, RankAt, FlagInv, FlagAt, KeptInv, KeptAt,
     Possesses, Running, HoldsNothing, Outermost
<1> QED
  BY <1>3, <1>4 DEF Next

\* After kInitializeSpinLock nobody possesses anything.
LEMMA InitEstablishes == Init => IInv
<1> SUFFICES ASSUME Init
             PROVE  IInv
  OBVIOUS
<1>1. TypeOK
  BY DEF Init, TypeOK, PC
<1>2. /\ \A c \in Core, v \in Level : pc[c][v] = "idle" /\ HoldsNothing(c, v)
      /\ \A c \in Core, v \in Level, l \in Lock : hold[c][v][l] = 0
      /\ \A c \in Core : rflagsIF[c] /\ ~inIrq[c]
      /\ \A c \in Core, v \in Level : callerIF[c][v] <=> v = "task"
      /\ \A l \in Lock : bAPICID[l] \notin Core
  BY DEF Init, HoldsNothing
<1>3. \A c \in Core, v \in Level, l \in Lock : ~Possesses(c, v, l)
  BY <1>2 DEF Possesses, Acquiring
<1>4. LevelInv /\ MutualExclusion
  BY <1>2, <1>3 DEF LevelInv, MutualExclusion, Running, Level
<1>5. OwnerInv
  BY <1>2, <1>3 DEF OwnerInv, OwnerAt, Acquiring, Clearing
<1>8. CountInv /\ RankInv
  BY <1>2 DEF CountInv, CountAt, RankInv, RankAt, Clearing
<1>6. FlagInv
  BY <1>2 DEF FlagInv, FlagAt, Running, Locking, Acquiring, Clearing
<1>7. KeptInv
  BY <1>2 DEF KeptInv, KeptAt
<1> QED
  BY <1>1, <1>4, <1>5, <1>6, <1>7, <1>8 DEF IInv

\* The inductive invariant holds in every state of every execution.
THEOREM Invariance == Spec => []IInv
<1>1. Init => IInv
  BY InitEstablishes
<1>2. IInv /\ [Next]_vars => IInv'
  BY NextStep
<1> QED
  BY <1>1, <1>2, PTL DEF Spec

\* Type correctness of the lock records, the flags and the calls in progress.
THEOREM TypeCorrect == Spec => []TypeOK
<1>1. IInv => TypeOK
  BY DEF IInv
<1> QED
  BY <1>1, Invariance, PTL

\* For any number of cores and locks, at most one core, and on it either the
\* task code or the handler, possesses a lock.
THEOREM MutualExclusionHolds == Spec => []MutualExclusion
<1>1. IInv => MutualExclusion
  BY DEF IInv
<1> QED
  BY <1>1, Invariance, PTL

\* No interrupt reaches a core that possesses a lock, however it nests.
THEOREM NoInterruptWhileHeldHolds == Spec => []NoInterruptWhileHeld
<1>1. IInv => NoInterruptWhileHeld
  <2> SUFFICES ASSUME IInv, NEW c \in Core, NEW v \in Level, NEW l \in Lock,
                      Possesses(c, v, l)
               PROVE  ~rflagsIF[c]
    BY DEF NoInterruptWhileHeld
  <2>1. ~HoldsNothing(c, v) \/ pc[c][v] # "idle"
    <3>1. hold[c][v][l] \in Nat
      BY DEF IInv, TypeOK
    <3> QED
      BY <3>1 DEF Possesses, HoldsNothing, Acquiring
  <2>2. Running(c, v)
    BY <2>1 DEF IInv, LevelInv
  <2> QED
    BY <2>1, <2>2 DEF IInv, FlagInv, FlagAt, TypeOK
<1> QED
  BY <1>1, Invariance, PTL

\* The outermost unlock leaves the interrupt flag its caller came with.
THEOREM InterruptFlagRestoredHolds == Spec => []InterruptFlagRestored
<1>1. IInv => InterruptFlagRestored
  <2> SUFFICES ASSUME IInv, NEW c \in Core, NEW v \in Level, Running(c, v),
                      pc[c][v] = "idle", HoldsNothing(c, v)
               PROVE  rflagsIF[c] = callerIF[c][v]
    BY DEF InterruptFlagRestored
  <2>1. rflagsIF[c] <=> callerIF[c][v]
    BY DEF IInv, FlagInv, FlagAt
  <2>2. rflagsIF[c] \in BOOLEAN /\ callerIF[c][v] \in BOOLEAN
    BY DEF IInv, TypeOK
  <2> QED
    BY <2>1, <2>2
<1> QED
  BY <1>1, Invariance, PTL

\* Both together: the interrupt flag from the first lock to the last unlock.
THEOREM InterruptsAreControlledHolds == Spec => []InterruptsAreControlled
<1>1. NoInterruptWhileHeld /\ InterruptFlagRestored => InterruptsAreControlled
  BY DEF InterruptsAreControlled
<1> QED
  BY <1>1, NoInterruptWhileHeldHolds, InterruptFlagRestoredHolds, PTL

\* A core never waits for a lock its own task code or its own handler has.
THEOREM NoSelfDeadlockHolds == Spec => []NoSelfDeadlock
<1>1. IInv => NoSelfDeadlock
  <2> SUFFICES ASSUME IInv, NEW c \in Core, NEW v \in Level, NEW w \in Level,
                      NEW l \in Lock, pc[c][v] \in {"checkOwner", "spin"},
                      arg[c][v] = l, Possesses(c, w, l)
               PROVE  v = w /\ pc[c][v] = "checkOwner" /\ bAPICID[l] = c
    BY DEF NoSelfDeadlock
  <2>1. Running(c, v)
    BY DEF IInv, LevelInv
  <2>2. hold[c][w][l] \in Nat /\ OwnerAt(c, w, l)
    BY DEF IInv, TypeOK, OwnerInv
  <2>3. Running(c, w)
    BY <2>2 DEF IInv, LevelInv, Possesses, HoldsNothing, Acquiring
  <2>4. v = w
    BY <2>1, <2>3 DEF Running
  <2>5. hold[c][w][l] > 0 /\ pc[c][v] = "checkOwner"
    BY <2>2, <2>4 DEF Possesses, OwnerAt, Acquiring
  <2> QED
    BY <2>2, <2>4, <2>5 DEF OwnerAt, Clearing
<1> QED
  BY <1>1, Invariance, PTL

(***************************************************************************)
(* The lock that its callers see (ReentrantLock): a step of                *)
(* kLockForSpinLock or kUnlockForSpinLock that returns with the lock taken *)
(* or given back is a step of the abstract lock, every other one changes   *)
(* nothing there.                                                          *)
(***************************************************************************)

(***************************************************************************)
(* The refinement mapping, lock by lock                                    *)
(***************************************************************************)
OwnerOf(l) == IF HeldBy(l) = {} THEN NoAPICID ELSE CHOOSE c \in HeldBy(l) : TRUE
DepthOf(l) == IF HeldBy(l) = {} THEN 0
              ELSE Depth(CHOOSE c \in HeldBy(l) : TRUE, l)

LEMMA AcquireOf ==
    ASSUME NEW c \in Core, NEW l \in Lock,
           OwnerOf(l) \in {NoAPICID, c},
           OwnerOf(l)' = c, DepthOf(l)' = DepthOf(l) + 1,
           \A m \in Lock \ {l} : OwnerOf(m)' = OwnerOf(m) /\ DepthOf(m)' = DepthOf(m)
    PROVE  Abstract!Acquire(c, l)
<1> DEFINE o == [m \in Lock |-> OwnerOf(m)]
           d == [m \in Lock |-> DepthOf(m)]
<1>1. o[l] \in {NoAPICID, c} /\ o' = [o EXCEPT ![l] = c]
  OBVIOUS
<1>2. d' = [d EXCEPT ![l] = @ + 1]
  OBVIOUS
<1> QED
  BY <1>1, <1>2, Zenon DEF Abstract!Acquire, OwnerOf, DepthOf

LEMMA ReleaseOf ==
    ASSUME NEW c \in Core, NEW l \in Lock,
           OwnerOf(l) = c, OwnerOf(l)' = (IF DepthOf(l) = 1 THEN NoAPICID ELSE c),
           DepthOf(l)' = DepthOf(l) - 1,
           \A m \in Lock \ {l} : OwnerOf(m)' = OwnerOf(m) /\ DepthOf(m)' = DepthOf(m)
    PROVE  Abstract!Release(c, l)
<1> DEFINE o == [m \in Lock |-> OwnerOf(m)]
           d == [m \in Lock |-> DepthOf(m)]
<1>1. o[l] = c /\ o' = [o EXCEPT ![l] = IF d[l] = 1 THEN NoAPICID ELSE c]
  OBVIOUS
<1>2. d' = [d EXCEPT ![l] = @ - 1]
  OBVIOUS
<1> QED
  BY <1>1, <1>2, Zenon DEF Abstract!Release, OwnerOf, DepthOf

(***************************************************************************)
(* What the mapping yields                                                 *)
(***************************************************************************)
\* h stands for hold, before or after a step.
HeldIn(h, l) == {c \in Core : h[c]["task"][l] + h[c]["irq"][l] > 0}
OnlyBy(h, c, v, l) == \A d \in Core, w \in Level : h[d][w][l] > 0 => d = c /\ w = v

LEMMA HeldByOne ==
    ASSUME NEW h \in [Core -> [Level -> [Lock -> Nat]]],
           NEW c \in Core, NEW v \in Level, NEW l \in Lock, OnlyBy(h, c, v, l)
    PROVE  /\ h[c]["task"][l] + h[c]["irq"][l] = h[c][v][l]
           /\ HeldIn(h, l) = IF h[c][v][l] > 0 THEN {c} ELSE {}
<1>1. \A d \in Core, w \in Level : h[d][w][l] \in Nat
  OBVIOUS
<1>2. h[c]["task"][l] + h[c]["irq"][l] = h[c][v][l]
  BY <1>1 DEF OnlyBy, Level
<1>3. \A d \in Core \ {c} : h[d]["task"][l] + h[d]["irq"][l] = 0
  <2> SUFFICES ASSUME NEW d \in Core \ {c}
               PROVE  h[d]["task"][l] + h[d]["irq"][l] = 0
    OBVIOUS
  <2>1. h[d]["task"][l] \in Nat /\ h[d]["irq"][l] \in Nat
    BY <1>1 DEF Level
  <2>2. ~(h[d]["task"][l] > 0) /\ ~(h[d]["irq"][l] > 0)
    BY DEF OnlyBy, Level
  <2> QED
    BY <2>1, <2>2
<1>4. ASSUME NEW d \in Core
      PROVE  d \in HeldIn(h, l) <=> (d = c /\ h[c][v][l] > 0)
  <2>1. CASE d = c
    BY <1>2, <2>1 DEF HeldIn
  <2>2. CASE d # c
    <3>1. ~(h[d]["task"][l] + h[d]["irq"][l] > 0)
      BY <1>3, <2>2
    <3> QED
      BY <2>2, <3>1 DEF HeldIn
  <2> QED
    BY <2>1, <2>2
<1>5. HeldIn(h, l) \subseteq Core
  BY DEF HeldIn
<1> QED
  BY <1>2, <1>4, <1>5

LEMMA HeldByBefore ==
    ASSUME TypeOK, NEW c \in Core, NEW v \in Level, NEW l \in Lock, OnlyBy(hold, c, v, l)
    PROVE  /\ OwnerOf(l) = IF hold[c][v][l] > 0 THEN c ELSE NoAPICID
           /\ DepthOf(l) = hold[c][v][l]
<1>1. hold \in [Core -> [Level -> [Lock -> Nat]]] /\ hold[c][v][l] \in Nat
  BY DEF TypeOK
<1>2. Depth(c, l) = hold[c][v][l] /\ HeldBy(l) = IF hold[c][v][l] > 0 THEN {c} ELSE {}
  BY <1>1, HeldByOne DEF Depth, HeldBy, HeldIn
<1>3. (CHOOSE d \in {c} : TRUE) = c
  OBVIOUS
<1> QED
  BY <1>1, <1>2, <1>3 DEF OwnerOf, DepthOf

LEMMA HeldByAfter ==
    ASSUME TypeOK', NEW c \in Core, NEW v \in Level, NEW l \in Lock, OnlyBy(hold', c, v, l)
    PROVE  /\ OwnerOf(l)' = IF hold'[c][v][l] > 0 THEN c ELSE NoAPICID
           /\ DepthOf(l)' = hold'[c][v][l]
<1>1. hold' \in [Core -> [Level -> [Lock -> Nat]]] /\ hold'[c][v][l] \in Nat
  BY DEF TypeOK
<1>2. Depth(c, l)' = hold'[c][v][l] /\ HeldBy(l)' = IF hold'[c][v][l] > 0 THEN {c} ELSE {}
  BY <1>1, HeldByOne DEF Depth, HeldBy, HeldIn
<1>3. (CHOOSE d \in {c} : TRUE) = c
  OBVIOUS
<1> QED
  BY <1>1, <1>2, <1>3 DEF OwnerOf, DepthOf

\* A lock whose depths stay keeps its owner.
LEMMA OthersKept ==
    ASSUME NEW m \in Lock, \A d \in Core, w \in Level : hold'[d][w][m] = hold[d][w][m]
    PROVE  OwnerOf(m)' = OwnerOf(m) /\ DepthOf(m)' = DepthOf(m)
<1>1. \A d \in Core : Depth(d, m)' = Depth(d, m)
  BY DEF Depth, Level
<1>2. HeldBy(m)' = HeldBy(m)
  BY <1>1 DEF HeldBy
<1>3. HeldBy(m) # {} => (CHOOSE d \in HeldBy(m) : TRUE) \in Core
  BY DEF HeldBy
<1> QED
  BY <1>1, <1>2, <1>3 DEF OwnerOf, DepthOf

(***************************************************************************)
(* The steps                                                               *)
(***************************************************************************)
\* The running code takes l, once more or for the first time.
LEMMA TakeStep ==
    ASSUME TypeOK, TypeOK', NEW c \in Core, NEW v \in Level, NEW l \in Lock,
           hold' = [hold EXCEPT ![c][v][l] = @ + 1], OnlyBy(hold, c, v, l)
    PROVE  Abstract!Acquire(c, l)
<1>1. hold[c][v][l] \in Nat /\ hold'[c][v][l] = hold[c][v][l] + 1
  BY DEF TypeOK
<1>2. OnlyBy(hold', c, v, l)
  BY DEF OnlyBy, TypeOK
<1>3. \A m \in Lock \ {l} : OwnerOf(m)' = OwnerOf(m) /\ DepthOf(m)' = DepthOf(m)
  <2> SUFFICES ASSUME NEW m \in Lock \ {l}
               PROVE  \A d \in Core, w \in Level : hold'[d][w][m] = hold[d][w][m]
    BY OthersKept
  <2> QED
    BY DEF TypeOK
<1>4. OwnerOf(l) \in {NoAPICID, c} /\ DepthOf(l) = hold[c][v][l]
  BY HeldByBefore
<1>5. OwnerOf(l)' = c /\ DepthOf(l)' = hold'[c][v][l]
  <2>1. hold'[c][v][l] > 0
    BY <1>1
  <2> QED
    BY <1>2, <2>1, HeldByAfter
<1> QED
  BY <1>1, <1>3, <1>4, <1>5, AcquireOf

\* It gives l back once.
LEMMA GiveStep ==
    ASSUME TypeOK, TypeOK', NEW c \in Core, NEW v \in Level, NEW l \in Lock,
           hold' = [hold EXCEPT ![c][v][l] = @ - 1], OnlyBy(hold, c, v, l),
           hold[c][v][l] > 0
    PROVE  Abstract!Release(c, l)
<1>1. hold[c][v][l] \in Nat /\ hold'[c][v][l] = hold[c][v][l] - 1
  BY DEF TypeOK
<1>2. OnlyBy(hold', c, v, l)
  BY DEF OnlyBy, TypeOK
<1>3. \A m \in Lock \ {l} : OwnerOf(m)' = OwnerOf(m) /\ DepthOf(m)' = DepthOf(m)
  <2> SUFFICES ASSUME NEW m \in Lock \ {l}
               PROVE  \A d \in Core, w \in Level : hold'[d][w][m] = hold[d][w][m]
    BY OthersKept
  <2> QED
    BY DEF TypeOK
<1>4. OwnerOf(l) = c /\ DepthOf(l) = hold[c][v][l]
  BY HeldByBefore
<1>5. /\ OwnerOf(l)' = IF hold'[c][v][l] > 0 THEN c ELSE NoAPICID
      /\ DepthOf(l)' = hold'[c][v][l]
  BY <1>2, HeldByAfter
<1>6. OwnerOf(l)' = IF DepthOf(l) = 1 THEN NoAPICID ELSE c
  BY <1>1, <1>4, <1>5
<1> QED
  BY <1>1, <1>3, <1>4, <1>5, <1>6, ReleaseOf

\* Who possesses a lock is the only one that holds it.
LEMMA PossessorOnly ==
    ASSUME MutualExclusion, NEW c \in Core, NEW v \in Level, NEW l \in Lock,
           Possesses(c, v, l)
    PROVE  OnlyBy(hold, c, v, l)
BY DEF MutualExclusion, Possesses, OnlyBy

\* Nobody's hold changes: the abstract lock does not, either.
LEMMA StutterStep ==
    ASSUME hold' = hold
    PROVE  UNCHANGED Abstract!lockVars
BY DEF Abstract!lockVars, HeldBy, Depth

LEMMA AbstractInit == Init => Abstract!Init
<1> SUFFICES ASSUME Init PROVE Abstract!Init
  OBVIOUS
<1>1. \A c \in Core, l \in Lock : Depth(c, l) = 0
  BY DEF Init, Depth, Level
<1>2. \A l \in Lock : HeldBy(l) = {}
  BY <1>1 DEF HeldBy
<1> QED
  BY <1>2 DEF Abstract!Init

LEMMA AbstractStep ==
    ASSUME IInv, TypeOK', [Next]_vars
    PROVE  [Abstract!Next]_(Abstract!lockVars)
<1>1. ASSUME NEW c \in Core, NEW v \in Level, NEW l \in Lock,
             Abstract!Acquire(c, l) \/ Abstract!Release(c, l)
      PROVE  [Abstract!Next]_(Abstract!lockVars)
  BY <1>1 DEF Abstract!Next
<1>2. ASSUME NEW c \in Core, NEW v \in Level, Step(c, v)
      PROVE  [Abstract!Next]_(Abstract!lockVars)
  <2> DEFINE l == arg[c][v]
  <2>0. l \in Lock
    BY DEF IInv, TypeOK
  <2>1. CASE Nest(c, v)
    <3>1. hold' = [hold EXCEPT ![c][v][l] = @ + 1] /\ pc[c][v] = "nest"
      BY <2>1 DEF Nest, Goto
    <3>2. Possesses(c, v, l)
      BY <2>0, <3>1 DEF IInv, OwnerInv, OwnerAt, Possesses
    <3> QED
      BY <1>1, <2>0, <3>1, <3>2, PossessorOnly, TakeStep DEF IInv
  <2>2. CASE SaveIF(c, v)
    <3>1. hold' = [hold EXCEPT ![c][v][l] = @ + 1] /\ pc[c][v] = "saveIF"
      BY <2>2 DEF SaveIF, Goto
    <3>2. Possesses(c, v, l)
      BY <2>0, <3>1 DEF Possesses, Acquiring
    <3> QED
      BY <1>1, <2>0, <3>1, <3>2, PossessorOnly, TakeStep DEF IInv
  <2>3. CASE UnlockNested(c, v)
    <3>1. /\ hold' = [hold EXCEPT ![c][v][l] = @ - 1] /\ pc[c][v] = "checkUnlock"
          /\ Running(c, v) /\ bAPICID[l] = c
      BY <2>3 DEF UnlockNested, Goto
    <3>2. hold[c][v][l] > 0
      BY <2>0, <3>1 DEF IInv, OwnerInv, OwnerAt
    <3> QED
      BY <1>1, <2>0, <3>1, <3>2, PossessorOnly, GiveStep DEF IInv, Possesses
  <2>4. CASE ClearFlag(c, v)
    <3>1. hold' = [hold EXCEPT ![c][v][l] = @ - 1] /\ pc[c][v] = "clearFlag"
      BY <2>4 DEF ClearFlag, Goto
    <3>2. hold[c][v][l] > 0
      BY <2>0, <3>1 DEF IInv, CountInv, CountAt, Clearing
    <3> QED
      BY <1>1, <2>0, <3>1, <3>2, PossessorOnly, GiveStep DEF IInv, Possesses
  <2>5. CASE \/ TryLock(c, v) \/ CheckOwner(c, v) \/ Spin(c, v)
             \/ SetCount(c, v) \/ SetOwner(c, v) \/ RefuseUnlock(c, v) \/ FetchIF(c, v)
             \/ ClearOwner(c, v) \/ ClearCount(c, v) \/ ClearIF(c, v) \/ RestoreIF(c, v)
    <3>1. hold' = hold
      BY <2>5 DEF TryLock, CheckOwner, Spin, SetCount, SetOwner, RefuseUnlock, FetchIF,
                  ClearOwner, ClearCount, ClearIF, RestoreIF, caller
    <3> QED
      BY <3>1, StutterStep
  <2> QED
    BY <1>2, <2>1, <2>2, <2>3, <2>4, <2>5 DEF Step
<1>3. ASSUME NEW c \in Core, \/ \E v \in Level : CallStep(c, v)
                             \/ SwitchInterrupts(c) \/ Interrupt(c) \/ EndOfInterrupt(c)
      PROVE  [Abstract!Next]_(Abstract!lockVars)
  <2>1. hold' = hold
    BY <1>3 DEF CallStep, CallLock, CallUnlock, SwitchInterrupts, Interrupt,
                EndOfInterrupt, caller
  <2> QED
    BY <2>1, StutterStep
<1>4. CASE UNCHANGED vars
  BY <1>4, StutterStep DEF vars, caller
<1> QED
  BY <1>2, <1>3, <1>4 DEF Next, CoreStep

\* kLockForSpinLock and kUnlockForSpinLock implement the reentrant lock their
\* callers see, an unlock by another core changing nothing.
THEOREM ImplementsReentrantLockHolds == Spec => ImplementsReentrantLock
<1>1. IInv => TypeOK
  BY DEF IInv
<1>2. IInv /\ IInv' /\ [Next]_vars => [Abstract!Next]_(Abstract!lockVars)
  BY AbstractStep DEF IInv
<1> QED
  BY <1>1, <1>2, AbstractInit, Invariance, PTL
     DEF Spec, ImplementsReentrantLock, Abstract!Spec
===============================================================================
