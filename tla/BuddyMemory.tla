----------------------------- MODULE BuddyMemory -----------------------------
(***************************************************************************)
(* The kernel's dynamic memory (02.Kernel64/Source/DynamicMemory.c): a     *)
(* buddy allocator whose bitmaps are guarded by a spin lock, while the     *)
(* table of block sizes and the count of used memory are not.  A critical  *)
(* section of the lock is one action (module SpinLock), an unguarded       *)
(* access to shared memory is one action of its own.                       *)
(*                                                                         *)
(* Addresses and sizes are in units of DYNAMICMEMORY_MIN_SIZE.  Block      *)
(* <<i, o>> is number o of block list i, made of Size[i] units.  The code  *)
(* computes that size as an int, which overflows for a list of 2 GB.       *)
(***************************************************************************)
EXTENDS Integers, FiniteSets

CONSTANTS
    Task,       \* the tasks (of any core) that allocate
    iBlockCountOfSmallestBlock,
    Start,      \* qwStartAddress
    QWORD,      \* 2^64 bytes, in units: a QWORD wraps around
    INTList,    \* the list whose block size is the sign bit of an int: 21
    QWORDBits, BYTEBits,    \* 64 and 8
    NULL,       \* no block
    Unused,     \* 0xFF: not the start of an allocated block
    MaxBlocks,  \* bound: how many blocks a task holds
    MaxLost     \* bound: how many updates of qwUsedSize are lost

ASSUME SizeAssumption ==
    /\ iBlockCountOfSmallestBlock \in Nat \ {0}
    /\ Start \in Nat /\ QWORD \in Nat /\ Start + 2 * iBlockCountOfSmallestBlock < QWORD
    /\ INTList \in Nat
    /\ BYTEBits \in Nat \ {0} /\ QWORDBits \in Nat \ {0} /\ QWORDBits % BYTEBits = 0
ASSUME MarkAssumption ==
    NULL \notin Task /\ NULL \notin (Nat \X Nat) /\ Unused \notin Nat

VARIABLES
    Exist,      \* the free blocks: the bits that are DYNAMICMEMORY_EXIST
    pbAllocatedBlockListIndex,  \* by unit: the list of the block allocated there
    qwUsedSize,
    pc,         \* where task t stands in the two functions
    block,      \* the block that t's call is about, or NULL
    used,       \* qwUsedSize as t has read it, until it writes it
    held,       \* held[t]: the blocks t has been given (the caller's side)
    lostUpdates \* how often a task has overwritten another's qwUsedSize

callers == <<held, lostUpdates>>
vars == <<Exist, pbAllocatedBlockListIndex, qwUsedSize, pc, block, used, callers>>

(***************************************************************************)
(* Blocks                                                                  *)
(***************************************************************************)
Unit == 0 .. iBlockCountOfSmallestBlock - 1
\* The units of a block of list i
Size[i \in 0 .. iBlockCountOfSmallestBlock] == IF i = 0 THEN 1 ELSE 2 * Size[i - 1]
BlockCount(i) == iBlockCountOfSmallestBlock \div Size[i]
iMaxLevelCount ==
    CHOOSE i \in 0 .. iBlockCountOfSmallestBlock :
        BlockCount(i) = 0 /\ \A j \in 0 .. i - 1 : BlockCount(j) > 0
Level == 0 .. iMaxLevelCount - 1
Block == UNION {{i} \X (0 .. BlockCount(i) - 1) : i \in Level}
Units(b) == b[2] * Size[b[1]] .. (b[2] + 1) * Size[b[1]] - 1
Address(b) == b[2] * Size[b[1]]
Buddy(b) == <<b[1], IF b[2] % 2 = 0 THEN b[2] + 1 ELSE b[2] - 1>>
Ancestor(b, n) == <<b[1] + n, b[2] \div Size[n]>>     \* n levels up

\* DYNAMICMEMORY_MIN_SIZE << i as the code has it: an int, made a QWORD.  That of
\* list INTList is negative, and at most 3 GB of memory are used, so that no list
\* comes after it.
IntSize(i) == IF i < INTList THEN Size[i] ELSE QWORD - Size[i]
ASSUME PoolAssumption == iMaxLevelCount <= INTList + 1

\* Is the caller's request one that no block list serves?
TooLarge(qwSize) == \A i \in Level : qwSize > IntSize(i)
kGetBlockListIndexOfMatchSize(qwSize) ==
    CHOOSE i \in Level : qwSize <= IntSize(i) /\ \A j \in 0 .. i - 1 : qwSize > IntSize(j)

\* The first free block of list i, or -1.  Where a whole QWORD of bits is left
\* it is tested at once, from the byte that the current bit is in.
kFindFreeBlockInBitmap(i) ==
    LET Bit(o) == <<i, o>> \in Exist
        QWORDIsZero(o) ==
            \A n \in (o \div BYTEBits) * BYTEBits .. (o \div BYTEBits) * BYTEBits + QWORDBits - 1 :
                ~Bit(n)
        find[o \in 0 .. BlockCount(i)] ==
            CASE o >= BlockCount(i) -> -1
              [] o < BlockCount(i) /\ (BlockCount(i) - o) \div QWORDBits > 0
                   /\ QWORDIsZero(o) -> find[o + QWORDBits]
              [] OTHER -> IF Bit(o) THEN o ELSE find[o + 1]
    IN  find[0]

Label == {"idle", "search", "setIndex", "addRead", "addWrite", "return",
          "clear", "merge", "subRead", "subWrite"}

TypeOK ==
    /\ Exist \subseteq Block
    /\ pbAllocatedBlockListIndex \in [Unit -> Level \cup {Unused}]
    /\ qwUsedSize \in 0 .. QWORD - 1
    /\ pc \in [Task -> Label]
    /\ block \in [Task -> Block \cup {NULL}]
    /\ used \in [Task -> 0 .. QWORD - 1]
    /\ held \in [Task -> SUBSET Block]
    /\ lostUpdates \in Nat

\* The pool in the largest blocks there are: the last block of every list with
\* an odd number of them.
InitialBlocks == {<<i, BlockCount(i) - 1>> : i \in {j \in Level : BlockCount(j) % 2 = 1}}

\* kInitializeDynamicMemory
Init ==
    /\ Exist = InitialBlocks
    /\ pbAllocatedBlockListIndex = [u \in Unit |-> Unused]
    /\ qwUsedSize = 0
    /\ pc = [t \in Task |-> "idle"]
    /\ block = [t \in Task |-> NULL]
    /\ used = [t \in Task |-> 0]
    /\ held = [t \in Task |-> {}]
    /\ lostUpdates = 0

Goto(t, from, to) == pc[t] = from /\ pc' = [pc EXCEPT ![t] = to]
SetBlock(t, b) == block' = [block EXCEPT ![t] = b]

(***************************************************************************)
(* kAllocateMemory                                                         *)
(***************************************************************************)
\* Mutant of NoSpace: the last unit is not used.
NoSpaceAtEnd(i) ==
    (Start + qwUsedSize + IntSize(i)) % QWORD >= Start + iBlockCountOfSmallestBlock

\* Is the memory in use too much for qwSize more?
NoSpace(i) ==
    (Start + qwUsedSize + IntSize(i)) % QWORD > Start + iBlockCountOfSmallestBlock

\* The wanted block list is kept as block 0 of it, until a block is found.
kAllocateMemory(t, qwSize) ==
    /\ pc[t] = "idle"
    /\ Cardinality(held[t]) < MaxBlocks
    /\ LET i == kGetBlockListIndexOfMatchSize(qwSize)
       IN  IF TooLarge(qwSize) \/ NoSpace(i)
           THEN Goto(t, "idle", "return") /\ SetBlock(t, NULL)
           ELSE Goto(t, "idle", "search") /\ SetBlock(t, <<i, 0>>)
    /\ UNCHANGED <<Exist, pbAllocatedBlockListIndex, qwUsedSize, used, callers>>

\* Mutant of Split: the loop begins with the list of b itself.
SplitFromList(b, i) ==
    (Exist \ {b}) \cup {<<j, b[2] * Size[b[1] - j] + 1>> : j \in i .. b[1]}

\* Block b is taken out and halved until it is one of list i: of every half the
\* left one goes on and the right one becomes free.
Split(b, i) ==
    (Exist \ {b}) \cup {<<j, b[2] * Size[b[1] - j] + 1>> : j \in i .. b[1] - 1}

\* The first block of the smallest list that has any, under the spin lock.
kAllocationBuddyBlock(t) ==
    /\ pc[t] = "search"
    /\ LET i == block[t][1]
           Found == {j \in i .. iMaxLevelCount - 1 : kFindFreeBlockInBitmap(j) # -1}
       IN  IF Found = {}
           THEN Goto(t, "search", "return") /\ SetBlock(t, NULL) /\ UNCHANGED Exist
           ELSE LET j == CHOOSE k \in Found : \A l \in Found : k <= l
                    o == kFindFreeBlockInBitmap(j)
                IN  /\ Goto(t, "search", "setIndex")
                    /\ Exist' = Split(<<j, o>>, i)
                    /\ SetBlock(t, <<i, o * Size[j - i]>>)
    /\ UNCHANGED <<pbAllocatedBlockListIndex, qwUsedSize, used, callers>>

SetIndex(t) ==
    /\ Goto(t, "setIndex", "addRead")
    /\ pbAllocatedBlockListIndex' =
         [pbAllocatedBlockListIndex EXCEPT ![Address(block[t])] = block[t][1]]
    /\ UNCHANGED <<Exist, qwUsedSize, block, used, callers>>

\* qwUsedSize is read, and written without the lock.  (After MaxLost updates
\* have been lost, tasks read it only when none is about to write it.)
ReadUsedSize(t, from, to) ==
    /\ lostUpdates < MaxLost \/ \A u \in Task : pc[u] \notin {"addWrite", "subWrite"}
    /\ Goto(t, from, to)
    /\ used' = [used EXCEPT ![t] = qwUsedSize]
    /\ UNCHANGED <<Exist, pbAllocatedBlockListIndex, qwUsedSize, block, callers>>
WriteUsedSize(t, from, to, size) ==
    /\ Goto(t, from, to)
    /\ qwUsedSize' = size % QWORD
    /\ used' = [used EXCEPT ![t] = 0]
    /\ SetBlock(t, IF to = "idle" THEN NULL ELSE block[t])
    /\ lostUpdates' = lostUpdates + IF used[t] = qwUsedSize THEN 0 ELSE 1
    /\ UNCHANGED <<Exist, pbAllocatedBlockListIndex, held>>

\* The caller has the block, or NULL.
Return(t) ==
    /\ Goto(t, "return", "idle")
    /\ held' = [held EXCEPT ![t] = @ \cup ({block[t]} \ {NULL})]
    /\ SetBlock(t, NULL)
    /\ UNCHANGED <<Exist, pbAllocatedBlockListIndex, qwUsedSize, used, lostUpdates>>

(***************************************************************************)
(* kFreeMemory                                                             *)
(***************************************************************************)
\* The block of t's call that is neither free nor held.
InFlight(t) ==
    IF pc[t] \in {"setIndex", "addRead", "addWrite", "return", "clear", "merge"}
    THEN {block[t]} \ {NULL} ELSE {}

\* The block that the size table says is allocated at address u.
Recorded(u) ==
    <<pbAllocatedBlockListIndex[u], u \div Size[pbAllocatedBlockListIndex[u]]>>

\* A task frees what it holds.  Freeing once more what nobody holds any longer is
\* found out (returns FALSE).
kFreeMemory(t, u) ==
    /\ pc[t] = "idle"
    /\ \/ \E b \in held[t] : u = Address(b)
       \/ \A v \in Task : \A b \in held[v] \cup InFlight(v) : u \notin Units(b)
    /\ pbAllocatedBlockListIndex[u] # Unused
    /\ Goto(t, "idle", "clear") /\ SetBlock(t, Recorded(u))
    /\ held' = [held EXCEPT ![t] = {b \in @ : Address(b) # u}]
    /\ UNCHANGED <<Exist, pbAllocatedBlockListIndex, qwUsedSize, used, lostUpdates>>

\* Mutant of ClearIndex: the address can be freed again.
ClearNothing(t) ==
    LET u == Address(block[t]) IN
    /\ Goto(t, "clear", "merge")
    /\ SetBlock(t, Recorded(u))
    /\ UNCHANGED <<Exist, pbAllocatedBlockListIndex, qwUsedSize, used, callers>>

ClearIndex(t) ==
    LET u == Address(block[t]) IN
    /\ Goto(t, "clear", "merge")
    /\ SetBlock(t, Recorded(u))
    /\ pbAllocatedBlockListIndex' = [pbAllocatedBlockListIndex EXCEPT ![u] = Unused]
    /\ UNCHANGED <<Exist, qwUsedSize, used, callers>>

\* How often b and what it becomes are joined with their buddies.
Merges(b) ==
    CHOOSE n \in 0 .. iMaxLevelCount - b[1] :
        /\ \A m \in 0 .. n - 1 : Buddy(Ancestor(b, m)) \in Exist
        /\ b[1] + n = iMaxLevelCount \/ Buddy(Ancestor(b, n)) \notin Exist

\* Mutant of kFreeBuddyBlock: the buddies that were joined are left free.
FreeWithoutJoining(t) ==
    LET b == block[t]
        n == Merges(b)
    IN  /\ Goto(t, "merge", "subRead")
        /\ Exist' = Exist \cup (IF b[1] + n = iMaxLevelCount THEN {} ELSE {Ancestor(b, n)})
        /\ UNCHANGED <<pbAllocatedBlockListIndex, qwUsedSize, block, used, callers>>

\* Under the spin lock.  Joined in the last list, a block would be in none.
kFreeBuddyBlock(t) ==
    LET b == block[t]
        n == Merges(b)
    IN  /\ Goto(t, "merge", "subRead")
        /\ Exist' = (Exist \ {Buddy(Ancestor(b, m)) : m \in 0 .. n - 1})
                      \cup (IF b[1] + n = iMaxLevelCount THEN {} ELSE {Ancestor(b, n)})
        /\ UNCHANGED <<pbAllocatedBlockListIndex, qwUsedSize, block, used, callers>>

(***************************************************************************)
(* The specification                                                       *)
(***************************************************************************)
\* A size is only compared with those of the lists: it is as good as the size of
\* the list that serves it, or too large for all.
Request == {IntSize(i) : i \in Level} \cup {QWORD - 1}

Allocate(t) ==
    \/ \E qwSize \in Request : kAllocateMemory(t, qwSize)
    \/ kAllocationBuddyBlock(t) \/ SetIndex(t)
    \/ ReadUsedSize(t, "addRead", "addWrite")
    \/ WriteUsedSize(t, "addWrite", "return", used[t] + IntSize(block[t][1]))
    \/ Return(t)

Free(t) ==
    \/ \E u \in Unit : kFreeMemory(t, u)
    \/ ClearIndex(t) \/ kFreeBuddyBlock(t)
    \/ ReadUsedSize(t, "subRead", "subWrite")
    \/ WriteUsedSize(t, "subWrite", "idle", used[t] + QWORD - IntSize(block[t][1]))

Next == \E t \in Task : Allocate(t) \/ Free(t)

Spec == Init /\ [][Next]_vars

(***************************************************************************)
(* Properties                                                              *)
(***************************************************************************)
\* Every unit of the pool is in exactly one block: one that is free, or that one
\* task holds or is getting or giving back.  So blocks never overlap, none is
\* given out twice and none is lost, whatever the size of the pool.
Claims ==
    ({NULL} \X Exist) \cup UNION {{t} \X (held[t] \cup InFlight(t)) : t \in Task}
PoolIsPartitioned ==
    \A u \in Unit : Cardinality({c \in Claims : u \in Units(c[2])}) = 1

\* Neighbours that are both free have been joined: memory does not stay in
\* pieces after it is given back, and in the end the pool is as it was.
FreeBuddiesMerged == \A b \in Exist : Buddy(b) \notin Exist

\* qwUsedSize is what is allocated, unless two tasks wrote it at the same time.
\* A block of 2 GB in use is subtracted from it instead, until it is freed.
Accounted ==
    UNION {{t} \X (held[t] \cup
                   IF pc[t] \in {"return", "clear", "merge", "subRead", "subWrite"}
                   THEN {block[t]} \ {NULL} ELSE {}) : t \in Task}
CountedRight == lostUpdates = 0 /\ \A c \in Accounted : c[2][1] < INTList
UsedSizeIsAccurate ==
    CountedRight =>
        qwUsedSize = Cardinality(UNION {{c} \X Units(c[2]) : c \in Accounted}) % QWORD

\* The pool is whole, joined as far as it can be, and counted right.
PoolIsConsistent == PoolIsPartitioned /\ FreeBuddiesMerged /\ UsedSizeIsAccurate

\* A task that calls alone is refused memory only if there is no free block that
\* is large enough: neither the check of the used size nor the search misses one.
\* (Unless updates of the used size have been lost, or what is in use or asked for
\* is a block of 2 GB.)
Refused(t, i) ==
    /\ pc'[t] = "return" /\ block'[t] = NULL
    /\ kAllocateMemory(t, Size[i]) \/ (pc[t] = "search" /\ block[t] = <<i, 0>>)
RefusedOnlyWhenFull == [][
    (\A u \in Task : pc[u] \in {"idle", "search"}) /\ CountedRight
    => \A t \in Task, i \in {j \in Level : j < INTList} :
           Refused(t, i) => \A b \in Exist : b[1] < i]_vars

\* To its callers it is an allocator.
Abstract == INSTANCE Allocator WITH
    allocated <- [t \in Task |-> {Units(b) : b \in held[t]}]
ImplementsAllocator == Abstract!Spec
===============================================================================
