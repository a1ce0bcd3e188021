-------------------------- MODULE BuddyMemoryProofs --------------------------
(***************************************************************************)
(* Proofs about module BuddyMemory, for a pool of any size, any number of  *)
(* tasks and any interleaving of their calls: the blocks that are free,    *)
(* held or on their way partition the pool, free buddies are joined, the   *)
(* size table and the used size are right, no request that a free block    *)
(* could serve is refused, and callers see the allocator of Allocator.     *)
(*                                                                         *)
(* The order is: numbers; sizes and lists; splitting and joining; the      *)
(* search of a bitmap; the invariant; exchanges of blocks between owners;  *)
(* one lemma per action; the theorems.                                     *)
(***************************************************************************)
EXTENDS BuddyMemory, FiniteSetTheorems, WellFoundedInduction, TLAPS

(***************************************************************************)
(* Natural numbers                                                         *)
(***************************************************************************)
\* A set of natural numbers has a least one.
LEMMA Least ==
    ASSUME NEW T \in SUBSET Nat, T # {}
    PROVE  \E x \in T : \A y \in T : x <= y
<1> DEFINE R == {ss \in Nat \X Nat : ss[1] < ss[2]}
<1>1. IsWellFoundedOn(R, Nat)
  BY NatLessThanWellFounded DEF OpToRel
<1> HIDE DEF R
<1>2. PICK x \in T : \A y \in T : ~(<<y, x>> \in R)
  BY <1>1, WFMin
<1>3. ASSUME NEW y \in T PROVE x <= y
  <2>1. x \in Nat /\ y \in Nat
    OBVIOUS
  <2>2. ~(<<y, x>> \in R)
    BY <1>2
  <2>3. ~(y < x)
    BY <2>1, <2>2 DEF R
  <2>. QED
    BY <2>1, <2>3
<1>. QED
  BY <1>3

\* A set that has 0, and with every number below n the next one, has all up to n.
LEMMA Induction ==
    ASSUME NEW n \in Nat, NEW S, 0 \in S, \A m \in 0 .. n - 1 : m \in S => m + 1 \in S
    PROVE  \A m \in 0 .. n : m \in S
<1> SUFFICES ASSUME NEW k \in 0 .. n, k \notin S PROVE FALSE
  OBVIOUS
<1> DEFINE T == {m \in 0 .. n : m \notin S}
<1>1. T \in SUBSET Nat /\ T # {}
  OBVIOUS
<1>2. PICK x \in T : \A y \in T : x <= y
  BY <1>1, Least
<1>3. x \in 0 .. n /\ x \notin S /\ x # 0
  OBVIOUS
<1>4. x - 1 \in 0 .. n - 1 /\ x - 1 \in 0 .. n /\ x - 1 + 1 = x /\ ~(x <= x - 1)
  BY <1>3
<1>5. x - 1 \in S
  BY <1>2, <1>4
<1>. QED
  BY <1>3, <1>4, <1>5

\* Multiplying by a size keeps the order.
LEMMA Times == ASSUME NEW a \in Nat, NEW b \in Nat, NEW w \in Nat, a <= b PROVE a * w <= b * w
OBVIOUS

\* A number made of y times w and a rest gives both back, ...
LEMMA Divided ==
    ASSUME NEW w \in Nat \ {0}, NEW y \in Nat, NEW x \in 0 .. w - 1
    PROVE  (y * w + x) % w = x /\ (y * w + x) \div w = y
OBVIOUS

\* ... and every number is made so.
LEMMA Division ==
    ASSUME NEW w \in Nat \ {0}, NEW o \in Nat
    PROVE  /\ o % w \in 0 .. w - 1 /\ o \div w \in Nat
           /\ o = (o \div w) * w + (o % w)
OBVIOUS

\* How often w goes into n
LEMMA Quotient ==
    ASSUME NEW w \in Nat \ {0}, NEW n \in Nat, NEW o \in Nat
    PROVE  o < n \div w <=> (o + 1) * w <= n
<1> DEFINE q == n \div w
           r == n % w
<1>1. q \in Nat /\ r \in 0 .. w - 1 /\ n = q * w + r
  BY Division
<1> HIDE DEF q, r
<1>2. CASE o < q
  <2>1. (o + 1) * w <= q * w
    BY <1>1, <1>2, Times
  <2>2. (o + 1) * w \in Nat /\ q * w \in Nat
    BY <1>1
  <2>. QED
    BY <1>1, <1>2, <2>1, <2>2 DEF q
<1>3. CASE q <= o
  <2>1. (q + 1) * w <= (o + 1) * w
    BY <1>1, <1>3, Times
  <2>2. (q + 1) * w = q * w + w /\ q * w \in Nat /\ (o + 1) * w \in Nat
    BY <1>1
  <2>3. n < (o + 1) * w
    BY <1>1, <2>1, <2>2
  <2>. QED
    BY <1>1, <1>3, <2>2, <2>3 DEF q
<1>. QED
  BY <1>1, <1>2, <1>3

\* A multiple of w more does not change the remainder.
LEMMA Remainder ==
    ASSUME NEW w \in Nat \ {0}, NEW y \in Nat, NEW x \in Nat
    PROVE  (y * w + x) % w = x % w
<1> DEFINE q == x \div w
           r == x % w
<1>1. q \in Nat /\ r \in 0 .. w - 1 /\ x = q * w + r
  BY Division
<1> HIDE DEF q, r
<1>2. y * w + x = (y + q) * w + r /\ y + q \in Nat
  BY <1>1
<1>3. ((y + q) * w + r) % w = r
  BY <1>1, <1>2, Divided
<1>. QED
  BY <1>2, <1>3 DEF r

\* A remainder may be taken before or after a sum or a difference (a QWORD wraps).
LEMMA SumRemainder ==
    ASSUME NEW w \in Nat \ {0}, NEW x \in Nat, NEW s \in Nat
    PROVE  /\ ((x % w) + s) % w = (x + s) % w
           /\ s <= w /\ s <= x => ((x % w) + w - s) % w = (x - s) % w
<1> DEFINE q == x \div w
           r == x % w
<1>1. q \in Nat /\ r \in 0 .. w - 1 /\ x = q * w + r
  BY Division
<1> HIDE DEF q, r
<1>2. x + s = q * w + (r + s) /\ r + s \in Nat
  BY <1>1
<1>3. (r + s) % w = (x + s) % w
  <2> DEFINE d == r + s
  <2>1. d \in Nat
    BY <1>2
  <2> HIDE DEF d
  <2>2. (q * w + d) % w = d % w
    BY <1>1, <2>1, Remainder
  <2>. QED
    BY <1>2, <2>2 DEF d
<1>4. ASSUME s <= w, s <= x PROVE (r + w - s) % w = (x - s) % w
  <2>1. CASE q = 0
    <3> DEFINE d == x - s
    <3>1. d \in Nat /\ r + w - s = 1 * w + d
      BY <1>1, <1>4, <2>1
    <3> HIDE DEF d
    <3>2. (1 * w + d) % w = d % w
      BY <3>1, Remainder
    <3>. QED
      BY <3>1, <3>2 DEF d
  <2>2. CASE q # 0
    <3>1. q - 1 \in Nat /\ r + w - s \in Nat
      BY <1>1, <1>4, <2>2
    <3>2. q * w = (q - 1) * w + w
      BY <1>1, <2>2
    <3>3. (q - 1) * w \in Nat /\ q * w \in Nat
      BY <1>1, <3>1
    <3>4. x - s = (q - 1) * w + (r + w - s)
      BY <1>1, <3>1, <3>2, <3>3
    <3> DEFINE d == r + w - s
    <3>5. d \in Nat
      BY <3>1
    <3> HIDE DEF d
    <3>6. ((q - 1) * w + d) % w = d % w
      BY <3>1, <3>5, Remainder
    <3>. QED
      BY <3>4, <3>6 DEF d
  <2>. QED
    BY <2>1, <2>2
<1>. QED
  BY <1>3, <1>4 DEF r

\* What is added to u, or subtracted from it, as remainders
Keeps(w, u, y, s) ==
    /\ \A x \in Nat : (u + y) % w = x % w => (((u + s) % w) + y) % w = (x + s) % w
    /\ (((u + (w - s)) % w) + (y + s)) % w = (u + y) % w
    /\ \A x \in Nat : (u + y) % w = (x + s) % w => (((u + (w - s)) % w) + y) % w = x % w
    /\ (((u + s) % w) + y) % w = (u + (y + s)) % w

\* What is added to (or subtracted from) both u + y and x keeps their remainders
\* equal; what moves from u to y does not change the remainder of u + y.
LEMMA CountIsKept ==
    ASSUME NEW w \in Nat \ {0}, NEW u \in Nat, NEW y \in Nat, NEW s \in Nat, s <= w
    PROVE  Keeps(w, u, y, s)
<1> DEFINE g == w - s
           v == u + y
<1>0. g \in Nat /\ v \in Nat /\ u + s \in Nat /\ u + g \in Nat /\ y + s \in Nat
      /\ w = g + s
  OBVIOUS
<1> HIDE DEF g
<1>1. (((u + s) % w) + y) % w = (v + s) % w
  <2> DEFINE d == u + s
  <2>1. d \in Nat /\ d + y = v + s
    BY <1>0
  <2> HIDE DEF d, v
  <2>2. ((d % w) + y) % w = (d + y) % w
    BY <2>1, SumRemainder
  <2>. QED
    BY <2>1, <2>2 DEF d
<1>2. (((u + g) % w) + y) % w = (v + g) % w
  <2> DEFINE d == u + g
  <2>1. d \in Nat /\ d + y = v + g
    BY <1>0
  <2> HIDE DEF d, v
  <2>2. ((d % w) + y) % w = (d + y) % w
    BY <2>1, SumRemainder
  <2>. QED
    BY <2>1, <2>2 DEF d
<1>3. (((u + g) % w) + (y + s)) % w = v % w
  <2> DEFINE d == u + g
             z == y + s
  <2>1. d \in Nat /\ z \in Nat /\ d + z = 1 * w + v
    BY <1>0
  <2> HIDE DEF d, z, v
  <2>2. ((d % w) + z) % w = (d + z) % w
    BY <2>1, SumRemainder
  <2>3. (1 * w + v) % w = v % w
    BY <1>0, Remainder
  <2>. QED
    BY <2>1, <2>2, <2>3 DEF d, z
<1>4. ASSUME NEW x \in Nat, v % w = x % w PROVE (v + s) % w = (x + s) % w
  <2> HIDE DEF v
  <2>1. ((v % w) + s) % w = (v + s) % w
    BY <1>0, SumRemainder
  <2>2. ((x % w) + s) % w = (x + s) % w
    BY <1>0, SumRemainder
  <2>. QED
    BY <1>4, <2>1, <2>2
<1>8. ASSUME NEW z \in Nat PROVE ((z % w) + g) % w = (z + g) % w
  BY <1>0, SumRemainder
<1>5. ASSUME NEW x \in Nat, v % w = (x + s) % w PROVE (v + g) % w = x % w
  <2> DEFINE z == x + s
  <2>0. z \in Nat
    OBVIOUS
  <2>1. z + g = 1 * w + x
    BY <1>0
  <2> HIDE DEF v, z
  <2>2. ((v % w) + g) % w = (v + g) % w
    BY <1>0, SumRemainder
  <2>4. ((z % w) + g) % w = (z + g) % w
    BY <2>0, <1>8
  <2>3. (1 * w + x) % w = x % w
    BY Remainder
  <2>. QED
    BY <1>5, <2>1, <2>2, <2>3, <2>4 DEF z
<1>6. v + s = u + (y + s)
  BY <1>0
<1>. QED
  BY <1>1, <1>2, <1>3, <1>4, <1>5, <1>6 DEF g, Keeps

(***************************************************************************)
(* The sizes of blocks and the block lists                                 *)
(***************************************************************************)
LEMMA Pool == iBlockCountOfSmallestBlock \in Nat /\ iBlockCountOfSmallestBlock > 0
BY SizeAssumption

\* The recursion that defines the sizes has a solution, ...
LEMMA SizeExists ==
    \E f : f = [i \in 0 .. iBlockCountOfSmallestBlock |-> IF i = 0 THEN 1 ELSE 2 * f[i - 1]]
<1> DEFINE Up(n) == \E f : f = [i \in 0 .. n |-> IF i = 0 THEN 1 ELSE 2 * f[i - 1]]
           S == {n \in Nat : Up(n)}
<1>1. 0 \in S
  <2>1. [i \in 0 .. 0 |-> 1] = [i \in 0 .. 0 |-> IF i = 0 THEN 1 ELSE 2 * [k \in 0 .. 0 |-> 1][i - 1]]
    OBVIOUS
  <2>. QED
    BY <2>1
<1>2. ASSUME NEW m \in Nat, m \in S PROVE m + 1 \in S
  <2>1. PICK f : f = [i \in 0 .. m |-> IF i = 0 THEN 1 ELSE 2 * f[i - 1]]
    BY <1>2
  <2> DEFINE g == [i \in 0 .. m + 1 |-> IF i = m + 1 THEN 2 * f[m] ELSE f[i]]
  <2>2. ASSUME NEW i \in 0 .. m + 1
        PROVE  g[i] = IF i = 0 THEN 1 ELSE 2 * g[i - 1]
    <3>1. CASE i = m + 1
      <4>1. i - 1 = m /\ m \in 0 .. m + 1 /\ m # m + 1 /\ i # 0
        BY <3>1
      <4>2. g[i] = 2 * f[m] /\ g[m] = f[m]
        BY <3>1, <4>1
      <4>. QED
        BY <4>1, <4>2
    <3>2. CASE i # m + 1
      <4>1. i \in 0 .. m
        BY <3>2
      <4>2. g[i] = f[i]
        BY <3>2
      <4>3. f[i] = IF i = 0 THEN 1 ELSE 2 * f[i - 1]
        BY <2>1, <4>1
      <4>4. CASE i = 0
        BY <4>2, <4>3, <4>4
      <4>5. CASE i # 0
        <5>1. i - 1 \in 0 .. m + 1 /\ i - 1 # m + 1
          BY <4>1, <4>5
        <5>2. g[i - 1] = f[i - 1]
          BY <5>1
        <5>. QED
          BY <4>2, <4>3, <4>5, <5>2
      <4>. QED
        BY <4>4, <4>5
    <3>. QED
      BY <3>1, <3>2
  <2>3. g = [i \in 0 .. m + 1 |-> g[i]]
    OBVIOUS
  <2> HIDE DEF g
  <2>4. g = [i \in 0 .. m + 1 |-> IF i = 0 THEN 1 ELSE 2 * g[i - 1]]
    BY <2>2, <2>3
  <2>5. Up(m + 1)
    BY <2>4, Zenon
  <2> HIDE DEF Up
  <2>. QED
    BY <2>5
<1> HIDE DEF S
<1>3. iBlockCountOfSmallestBlock \in S
  BY <1>1, <1>2, Pool, Induction
<1>. QED
  BY <1>3 DEF S

\* ... so that the block size doubles from list to list.
LEMMA SizeIs ==
    \A i \in 0 .. iBlockCountOfSmallestBlock : Size[i] = IF i = 0 THEN 1 ELSE 2 * Size[i - 1]
<1>1. Size = [i \in 0 .. iBlockCountOfSmallestBlock |-> IF i = 0 THEN 1 ELSE 2 * Size[i - 1]]
  BY SizeExists, Zenon DEF Size
<1> SUFFICES ASSUME NEW k \in 0 .. iBlockCountOfSmallestBlock
             PROVE  Size[k] = IF k = 0 THEN 1 ELSE 2 * Size[k - 1]
  OBVIOUS
<1>. QED
  BY <1>1, Zenon

\* DYNAMICMEMORY_MIN_SIZE << i: a natural number larger than i.
LEMMA SizeDoubles ==
    /\ Size[0] = 1
    /\ \A i \in 0 .. iBlockCountOfSmallestBlock :
         Size[i] \in Nat /\ i < Size[i]
    /\ \A i \in 0 .. iBlockCountOfSmallestBlock - 1 : Size[i + 1] = 2 * Size[i]
<1> DEFINE N == iBlockCountOfSmallestBlock
           S == {i \in 0 .. N : Size[i] \in Nat /\ i < Size[i]}
<1>1. Size[0] = 1
  BY SizeIs, Pool
<1>2. ASSUME NEW i \in 0 .. N - 1 PROVE Size[i + 1] = 2 * Size[i]
  <2>1. i + 1 \in 0 .. N /\ i + 1 # 0 /\ i + 1 - 1 = i
    BY Pool
  <2>. QED
    BY <2>1, SizeIs
<1>3. \A i \in 0 .. N : i \in S
  <2>1. 0 \in S
    BY <1>1, Pool
  <2>2. ASSUME NEW i \in 0 .. N - 1, i \in S PROVE i + 1 \in S
    BY <1>2, <2>2, Pool
  <2> HIDE DEF S
  <2>. QED
    BY <2>1, <2>2, Pool, Induction
<1>. QED
  BY <1>1, <1>2, <1>3

\* A later list has larger blocks.
LEMMA SizeGrows ==
    ASSUME NEW i \in 0 .. iBlockCountOfSmallestBlock, NEW j \in 0 .. i
    PROVE  Size[j] <= Size[i] /\ (j < i => Size[j] < Size[i])
<1> DEFINE N == iBlockCountOfSmallestBlock
           S == {k \in 0 .. N : j <= k => Size[j] <= Size[k] /\ (j < k => Size[j] < Size[k])}
<1>1. j \in 0 .. N
  BY Pool
<1>2. 0 \in S
  BY <1>1, SizeDoubles, Pool
<1>3. ASSUME NEW k \in 0 .. N - 1, k \in S PROVE k + 1 \in S
  <2>1. /\ k + 1 \in 0 .. N /\ Size[k + 1] = 2 * Size[k] /\ Size[k] \in Nat /\ Size[k] > 0
        /\ Size[j] \in Nat
    BY <1>1, SizeDoubles, Pool
  <2>2. CASE j <= k
    BY <1>3, <2>1, <2>2
  <2>3. CASE j = k + 1
    BY <2>1, <2>3
  <2>4. CASE j > k + 1
    BY <2>1, <2>4
  <2>. QED
    BY <1>1, <2>2, <2>3, <2>4
<1>4. \A k \in 0 .. N : k \in S
  <2> HIDE DEF S
  <2>. QED
    BY <1>2, <1>3, Pool, Induction
<1>. QED
  BY <1>4, Pool

(***************************************************************************)
(* Blocks and their units                                                  *)
(***************************************************************************)
\* A block of a list that the pool may or may not have
Shape == (0 .. iBlockCountOfSmallestBlock) \X Nat

\* The numbers that make up a block
LEMMA ShapeIs ==
    ASSUME NEW b \in Shape
    PROVE  /\ b[1] \in 0 .. iBlockCountOfSmallestBlock /\ b[2] \in Nat
           /\ Size[b[1]] \in Nat \ {0} /\ b = <<b[1], b[2]>>
           /\ b[2] * Size[b[1]] \in Nat /\ (b[2] + 1) * Size[b[1]] \in Nat
           /\ (b[2] + 1) * Size[b[1]] = b[2] * Size[b[1]] + Size[b[1]]
<1>1. b[1] \in 0 .. iBlockCountOfSmallestBlock /\ b[2] \in Nat /\ b = <<b[1], b[2]>>
  BY DEF Shape
<1> DEFINE s == Size[b[1]]
           o == b[2]
<1>2. s \in Nat \ {0} /\ o \in Nat
  BY <1>1, SizeDoubles, Pool
<1> HIDE DEF s, o
<1>3. o * s \in Nat /\ (o + 1) * s \in Nat /\ (o + 1) * s = o * s + s
  BY <1>2
<1>. QED
  BY <1>1, <1>2, <1>3 DEF s, o

\* How many lists there are
LEMMA Levels ==
    /\ iMaxLevelCount \in 1 .. iBlockCountOfSmallestBlock
    /\ BlockCount(iMaxLevelCount) = 0
    /\ \A i \in Level : BlockCount(i) > 0
<1> DEFINE N == iBlockCountOfSmallestBlock
           P(i) == BlockCount(i) = 0 /\ \A j \in 0 .. i - 1 : BlockCount(j) > 0
           T == {i \in 0 .. N : BlockCount(i) = 0}
<1>1. \A i \in 0 .. N : BlockCount(i) \in Nat /\ Size[i] \in Nat \ {0}
  <2> SUFFICES ASSUME NEW i \in 0 .. N PROVE BlockCount(i) \in Nat /\ Size[i] \in Nat \ {0}
    OBVIOUS
  <2>1. Size[i] \in Nat \ {0}
    BY SizeDoubles, Pool
  <2>. QED
    BY <2>1, Pool, Division DEF BlockCount
<1>2. BlockCount(N) = 0
  <2> DEFINE q == BlockCount(N)
  <2>1. N < Size[N] /\ Size[N] \in Nat \ {0} /\ q \in Nat
    BY <1>1, SizeDoubles, Pool
  <2>2. ~(0 < q)
    <3>1. 0 < q <=> (0 + 1) * Size[N] <= N
      BY <2>1, Pool, Quotient DEF BlockCount
    <3>2. (0 + 1) * Size[N] = Size[N]
      BY <2>1
    <3>. QED
      BY <2>1, <3>1, <3>2, Pool
  <2> HIDE DEF q
  <2>3. q = 0
    BY <2>1, <2>2
  <2>. QED
    BY <2>3 DEF q
<1>3. PICK x \in T : \A y \in T : x <= y
  <2>1. T \in SUBSET Nat /\ N \in T
    BY <1>2, Pool
  <2> HIDE DEF T
  <2>. QED
    BY <2>1, Least
<1>4. P(x)
  <2>1. x \in 0 .. N /\ BlockCount(x) = 0
    BY <1>3
  <2>2. ASSUME NEW j \in 0 .. x - 1 PROVE BlockCount(j) > 0
    <3>1. j \in 0 .. N /\ ~(x <= j)
      BY <2>1, Pool
    <3>2. BlockCount(j) # 0
      BY <1>3, <3>1
    <3>. QED
      BY <1>1, <3>1, <3>2
  <2>. QED
    BY <2>1, <2>2
<1>5. iMaxLevelCount = CHOOSE i \in 0 .. N : P(i)
  BY DEF iMaxLevelCount
<1>6. iMaxLevelCount \in 0 .. N /\ P(iMaxLevelCount)
  <2>1. x \in 0 .. N
    BY <1>3
  <2> HIDE DEF P
  <2>. QED
    BY <1>4, <1>5, <2>1
<1>7. iMaxLevelCount # 0
  <2>1. BlockCount(0) = N
    BY SizeDoubles, Pool DEF BlockCount
  <2>. QED
    BY <1>6, <2>1, Pool
<1>. QED
  BY <1>6, <1>7, Pool DEF Level

\* A list of the pool has a size and at least one block.
LEMMA ListOf ==
    ASSUME NEW i \in Level
    PROVE  /\ i \in 0 .. iBlockCountOfSmallestBlock - 1 /\ i \in 0 .. iBlockCountOfSmallestBlock
           /\ Size[i] \in Nat \ {0} /\ BlockCount(i) \in Nat \ {0}
<1>1. i \in 0 .. iBlockCountOfSmallestBlock - 1 /\ BlockCount(i) > 0
  BY Levels, Pool DEF Level
<1>2. Size[i] \in Nat \ {0}
  BY <1>1, SizeDoubles, Pool
<1>3. BlockCount(i) \in Nat
  BY <1>2, Pool, Division DEF BlockCount
<1>. QED
  BY <1>1, <1>2, <1>3, Pool

\* The blocks of the pool are those that end in it.
LEMMA BlockIs ==
    ASSUME NEW b
    PROVE  b \in Block <=> b \in Shape /\ (b[2] + 1) * Size[b[1]] <= iBlockCountOfSmallestBlock
<1> DEFINE N == iBlockCountOfSmallestBlock
<1>1. b \in Block <=> b \in Level \X Nat /\ b[2] < BlockCount(b[1])
  <2>1. \A i \in Level : BlockCount(i) \in Nat
    <3> SUFFICES ASSUME NEW i \in Level PROVE BlockCount(i) \in Nat
      OBVIOUS
    <3>1. Size[i] \in Nat \ {0}
      BY Levels, SizeDoubles, Pool DEF Level
    <3>. QED
      BY <3>1, Pool, Division DEF BlockCount
  <2>2. b \in Block => b \in Level \X Nat /\ b[2] < BlockCount(b[1])
    <3> SUFFICES ASSUME b \in Block PROVE b \in Level \X Nat /\ b[2] < BlockCount(b[1])
      OBVIOUS
    <3>1. PICK i \in Level : b \in {i} \X (0 .. BlockCount(i) - 1)
      BY DEF Block
    <3>. QED
      BY <2>1, <3>1
  <2>3. b \in Level \X Nat /\ b[2] < BlockCount(b[1]) => b \in Block
    <3> SUFFICES ASSUME b \in Level \X Nat, b[2] < BlockCount(b[1]) PROVE b \in Block
      OBVIOUS
    <3>1. b[1] \in Level /\ b \in {b[1]} \X (0 .. BlockCount(b[1]) - 1)
      BY <2>1
    <3>. QED
      BY <3>1 DEF Block
  <2>. QED
    BY <2>2, <2>3
<1>2. ASSUME b \in Shape
      PROVE  b[2] < BlockCount(b[1]) <=> (b[2] + 1) * Size[b[1]] <= N
  BY <1>2, ShapeIs, Pool, Quotient DEF BlockCount
<1>3. b \in Level \X Nat => b \in Shape
  BY Levels, Pool DEF Shape, Level
<1>4. ASSUME b \in Shape, (b[2] + 1) * Size[b[1]] <= N PROVE b[1] \in Level
  <2>1. Size[b[1]] <= N
    BY <1>4, ShapeIs, Pool
  <2>2. CASE b[1] >= iMaxLevelCount
    <3>1. b[1] \in 0 .. N /\ iMaxLevelCount \in 0 .. b[1] /\ iMaxLevelCount \in 0 .. N
      BY <1>4, <2>2, ShapeIs, Levels, Pool
    <3>2. Size[iMaxLevelCount] <= Size[b[1]] /\ Size[iMaxLevelCount] \in Nat \ {0}
      BY <3>1, SizeGrows, SizeDoubles, Pool
    <3>3. Size[iMaxLevelCount] <= N
      BY <1>4, <2>1, <3>2, ShapeIs, Pool
    <3>4. 0 < BlockCount(iMaxLevelCount) <=> (0 + 1) * Size[iMaxLevelCount] <= N
      BY <3>2, Pool, Quotient DEF BlockCount
    <3>5. (0 + 1) * Size[iMaxLevelCount] = Size[iMaxLevelCount]
      BY <3>2
    <3>. QED
      BY <3>3, <3>4, <3>5, Levels
  <2>. QED
    BY <1>4, <2>2, ShapeIs, Levels DEF Level
<1>5. ASSUME b \in Shape, (b[2] + 1) * Size[b[1]] <= N PROVE b \in Level \X Nat
  BY <1>4, <1>5, ShapeIs
<1>. QED
  BY <1>1, <1>2, <1>3, <1>5

\* The units of a block, by its list and number
LEMMA UnitsAre ==
    ASSUME NEW b \in Shape, NEW u
    PROVE  /\ u \in Units(b) <=> u \in Nat /\ u \div Size[b[1]] = b[2]
           /\ Address(b) \in Units(b) /\ Units(b) \subseteq Nat
<1> DEFINE s == Size[b[1]]
           o == b[2]
<1>1. s \in Nat \ {0} /\ o \in Nat /\ o * s \in Nat /\ (o + 1) * s = o * s + s
  BY ShapeIs
<1>2. Units(b) = o * s .. (o + 1) * s - 1 /\ Address(b) = o * s
  BY DEF Units, Address
<1> HIDE DEF s, o
<1>3. ASSUME u \in Units(b) PROVE u \in Nat /\ u \div s = o
  <2>1. u \in Nat /\ u - o * s \in 0 .. s - 1 /\ u = o * s + (u - o * s)
    BY <1>1, <1>2, <1>3
  <2> DEFINE x == u - o * s
  <2>2. x \in 0 .. s - 1 /\ u = o * s + x
    BY <2>1
  <2> HIDE DEF x
  <2>3. (o * s + x) \div s = o
    BY <1>1, <2>2, Divided
  <2>. QED
    BY <2>1, <2>2, <2>3
<1>4. ASSUME u \in Nat, u \div s = o PROVE u \in Units(b)
  <2>0. u = (u \div s) * s + (u % s) /\ u % s \in 0 .. s - 1
    BY <1>1, <1>4, Division
  <2>1. u = o * s + (u % s) /\ u % s \in 0 .. s - 1
    BY <1>4, <2>0
  <2>. QED
    BY <1>1, <1>2, <1>4, <2>1
<1>5. Address(b) \in Units(b) /\ Units(b) \subseteq Nat
  BY <1>1, <1>2
<1>. QED
  BY <1>3, <1>4, <1>5 DEF s, o

\* A block of the pool has its units in the pool.
LEMMA BlockUnits ==
    ASSUME NEW b \in Block
    PROVE  b \in Shape /\ Units(b) \subseteq Unit /\ Address(b) \in Unit /\ b[1] \in Level
<1>1. b \in Shape /\ (b[2] + 1) * Size[b[1]] <= iBlockCountOfSmallestBlock
  BY BlockIs
<1>2. Units(b) \subseteq Unit
  BY <1>1, ShapeIs, Pool DEF Units, Unit
<1>3. Address(b) \in Unit
  BY <1>1, <1>2, UnitsAre
<1>4. b[1] \in Level
  BY DEF Block
<1>. QED
  BY <1>1, <1>2, <1>3, <1>4

\* The list and the address tell a block (what kFreeMemory relies on).
LEMMA AddressTells ==
    ASSUME NEW b \in Shape
    PROVE  Address(b) \div Size[b[1]] = b[2] /\ b = <<b[1], Address(b) \div Size[b[1]]>>
BY UnitsAre, ShapeIs

\* Two blocks of one list that have a unit in common are the same.
LEMMA SameList ==
    ASSUME NEW b \in Shape, NEW c \in Shape, b[1] = c[1],
           NEW u, u \in Units(b), u \in Units(c)
    PROVE  b = c
BY UnitsAre, ShapeIs

\* Dividing by twice the size is dividing by the size and by two.
LEMMA HalfOf ==
    ASSUME NEW x \in Nat, NEW s \in Nat \ {0}
    PROVE  x \div (2 * s) = (x \div s) \div 2
<1> DEFINE q == x \div s
           r == x % s
           h == q \div 2
           e == q % 2
<1>1. q \in Nat /\ r \in 0 .. s - 1 /\ x = q * s + r
  BY Division
<1> HIDE DEF q, r
<1>2. h \in Nat /\ e \in 0 .. 1 /\ q = h * 2 + e
  BY <1>1, Division
<1> HIDE DEF h, e
<1> DEFINE y == e * s + r
<1>3. y \in 0 .. 2 * s - 1
  <2>1. CASE e = 0
    BY <1>1, <2>1
  <2>2. CASE e = 1
    BY <1>1, <2>2
  <2>. QED
    BY <1>2, <2>1, <2>2
<1>4. x = h * (2 * s) + y
  BY <1>1, <1>2
<1> HIDE DEF y
<1>5. (h * (2 * s) + y) \div (2 * s) = h
  BY <1>2, <1>3, Divided
<1>. QED
  BY <1>4, <1>5 DEF h, q

\* A block and its buddy are the halves of a block of the next list.
LEMMA Halves ==
    ASSUME NEW b \in Shape, b[1] < iBlockCountOfSmallestBlock,
           NEW p, p = <<b[1] + 1, b[2] \div 2>>
    PROVE  /\ p \in Shape /\ Buddy(b) \in Shape /\ Buddy(b)[1] = b[1]
           /\ Buddy(b) # b /\ Buddy(Buddy(b)) = b
           /\ \A u : u \in Units(p) <=> u \in Units(b) \/ u \in Units(Buddy(b))
           /\ \A u : ~(u \in Units(b) /\ u \in Units(Buddy(b)))
<1> DEFINE i == b[1]
           o == b[2]
           c == Buddy(b)
<1>1. i \in Nat /\ i < iBlockCountOfSmallestBlock /\ o \in Nat /\ b = <<i, o>>
  BY ShapeIs, Pool
<1>2. p \in Shape /\ p[1] = i + 1 /\ p[2] = o \div 2
  BY <1>1, Pool DEF Shape
<1>3. c = <<i, IF o % 2 = 0 THEN o + 1 ELSE o - 1>> /\ c[1] = i
      /\ c[2] = IF o % 2 = 0 THEN o + 1 ELSE o - 1
  BY DEF Buddy
<1>4. c[2] \in Nat /\ c[2] # o /\ c[2] \div 2 = o \div 2
      /\ (IF c[2] % 2 = 0 THEN c[2] + 1 ELSE c[2] - 1) = o
      /\ \A y \in Nat : y \div 2 = o \div 2 <=> y = o \/ y = c[2]
  <2> HIDE DEF o, c
  <2>1. CASE o % 2 = 0
    <3>1. c[2] = o + 1
      BY <1>3, <2>1
    <3>. QED
      BY <1>1, <2>1, <3>1
  <2>2. CASE o % 2 = 1
    <3>1. c[2] = o - 1
      BY <1>3, <2>2
    <3>. QED
      BY <1>1, <2>2, <3>1
  <2>. QED
    BY <1>1, <2>1, <2>2
<1>5. c \in Shape /\ c # b
  BY <1>1, <1>3, <1>4, Pool DEF Shape
<1>6. Buddy(c) = b
  BY <1>1, <1>3, <1>4 DEF Buddy
<1>7. Size[i] \in Nat \ {0} /\ Size[i + 1] = 2 * Size[i]
  BY <1>1, SizeDoubles, Pool
<1> HIDE DEF c
<1>8. ASSUME NEW u
      PROVE  /\ u \in Units(p) <=> u \in Units(b) \/ u \in Units(c)
             /\ ~(u \in Units(b) /\ u \in Units(c))
  <2>1. u \in Units(p) <=> u \in Nat /\ u \div Size[i + 1] = o \div 2
    BY <1>2, UnitsAre
  <2>2. u \in Units(b) <=> u \in Nat /\ u \div Size[i] = o
    BY UnitsAre
  <2>3. u \in Units(c) <=> u \in Nat /\ u \div Size[i] = c[2]
    BY <1>3, <1>5, UnitsAre
  <2>4. ASSUME u \in Nat
        PROVE  u \div Size[i + 1] = (u \div Size[i]) \div 2 /\ u \div Size[i] \in Nat
    BY <1>7, <2>4, HalfOf, Division
  <2>. QED
    BY <1>4, <2>1, <2>2, <2>3, <2>4
<1>. QED
  BY <1>2, <1>3, <1>5, <1>6, <1>8 DEF c

(***************************************************************************)
(* Splitting a block                                                       *)
(***************************************************************************)
\* What goes on after b has been halved m times, and what becomes free then
Left(b, m) == <<b[1] - m, b[2] * Size[m]>>
Right(b, m) == <<b[1] - m, b[2] * Size[m] + 1>>

\* Halving once more: the left half's buddy is the right one.
LEMMA LeftStep ==
    ASSUME NEW b \in Shape, NEW m \in 0 .. b[1] - 1
    PROVE  /\ Left(b, m + 1) \in Shape /\ Left(b, m + 1)[1] < iBlockCountOfSmallestBlock
           /\ Right(b, m + 1) = Buddy(Left(b, m + 1))
           /\ Left(b, m) = <<Left(b, m + 1)[1] + 1, Left(b, m + 1)[2] \div 2>>
<1>1. b[1] \in 0 .. iBlockCountOfSmallestBlock /\ b[2] \in Nat /\ m \in Nat /\ m < b[1]
  BY ShapeIs, Pool
<1>2. Size[m] \in Nat /\ Size[m + 1] = 2 * Size[m]
  BY <1>1, SizeDoubles, Pool
<1> DEFINE x == b[2] * Size[m]
<1>3. x \in Nat /\ b[2] * Size[m + 1] = 2 * x
  <2> DEFINE s == Size[m]
             o == b[2]
  <2>1. s \in Nat /\ o \in Nat /\ Size[m + 1] = 2 * s
    BY <1>1, <1>2
  <2> HIDE DEF s, o
  <2>2. o * s \in Nat /\ o * (2 * s) = 2 * (o * s)
    BY <2>1
  <2>. QED
    BY <2>1, <2>2 DEF s, o
<1>4. Left(b, m) = <<b[1] - m, x>> /\ Left(b, m + 1) = <<b[1] - (m + 1), 2 * x>>
      /\ Right(b, m + 1) = <<b[1] - (m + 1), 2 * x + 1>>
  BY <1>3 DEF Left, Right
<1> HIDE DEF x
<1>5. b[1] - (m + 1) \in 0 .. iBlockCountOfSmallestBlock - 1 /\ b[1] - (m + 1) + 1 = b[1] - m
  BY <1>1, Pool
<1>6. (2 * x) % 2 = 0 /\ (2 * x) \div 2 = x /\ 2 * x \in Nat
  BY <1>3
<1> DEFINE j == b[1] - (m + 1)
<1>7. j \in 0 .. iBlockCountOfSmallestBlock - 1 /\ j + 1 = b[1] - m
  BY <1>5
<1> HIDE DEF j
<1>8. Left(b, m + 1) = <<j, 2 * x>> /\ Right(b, m + 1) = <<j, 2 * x + 1>>
      /\ Left(b, m) = <<j + 1, x>>
  BY <1>4, <1>7 DEF j
<1>9. <<j, 2 * x>> \in Shape
  BY <1>6, <1>7, Pool DEF Shape
<1>10. Buddy(<<j, 2 * x>>) = <<j, 2 * x + 1>>
  BY <1>6 DEF Buddy
<1>11. Left(b, m + 1)[1] = j /\ Left(b, m + 1)[2] = 2 * x
  BY <1>8
<1>12. j < iBlockCountOfSmallestBlock
  BY <1>7, Pool
<1>13. Left(b, m) = <<Left(b, m + 1)[1] + 1, Left(b, m + 1)[2] \div 2>>
  BY <1>6, <1>8, <1>11
<1>14. Left(b, m + 1) \in Shape
  BY <1>8, <1>9
<1>15. Right(b, m + 1) = Buddy(Left(b, m + 1))
  BY <1>8, <1>10
<1>. QED
  BY <1>11, <1>12, <1>13, <1>14, <1>15

\* The pieces of a block that is halved m times are apart and make up the block.
SplitOK(b, m) ==
    /\ Left(b, m) \in Shape /\ Left(b, m)[1] = b[1] - m
    /\ \A u : u \in Units(Left(b, m)) => u \in Units(b)
    /\ \A l \in 1 .. m : /\ Right(b, l) \in Shape /\ Buddy(Right(b, l)) = Left(b, l)
                         /\ \A u : u \in Units(Right(b, l)) => u \in Units(b)
                         /\ \A u : u \in Units(Left(b, m)) => u \in Units(Left(b, l))
                         /\ \A u : ~(u \in Units(Left(b, m)) /\ u \in Units(Right(b, l)))
                         /\ \A k \in 1 .. m : \A u :
                              u \in Units(Right(b, k)) /\ u \in Units(Right(b, l)) => k = l
    /\ \A u : u \in Units(b) =>
         u \in Units(Left(b, m)) \/ \E l \in 1 .. m : u \in Units(Right(b, l))

\* However often a block is halved, the pieces are apart and make it up.
LEMMA SplitUnits == ASSUME NEW b \in Shape PROVE \A m \in 0 .. b[1] : SplitOK(b, m)
<1> DEFINE S == {m \in 0 .. b[1] : SplitOK(b, m)}
<1>0. b[1] \in Nat /\ b[2] \in Nat /\ b = <<b[1], b[2]>>
  BY ShapeIs, Pool
<1>1. 0 \in S
  <2>1. Left(b, 0) = b
    BY <1>0, SizeDoubles DEF Left
  <2>2. SplitOK(b, 0)
    BY <1>0, <2>1 DEF SplitOK
  <2>. QED
    BY <1>0, <2>2
<1>2. ASSUME NEW m \in 0 .. b[1] - 1, m \in S PROVE m + 1 \in S
  <2> DEFINE L == Left(b, m)
             M == Left(b, m + 1)
             R == Right(b, m + 1)
  <2>1. /\ M \in Shape /\ M[1] < iBlockCountOfSmallestBlock /\ R = Buddy(M)
        /\ L = <<M[1] + 1, M[2] \div 2>> /\ M[1] = b[1] - (m + 1)
    BY LeftStep DEF Left
  <2>2. SplitOK(b, m) /\ m + 1 \in 0 .. b[1]
    BY <1>0, <1>2
  <2>3. /\ R \in Shape /\ Buddy(R) = M
        /\ \A u : u \in Units(L) <=> u \in Units(M) \/ u \in Units(R)
        /\ \A u : ~(u \in Units(M) /\ u \in Units(R))
    <3> HIDE DEF L, M, R
    <3>. QED
      BY <2>1, Halves
  <2> HIDE DEF L, M, R
  <2>4. \A l \in 1 .. m + 1 : l \in 1 .. m \/ l = m + 1
    BY <1>0
  <2>5. /\ \A u : u \in Units(L) => u \in Units(b)
        /\ \A l \in 1 .. m : /\ Right(b, l) \in Shape /\ Buddy(Right(b, l)) = Left(b, l)
                             /\ \A u : u \in Units(Right(b, l)) => u \in Units(b)
                             /\ \A u : u \in Units(L) => u \in Units(Left(b, l))
                             /\ \A u : ~(u \in Units(L) /\ u \in Units(Right(b, l)))
                             /\ \A k \in 1 .. m : \A u :
                                  u \in Units(Right(b, k)) /\ u \in Units(Right(b, l)) => k = l
        /\ \A u : u \in Units(b) =>
             u \in Units(L) \/ \E l \in 1 .. m : u \in Units(Right(b, l))
    BY <2>2 DEF SplitOK, L
  <2>6. \A u : u \in Units(M) => u \in Units(b)
    BY <2>3, <2>5
  <2>7. ASSUME NEW l \in 1 .. m + 1
        PROVE  /\ Right(b, l) \in Shape /\ Buddy(Right(b, l)) = Left(b, l)
               /\ \A u : u \in Units(Right(b, l)) => u \in Units(b)
               /\ \A u : u \in Units(M) => u \in Units(Left(b, l))
               /\ \A u : ~(u \in Units(M) /\ u \in Units(Right(b, l)))
               /\ \A k \in 1 .. m + 1 : \A u :
                    u \in Units(Right(b, k)) /\ u \in Units(Right(b, l)) => k = l
    <3>1. CASE l = m + 1
      <4>1. Right(b, l) = R /\ Left(b, l) = M
        BY <3>1 DEF R, M
      <4>2. ASSUME NEW k \in 1 .. m + 1, NEW u, u \in Units(Right(b, k)), u \in Units(R)
            PROVE  k = l
        BY <2>3, <2>4, <2>5, <3>1, <4>2
      <4>. QED
        BY <2>3, <2>5, <4>1, <4>2
    <3>2. CASE l \in 1 .. m
      <4>1. ASSUME NEW k \in 1 .. m + 1, NEW u, u \in Units(Right(b, k)), u \in Units(Right(b, l))
            PROVE  k = l
        <5>1. CASE k = m + 1
          BY <2>3, <2>5, <3>2, <4>1, <5>1 DEF R
        <5>2. CASE k \in 1 .. m
          BY <2>5, <3>2, <4>1, <5>2
        <5>. QED
          BY <2>4, <5>1, <5>2
      <4>. QED
        BY <2>3, <2>5, <3>2, <4>1
    <3>. QED
      BY <2>4, <3>1, <3>2
  <2>8. ASSUME NEW u, u \in Units(b)
        PROVE  u \in Units(M) \/ \E l \in 1 .. m + 1 : u \in Units(Right(b, l))
    <3>1. m + 1 \in 1 .. m + 1 /\ \A l \in 1 .. m : l \in 1 .. m + 1
      BY <1>0
    <3>. QED
      BY <2>3, <2>5, <2>8, <3>1 DEF R
  <2>9. SplitOK(b, m + 1)
    BY <2>1, <2>6, <2>7, <2>8 DEF SplitOK, M
  <2>. QED
    BY <2>2, <2>9
<1> HIDE DEF S
<1>3. \A m \in 0 .. b[1] : m \in S
  BY <1>0, <1>1, <1>2, Induction
<1>. QED
  BY <1>3 DEF S

(***************************************************************************)
(* Joining a block with its buddies                                        *)
(***************************************************************************)
LEMMA AncestorStep ==
    ASSUME NEW b \in Shape, NEW n \in Nat, b[1] + n < iBlockCountOfSmallestBlock
    PROVE  /\ Ancestor(b, n) \in Shape
           /\ Ancestor(b, n + 1) = <<Ancestor(b, n)[1] + 1, Ancestor(b, n)[2] \div 2>>
<1>1. b[1] \in Nat /\ b[2] \in Nat /\ n \in 0 .. iBlockCountOfSmallestBlock - 1
  BY ShapeIs, Pool
<1>2. Size[n] \in Nat \ {0} /\ Size[n + 1] = 2 * Size[n]
  BY <1>1, SizeDoubles, Pool
<1>3. b[2] \div Size[n] \in Nat /\ b[2] \div Size[n + 1] = (b[2] \div Size[n]) \div 2
  BY <1>1, <1>2, Division, HalfOf
<1>. QED
  BY <1>1, <1>3, Pool DEF Ancestor, Shape

\* A block n lists up is made of b and of the buddies on the way.
JoinOK(b, n) ==
    /\ Ancestor(b, n) \in Shape
    /\ \A u : u \in Units(b) => u \in Units(Ancestor(b, n))
    /\ \A m \in 0 .. n - 1 : \A u :
         u \in Units(Buddy(Ancestor(b, m))) => u \in Units(Ancestor(b, n)) /\ u \notin Units(b)
    /\ \A u : u \in Units(Ancestor(b, n)) =>
         u \in Units(b) \/ \E m \in 0 .. n - 1 : u \in Units(Buddy(Ancestor(b, m)))

\* However often a block is joined with its buddy, what it becomes is made of them.
LEMMA JoinUnits ==
    ASSUME NEW b \in Shape
    PROVE  \A n \in 0 .. iBlockCountOfSmallestBlock - b[1] : JoinOK(b, n)
<1> DEFINE N == iBlockCountOfSmallestBlock - b[1]
           S == {n \in 0 .. N : JoinOK(b, n)}
<1>0. b[1] \in Nat /\ b[2] \in Nat /\ b = <<b[1], b[2]>> /\ N \in Nat
  BY ShapeIs, Pool
<1>1. 0 \in S
  <2>1. Ancestor(b, 0) = b
    BY <1>0, SizeDoubles DEF Ancestor
  <2>2. JoinOK(b, 0)
    BY <1>0, <2>1 DEF JoinOK
  <2>. QED
    BY <1>0, <2>2
<1>2. ASSUME NEW n \in 0 .. N - 1, n \in S PROVE n + 1 \in S
  <2> DEFINE A == Ancestor(b, n)
             P == Ancestor(b, n + 1)
             B == Buddy(A)
  <2>1. A \in Shape /\ P = <<A[1] + 1, A[2] \div 2>> /\ A[1] < iBlockCountOfSmallestBlock
    <3>1. n \in Nat /\ b[1] + n < iBlockCountOfSmallestBlock
      BY <1>0, Pool
    <3>. QED
      BY <3>1, AncestorStep DEF Ancestor
  <2>2. JoinOK(b, n) /\ n + 1 \in 0 .. N
    BY <1>0, <1>2
  <2>3. /\ P \in Shape
        /\ \A u : u \in Units(P) <=> u \in Units(A) \/ u \in Units(B)
        /\ \A u : ~(u \in Units(A) /\ u \in Units(B))
    <3> HIDE DEF A, P
    <3>. QED
      BY <2>1, Halves
  <2> HIDE DEF A, P, B
  <2>4. /\ \A u : u \in Units(b) => u \in Units(A)
        /\ \A m \in 0 .. n - 1 : \A u :
             u \in Units(Buddy(Ancestor(b, m))) => u \in Units(A) /\ u \notin Units(b)
        /\ \A u : u \in Units(A) =>
             u \in Units(b) \/ \E m \in 0 .. n - 1 : u \in Units(Buddy(Ancestor(b, m)))
    BY <2>2 DEF JoinOK, A
  <2>5. \A m \in 0 .. n : m \in 0 .. n - 1 \/ m = n
    BY <1>0
  <2>6. n + 1 - 1 = n /\ n \in 0 .. n /\ \A m \in 0 .. n - 1 : m \in 0 .. n
    BY <1>0
  <2>7. ASSUME NEW m \in 0 .. n, NEW u, u \in Units(Buddy(Ancestor(b, m)))
        PROVE  u \in Units(P) /\ u \notin Units(b)
    <3>1. CASE m = n
      BY <2>3, <2>4, <2>7, <3>1 DEF A, B
    <3>2. CASE m \in 0 .. n - 1
      BY <2>3, <2>4, <2>7, <3>2
    <3>. QED
      BY <2>5, <3>1, <3>2
  <2>8. ASSUME NEW u, u \in Units(P)
        PROVE  u \in Units(b) \/ \E m \in 0 .. n : u \in Units(Buddy(Ancestor(b, m)))
    BY <2>3, <2>4, <2>6, <2>8 DEF A, B
  <2>9. JoinOK(b, n + 1)
    BY <2>3, <2>4, <2>6, <2>7, <2>8 DEF JoinOK, P
  <2>. QED
    BY <2>2, <2>9
<1> HIDE DEF S, N
<1>3. \A n \in 0 .. N : n \in S
  BY <1>0, <1>1, <1>2, Induction
<1>. QED
  BY <1>3 DEF S, N

(***************************************************************************)
(* The inductive invariant                                                 *)
(***************************************************************************)
\* The parts of the pool, by owner: NULL has the free blocks.
Owner == Task \cup {NULL}
Parts == [x \in Owner |-> IF x = NULL THEN Exist ELSE held[x] \cup InFlight(x)]
Apart(P) ==
    \A x, y \in Owner : \A b \in P[x], d \in P[y] : \A u \in Unit :
        u \in Units(b) /\ u \in Units(d) => x = y /\ b = d
Covers(P) == \A u \in Unit : \E x \in Owner : \E b \in P[x] : u \in Units(b)

\* The block of a call is there while the call needs it, and is not one that the
\* caller holds.
InCall == Label \ {"idle", "search"}
BlockOK ==
    \A t \in Task : /\ pc[t] \notin {"idle", "return"} => block[t] # NULL
                    /\ pc[t] = "search" => block[t][2] = 0
                    /\ pc[t] \in InCall => block[t] \notin held[t]

\* The block of a call where the call is one of those that count it
Counted(t, calls) == IF pc[t] \in calls THEN {block[t]} \ {NULL} ELSE {}

\* The size table holds exactly the blocks that have been given out.
ListedCalls == {"addRead", "addWrite", "return", "clear"}
Listed == [t \in Task |-> held[t] \cup Counted(t, ListedCalls)]
Records(L, table) ==
    /\ \A t \in Task : \A b \in L[t] : table[Address(b)] = b[1]
    /\ \A u \in Unit : table[u] # Unused => \E t \in Task : \E b \in L[t] : u = Address(b)

\* The units that count as used, with the task and the block that they count for
ChargedCalls == {"return", "clear", "merge", "subRead", "subWrite"}
Charged == [t \in Task |-> held[t] \cup Counted(t, ChargedCalls)]
UnitsOf(C) ==
    {w \in (Task \X Block) \X Unit : w[1][2] \in C[w[1][1]] /\ w[2] \in Units(w[1][2])}
\* ... of the blocks whose size is right as an int, and of those of 2 GB, whose
\* size is subtracted where it should be added
Plain(C) == [t \in Task |-> {b \in C[t] : b[1] < INTList}]
Huge(C) == [t \in Task |-> {b \in C[t] : ~(b[1] < INTList)}]
Counts(C) ==
    /\ IsFiniteSet(UnitsOf(Plain(C))) /\ IsFiniteSet(UnitsOf(Huge(C)))
    /\ lostUpdates = 0 => (qwUsedSize + Cardinality(UnitsOf(Huge(C)))) % QWORD
                             = Cardinality(UnitsOf(Plain(C))) % QWORD

IInv ==
    /\ TypeOK /\ BlockOK
    /\ Apart(Parts) /\ Covers(Parts) /\ FreeBuddiesMerged
    /\ Records(Listed, pbAllocatedBlockListIndex)
    /\ Counts(Charged)

(***************************************************************************)
(* The search of a bitmap                                                  *)
(***************************************************************************)
\* A search through C bits: where it skips, and where it finds one
Searching(f, C, skip, free) ==
    [o \in 0 .. C |-> IF o >= C THEN -1
                      ELSE IF o \in skip THEN f[o + QWORDBits]
                      ELSE IF o \in free THEN o ELSE f[o + 1]]

\* The recursion has a solution: it goes on to higher bits and ends at C.
LEMMA SearchExists ==
    ASSUME NEW C \in Nat, NEW skip, NEW free,
           \A o \in 0 .. C : o \in skip => o + QWORDBits <= C
    PROVE  \E f : f = Searching(f, C, skip, free)
<1> DEFINE Body(f, o) == IF o >= C THEN -1
                         ELSE IF o \in skip THEN f[o + QWORDBits]
                         ELSE IF o \in free THEN o ELSE f[o + 1]
           From(n) == \E f : f = [o \in C - n .. C |-> Body(f, o)]
           S == {n \in 0 .. C : From(n)}
<1>0. QWORDBits \in Nat /\ QWORDBits > 0
  BY SizeAssumption
<1>1. 0 \in S
  <2>1. C - 0 .. C = {C} /\ C - 0 = C
    OBVIOUS
  <2> DEFINE g == [o \in C - 0 .. C |-> -1]
  <2>2. \A o \in C - 0 .. C : g[o] = Body(g, o)
    BY <2>1
  <2>3. g = [o \in C - 0 .. C |-> g[o]]
    OBVIOUS
  <2> HIDE DEF g, Body
  <2>4. g = [o \in C - 0 .. C |-> Body(g, o)]
    BY <2>2, <2>3
  <2>5. From(0)
    BY <2>4, Zenon
  <2>. QED
    BY <2>5
<1>2. ASSUME NEW n \in 0 .. C - 1, n \in S PROVE n + 1 \in S
  <2>1. PICK f : f = [o \in C - n .. C |-> Body(f, o)]
    BY <1>2
  <2> DEFINE p == C - (n + 1)
             g == [o \in p .. C |-> IF o = p THEN Body(f, p) ELSE f[o]]
  <2>2. p \in Nat /\ p < C /\ p + 1 = C - n /\ p \in 0 .. C
    OBVIOUS
  <2> HIDE DEF p
  <2>3. \A o \in p + 1 .. C : o # p /\ o \in p .. C
    BY <2>2
  <2>4. \A o \in p + 1 .. C : g[o] = f[o]
    BY <2>3
  <2>5. ASSUME NEW o \in p .. C PROVE g[o] = Body(g, o)
    <3>1. o \in Nat /\ o \in 0 .. C
      BY <2>2
    <3>2. o < C => o + 1 \in p + 1 .. C
      BY <2>2, <3>1
    <3>3. o \in skip => o + QWORDBits \in p + 1 .. C
      BY <1>0, <2>2, <3>1
    <3>4. Body(g, o) = Body(f, o)
      <4>1. CASE o >= C
        BY <4>1
      <4>2. CASE o < C /\ o \in skip
        <5>1. g[o + QWORDBits] = f[o + QWORDBits]
          BY <2>4, <3>3, <4>2
        <5> HIDE DEF g
        <5>. QED
          BY <4>2, <5>1
      <4>3. CASE o < C /\ o \notin skip
        <5>1. g[o + 1] = f[o + 1]
          BY <2>4, <3>2, <4>3
        <5> HIDE DEF g
        <5>. QED
          BY <4>3, <5>1
      <4>. QED
        BY <3>1, <4>1, <4>2, <4>3
    <3>5. g[o] = Body(f, o)
      <4>1. CASE o = p
        BY <4>1
      <4>2. CASE o # p
        <5>1. o \in p + 1 .. C
          BY <2>2, <4>2
        <5>2. f[o] = Body(f, o)
          <6> HIDE DEF Body
          <6>. QED
            BY <2>1, <2>2, <5>1
        <5>. QED
          BY <2>4, <5>1, <5>2
      <4>. QED
        BY <4>1, <4>2
    <3> HIDE DEF Body, g
    <3>. QED
      BY <3>4, <3>5
  <2>6. g = [o \in p .. C |-> g[o]]
    OBVIOUS
  <2> HIDE DEF g, Body
  <2>7. g = [o \in p .. C |-> Body(g, o)]
    BY <2>5, <2>6
  <2>8. g = [o \in C - (n + 1) .. C |-> Body(g, o)]
    BY <2>7 DEF p
  <2>9. From(n + 1)
    BY <2>8, Zenon
  <2>. QED
    BY <2>9
<1>3. C \in S
  <2> HIDE DEF S
  <2>. QED
    BY <1>1, <1>2, Induction
<1>4. PICK f : f = [o \in C - C .. C |-> Body(f, o)]
  <2> HIDE DEF Body
  <2>. QED
    BY <1>3
<1>5. C - C = 0
  OBVIOUS
<1>6. f = [o \in 0 .. C |-> Body(f, o)]
  <2> HIDE DEF Body
  <2>. QED
    BY <1>4, <1>5
<1>7. f = Searching(f, C, skip, free)
  BY <1>6, Zenon DEF Searching
<1>. QED
  BY <1>7, Zenon

\* Is the QWORD from the byte of bit o on all zero, and is a QWORD left?
ZeroAt(i, o) ==
    \A n \in (o \div BYTEBits) * BYTEBits .. (o \div BYTEBits) * BYTEBits + QWORDBits - 1 :
        <<i, n>> \notin Exist
SkipsIn(i) ==
    {o \in 0 .. BlockCount(i) : (BlockCount(i) - o) \div QWORDBits > 0 /\ ZeroAt(i, o)}
FreeIn(i) == {o \in 0 .. BlockCount(i) : <<i, o>> \in Exist}

\* The search of a list's bitmap is such a recursion.
LEMMA SearchIs ==
    ASSUME NEW i \in Level
    PROVE  \E f : /\ f = Searching(f, BlockCount(i), SkipsIn(i), FreeIn(i))
                  /\ kFindFreeBlockInBitmap(i) = f[0]
<1> DEFINE C == BlockCount(i)
           Text(f) == [o \in 0 .. BlockCount(i) |->
               CASE o >= BlockCount(i) -> -1
                 [] o < BlockCount(i) /\ (BlockCount(i) - o) \div QWORDBits > 0
                      /\ (\A n \in (o \div BYTEBits) * BYTEBits
                                     .. (o \div BYTEBits) * BYTEBits + QWORDBits - 1 :
                            ~(<<i, n>> \in Exist)) -> f[o + QWORDBits]
                 [] OTHER -> IF <<i, o>> \in Exist THEN o ELSE f[o + 1]]
           F == CHOOSE f : f = Text(f)
<1>1. kFindFreeBlockInBitmap(i) = F[0]
  BY Zenon DEF kFindFreeBlockInBitmap
<1>2. C \in Nat
  BY ListOf
<1>3. \A f : Text(f) = Searching(f, C, SkipsIn(i), FreeIn(i))
  <2> SUFFICES ASSUME NEW f, NEW o \in 0 .. C
               PROVE  (CASE o >= BlockCount(i) -> -1
                         [] o < BlockCount(i) /\ (BlockCount(i) - o) \div QWORDBits > 0
                              /\ (\A n \in (o \div BYTEBits) * BYTEBits
                                             .. (o \div BYTEBits) * BYTEBits + QWORDBits - 1 :
                                    ~(<<i, n>> \in Exist)) -> f[o + QWORDBits]
                         [] OTHER -> IF <<i, o>> \in Exist THEN o ELSE f[o + 1])
                      = (IF o >= C THEN -1
                         ELSE IF o \in SkipsIn(i) THEN f[o + QWORDBits]
                         ELSE IF o \in FreeIn(i) THEN o ELSE f[o + 1])
    BY DEF Searching
  <2>1. o \in SkipsIn(i) <=> (BlockCount(i) - o) \div QWORDBits > 0 /\ ZeroAt(i, o)
    BY DEF SkipsIn
  <2>2. ZeroAt(i, o) <=> (\A n \in (o \div BYTEBits) * BYTEBits
                                     .. (o \div BYTEBits) * BYTEBits + QWORDBits - 1 :
                            ~(<<i, n>> \in Exist))
    BY DEF ZeroAt
  <2>3. o \in FreeIn(i) <=> <<i, o>> \in Exist
    BY DEF FreeIn
  <2>4. o >= BlockCount(i) <=> ~(o < BlockCount(i))
    BY <1>2
  <2>. QED
    BY <2>1, <2>2, <2>3, <2>4, Zenon
<1>4. ASSUME NEW o \in 0 .. C, o \in SkipsIn(i) PROVE o + QWORDBits <= C
  <2>1. QWORDBits \in Nat \ {0} /\ C - o \in Nat /\ 0 < (C - o) \div QWORDBits
    BY <1>2, <1>4, SizeAssumption DEF SkipsIn
  <2>2. (0 + 1) * QWORDBits <= C - o
    BY <2>1, Quotient
  <2>3. (0 + 1) * QWORDBits = QWORDBits
    BY <2>1
  <2> HIDE DEF C
  <2>. QED
    BY <1>2, <2>1, <2>2, <2>3
<1>5. \E f : f = Searching(f, C, SkipsIn(i), FreeIn(i))
  <2> HIDE DEF C
  <2>. QED
    BY <1>2, <1>4, SearchExists
<1> HIDE DEF Text
<1>6. F = Text(F)
  BY <1>3, <1>5
<1>. QED
  BY <1>1, <1>3, <1>6 DEF C

\* kFindFreeBlockInBitmap finds a free block of the list, or there is none.
LEMMA SearchFinds ==
    ASSUME NEW i \in Level, NEW r, r = kFindFreeBlockInBitmap(i)
    PROVE  \/ r \in 0 .. BlockCount(i) - 1 /\ <<i, r>> \in Exist
           \/ r = -1 /\ \A o \in 0 .. BlockCount(i) - 1 : <<i, o>> \notin Exist
<1> DEFINE C == BlockCount(i)
           Bit(o) == <<i, o>> \in Exist
           Skip(o) == o \in SkipsIn(i)
<1>0. C \in Nat /\ C > 0
  BY ListOf
<1>1. PICK f : f = Searching(f, C, SkipsIn(i), FreeIn(i)) /\ r = f[0]
  BY SearchIs
<1>2. \A o \in 0 .. C : f[o] = IF o >= C THEN -1 ELSE IF Skip(o) THEN f[o + QWORDBits]
                               ELSE IF Bit(o) THEN o ELSE f[o + 1]
  <2> SUFFICES ASSUME NEW o \in 0 .. C
               PROVE  f[o] = IF o >= C THEN -1 ELSE IF Skip(o) THEN f[o + QWORDBits]
                             ELSE IF Bit(o) THEN o ELSE f[o + 1]
    OBVIOUS
  <2>1. o \in FreeIn(i) <=> Bit(o)
    BY DEF FreeIn
  <2>2. f[o] = Searching(f, C, SkipsIn(i), FreeIn(i))[o]
    BY <1>1
  <2> HIDE DEF Bit
  <2>. QED
    BY <2>1, <2>2 DEF Searching
<1>3. QWORDBits \in Nat /\ QWORDBits > 0 /\ BYTEBits \in Nat \ {0} /\ QWORDBits % BYTEBits = 0
  BY SizeAssumption
<1>4. ASSUME NEW o \in 0 .. C, Skip(o)
      PROVE  o + QWORDBits <= C /\ (C - o) \div QWORDBits > 0 /\ ZeroAt(i, o)
  <2>1. (C - o) \div QWORDBits > 0 /\ ZeroAt(i, o)
    BY <1>4 DEF SkipsIn
  <2>2. C - o \in Nat /\ QWORDBits \in Nat \ {0} /\ 0 < (C - o) \div QWORDBits
    BY <1>0, <1>3, <2>1
  <2>3. (0 + 1) * QWORDBits <= C - o
    BY <2>2, Quotient
  <2>4. (0 + 1) * QWORDBits = QWORDBits
    BY <1>3
  <2> HIDE DEF C
  <2>. QED
    BY <1>0, <1>3, <2>1, <2>3, <2>4
<1>5. ASSUME NEW o \in 0 .. C, o < C, ~Skip(o), ~Bit(o), (o + 1) % BYTEBits # 0
      PROVE  ~Skip(o + 1)
  <2> SUFFICES ASSUME Skip(o + 1) PROVE Skip(o)
    BY <1>5
  <2>1. o + 1 \in 0 .. C
    BY <1>0, <1>5
  <2>2. (C - (o + 1)) \div QWORDBits > 0 /\ ZeroAt(i, o + 1) /\ o + 1 + QWORDBits <= C
    BY <1>4, <2>1
  <2>3. (o + 1) \div BYTEBits = o \div BYTEBits
    <3> DEFINE q == (o + 1) \div BYTEBits
               x == (o + 1) % BYTEBits
    <3>1. o + 1 \in Nat
      BY <1>0
    <3>2. q \in Nat /\ x \in 0 .. BYTEBits - 1 /\ o + 1 = q * BYTEBits + x /\ x # 0
      BY <1>3, <1>5, <3>1, Division
    <3> HIDE DEF q, x
    <3>3. x - 1 \in 0 .. BYTEBits - 1 /\ q * BYTEBits \in Nat
      BY <1>3, <3>2
    <3> DEFINE w == q * BYTEBits
    <3>4. o = q * BYTEBits + (x - 1)
      <4>1. w \in Nat /\ o + 1 = w + x
        BY <3>2, <3>3
      <4> HIDE DEF w
      <4>2. o = w + (x - 1)
        BY <1>0, <3>2, <4>1
      <4>. QED
        BY <4>2 DEF w
    <3>5. (q * BYTEBits + (x - 1)) \div BYTEBits = q
      BY <1>3, <3>2, <3>3, Divided
    <3>. QED
      BY <3>4, <3>5 DEF q
  <2>4. ZeroAt(i, o)
    BY <2>2, <2>3 DEF ZeroAt
  <2>5. (C - o) \div QWORDBits > 0
    <3>1. (0 + 1) * QWORDBits = QWORDBits /\ C - o \in Nat /\ QWORDBits <= C - o
      <4> HIDE DEF C
      <4>. QED
        BY <1>0, <1>3, <2>2
    <3> HIDE DEF C
    <3>2. 0 < (C - o) \div QWORDBits
      BY <1>3, <3>1, Quotient
    <3>. QED
      BY <3>1, <3>2, <1>3, Division
  <2>. QED
    BY <2>4, <2>5 DEF SkipsIn
<1>6. ASSUME NEW o \in 0 .. C, Skip(o), o % BYTEBits = 0
      PROVE  /\ (o + QWORDBits) % BYTEBits = 0
             /\ \A n \in o .. o + QWORDBits - 1 : ~Bit(n)
  <2>1. o \in Nat /\ (o \div BYTEBits) * BYTEBits = o /\ o \div BYTEBits \in Nat
    <3>1. o \in Nat
      BY <1>0
    <3> DEFINE q == o \div BYTEBits
               x == o % BYTEBits
    <3>2. q \in Nat /\ o = q * BYTEBits + x /\ x = 0
      BY <1>3, <1>6, <3>1, Division
    <3> HIDE DEF q, x
    <3>3. q * BYTEBits = o
      BY <1>3, <3>1, <3>2
    <3>. QED
      BY <3>1, <3>2, <3>3 DEF q
  <2>2. ((o \div BYTEBits) * BYTEBits + QWORDBits) % BYTEBits = QWORDBits % BYTEBits
    BY <1>3, <2>1, Remainder
  <2>3. ZeroAt(i, o)
    BY <1>4, <1>6
  <2>. QED
    BY <1>3, <2>1, <2>2, <2>3 DEF ZeroAt
<1> DEFINE Aligned(o) == o % BYTEBits = 0 \/ ~Skip(o)
           Good(o) == /\ f[o] = -1 \/ (f[o] \in 0 .. C - 1 /\ Bit(f[o]))
                      /\ (Aligned(o) /\ f[o] = -1) => \A n \in o .. C - 1 : ~Bit(n)
           S == {m \in 0 .. C : \A o \in C - m .. C : Good(o)}
<1> HIDE DEF Bit, Skip
<1>7. 0 \in S
  <2> HIDE DEF C
  <2>1. f[C] = -1
    <3>1. C \in 0 .. C /\ C >= C
      BY <1>0
    <3>. QED
      BY <1>2, <3>1
  <2>2. \A n \in C .. C - 1 : ~Bit(n)
    BY <1>0
  <2>3. Good(C)
    <3> HIDE DEF Aligned
    <3>. QED
      BY <2>1, <2>2, Zenon
  <2>4. \A o \in C - 0 .. C : o = C
    BY <1>0
  <2> HIDE DEF Good
  <2>. QED
    BY <1>0, <2>3, <2>4
<1>8. ASSUME NEW m \in 0 .. C - 1, m \in S PROVE m + 1 \in S
  <2> DEFINE o == C - (m + 1)
  <2>1. o \in 0 .. C /\ o < C /\ C - m = o + 1 /\ o \in Nat
    BY <1>0
  <2>2. \A p \in o + 1 .. C : Good(p)
    <3> HIDE DEF Good
    <3>. QED
      BY <1>8, <2>1
  <2> HIDE DEF o, C
  <2>3. Good(o)
    <3>1. CASE Skip(o)
      <4>1. o + QWORDBits <= C /\ o + QWORDBits \in o + 1 .. C
        BY <1>0, <1>3, <1>4, <2>1, <3>1
      <4>2. f[o] = f[o + QWORDBits]
        BY <1>0, <1>2, <2>1, <3>1
      <4>3. Good(o + QWORDBits)
        BY <2>2, <4>1
      <4>4. ASSUME Aligned(o), f[o] = -1, NEW n \in o .. C - 1 PROVE ~Bit(n)
        <5>1. o % BYTEBits = 0
          BY <3>1, <4>4
        <5>2. (o + QWORDBits) % BYTEBits = 0 /\ \A k \in o .. o + QWORDBits - 1 : ~Bit(k)
          BY <1>6, <2>1, <3>1, <5>1
        <5>3. \A k \in o + QWORDBits .. C - 1 : ~Bit(k)
          BY <4>2, <4>3, <4>4, <5>2
        <5>4. n \in o .. o + QWORDBits - 1 \/ n \in o + QWORDBits .. C - 1
          BY <1>0, <1>3, <2>1
        <5>. QED
          BY <5>2, <5>3, <5>4
      <4>. QED
        BY <4>2, <4>3, <4>4
    <3>2. CASE ~Skip(o) /\ Bit(o)
      <4>1. f[o] = o
        BY <1>0, <1>2, <2>1, <3>2
      <4>. QED
        BY <1>0, <2>1, <3>2, <4>1
    <3>3. CASE ~Skip(o) /\ ~Bit(o)
      <4>1. f[o] = f[o + 1]
        BY <1>0, <1>2, <2>1, <3>3
      <4>2. Good(o + 1)
        BY <1>0, <2>1, <2>2
      <4>3. Aligned(o + 1)
        BY <1>5, <2>1, <3>3
      <4>4. ASSUME f[o] = -1, NEW n \in o .. C - 1 PROVE ~Bit(n)
        <5>1. \A k \in o + 1 .. C - 1 : ~Bit(k)
          BY <4>1, <4>2, <4>3, <4>4
        <5>2. n = o \/ n \in o + 1 .. C - 1
          BY <1>0, <2>1
        <5>. QED
          BY <3>3, <5>1, <5>2
      <4>. QED
        BY <4>1, <4>2, <4>4
    <3>. QED
      BY <3>1, <3>2, <3>3
  <2>4. m + 1 \in 0 .. C /\ C - (m + 1) = o
    BY <1>0, <2>1 DEF o
  <2>5. ASSUME NEW p \in o .. C PROVE Good(p)
    <3>1. p = o \/ p \in o + 1 .. C
      BY <1>0, <2>1
    <3> HIDE DEF Good
    <3>. QED
      BY <2>2, <2>3, <3>1
  <2> HIDE DEF Good
  <2>. QED
    BY <2>4, <2>5
<1>9. C \in S
  <2> HIDE DEF S, C
  <2>. QED
    BY <1>0, <1>7, <1>8, Induction
<1>10. Good(0) /\ Aligned(0)
  <2>1. 0 \in C - C .. C
    BY <1>0
  <2>2. Aligned(0)
    <3>1. 0 % BYTEBits = 0
      BY <1>3
    <3>. QED
      BY <3>1
  <2> HIDE DEF Good
  <2>. QED
    BY <1>9, <2>1, <2>2
<1>. QED
  BY <1>1, <1>10 DEF Bit, C

(***************************************************************************)
(* Handing out and taking back parts of the pool                           *)
(***************************************************************************)
\* From P to Q, some parts are exchanged for others that are apart and have the
\* same units.
Exchanged(P, Q, old, new) ==
    /\ \A x \in Owner : \A b :
         b \in Q[x] <=> (b \in P[x] /\ <<x, b>> \notin old) \/ <<x, b>> \in new
    /\ \A p \in old : p[1] \in Owner /\ p[2] \in P[p[1]] /\ p = <<p[1], p[2]>>
    /\ \A p \in new : p[1] \in Owner /\ p = <<p[1], p[2]>>
    /\ \A p, q \in new : \A u \in Unit : u \in Units(p[2]) /\ u \in Units(q[2]) => p = q
    /\ \A p \in old : \A u \in Unit : u \in Units(p[2]) => \E q \in new : u \in Units(q[2])
    /\ \A p \in new : \A u \in Unit : u \in Units(p[2]) => \E q \in old : u \in Units(q[2])

\* Apart and covering is what they stay.
LEMMA Exchange ==
    ASSUME NEW P, NEW Q, NEW old, NEW new, Apart(P), Covers(P), Exchanged(P, Q, old, new)
    PROVE  Apart(Q) /\ Covers(Q)
<1> USE DEF Exchanged
<1>1. ASSUME NEW x \in Owner, NEW b \in P[x], <<x, b>> \notin old,
             NEW p \in new, NEW u \in Unit, u \in Units(b), u \in Units(p[2])
      PROVE  FALSE
  <2>1. PICK q \in old : u \in Units(q[2])
    BY <1>1
  <2>2. q[1] \in Owner /\ q[2] \in P[q[1]] /\ q = <<q[1], q[2]>>
    BY <2>1
  <2>3. x = q[1] /\ b = q[2]
    BY <1>1, <2>1, <2>2 DEF Apart
  <2>. QED
    BY <1>1, <2>1, <2>2, <2>3
<1>2. ASSUME NEW x \in Owner, NEW y \in Owner, NEW b \in Q[x], NEW d \in Q[y], NEW u \in Unit,
             u \in Units(b), u \in Units(d)
      PROVE  x = y /\ b = d
  <2>1. CASE <<x, b>> \in new /\ <<y, d>> \in new
    <3>1. <<x, b>>[2] = b /\ <<y, d>>[2] = d
      OBVIOUS
    <3>2. <<x, b>> = <<y, d>>
      BY <1>2, <2>1, <3>1
    <3>. QED
      BY <3>2
  <2>2. CASE <<x, b>> \in new /\ <<y, d>> \notin new
    <3>1. <<x, b>>[2] = b /\ d \in P[y] /\ <<y, d>> \notin old
      BY <1>2, <2>2
    <3>. QED
      BY <1>1, <1>2, <2>2, <3>1
  <2>3. CASE <<x, b>> \notin new /\ <<y, d>> \in new
    <3>1. <<y, d>>[2] = d /\ b \in P[x] /\ <<x, b>> \notin old
      BY <1>2, <2>3
    <3>. QED
      BY <1>1, <1>2, <2>3, <3>1
  <2>4. CASE <<x, b>> \notin new /\ <<y, d>> \notin new
    <3>1. b \in P[x] /\ d \in P[y]
      BY <1>2, <2>4
    <3>. QED
      BY <1>2, <3>1 DEF Apart
  <2>. QED
    BY <2>1, <2>2, <2>3, <2>4
<1>3. ASSUME NEW u \in Unit PROVE \E x \in Owner : \E b \in Q[x] : u \in Units(b)
  <2>1. PICK x \in Owner : \E b \in P[x] : u \in Units(b)
    BY DEF Covers
  <2>2. PICK b \in P[x] : u \in Units(b)
    BY <2>1
  <2>3. CASE <<x, b>> \in old
    <3>1. <<x, b>>[2] = b
      OBVIOUS
    <3>2. PICK q \in new : u \in Units(q[2])
      BY <2>2, <2>3, <3>1
    <3>3. q[1] \in Owner /\ q = <<q[1], q[2]>>
      BY <3>2
    <3>4. q[2] \in Q[q[1]]
      BY <3>2, <3>3
    <3>. QED
      BY <3>2, <3>3, <3>4
  <2>4. CASE <<x, b>> \notin old
    BY <2>1, <2>2, <2>4
  <2>. QED
    BY <2>3, <2>4
<1>. QED
  BY <1>2, <1>3 DEF Apart, Covers

\* A block whose units are all in the pool is one of the pool.
LEMMA InPool ==
    ASSUME NEW b \in Shape, \A u : u \in Units(b) => u \in Unit
    PROVE  b \in Block
<1> DEFINE e == (b[2] + 1) * Size[b[1]]
           a == b[2] * Size[b[1]]
           s == Size[b[1]]
<1>1. a \in Nat /\ e \in Nat /\ s \in Nat /\ s > 0 /\ e = a + s
  BY ShapeIs
<1>2. Units(b) = a .. e - 1
  BY DEF Units
<1> HIDE DEF a, e, s
<1>3. e - 1 \in Units(b)
  BY <1>1, <1>2
<1>4. e <= iBlockCountOfSmallestBlock
  BY <1>1, <1>3, Pool DEF Unit
<1>. QED
  BY <1>4, BlockIs DEF e

\* Buddies are two different blocks of a list, each the other's.
LEMMA BuddyOf ==
    ASSUME NEW b \in Block
    PROVE  Buddy(b) # b /\ Buddy(Buddy(b)) = b /\ Buddy(b) \in Shape /\ Buddy(b)[1] = b[1]
<1>1. b \in Shape /\ b[1] \in Level
  BY BlockUnits
<1>2. b[1] < iBlockCountOfSmallestBlock
  BY <1>1, ListOf, Pool
<1>. QED
  BY <1>1, <1>2, Halves

\* The block that a free block and its free buddy make is one of the pool.
LEMMA ParentInPool ==
    ASSUME NEW b \in Block, Buddy(b) \in Block
    PROVE  <<b[1] + 1, b[2] \div 2>> \in Block
<1> DEFINE p == <<b[1] + 1, b[2] \div 2>>
<1>1. b \in Shape /\ b[1] < iBlockCountOfSmallestBlock
  BY BlockUnits, ListOf, Pool
<1>2. p \in Shape /\ \A u : u \in Units(p) <=> u \in Units(b) \/ u \in Units(Buddy(b))
  BY <1>1, Halves
<1> HIDE DEF p
<1>3. \A u : u \in Units(p) => u \in Unit
  BY <1>2, BlockUnits
<1>4. p \in Block
  BY <1>2, <1>3, InPool
<1>. QED
  BY <1>4 DEF p

\* The joining stops at a block of the pool.
LEMMA MergesIs ==
    ASSUME NEW b \in Block, Exist \subseteq Block, NEW n, n = Merges(b)
    PROVE  /\ n \in Nat /\ Ancestor(b, n) \in Block /\ b[1] + n < iMaxLevelCount
           /\ \A m \in 0 .. n - 1 : Buddy(Ancestor(b, m)) \in Exist
           /\ Buddy(Ancestor(b, n)) \notin Exist
<1> DEFINE M == iMaxLevelCount - b[1]
           Stops(k) == b[1] + k = iMaxLevelCount \/ Buddy(Ancestor(b, k)) \notin Exist
           T == {k \in 0 .. M : Stops(k)}
           R(k) == /\ \A m \in 0 .. k - 1 : Buddy(Ancestor(b, m)) \in Exist
                   /\ Stops(k)
<1>1. b[1] \in Nat /\ iMaxLevelCount \in Nat /\ b[1] < iMaxLevelCount /\ M \in Nat
      /\ b[1] + M = iMaxLevelCount /\ b \in Shape
      /\ iMaxLevelCount <= iBlockCountOfSmallestBlock
  BY BlockUnits, Levels, Pool DEF Level
<1>2. PICK k \in T : \A y \in T : k <= y
  <2>1. M \in T
    BY <1>1
  <2>2. T \in SUBSET Nat
    BY <1>1
  <2> HIDE DEF T
  <2>. QED
    BY <2>1, <2>2, Least
<1>3. R(k) /\ k \in 0 .. M
  <2>1. k \in 0 .. M /\ Stops(k)
    BY <1>2
  <2>2. ASSUME NEW m \in 0 .. k - 1 PROVE Buddy(Ancestor(b, m)) \in Exist
    <3>1. m \in 0 .. M /\ ~(k <= m)
      BY <1>1, <2>1
    <3>2. m \notin T
      BY <1>2, <3>1
    <3>. QED
      BY <3>1, <3>2
  <2>. QED
    BY <2>1, <2>2
<1>4. Merges(b) = CHOOSE m \in 0 .. M : R(m)
  BY DEF Merges
<1>5. n \in 0 .. M /\ R(n)
  <2> HIDE DEF R, M
  <2>. QED
    BY <1>3, <1>4
<1> HIDE DEF M
<1> DEFINE S == {m \in 0 .. n : Ancestor(b, m) \in Block}
<1>6. 0 \in S
  <2>1. Ancestor(b, 0) = b
    BY <1>1, ShapeIs, SizeDoubles DEF Ancestor
  <2>. QED
    BY <1>1, <1>5, <2>1
<1>7. ASSUME NEW m \in 0 .. n - 1, m \in S PROVE m + 1 \in S
  <2>1. m \in Nat /\ b[1] + m < iBlockCountOfSmallestBlock /\ m + 1 \in 0 .. n
    BY <1>1, <1>5, Pool
  <2>2. Ancestor(b, m) \in Block /\ Buddy(Ancestor(b, m)) \in Block
    BY <1>5, <1>7
  <2>3. Ancestor(b, m + 1) = <<Ancestor(b, m)[1] + 1, Ancestor(b, m)[2] \div 2>>
    BY <1>1, <2>1, AncestorStep
  <2>4. Ancestor(b, m + 1) \in Block
    BY <2>2, <2>3, ParentInPool
  <2>. QED
    BY <2>1, <2>4
<1>8. n \in S
  <2>1. n \in Nat
    BY <1>1, <1>5
  <2> HIDE DEF S
  <2>. QED
    BY <1>6, <1>7, <2>1, Induction
<1>9. Ancestor(b, n) \in Block /\ n \in Nat
  BY <1>1, <1>5, <1>8
<1>10. b[1] + n < iMaxLevelCount
  <2>1. Ancestor(b, n)[1] \in Level
    BY <1>9, BlockUnits
  <2>. QED
    BY <1>1, <1>9, <2>1 DEF Ancestor, Level
<1>. QED
  BY <1>1, <1>5, <1>9, <1>10

\* t takes block b out of the free blocks, halved until it is one of list i.
Takes(t, b, i, P, Q) ==
    /\ P[NULL] = Exist /\ Q[NULL] = Split(b, i) /\ Q[t] = P[t] \cup {Left(b, b[1] - i)}
    /\ \A x \in Owner \ {NULL, t} : Q[x] = P[x]

\* What t gets is a block of list i, and neighbours that are both free do not come
\* of it.
LEMMA Taking ==
    ASSUME NEW t \in Task, NEW b \in Exist, NEW i \in 0 .. b[1], NEW P, NEW Q,
           Exist \subseteq Block, FreeBuddiesMerged, Apart(P), Covers(P), Takes(t, b, i, P, Q),
           NEW a, a = Left(b, b[1] - i), NEW E, E = Split(b, i)
    PROVE  /\ a \in Block /\ a[1] = i /\ a \notin P[t] /\ E \subseteq Block
           /\ \A x \in E : Buddy(x) \notin E
           /\ Apart(Q) /\ Covers(Q)
<1> USE DEF Takes
<1> DEFINE m == b[1] - i
           old == {<<NULL, b>>}
           new == {<<t, a>>} \cup {<<NULL, Right(b, l)>> : l \in 1 .. m}
<1>1. b \in Block /\ b \in Shape /\ b[1] \in Nat /\ b[2] \in Nat /\ m \in 0 .. b[1]
      /\ b[1] \in Level /\ \A u : u \in Units(b) => u \in Unit
  BY BlockUnits, ListOf, ShapeIs
<1>2. t # NULL /\ t \in Owner /\ NULL \in Owner
  BY MarkAssumption DEF Owner
<1>3. SplitOK(b, m)
  BY <1>1, SplitUnits
<1>4. \A x : x \in E <=> (x \in Exist /\ x # b) \/ \E l \in 1 .. m : x = Right(b, l)
  <2> SUFFICES ASSUME NEW x PROVE x \in E <=> (x \in Exist /\ x # b) \/ \E l \in 1 .. m : x = Right(b, l)
    OBVIOUS
  <2>1. ASSUME NEW j \in i .. b[1] - 1, x = <<j, b[2] * Size[b[1] - j] + 1>>
        PROVE  \E l \in 1 .. m : x = Right(b, l)
    <3>1. b[1] - j \in 1 .. m /\ b[1] - (b[1] - j) = j
      BY <1>1
    <3>2. x = Right(b, b[1] - j)
      BY <2>1, <3>1 DEF Right
    <3>. QED
      BY <3>1, <3>2
  <2>2. ASSUME NEW l \in 1 .. m, x = Right(b, l)
        PROVE  \E j \in i .. b[1] - 1 : x = <<j, b[2] * Size[b[1] - j] + 1>>
    <3>1. b[1] - l \in i .. b[1] - 1 /\ b[1] - (b[1] - l) = l
      BY <1>1
    <3>2. x = <<b[1] - l, b[2] * Size[b[1] - (b[1] - l)] + 1>>
      BY <2>2, <3>1 DEF Right
    <3>. QED
      BY <3>1, <3>2
  <2>3. x \in E <=> x \in Exist \ {b}
                    \/ \E j \in i .. b[1] - 1 : x = <<j, b[2] * Size[b[1] - j] + 1>>
    BY DEF Split
  <2>. QED
    BY <2>1, <2>2, <2>3
<1>5. /\ a \in Shape /\ a[1] = i
      /\ \A u : u \in Units(a) => u \in Units(b)
      /\ \A l \in 1 .. m : /\ Right(b, l) \in Shape /\ Buddy(Right(b, l)) = Left(b, l)
                           /\ \A u : u \in Units(Right(b, l)) => u \in Units(b)
                           /\ \A u : u \in Units(a) => u \in Units(Left(b, l))
                           /\ \A u : ~(u \in Units(a) /\ u \in Units(Right(b, l)))
                           /\ \A k \in 1 .. m : \A u :
                                u \in Units(Right(b, k)) /\ u \in Units(Right(b, l)) => k = l
      /\ \A u : u \in Units(b) => u \in Units(a) \/ \E l \in 1 .. m : u \in Units(Right(b, l))
  <2>1. b[1] - m = i
    BY <1>1
  <2>. QED
    BY <1>3, <2>1 DEF SplitOK
<1>6. a \in Block
  BY <1>1, <1>5, InPool
<1>7. \A l \in 1 .. m : Right(b, l) \in Block
  BY <1>1, <1>5, InPool
<1>8. E \subseteq Block
  BY <1>4, <1>7
<1>9. Address(a) \in Units(a) /\ Address(a) \in Units(b) /\ Address(a) \in Unit
  BY <1>1, <1>5, UnitsAre
<1>10. a \notin P[t]
  BY <1>2, <1>9 DEF Apart
<1> HIDE DEF m
<1>11. ASSUME NEW x \in Exist, Address(a) \in Units(x) PROVE x = b
  BY <1>2, <1>9, <1>11 DEF Apart
<1>12. ASSUME NEW x \in E, Buddy(x) \in E PROVE FALSE
  <2>1. CASE x \in Exist /\ x # b /\ Buddy(x) \in Exist
    BY <2>1 DEF FreeBuddiesMerged
  <2>2. ASSUME x \in Exist, x # b, NEW l \in 1 .. m, Buddy(x) = Right(b, l) PROVE FALSE
    <3>1. Buddy(Buddy(x)) = x
      BY <2>2, BuddyOf
    <3>2. x = Left(b, l)
      BY <1>5, <2>2, <3>1
    <3>. QED
      BY <1>5, <1>9, <1>11, <2>2, <3>2
  <2>3. ASSUME NEW l \in 1 .. m, x = Right(b, l) PROVE FALSE
    <3>1. Buddy(x) = Left(b, l) /\ Address(a) \in Units(Left(b, l))
      BY <1>5, <1>9, <2>3
    <3>2. ~(Buddy(x) \in Exist /\ Buddy(x) # b)
      BY <1>11, <3>1
    <3>3. PICK k \in 1 .. m : Buddy(x) = Right(b, k)
      BY <1>4, <1>12, <3>2
    <3>. QED
      BY <1>5, <1>9, <3>1, <3>3
  <2>. QED
    BY <1>4, <1>12, <2>1, <2>2, <2>3
<1>13. Apart(Q) /\ Covers(Q)
  <2>1. \A p : p \in new <=> p = <<t, a>> \/ \E l \in 1 .. m : p = <<NULL, Right(b, l)>>
    OBVIOUS
  <2>2. \A p : p \in old <=> p = <<NULL, b>>
    OBVIOUS
  <2> HIDE DEF new, old
  <2>3. ASSUME NEW x \in Owner, NEW d
        PROVE  d \in Q[x] <=> (d \in P[x] /\ <<x, d>> \notin old) \/ <<x, d>> \in new
    <3>1. <<x, d>> \in old <=> x = NULL /\ d = b
      BY <2>2
    <3>2. <<x, d>> \in new <=> (x = t /\ d = a) \/ (x = NULL /\ \E l \in 1 .. m : d = Right(b, l))
      BY <2>1
    <3>3. CASE x = NULL
      BY <1>2, <1>4, <3>1, <3>2, <3>3
    <3>4. CASE x = t
      BY <1>2, <3>1, <3>2, <3>4
    <3>5. CASE x # NULL /\ x # t
      BY <3>1, <3>2, <3>5
    <3>. QED
      BY <3>3, <3>4, <3>5
  <2>4. \A p \in old : p[1] \in Owner /\ p[2] \in P[p[1]] /\ p = <<p[1], p[2]>>
    BY <1>2, <2>2
  <2>5. \A p \in new : p[1] \in Owner /\ p = <<p[1], p[2]>>
    BY <1>2, <2>1
  <2>6. ASSUME NEW p \in new, NEW q \in new, NEW u \in Unit, u \in Units(p[2]), u \in Units(q[2])
        PROVE  p = q
    <3>1. CASE p = <<t, a>> /\ q = <<t, a>>
      BY <3>1
    <3>2. ASSUME p = <<t, a>>, NEW l \in 1 .. m, q = <<NULL, Right(b, l)>> PROVE FALSE
      <4>1. p[2] = a /\ q[2] = Right(b, l)
        BY <3>2
      <4>. QED
        BY <1>5, <2>6, <4>1
    <3>3. ASSUME q = <<t, a>>, NEW l \in 1 .. m, p = <<NULL, Right(b, l)>> PROVE FALSE
      <4>1. q[2] = a /\ p[2] = Right(b, l)
        BY <3>3
      <4>. QED
        BY <1>5, <2>6, <4>1
    <3>4. ASSUME NEW k \in 1 .. m, NEW l \in 1 .. m,
                 p = <<NULL, Right(b, k)>>, q = <<NULL, Right(b, l)>>
          PROVE  p = q
      <4>1. p[2] = Right(b, k) /\ q[2] = Right(b, l)
        BY <3>4
      <4>2. k = l
        BY <1>5, <2>6, <4>1
      <4>. QED
        BY <3>4, <4>2
    <3>. QED
      BY <2>1, <3>1, <3>2, <3>3, <3>4
  <2>7. ASSUME NEW p \in old, NEW u \in Unit, u \in Units(p[2])
        PROVE  \E q \in new : u \in Units(q[2])
    <3>1. u \in Units(b)
      BY <2>2, <2>7
    <3>2. CASE u \in Units(a)
      <4>1. <<t, a>> \in new /\ <<t, a>>[2] = a
        BY <2>1
      <4>. QED
        BY <3>2, <4>1
    <3>3. ASSUME NEW l \in 1 .. m, u \in Units(Right(b, l))
          PROVE  \E q \in new : u \in Units(q[2])
      <4>1. <<NULL, Right(b, l)>> \in new /\ <<NULL, Right(b, l)>>[2] = Right(b, l)
        BY <2>1
      <4>. QED
        BY <3>3, <4>1
    <3>. QED
      BY <1>5, <3>1, <3>2, <3>3
  <2>8. ASSUME NEW p \in new, NEW u \in Unit, u \in Units(p[2])
        PROVE  \E q \in old : u \in Units(q[2])
    <3>1. u \in Units(b)
      BY <1>5, <2>1, <2>8
    <3>2. <<NULL, b>> \in old /\ <<NULL, b>>[2] = b
      BY <2>2
    <3>. QED
      BY <3>1, <3>2
  <2>9. Exchanged(P, Q, old, new)
    BY <2>3, <2>4, <2>5, <2>6, <2>7, <2>8 DEF Exchanged
  <2>. QED
    BY <2>9, Exchange
<1>. QED
  BY <1>5, <1>6, <1>8, <1>10, <1>12, <1>13

\* t gives block b back, which is joined with its free buddies.
Gives(t, b, P, Q) ==
    /\ b \in P[t] /\ P[NULL] = Exist /\ Q[t] = P[t] \ {b}
    /\ Q[NULL] = (Exist \ {Buddy(Ancestor(b, m)) : m \in 0 .. Merges(b) - 1})
                   \cup (IF b[1] + Merges(b) = iMaxLevelCount THEN {} ELSE {Ancestor(b, Merges(b))})
    /\ \A x \in Owner \ {NULL, t} : Q[x] = P[x]

\* It becomes a free block, and its new buddy is not free.
LEMMA Giving ==
    ASSUME NEW t \in Task, NEW b \in Block, NEW n, n = Merges(b), NEW P, NEW Q,
           Exist \subseteq Block, FreeBuddiesMerged, Apart(P), Covers(P), Gives(t, b, P, Q),
           NEW E, E = Q[NULL]
    PROVE  /\ E \subseteq Block
           /\ \A x \in E : Buddy(x) \notin E
           /\ Apart(Q) /\ Covers(Q)
<1> USE DEF Gives
<1> DEFINE a == Ancestor(b, n)
           C(m) == Buddy(Ancestor(b, m))
           old == {<<t, b>>} \cup {<<NULL, C(m)>> : m \in 0 .. n - 1}
           new == {<<NULL, a>>}
<1>1. t # NULL /\ t \in Owner /\ NULL \in Owner
  BY MarkAssumption DEF Owner
<1>2. /\ n \in Nat /\ a \in Block /\ b[1] + n < iMaxLevelCount
      /\ \A m \in 0 .. n - 1 : C(m) \in Exist
      /\ Buddy(a) \notin Exist
  BY MergesIs
<1>3. b \in Shape /\ b[1] \in Nat /\ \A u : u \in Units(b) => u \in Unit
  BY BlockUnits, ShapeIs
<1>4. \A u : u \in Units(a) => u \in Unit
  BY <1>2, BlockUnits
<1>5. /\ \A u : u \in Units(b) => u \in Units(a)
      /\ \A m \in 0 .. n - 1 : \A u : u \in Units(C(m)) => u \in Units(a)
      /\ \A u : u \in Units(a) => u \in Units(b) \/ \E m \in 0 .. n - 1 : u \in Units(C(m))
  <2>1. n \in 0 .. iBlockCountOfSmallestBlock - b[1]
    BY <1>2, <1>3, Levels, Pool
  <2>2. JoinOK(b, n)
    BY <1>3, <2>1, JoinUnits
  <2>. QED
    BY <2>2 DEF JoinOK
<1>6. \A x : x \in E <=> (x \in Exist /\ ~\E m \in 0 .. n - 1 : x = C(m)) \/ x = a
  <2>1. b[1] + n # iMaxLevelCount
    BY <1>2, <1>3, Levels, Pool
  <2>2. E = (Exist \ {C(m) : m \in 0 .. n - 1}) \cup {a}
    BY <2>1
  <2> HIDE DEF C, a
  <2>. QED
    BY <2>2
<1> HIDE DEF a, C
<1>7. E \subseteq Block
  BY <1>2, <1>6
<1>8. ASSUME NEW x \in E, Buddy(x) \in E PROVE FALSE
  <2>1. CASE x \in Exist /\ Buddy(x) \in Exist
    BY <2>1 DEF FreeBuddiesMerged
  <2>2. CASE x = a
    <3>1. Buddy(a) # a
      BY <1>2, BuddyOf
    <3>. QED
      BY <1>2, <1>6, <1>8, <2>2, <3>1
  <2>3. CASE Buddy(x) = a /\ x \in Exist
    <3>1. Buddy(a) = x
      BY <1>7, <1>8, <2>3, BuddyOf
    <3>. QED
      BY <1>2, <2>3, <3>1
  <2>. QED
    BY <1>6, <1>8, <2>1, <2>2, <2>3
<1>9. \A p : p \in old <=> p = <<t, b>> \/ \E m \in 0 .. n - 1 : p = <<NULL, C(m)>>
  OBVIOUS
<1>10. \A p : p \in new <=> p = <<NULL, a>>
  OBVIOUS
<1> HIDE DEF new, old
<1>11. ASSUME NEW x \in Owner, NEW d
       PROVE  d \in Q[x] <=> (d \in P[x] /\ <<x, d>> \notin old) \/ <<x, d>> \in new
  <2>1. <<x, d>> \in old <=> (x = t /\ d = b) \/ (x = NULL /\ \E m \in 0 .. n - 1 : d = C(m))
    BY <1>9
  <2>2. <<x, d>> \in new <=> x = NULL /\ d = a
    BY <1>10
  <2>3. CASE x = NULL
    BY <1>1, <1>6, <2>1, <2>2, <2>3
  <2>4. CASE x = t
    BY <1>1, <2>1, <2>2, <2>4
  <2>5. CASE x # NULL /\ x # t
    BY <2>1, <2>2, <2>5
  <2>. QED
    BY <2>3, <2>4, <2>5
<1>12. ASSUME NEW p \in old PROVE p[1] \in Owner /\ p[2] \in P[p[1]] /\ p = <<p[1], p[2]>>
  <2>1. CASE p = <<t, b>>
    BY <1>1, <2>1
  <2>2. ASSUME NEW m \in 0 .. n - 1, p = <<NULL, C(m)>>
        PROVE  p[1] \in Owner /\ p[2] \in P[p[1]] /\ p = <<p[1], p[2]>>
    BY <1>1, <1>2, <2>2
  <2>. QED
    BY <1>9, <2>1, <2>2
<1>13. \A p \in new : p[1] \in Owner /\ p = <<p[1], p[2]>>
  BY <1>1, <1>10
<1>14. \A p, q \in new : \A u \in Unit : u \in Units(p[2]) /\ u \in Units(q[2]) => p = q
  BY <1>10
<1>15. ASSUME NEW p \in old, NEW u \in Unit, u \in Units(p[2])
       PROVE  \E q \in new : u \in Units(q[2])
  <2>1. u \in Units(a)
    BY <1>5, <1>9, <1>15
  <2>2. <<NULL, a>> \in new /\ <<NULL, a>>[2] = a
    BY <1>10
  <2>. QED
    BY <2>1, <2>2
<1>16. ASSUME NEW p \in new, NEW u \in Unit, u \in Units(p[2])
       PROVE  \E q \in old : u \in Units(q[2])
  <2>1. u \in Units(a)
    BY <1>10, <1>16
  <2>2. CASE u \in Units(b)
    <3>1. <<t, b>> \in old /\ <<t, b>>[2] = b
      BY <1>9
    <3>. QED
      BY <2>2, <3>1
  <2>3. ASSUME NEW m \in 0 .. n - 1, u \in Units(C(m))
        PROVE  \E q \in old : u \in Units(q[2])
    <3>1. <<NULL, C(m)>> \in old /\ <<NULL, C(m)>>[2] = C(m)
      BY <1>9
    <3>. QED
      BY <2>3, <3>1
  <2>. QED
    BY <1>5, <2>1, <2>2, <2>3
<1>17. Exchanged(P, Q, old, new)
  BY <1>11, <1>12, <1>13, <1>14, <1>15, <1>16 DEF Exchanged
<1>. QED
  BY <1>7, <1>8, <1>17, Exchange

(***************************************************************************)
(* The pool as it is set up                                                *)
(***************************************************************************)
\* A unit that is past the last whole block of a list is so in the longer ones.
LEMMA PastTheLast ==
    ASSUME NEW u \in Unit, NEW i \in 0 .. iBlockCountOfSmallestBlock,
           u \div Size[i] = iBlockCountOfSmallestBlock \div Size[i]
    PROVE  \A j \in i .. iBlockCountOfSmallestBlock :
             u \div Size[j] = iBlockCountOfSmallestBlock \div Size[j]
<1> DEFINE N == iBlockCountOfSmallestBlock
           S == {m \in 0 .. N - i : u \div Size[i + m] = N \div Size[i + m]}
<1>1. 0 \in S
  BY Pool
<1>2. ASSUME NEW m \in 0 .. N - i - 1, m \in S PROVE m + 1 \in S
  <2>1. i + m \in 0 .. N - 1 /\ i + (m + 1) = i + m + 1 /\ u \in Nat /\ N \in Nat
        /\ m + 1 \in 0 .. N - i
    BY Pool DEF Unit
  <2>2. Size[i + m] \in Nat \ {0} /\ Size[i + m + 1] = 2 * Size[i + m]
    BY <2>1, SizeDoubles, Pool
  <2>3. /\ u \div Size[i + m + 1] = (u \div Size[i + m]) \div 2
        /\ N \div Size[i + m + 1] = (N \div Size[i + m]) \div 2
    <3> HIDE DEF N
    <3>. QED
      BY <2>1, <2>2, HalfOf
  <2>. QED
    BY <1>2, <2>1, <2>3
<1>3. N - i \in Nat /\ N - i - 1 = (N - i) - 1
  BY Pool
<1>4. \A m \in 0 .. N - i : m \in S
  <2> DEFINE k == N - i
  <2>1. k \in Nat /\ \A m \in 0 .. k - 1 : m \in S => m + 1 \in S
    BY <1>2, <1>3
  <2> HIDE DEF k, S
  <2>2. \A m \in 0 .. k : m \in S
    BY <1>1, <2>1, Induction
  <2>. QED
    BY <2>2 DEF k
<1>5. ASSUME NEW j \in i .. N PROVE u \div Size[j] = N \div Size[j]
  <2>1. j - i \in 0 .. N - i /\ i + (j - i) = j
    BY Pool
  <2>2. j - i \in S
    <3> HIDE DEF S
    <3>. QED
      BY <1>4, <2>1
  <2>. QED
    BY <2>1, <2>2
<1>. QED
  BY <1>5

\* The blocks that kInitializeDynamicMemory makes free
LEMMA InitialIs ==
    ASSUME NEW d
    PROVE  d \in InitialBlocks <=>
             \E i \in Level : BlockCount(i) % 2 = 1 /\ d = <<i, BlockCount(i) - 1>>
BY DEF InitialBlocks

\* The last blocks of the lists with an odd number of them make up the pool: a unit
\* is in that of the last list in which it is in a whole block at all.
LEMMA InitialPool ==
    ASSUME NEW P, P[NULL] = InitialBlocks, \A x \in Owner \ {NULL} : P[x] = {}
    PROVE  /\ InitialBlocks \subseteq Block
           /\ \A b \in InitialBlocks : Buddy(b) \notin InitialBlocks
           /\ Apart(P) /\ Covers(P)
<1> DEFINE N == iBlockCountOfSmallestBlock
<1>1. ASSUME NEW i \in Level, BlockCount(i) % 2 = 1, NEW d, d = <<i, BlockCount(i) - 1>>
      PROVE  /\ d \in Block /\ d[1] = i /\ d[2] = BlockCount(i) - 1 /\ d \in Shape
             /\ \A u \in Unit : u \in Units(d) <=> u \div Size[i] = BlockCount(i) - 1
  <2>1. BlockCount(i) \in Nat \ {0} /\ d[1] = i /\ d[2] = BlockCount(i) - 1
    BY <1>1, ListOf
  <2>2. d \in {i} \X (0 .. BlockCount(i) - 1)
    BY <1>1, <2>1
  <2>3. d \in Block
    BY <2>2 DEF Block
  <2>4. d \in Shape
    BY <2>3, BlockUnits
  <2>5. \A u \in Unit : u \in Nat
    BY Pool DEF Unit
  <2>. QED
    BY <2>1, <2>3, <2>4, <2>5, UnitsAre
<1>2. InitialBlocks \subseteq Block
  BY <1>1, InitialIs
<1>3. ASSUME NEW b \in InitialBlocks PROVE Buddy(b) \notin InitialBlocks
  <2>1. PICK i \in Level : BlockCount(i) % 2 = 1 /\ b = <<i, BlockCount(i) - 1>>
    BY InitialIs
  <2> DEFINE c == BlockCount(i)
  <2>2. c \in Nat \ {0} /\ c % 2 = 1
    BY <2>1, ListOf
  <2> HIDE DEF c
  <2>3. (c - 1) % 2 = 0
    BY <2>2
  <2>4. Buddy(b) = <<i, c>>
    <3>1. b[1] = i /\ b[2] = c - 1
      BY <2>1 DEF c
    <3>. QED
      BY <2>2, <2>3, <3>1 DEF Buddy
  <2>5. ASSUME Buddy(b) \in InitialBlocks PROVE FALSE
    <3>1. PICK j \in Level : Buddy(b) = <<j, BlockCount(j) - 1>>
      BY <2>5, InitialIs
    <3>2. j = i /\ c = BlockCount(j) - 1
      BY <2>4, <3>1
    <3>3. c = c - 1
      BY <3>2 DEF c
    <3>. QED
      BY <2>2, <3>3
  <2>. QED
    BY <2>5
\* The same unit is not in the last blocks of two lists.
<1>4. ASSUME NEW i \in Level, NEW j \in Level, i < j, NEW u \in Unit, BlockCount(i) % 2 = 1,
             u \div Size[i] = BlockCount(i) - 1, u \div Size[j] = BlockCount(j) - 1
      PROVE  FALSE
  <2>1. /\ i \in 0 .. N - 1 /\ i + 1 \in 0 .. N /\ j \in i + 1 .. N /\ u \in Nat /\ N \in Nat
        /\ BlockCount(i) \in Nat \ {0} /\ BlockCount(j) \in Nat \ {0}
    BY <1>4, ListOf, Pool DEF Unit
  <2>2. Size[i] \in Nat \ {0} /\ Size[i + 1] = 2 * Size[i]
    BY <2>1, SizeDoubles
  <2>3. /\ u \div Size[i + 1] = (u \div Size[i]) \div 2
        /\ N \div Size[i + 1] = (N \div Size[i]) \div 2
    <3> HIDE DEF N
    <3>. QED
      BY <2>1, <2>2, HalfOf
  <2>4. (BlockCount(i) - 1) \div 2 = BlockCount(i) \div 2
    <3> DEFINE c == BlockCount(i)
    <3>1. c \in Nat \ {0} /\ c % 2 = 1
      BY <1>4, <2>1
    <3> HIDE DEF c
    <3>2. (c - 1) \div 2 = c \div 2
      BY <3>1
    <3>. QED
      BY <3>2 DEF c
  <2>5. u \div Size[i + 1] = N \div Size[i + 1]
    BY <1>4, <2>3, <2>4 DEF BlockCount
  <2>6. u \div Size[j] = N \div Size[j]
    BY <2>1, <2>5, PastTheLast
  <2>7. BlockCount(j) = BlockCount(j) - 1
    BY <1>4, <2>6 DEF BlockCount
  <2>. QED
    BY <2>1, <2>7
<1>5. ASSUME NEW x \in Owner, NEW y \in Owner, NEW b \in P[x], NEW d \in P[y], NEW u \in Unit,
             u \in Units(b), u \in Units(d)
      PROVE  x = y /\ b = d
  <2>1. x = NULL /\ y = NULL /\ b \in InitialBlocks /\ d \in InitialBlocks
    BY <1>5
  <2>2. PICK i \in Level : BlockCount(i) % 2 = 1 /\ b = <<i, BlockCount(i) - 1>>
    BY <2>1, InitialIs
  <2>3. PICK j \in Level : BlockCount(j) % 2 = 1 /\ d = <<j, BlockCount(j) - 1>>
    BY <2>1, InitialIs
  <2>4. u \div Size[i] = BlockCount(i) - 1 /\ u \div Size[j] = BlockCount(j) - 1
    BY <1>1, <1>5, <2>2, <2>3
  <2>5. ~(i < j) /\ ~(j < i)
    BY <1>4, <2>2, <2>3, <2>4
  <2>6. i = j
    <3>1. i \in Nat /\ j \in Nat
      BY ListOf
    <3>. QED
      BY <2>5, <3>1
  <2>. QED
    BY <2>1, <2>2, <2>3, <2>6
<1>6. ASSUME NEW u \in Unit PROVE \E x \in Owner : \E b \in P[x] : u \in Units(b)
  <2> DEFINE T == {i \in 0 .. N : u \div Size[i] = N \div Size[i]}
             M == iMaxLevelCount
  <2>1. u \in Nat /\ N \in Nat /\ u < N /\ M \in 1 .. N
    BY Levels, Pool DEF Unit
  <2>2. M \in T
    <3>1. Size[M] \in Nat \ {0} /\ N \div Size[M] = 0
      BY <2>1, SizeDoubles, Levels DEF BlockCount
    <3> DEFINE s == Size[M]
    <3>2. s \in Nat \ {0} /\ ~(0 < N \div s)
      BY <3>1
    <3> HIDE DEF s, N
    <3>3. ~((0 + 1) * s <= N)
      BY <2>1, <3>2, Quotient
    <3>4. u \in 0 .. s - 1 /\ 0 * s + u = u
      BY <2>1, <3>2, <3>3
    <3>5. (0 * s + u) \div s = 0
      BY <3>2, <3>4, Divided
    <3>6. u \div s = 0
      BY <3>4, <3>5
    <3>. QED
      BY <2>1, <3>1, <3>6 DEF s
  <2>3. PICK k \in T : \A y \in T : k <= y
    <3>1. T \in SUBSET Nat
      BY <2>1
    <3> HIDE DEF T
    <3>. QED
      BY <2>2, <3>1, Least
  <2>4. k \in 0 .. N /\ u \div Size[k] = N \div Size[k] /\ k <= M
    BY <2>2, <2>3
  <2>5. k # 0
    <3>1. Size[0] = 1 /\ u \div 1 = u /\ N \div 1 = N
      BY <2>1, SizeDoubles
    <3>. QED
      BY <2>1, <2>4, <3>1
  <2> DEFINE j == k - 1
             a == u \div Size[j]
             c == N \div Size[j]
  <2>6. j \in 0 .. N - 1 /\ j \in 0 .. N /\ j + 1 = k /\ j \in Level
    BY <2>1, <2>4, <2>5 DEF Level
  <2>7. a # c
    BY <2>3, <2>4, <2>6
  <2> HIDE DEF T
  <2>8. Size[j] \in Nat \ {0} /\ Size[k] = 2 * Size[j]
    BY <2>6, SizeDoubles
  <2>9. a \div 2 = c \div 2
    <3>1. u \div Size[k] = a \div 2 /\ N \div Size[k] = c \div 2
      <4> HIDE DEF N, j
      <4>. QED
        BY <2>1, <2>8, HalfOf
    <3>. QED
      BY <2>4, <3>1
  <2>10. a \in Nat /\ c \in Nat /\ ~(c < a)
    <3> DEFINE s == Size[j]
    <3>1. s \in Nat \ {0}
      BY <2>8
    <3> HIDE DEF s, j, N
    <3>2. u \div s \in Nat /\ N \div s \in Nat
      BY <2>1, <3>1, Division
    <3> DEFINE q == N \div s
    <3>3. q < u \div s <=> (q + 1) * s <= u
      BY <2>1, <3>1, <3>2, Quotient
    <3>4. q < N \div s <=> (q + 1) * s <= N
      BY <2>1, <3>1, <3>2, Quotient
    <3>5. (q + 1) * s \in Nat /\ ~(q < N \div s)
      BY <3>1, <3>2
    <3>6. ~(q < u \div s)
      <4> HIDE DEF q
      <4>. QED
        BY <2>1, <3>3, <3>4, <3>5
    <3>. QED
      BY <3>2, <3>6 DEF s
  <2>11. a = c - 1 /\ c % 2 = 1
    <3> HIDE DEF a, c
    <3>. QED
      BY <2>7, <2>9, <2>10
  <2> DEFINE d == <<j, BlockCount(j) - 1>>
  <2>12. BlockCount(j) % 2 = 1 /\ u \div Size[j] = BlockCount(j) - 1
    BY <2>11 DEF BlockCount
  <2>13. d \in InitialBlocks /\ u \in Units(d)
    <3> HIDE DEF j, a, c
    <3>. QED
      BY <1>1, <2>6, <2>12, InitialIs
  <2>14. NULL \in Owner /\ d \in P[NULL]
    BY <2>13 DEF Owner
  <2>. QED
    BY <2>13, <2>14
<1>. QED
  BY <1>2, <1>3, <1>5, <1>6 DEF Apart, Covers

(***************************************************************************)
(* What a step changes                                                     *)
(***************************************************************************)
FlightCalls == {"setIndex", "addRead", "addWrite", "return", "clear", "merge"}
Shown(p, b, calls) == IF p \in calls THEN {b} \ {NULL} ELSE {}

\* The parts, by the state of the calls, ...
LEMMA PartsAre ==
    /\ NULL \in Owner /\ NULL \notin Task /\ Parts[NULL] = Exist
    /\ \A v \in Task : /\ v \in Owner /\ v # NULL
                       /\ Parts[v] = held[v] \cup Shown(pc[v], block[v], FlightCalls)
                       /\ Listed[v] = held[v] \cup Shown(pc[v], block[v], ListedCalls)
                       /\ Charged[v] = held[v] \cup Shown(pc[v], block[v], ChargedCalls)
<1>1. NULL \in Owner /\ NULL \notin Task /\ \A v \in Task : v \in Owner /\ v # NULL
  BY MarkAssumption DEF Owner
<1>2. \A v \in Task : Parts[v] = held[v] \cup Shown(pc[v], block[v], FlightCalls)
  BY <1>1 DEF Parts, InFlight, Shown, FlightCalls
<1>3. \A v \in Task : /\ Listed[v] = held[v] \cup Shown(pc[v], block[v], ListedCalls)
                      /\ Charged[v] = held[v] \cup Shown(pc[v], block[v], ChargedCalls)
  BY DEF Listed, Charged, Counted, Shown
<1>4. Parts[NULL] = Exist
  BY <1>1 DEF Parts
<1>. QED
  BY <1>1, <1>2, <1>3, <1>4

\* ... and after a step.
LEMMA PartsAreNext ==
    /\ Parts'[NULL] = Exist'
    /\ \A v \in Task : /\ Parts'[v] = held'[v] \cup Shown(pc'[v], block'[v], FlightCalls)
                       /\ Listed'[v] = held'[v] \cup Shown(pc'[v], block'[v], ListedCalls)
                       /\ Charged'[v] = held'[v] \cup Shown(pc'[v], block'[v], ChargedCalls)
<1>1. NULL \in Owner /\ NULL \notin Task /\ \A v \in Task : v \in Owner /\ v # NULL
  BY MarkAssumption DEF Owner
<1>2. \A v \in Task : Parts'[v] = held'[v] \cup Shown(pc'[v], block'[v], FlightCalls)
  BY <1>1 DEF Parts, InFlight, Shown, FlightCalls
<1>3. \A v \in Task : /\ Listed'[v] = held'[v] \cup Shown(pc'[v], block'[v], ListedCalls)
                      /\ Charged'[v] = held'[v] \cup Shown(pc'[v], block'[v], ChargedCalls)
  BY DEF Listed, Charged, Counted, Shown
<1>4. Parts'[NULL] = Exist'
  BY <1>1 DEF Parts
<1>. QED
  BY <1>1, <1>2, <1>3, <1>4

\* A step is one of one task: of the others it changes nothing.
Moves(t, to, b, h) ==
    /\ pc' = [pc EXCEPT ![t] = to]
    /\ block' = [block EXCEPT ![t] = b]
    /\ held' = [held EXCEPT ![t] = h]

\* What a step of t makes of the parts of t, and of nobody else's
LEMMA MoveIs ==
    ASSUME TypeOK, NEW t \in Task, NEW to, NEW b, NEW h, Moves(t, to, b, h)
    PROVE  /\ pc'[t] = to /\ block'[t] = b /\ held'[t] = h
           /\ Parts'[t] = h \cup Shown(to, b, FlightCalls)
           /\ Listed'[t] = h \cup Shown(to, b, ListedCalls)
           /\ Charged'[t] = h \cup Shown(to, b, ChargedCalls)
           /\ \A v \in Task \ {t} :
                /\ pc'[v] = pc[v] /\ block'[v] = block[v] /\ held'[v] = held[v]
                /\ Parts'[v] = Parts[v] /\ Listed'[v] = Listed[v] /\ Charged'[v] = Charged[v]
<1>1. pc'[t] = to /\ block'[t] = b /\ held'[t] = h
  BY DEF TypeOK, Moves
<1>2. \A v \in Task \ {t} : pc'[v] = pc[v] /\ block'[v] = block[v] /\ held'[v] = held[v]
  BY DEF TypeOK, Moves
<1>3. \A v \in Task \ {t} :
        /\ Parts'[v] = Parts[v] /\ Listed'[v] = Listed[v] /\ Charged'[v] = Charged[v]
  <2> SUFFICES ASSUME NEW v \in Task \ {t}
               PROVE  /\ Parts'[v] = Parts[v] /\ Listed'[v] = Listed[v]
                      /\ Charged'[v] = Charged[v]
    OBVIOUS
  <2>1. pc'[v] = pc[v] /\ block'[v] = block[v] /\ held'[v] = held[v] /\ v \in Task
    BY <1>2
  <2>2. /\ Parts[v] = held[v] \cup Shown(pc[v], block[v], FlightCalls)
        /\ Listed[v] = held[v] \cup Shown(pc[v], block[v], ListedCalls)
        /\ Charged[v] = held[v] \cup Shown(pc[v], block[v], ChargedCalls)
    BY <2>1, PartsAre
  <2>3. /\ Parts'[v] = held'[v] \cup Shown(pc'[v], block'[v], FlightCalls)
        /\ Listed'[v] = held'[v] \cup Shown(pc'[v], block'[v], ListedCalls)
        /\ Charged'[v] = held'[v] \cup Shown(pc'[v], block'[v], ChargedCalls)
    BY <2>1, PartsAreNext
  <2>. QED
    BY <2>1, <2>2, <2>3
<1>. QED
  BY <1>1, <1>2, <1>3, PartsAreNext

\* What is unchanged has moved nowhere.
LEMMA Same ==
    ASSUME TypeOK, NEW t \in Task
    PROVE  /\ block = [block EXCEPT ![t] = block[t]]
           /\ held = [held EXCEPT ![t] = held[t]]
           /\ pbAllocatedBlockListIndex
                \in [Unit -> Level \cup {Unused}]
BY DEF TypeOK

\* A step of t after which t has the same parts, has the same ones listed or has
\* the same ones charged, so that all have.
LEMMA SameParts ==
    ASSUME TypeOK, NEW t \in Task, NEW to, NEW b, NEW h, Moves(t, to, b, h), Exist' = Exist,
           h \cup Shown(to, b, FlightCalls) = held[t] \cup Shown(pc[t], block[t], FlightCalls)
    PROVE  Parts' = Parts
<1>1. Parts'[t] = Parts[t]
  <2>1. Parts'[t] = h \cup Shown(to, b, FlightCalls)
    BY MoveIs
  <2>2. Parts[t] = held[t] \cup Shown(pc[t], block[t], FlightCalls)
    BY PartsAre
  <2>. QED
    BY <2>1, <2>2
<1>2. \A v \in Task \ {t} : Parts'[v] = Parts[v]
  BY MoveIs
<1>3. \A x \in Owner : Parts'[x] = Parts[x]
  BY <1>1, <1>2, PartsAre, PartsAreNext DEF Owner
<1>4. Parts' = [x \in Owner |-> Parts'[x]] /\ Parts = [x \in Owner |-> Parts[x]]
  BY DEF Parts
<1>. QED
  BY <1>3, <1>4

\* The same of the blocks that the size table should hold, ...
LEMMA SameListed ==
    ASSUME TypeOK, NEW t \in Task, NEW to, NEW b, NEW h, Moves(t, to, b, h), 
           h \cup Shown(to, b, ListedCalls) = held[t] \cup Shown(pc[t], block[t], ListedCalls)
    PROVE  Listed' = Listed
<1>1. Listed'[t] = Listed[t]
  <2>1. Listed'[t] = h \cup Shown(to, b, ListedCalls)
    BY MoveIs
  <2>2. Listed[t] = held[t] \cup Shown(pc[t], block[t], ListedCalls)
    BY PartsAre
  <2>. QED
    BY <2>1, <2>2
<1>2. \A v \in Task \ {t} : Listed'[v] = Listed[v]
  BY MoveIs
<1>3. \A v \in Task : Listed'[v] = Listed[v]
  BY <1>1, <1>2
<1>4. Listed' = [x \in Task |-> Listed'[x]] /\ Listed = [x \in Task |-> Listed[x]]
  BY DEF Listed
<1>. QED
  BY <1>3, <1>4

\* ... and of those that qwUsedSize should count.
LEMMA SameCharged ==
    ASSUME TypeOK, NEW t \in Task, NEW to, NEW b, NEW h, Moves(t, to, b, h), 
           h \cup Shown(to, b, ChargedCalls) = held[t] \cup Shown(pc[t], block[t], ChargedCalls)
    PROVE  Charged' = Charged
<1>1. Charged'[t] = Charged[t]
  <2>1. Charged'[t] = h \cup Shown(to, b, ChargedCalls)
    BY MoveIs
  <2>2. Charged[t] = held[t] \cup Shown(pc[t], block[t], ChargedCalls)
    BY PartsAre
  <2>. QED
    BY <2>1, <2>2
<1>2. \A v \in Task \ {t} : Charged'[v] = Charged[v]
  BY MoveIs
<1>3. \A v \in Task : Charged'[v] = Charged[v]
  BY <1>1, <1>2
<1>4. Charged' = [x \in Task |-> Charged'[x]] /\ Charged = [x \in Task |-> Charged[x]]
  BY DEF Charged
<1>. QED
  BY <1>3, <1>4

\* The parts are blocks of the pool, and what is listed is a part.
LEMMA PartsInPool ==
    ASSUME TypeOK
    PROVE  /\ \A x \in Owner : Parts[x] \subseteq Block
           /\ \A v \in Task : held[v] \subseteq Parts[v] /\ Listed[v] \subseteq Parts[v]
           /\ NULL \notin Block
<1>1. NULL \notin Block
  <2>1. \A b \in Block : b \in Nat \X Nat
    <3> SUFFICES ASSUME NEW b \in Block PROVE b \in Nat \X Nat
      OBVIOUS
    <3>1. b \in Shape
      BY BlockIs
    <3>. QED
      BY <3>1, Pool DEF Shape
  <2>. QED
    BY <2>1, MarkAssumption
<1>2. ASSUME NEW v \in Task
      PROVE  Parts[v] \subseteq Block /\ held[v] \subseteq Parts[v] /\ Listed[v] \subseteq Parts[v]
  <2>1. held[v] \subseteq Block /\ block[v] \in Block \cup {NULL}
    BY DEF TypeOK
  <2>. QED
    BY <2>1, PartsAre DEF Shown, FlightCalls, ListedCalls
<1>3. Parts[NULL] \subseteq Block
  BY PartsAre DEF TypeOK
<1>. QED
  BY <1>1, <1>2, <1>3 DEF Owner

\* Two parts with the same address are the same.
LEMMA SameAddress ==
    ASSUME TypeOK, Apart(Parts), NEW x \in Owner, NEW y \in Owner,
           NEW b \in Parts[x], NEW d \in Parts[y], Address(b) = Address(d)
    PROVE  x = y /\ b = d
<1>1. b \in Block /\ d \in Block
  BY PartsInPool
<1>2. b \in Shape /\ d \in Shape /\ Address(b) \in Unit
  BY <1>1, BlockUnits
<1>3. Address(b) \in Units(b) /\ Address(b) \in Units(d)
  BY <1>2, UnitsAre
<1>. QED
  BY <1>2, <1>3 DEF Apart

\* A block that comes to count makes its units count.
Adds(C, D, t, b) ==
    b \notin C[t] /\ D[t] = C[t] \cup {b} /\ \A v \in Task \ {t} : D[v] = C[v]

\* The number of used units grows by the size of the block.
LEMMA Charging ==
    ASSUME NEW C, NEW D, NEW t \in Task, NEW b \in Block, Adds(C, D, t, b),
           IsFiniteSet(UnitsOf(C)) \/ IsFiniteSet(UnitsOf(D))
    PROVE  /\ IsFiniteSet(UnitsOf(C)) /\ IsFiniteSet(UnitsOf(D)) /\ Size[b[1]] \in Nat
           /\ Cardinality(UnitsOf(C)) \in Nat
           /\ Cardinality(UnitsOf(D)) = Cardinality(UnitsOf(C)) + Size[b[1]]
<1> DEFINE G == {<<t, b>>} \X Units(b)
           X == UnitsOf(C)
           Y == UnitsOf(D)
<1>0. b \notin C[t] /\ D[t] = C[t] \cup {b} /\ \A v \in Task \ {t} : D[v] = C[v]
  BY DEF Adds
<1>1. b \in Shape /\ Units(b) \subseteq Unit
  BY BlockUnits
<1>2. Y = X \cup G
  <2>1. \A w : w \in X <=> /\ w \in (Task \X Block) \X Unit
                           /\ w[1][2] \in C[w[1][1]] /\ w[2] \in Units(w[1][2])
    BY DEF UnitsOf
  <2>2. \A w : w \in Y <=> /\ w \in (Task \X Block) \X Unit
                           /\ w[1][2] \in D[w[1][1]] /\ w[2] \in Units(w[1][2])
    BY DEF UnitsOf
  <2>3. \A w : w \in G <=> w \in (Task \X Block) \X Unit /\ w[1] = <<t, b>> /\ w[2] \in Units(b)
    BY <1>1
  <2> HIDE DEF X, Y, G
  <2>4. ASSUME NEW w \in (Task \X Block) \X Unit PROVE w \in Y <=> w \in X \/ w \in G
    <3> DEFINE v == w[1][1]
               d == w[1][2]
    <3>1. w[1] = <<v, d>> /\ v \in Task /\ d \in Block
      OBVIOUS
    <3>2. w[1] = <<t, b>> <=> v = t /\ d = b
      BY <3>1
    <3>3. w \in X <=> d \in C[v] /\ w[2] \in Units(d)
      BY <2>1
    <3>4. w \in Y <=> d \in D[v] /\ w[2] \in Units(d)
      BY <2>2
    <3> HIDE DEF v, d
    <3>5. d \in D[v] <=> d \in C[v] \/ (v = t /\ d = b)
      BY <1>0, <3>1
    <3>. QED
      BY <2>3, <3>2, <3>3, <3>4, <3>5
  <2>. QED
    BY <2>1, <2>2, <2>3, <2>4
<1>3. X \cap G = {}
  <2> SUFFICES ASSUME NEW w, w \in X, w \in G PROVE FALSE
    OBVIOUS
  <2>1. w[1][2] \in C[w[1][1]]
    BY DEF UnitsOf
  <2>2. w[1] = <<t, b>>
    OBVIOUS
  <2>3. w[1][1] = t /\ w[1][2] = b
    BY <2>2
  <2>. QED
    BY <1>0, <2>1, <2>3
<1>4. IsFiniteSet(G) /\ Cardinality(G) = Size[b[1]] /\ Size[b[1]] \in Nat
  <2> DEFINE a == b[2] * Size[b[1]]
             e == (b[2] + 1) * Size[b[1]]
             s == Size[b[1]]
  <2>1. a \in Nat /\ e \in Nat /\ s \in Nat /\ s > 0 /\ e = a + s
    BY <1>1, ShapeIs
  <2>2. Units(b) = a .. e - 1
    BY DEF Units
  <2> HIDE DEF a, e, s
  <2>3. a \in Int /\ e - 1 \in Int /\ ~(a > e - 1) /\ e - 1 - a + 1 = s
    BY <2>1
  <2>4. IsFiniteSet(Units(b)) /\ Cardinality(Units(b)) = s
    BY <2>2, <2>3, FS_Interval
  <2>5. IsFiniteSet({<<t, b>>}) /\ Cardinality({<<t, b>>}) = 1
    BY FS_Singleton
  <2>6. IsFiniteSet(G) /\ Cardinality(G) = 1 * s
    BY <2>4, <2>5, FS_Product
  <2>. QED
    BY <2>1, <2>6 DEF s
<1> HIDE DEF X, Y, G
<1>5. IsFiniteSet(X)
  <2>1. X \in SUBSET Y
    BY <1>2
  <2>. QED
    BY <2>1, FS_Subset DEF X, Y
<1>6. IsFiniteSet(X \cup G) /\ Cardinality(X \cup G) = Cardinality(X) + Cardinality(G) - Cardinality({})
  BY <1>3, <1>4, <1>5, FS_Union
<1>7. Cardinality(X) \in Nat /\ Cardinality({}) = 0
  BY <1>5, FS_CardinalityType, FS_EmptySet
<1>. QED
  BY <1>2, <1>4, <1>5, <1>6, <1>7 DEF X, Y

\* The block is one whose size the code has right, or one whose size it has wrong.
LEMMA Counting ==
    ASSUME NEW C, NEW D, NEW t \in Task, NEW b \in Block, Adds(C, D, t, b),
           \/ IsFiniteSet(UnitsOf(Plain(C))) /\ IsFiniteSet(UnitsOf(Huge(C)))
           \/ IsFiniteSet(UnitsOf(Plain(D))) /\ IsFiniteSet(UnitsOf(Huge(D)))
    PROVE  /\ IsFiniteSet(UnitsOf(Plain(C))) /\ IsFiniteSet(UnitsOf(Huge(C)))
           /\ IsFiniteSet(UnitsOf(Plain(D))) /\ IsFiniteSet(UnitsOf(Huge(D)))
           /\ Cardinality(UnitsOf(Plain(C))) \in Nat /\ Cardinality(UnitsOf(Huge(C))) \in Nat
           /\ b[1] < INTList =>
                /\ Cardinality(UnitsOf(Plain(D))) = Cardinality(UnitsOf(Plain(C))) + Size[b[1]]
                /\ Cardinality(UnitsOf(Huge(D))) = Cardinality(UnitsOf(Huge(C)))
           /\ ~(b[1] < INTList) =>
                /\ Cardinality(UnitsOf(Plain(D))) = Cardinality(UnitsOf(Plain(C)))
                /\ Cardinality(UnitsOf(Huge(D))) = Cardinality(UnitsOf(Huge(C))) + Size[b[1]]
<1>0. b \notin C[t] /\ D[t] = C[t] \cup {b} /\ \A v \in Task \ {t} : D[v] = C[v]
  BY DEF Adds
<1>1. CASE b[1] < INTList
  <2>1. Adds(Plain(C), Plain(D), t, b)
    BY <1>0, <1>1 DEF Adds, Plain
  <2>2. Huge(D) = Huge(C)
    <3>1. \A v \in Task : {d \in D[v] : ~(d[1] < INTList)} = {d \in C[v] : ~(d[1] < INTList)}
      BY <1>0, <1>1
    <3>. QED
      BY <3>1 DEF Huge
  <2>3. IsFiniteSet(UnitsOf(Plain(C))) \/ IsFiniteSet(UnitsOf(Plain(D)))
    OBVIOUS
  <2>4. /\ IsFiniteSet(UnitsOf(Plain(C))) /\ IsFiniteSet(UnitsOf(Plain(D)))
        /\ Cardinality(UnitsOf(Plain(C))) \in Nat
        /\ Cardinality(UnitsOf(Plain(D))) = Cardinality(UnitsOf(Plain(C))) + Size[b[1]]
    BY <2>1, <2>3, Charging
  <2>5. IsFiniteSet(UnitsOf(Huge(C)))
    BY <2>2
  <2>6. Cardinality(UnitsOf(Huge(C))) \in Nat
    BY <2>5, FS_CardinalityType
  <2>. QED
    BY <1>1, <2>2, <2>4, <2>5, <2>6
<1>2. CASE ~(b[1] < INTList)
  <2>1. Adds(Huge(C), Huge(D), t, b)
    BY <1>0, <1>2 DEF Adds, Huge
  <2>2. Plain(D) = Plain(C)
    <3>1. \A v \in Task : {d \in D[v] : d[1] < INTList} = {d \in C[v] : d[1] < INTList}
      BY <1>0, <1>2
    <3>. QED
      BY <3>1 DEF Plain
  <2>3. IsFiniteSet(UnitsOf(Huge(C))) \/ IsFiniteSet(UnitsOf(Huge(D)))
    OBVIOUS
  <2>4. /\ IsFiniteSet(UnitsOf(Huge(C))) /\ IsFiniteSet(UnitsOf(Huge(D)))
        /\ Cardinality(UnitsOf(Huge(C))) \in Nat
        /\ Cardinality(UnitsOf(Huge(D))) = Cardinality(UnitsOf(Huge(C))) + Size[b[1]]
    BY <2>1, <2>3, Charging
  <2>5. IsFiniteSet(UnitsOf(Plain(C)))
    BY <2>2
  <2>6. Cardinality(UnitsOf(Plain(C))) \in Nat
    BY <2>5, FS_CardinalityType
  <2>. QED
    BY <1>2, <2>2, <2>4, <2>5, <2>6
<1>. QED
  BY <1>1, <1>2

(***************************************************************************)
(* Every step keeps the invariant                                          *)
(***************************************************************************)
LEMMA BlockMoves ==
    ASSUME TypeOK, BlockOK, NEW t \in Task, NEW to \in Label, NEW b \in Block \cup {NULL},
           NEW h \in SUBSET Block, Moves(t, to, b, h),
           to \notin {"idle", "return"} => b # NULL,
           to = "search" => b[2] = 0,
           to \in InCall => b \notin h
    PROVE  /\ BlockOK' /\ pc' \in [Task -> Label] /\ block' \in [Task -> Block \cup {NULL}]
           /\ held' \in [Task -> SUBSET Block]
<1>1. pc' \in [Task -> Label] /\ block' \in [Task -> Block \cup {NULL}]
      /\ held' \in [Task -> SUBSET Block]
  BY DEF TypeOK, Moves
<1>2. ASSUME NEW v \in Task
      PROVE  /\ pc'[v] \notin {"idle", "return"} => block'[v] # NULL
             /\ pc'[v] = "search" => block'[v][2] = 0
             /\ pc'[v] \in InCall => block'[v] \notin held'[v]
  <2>1. CASE v = t
    BY <2>1, MoveIs
  <2>2. CASE v # t
    <3>1. pc'[v] = pc[v] /\ block'[v] = block[v] /\ held'[v] = held[v]
      BY <2>2, MoveIs
    <3>. QED
      BY <3>1 DEF BlockOK
  <2>. QED
    BY <2>1, <2>2
<1>. QED
  BY <1>1, <1>2 DEF BlockOK

\* A step that leaves memory, the size table, the count and the parts as they are
LEMMA Quiet ==
    ASSUME IInv, Exist' = Exist, pbAllocatedBlockListIndex' = pbAllocatedBlockListIndex,
           qwUsedSize' = qwUsedSize, lostUpdates' = lostUpdates, used' \in [Task -> 0 .. QWORD - 1],
           Parts' = Parts, Listed' = Listed, Charged' = Charged,
           pc' \in [Task -> Label], block' \in [Task -> Block \cup {NULL}],
           held' \in [Task -> SUBSET Block], BlockOK'
    PROVE  IInv'
<1>1. TypeOK'
  BY DEF IInv, TypeOK
<1>2. Apart(Parts') /\ Covers(Parts') /\ FreeBuddiesMerged'
  BY DEF IInv, FreeBuddiesMerged
<1>3. Records(Listed', pbAllocatedBlockListIndex')
  BY DEF IInv
<1>4. Counts(Charged)'
  BY DEF IInv, Counts
<1>. QED
  BY <1>1, <1>2, <1>3, <1>4 DEF IInv, Apart, Covers, Records

\* Every list of the pool has a block 0.
LEMMA FirstBlock == ASSUME NEW i \in Level PROVE <<i, 0>> \in Block
<1>1. BlockCount(i) \in Nat \ {0}
  BY ListOf
<1>2. <<i, 0>> \in {i} \X (0 .. BlockCount(i) - 1)
  BY <1>1
<1>. QED
  BY <1>2 DEF Block

\* The pool is smaller than what a QWORD counts.
LEMMA Word == QWORD \in Nat \ {0} /\ iBlockCountOfSmallestBlock < QWORD /\ 0 \in 0 .. QWORD - 1
BY SizeAssumption

\* What the code takes for the size of a list's blocks
LEMMA IntSizeIs ==
    ASSUME NEW i \in Level
    PROVE  /\ Size[i] \in Nat \ {0} /\ Size[i] <= iBlockCountOfSmallestBlock
           /\ IntSize(i) \in Nat /\ IntSize(i) <= QWORD
           /\ IntSize(i) = IF i < INTList THEN Size[i] ELSE QWORD - Size[i]
<1>1. <<i, 0>> \in Block /\ Size[i] \in Nat \ {0}
  BY FirstBlock, ListOf
<1>2. Size[i] <= iBlockCountOfSmallestBlock
  <2> DEFINE a == 0 * Size[i]
             e == (0 + 1) * Size[i]
  <2>1. e <= iBlockCountOfSmallestBlock
    BY <1>1, BlockUnits, BlockIs
  <2>2. e = Size[i]
    BY <1>1
  <2>. QED
    BY <2>1, <2>2
<1>. QED
  BY <1>1, <1>2, Word, Pool DEF IntSize

\* The list that matches a size is the first one with blocks as large.
LEMMA MatchIs ==
    ASSUME NEW qwSize \in Nat, ~TooLarge(qwSize), NEW i, i = kGetBlockListIndexOfMatchSize(qwSize)
    PROVE  i \in Level /\ qwSize <= IntSize(i) /\ \A j \in 0 .. i - 1 : qwSize > IntSize(j)
<1> DEFINE T == {k \in Level : qwSize <= IntSize(k)}
           R(k) == qwSize <= IntSize(k) /\ \A j \in 0 .. k - 1 : qwSize > IntSize(j)
<1>1. \A k \in Level : IntSize(k) \in Nat /\ k \in Nat
  BY ListOf, IntSizeIs
<1>2. T # {} /\ T \in SUBSET Nat
  BY <1>1 DEF TooLarge
<1>3. PICK k \in T : \A y \in T : k <= y
  <2> HIDE DEF T
  <2>. QED
    BY <1>2, Least
<1>4. k \in Level /\ R(k)
  <2>1. k \in Level /\ qwSize <= IntSize(k)
    BY <1>3
  <2>2. ASSUME NEW j \in 0 .. k - 1 PROVE qwSize > IntSize(j)
    <3>1. j \in Level /\ ~(k <= j)
      BY <1>1, <2>1, Levels, Pool DEF Level
    <3>2. ~(qwSize <= IntSize(j))
      BY <1>3, <3>1
    <3>. QED
      BY <1>1, <3>1, <3>2
  <2>. QED
    BY <2>1, <2>2
<1>5. i = CHOOSE m \in Level : R(m)
  BY DEF kGetBlockListIndexOfMatchSize
<1>6. i \in Level /\ R(i)
  <2> HIDE DEF R
  <2>. QED
    BY <1>4, <1>5
<1>. QED
  BY <1>6

\* kAllocateMemory refuses or begins to search: no part of the pool moves.
LEMMA kAllocateMemoryStep ==
    ASSUME IInv, NEW t \in Task, NEW qwSize \in Request,
           kAllocateMemory(t, qwSize)
    PROVE  IInv'
<1> DEFINE i == kGetBlockListIndexOfMatchSize(qwSize)
           refused == TooLarge(qwSize) \/ NoSpace(i)
           to == IF refused THEN "return" ELSE "search"
           b == IF refused THEN NULL ELSE <<i, 0>>
<1>1. TypeOK /\ BlockOK /\ pc[t] = "idle"
  BY DEF IInv, kAllocateMemory, Goto
<1>2. Moves(t, to, b, held[t])
  <2>1. held' = [held EXCEPT ![t] = held[t]]
    BY <1>1, Same DEF kAllocateMemory, callers
  <2>2. pc' = [pc EXCEPT ![t] = to] /\ block' = [block EXCEPT ![t] = b]
    <3>1. CASE refused
      BY <3>1 DEF kAllocateMemory, Goto, SetBlock
    <3>2. CASE ~refused
      BY <3>2 DEF kAllocateMemory, Goto, SetBlock
    <3>. QED
      BY <3>1, <3>2
  <2>. QED
    BY <2>1, <2>2 DEF Moves
<1>3. to \in Label /\ b \in Block \cup {NULL} /\ (to = "return" => b = NULL)
      /\ (to # "return" => to = "search" /\ b # NULL /\ b[2] = 0)
  <2>1. CASE refused
    BY <2>1 DEF Label
  <2>2. CASE ~refused
    <3>1. qwSize \in Nat
      BY IntSizeIs, Word DEF Request
    <3>2. i \in Level
      BY <2>2, <3>1, MatchIs
    <3>3. <<i, 0>> \in Block
      BY <3>2, FirstBlock
    <3>4. NULL \notin Block
      BY <1>1, PartsInPool
    <3>. QED
      BY <2>2, <3>3, <3>4 DEF Label
  <2>. QED
    BY <2>1, <2>2
<1> HIDE DEF to, b
<1>4. held[t] \in SUBSET Block /\ NULL \notin held[t]
  BY <1>1, PartsInPool DEF TypeOK
<1>5. to \in InCall => b \notin held[t]
  BY <1>3, <1>4 DEF InCall
<1>6. BlockOK' /\ pc' \in [Task -> Label] /\ block' \in [Task -> Block \cup {NULL}]
      /\ held' \in [Task -> SUBSET Block]
  BY <1>1, <1>2, <1>3, <1>4, <1>5, BlockMoves
<1>7. /\ Exist' = Exist /\ pbAllocatedBlockListIndex' = pbAllocatedBlockListIndex
      /\ qwUsedSize' = qwUsedSize /\ lostUpdates' = lostUpdates /\ used' = used
  BY DEF kAllocateMemory, callers
<1>8. \A calls \in {FlightCalls, ListedCalls, ChargedCalls} :
        held[t] \cup Shown(to, b, calls) = held[t] \cup Shown(pc[t], block[t], calls)
  BY <1>1, <1>3 DEF FlightCalls, ListedCalls, ChargedCalls, Shown
<1>9. Parts' = Parts
  BY <1>1, <1>2, <1>7, <1>8, SameParts
<1>10. Listed' = Listed
  BY <1>1, <1>2, <1>8, SameListed
<1>11. Charged' = Charged
  BY <1>1, <1>2, <1>8, SameCharged
<1>. QED
  BY <1>1, <1>6, <1>7, <1>9, <1>10, <1>11, Quiet DEF TypeOK

\* qwUsedSize is read into a register: no part of the pool moves.
LEMMA ReadUsedSizeStep ==
    ASSUME IInv, NEW t \in Task, NEW from, NEW to, ReadUsedSize(t, from, to),
           <<from, to>> \in {<<"addRead", "addWrite">>, <<"subRead", "subWrite">>}
    PROVE  IInv'
<1>1. TypeOK /\ BlockOK /\ pc[t] = from
  BY DEF IInv, ReadUsedSize, Goto
<1>2. Moves(t, to, block[t], held[t])
  BY <1>1, Same DEF Moves, ReadUsedSize, Goto, callers
<1>3. /\ from \in {"addRead", "subRead"} /\ to \in Label /\ to \notin {"idle", "return", "search"}
      /\ from \in InCall /\ from \notin {"idle", "return"}
  BY DEF Label, InCall
<1>4. block[t] \in Block \cup {NULL} /\ held[t] \in SUBSET Block
  BY DEF IInv, TypeOK
<1>5. block[t] # NULL /\ block[t] \notin held[t]
  BY <1>1, <1>3 DEF BlockOK
<1>6. BlockOK' /\ pc' \in [Task -> Label] /\ block' \in [Task -> Block \cup {NULL}]
      /\ held' \in [Task -> SUBSET Block]
  BY <1>1, <1>2, <1>3, <1>4, <1>5, BlockMoves
<1>7. /\ Exist' = Exist /\ pbAllocatedBlockListIndex' = pbAllocatedBlockListIndex
      /\ qwUsedSize' = qwUsedSize /\ lostUpdates' = lostUpdates
      /\ used' = [used EXCEPT ![t] = qwUsedSize]
  BY DEF ReadUsedSize, callers
<1>8. used' \in [Task -> 0 .. QWORD - 1]
  BY <1>1, <1>7 DEF TypeOK
<1>9. \A calls \in {FlightCalls, ListedCalls, ChargedCalls} :
        held[t] \cup Shown(to, block[t], calls) = held[t] \cup Shown(pc[t], block[t], calls)
  BY <1>1, <1>3 DEF FlightCalls, ListedCalls, ChargedCalls, Shown
<1>10. Parts' = Parts
  BY <1>1, <1>2, <1>7, <1>9, SameParts
<1>11. Listed' = Listed
  BY <1>1, <1>2, <1>9, SameListed
<1>12. Charged' = Charged
  BY <1>1, <1>2, <1>9, SameCharged
<1>. QED
  BY <1>6, <1>7, <1>8, <1>10, <1>11, <1>12, Quiet

\* The caller has the block that was on its way to it.
LEMMA ReturnStep ==
    ASSUME IInv, NEW t \in Task, Return(t)
    PROVE  IInv'
<1> DEFINE h == held[t] \cup ({block[t]} \ {NULL})
<1>1. TypeOK /\ BlockOK /\ pc[t] = "return"
  BY DEF IInv, Return, Goto
<1>2. Moves(t, "idle", NULL, h)
  BY DEF Moves, Return, Goto, SetBlock
<1>3. h \in SUBSET Block
  BY <1>1 DEF TypeOK
<1>4. "idle" \in Label /\ "idle" \notin InCall
  BY DEF Label, InCall
<1>5. BlockOK' /\ pc' \in [Task -> Label] /\ block' \in [Task -> Block \cup {NULL}]
      /\ held' \in [Task -> SUBSET Block]
  <2> HIDE DEF h
  <2>. QED
    BY <1>1, <1>2, <1>3, <1>4, BlockMoves
<1>6. /\ Exist' = Exist /\ pbAllocatedBlockListIndex' = pbAllocatedBlockListIndex
      /\ qwUsedSize' = qwUsedSize /\ lostUpdates' = lostUpdates /\ used' = used
  BY DEF Return
<1>7. \A calls \in {FlightCalls, ListedCalls, ChargedCalls} :
        h \cup Shown("idle", NULL, calls) = held[t] \cup Shown(pc[t], block[t], calls)
  BY <1>1 DEF FlightCalls, ListedCalls, ChargedCalls, Shown
<1> HIDE DEF h
<1>8. Parts' = Parts
  BY <1>1, <1>2, <1>6, <1>7, SameParts
<1>9. Listed' = Listed
  BY <1>1, <1>2, <1>7, SameListed
<1>10. Charged' = Charged
  BY <1>1, <1>2, <1>7, SameCharged
<1>. QED
  BY <1>1, <1>5, <1>6, <1>8, <1>9, <1>10, Quiet DEF TypeOK

\* Writing the size of a block into the table lists the block.
LEMMA SetIndexStep ==
    ASSUME IInv, NEW t \in Task, SetIndex(t)
    PROVE  IInv'
<1> DEFINE b == block[t]
           tab == pbAllocatedBlockListIndex
<1>1. TypeOK /\ BlockOK /\ pc[t] = "setIndex" /\ Apart(Parts) /\ Records(Listed, tab)
  BY DEF IInv, SetIndex, Goto
<1>2. Moves(t, "addRead", b, held[t])
  BY <1>1, Same DEF Moves, SetIndex, Goto, callers
<1>3. held[t] \in SUBSET Block /\ b \in Block /\ b \notin held[t] /\ b # NULL
  BY <1>1 DEF TypeOK, BlockOK, InCall, Label
<1>4. "addRead" \in Label /\ "addRead" \notin {"idle", "return", "search"}
  BY DEF Label
<1> HIDE DEF b
<1>5. BlockOK' /\ pc' \in [Task -> Label] /\ block' \in [Task -> Block \cup {NULL}]
      /\ held' \in [Task -> SUBSET Block]
  BY <1>1, <1>2, <1>3, <1>4, BlockMoves
<1>6. /\ Exist' = Exist /\ tab' = [tab EXCEPT ![Address(b)] = b[1]]
      /\ qwUsedSize' = qwUsedSize /\ lostUpdates' = lostUpdates /\ used' = used
  BY DEF SetIndex, callers, b
<1>7. /\ held[t] \cup Shown("addRead", b, FlightCalls)
           = held[t] \cup Shown(pc[t], block[t], FlightCalls)
      /\ held[t] \cup Shown("addRead", b, ChargedCalls)
           = held[t] \cup Shown(pc[t], block[t], ChargedCalls)
      /\ Shown("addRead", b, ListedCalls) = {b} /\ Shown(pc[t], block[t], ListedCalls) = {}
      /\ Shown(pc[t], block[t], FlightCalls) = {b}
  BY <1>1, <1>3 DEF FlightCalls, ListedCalls, ChargedCalls, Shown, b
<1>8. Parts' = Parts
  BY <1>1, <1>2, <1>6, <1>7, SameParts
<1>9. Charged' = Charged
  BY <1>1, <1>2, <1>7, SameCharged
<1>10. Listed'[t] = held[t] \cup {b} /\ Listed[t] = held[t]
       /\ (\A v \in Task \ {t} : Listed'[v] = Listed[v])
       /\ b \in Parts[t]
  <2>1. Listed'[t] = held[t] \cup Shown("addRead", b, ListedCalls)
        /\ \A v \in Task \ {t} : Listed'[v] = Listed[v]
    BY <1>1, <1>2, MoveIs
  <2>2. /\ Listed[t] = held[t] \cup Shown(pc[t], block[t], ListedCalls)
        /\ Parts[t] = held[t] \cup Shown(pc[t], block[t], FlightCalls)
    BY PartsAre
  <2>. QED
    BY <1>7, <2>1, <2>2
<1>11. Address(b) \in Unit /\ b[1] \in Level /\ b \in Shape
  BY <1>3, BlockUnits
<1>12. tab \in [Unit -> Level \cup {Unused}] /\ tab' \in [Unit -> Level \cup {Unused}]
  BY <1>1, <1>6, <1>11 DEF TypeOK
<1>13. TypeOK'
  BY <1>1, <1>5, <1>6, <1>12 DEF TypeOK
\* No other block of the list has the address.
<1>14. ASSUME NEW v \in Task, NEW d \in Listed[v] PROVE Address(d) # Address(b)
  <2>1. d \in Parts[v] /\ v \in Owner /\ t \in Owner
    BY <1>1, PartsInPool, PartsAre
  <2>2. Address(d) = Address(b) => v = t /\ d = b
    BY <1>1, <1>10, <2>1, SameAddress
  <2>. QED
    BY <1>3, <1>10, <1>14, <2>2
<1>15. ASSUME NEW v \in Task, NEW d \in Listed'[v] PROVE tab'[Address(d)] = d[1]
  <2>1. CASE d \in Listed[v]
    <3>1. tab[Address(d)] = d[1] /\ Address(d) # Address(b)
      BY <1>1, <1>14, <2>1 DEF Records
    <3>2. Address(d) \in Unit
      BY <1>1, <2>1, PartsInPool, PartsAre, BlockUnits
    <3>. QED
      BY <1>6, <1>12, <3>1, <3>2
  <2>2. CASE d \notin Listed[v]
    <3>1. v = t /\ d = b
      BY <1>10, <1>15, <2>2
    <3>. QED
      BY <1>6, <1>11, <1>12, <3>1
  <2>. QED
    BY <2>1, <2>2
<1>16. ASSUME NEW u \in Unit, tab'[u] # Unused
       PROVE  \E v \in Task : \E d \in Listed'[v] : u = Address(d)
  <2>1. CASE u = Address(b)
    BY <1>10, <2>1
  <2>2. CASE u # Address(b)
    <3>1. tab[u] # Unused
      BY <1>6, <1>12, <1>16, <2>2
    <3>2. PICK v \in Task : \E d \in Listed[v] : u = Address(d)
      BY <1>1, <3>1 DEF Records
    <3>3. \A d \in Listed[v] : d \in Listed'[v]
      BY <1>10
    <3>. QED
      BY <3>2, <3>3
  <2>. QED
    BY <2>1, <2>2
<1>17. Records(Listed', tab')
  BY <1>15, <1>16 DEF Records
<1>18. Apart(Parts') /\ Covers(Parts') /\ FreeBuddiesMerged'
  BY <1>6, <1>8 DEF IInv, FreeBuddiesMerged
<1>19. Counts(Charged)'
  BY <1>6, <1>9 DEF IInv, Counts
<1>. QED
  BY <1>5, <1>13, <1>17, <1>18, <1>19 DEF IInv, Apart, Covers, Records

\* Clearing the entry of a block takes it off the list.
LEMMA ClearIndexStep ==
    ASSUME IInv, NEW t \in Task, ClearIndex(t)
    PROVE  IInv'
<1> DEFINE b == block[t]
           u == Address(b)
           tab == pbAllocatedBlockListIndex
<1>1. TypeOK /\ BlockOK /\ pc[t] = "clear" /\ Apart(Parts) /\ Records(Listed, tab)
  BY DEF IInv, ClearIndex, Goto
<1>2. held[t] \in SUBSET Block /\ b \in Block /\ b \notin held[t] /\ b # NULL
  BY <1>1 DEF TypeOK, BlockOK, InCall, Label
<1>3. u \in Unit /\ b[1] \in Level /\ b \in Shape
  BY <1>2, BlockUnits
<1>4. Shown(pc[t], block[t], ListedCalls) = {b} /\ Shown("merge", b, ListedCalls) = {}
      /\ Shown(pc[t], block[t], FlightCalls) = {b}
      /\ held[t] \cup Shown("merge", b, FlightCalls)
           = held[t] \cup Shown(pc[t], block[t], FlightCalls)
      /\ held[t] \cup Shown("merge", b, ChargedCalls)
           = held[t] \cup Shown(pc[t], block[t], ChargedCalls)
  BY <1>1, <1>2 DEF FlightCalls, ListedCalls, ChargedCalls, Shown
<1>5. b \in Listed[t] /\ b \in Parts[t]
  BY <1>4, PartsAre
<1>6. Recorded(u) = b
  <2>1. tab[u] = b[1]
    BY <1>1, <1>5 DEF Records
  <2>2. Recorded(u) = <<b[1], u \div Size[b[1]]>>
    BY <2>1 DEF Recorded
  <2>. QED
    BY <1>3, <2>2, AddressTells
<1>7. Moves(t, "merge", b, held[t])
  <2>1. pc' = [pc EXCEPT ![t] = "merge"] /\ block' = [block EXCEPT ![t] = Recorded(u)]
        /\ held' = held
    BY DEF ClearIndex, Goto, SetBlock, callers
  <2>. QED
    BY <1>1, <1>6, <2>1, Same DEF Moves
<1>8. /\ Exist' = Exist /\ tab' = [tab EXCEPT ![u] = Unused]
      /\ qwUsedSize' = qwUsedSize /\ lostUpdates' = lostUpdates /\ used' = used
  BY DEF ClearIndex, callers
<1> HIDE DEF b
<1>9. "merge" \in Label /\ "merge" \notin {"idle", "return", "search"}
  BY DEF Label
<1>10. BlockOK' /\ pc' \in [Task -> Label] /\ block' \in [Task -> Block \cup {NULL}]
      /\ held' \in [Task -> SUBSET Block]
  BY <1>1, <1>2, <1>7, <1>9, BlockMoves
<1>11. Parts' = Parts
  BY <1>1, <1>4, <1>7, <1>8, SameParts
<1>12. Charged' = Charged
  BY <1>1, <1>4, <1>7, SameCharged
<1>13. Listed'[t] = held[t] /\ Listed[t] = held[t] \cup {b}
       /\ (\A v \in Task \ {t} : Listed'[v] = Listed[v])
  <2>1. Listed'[t] = held[t] \cup Shown("merge", b, ListedCalls)
        /\ \A v \in Task \ {t} : Listed'[v] = Listed[v]
    BY <1>1, <1>7, MoveIs
  <2>2. Listed[t] = held[t] \cup Shown(pc[t], block[t], ListedCalls)
    BY PartsAre
  <2>. QED
    BY <1>4, <2>1, <2>2
<1>14. tab \in [Unit -> Level \cup {Unused}] /\ tab' \in [Unit -> Level \cup {Unused}]
  BY <1>1, <1>3, <1>8 DEF TypeOK
<1>15. TypeOK'
  BY <1>1, <1>8, <1>10, <1>14 DEF TypeOK
<1>16. ASSUME NEW v \in Task, NEW d \in Listed'[v]
       PROVE  d \in Listed[v] /\ Address(d) # u
  <2>1. d \in Listed[v] /\ ~(v = t /\ d = b)
    BY <1>2, <1>13, <1>16
  <2>2. d \in Parts[v] /\ v \in Owner /\ t \in Owner
    BY <1>1, <2>1, PartsInPool, PartsAre
  <2>3. Address(d) = Address(b) => v = t /\ d = b
    BY <1>1, <1>5, <2>2, SameAddress
  <2>. QED
    BY <2>1, <2>3
<1>17. ASSUME NEW v \in Task, NEW d \in Listed'[v] PROVE tab'[Address(d)] = d[1]
  <2>1. d \in Listed[v] /\ Address(d) # u
    BY <1>16
  <2>2. tab[Address(d)] = d[1]
    BY <1>1, <2>1 DEF Records
  <2>3. Address(d) \in Unit
    BY <1>1, <2>1, PartsInPool, PartsAre, BlockUnits
  <2>. QED
    BY <1>8, <1>14, <2>1, <2>2, <2>3
<1>18. ASSUME NEW w \in Unit, tab'[w] # Unused
       PROVE  \E v \in Task : \E d \in Listed'[v] : w = Address(d)
  <2>1. w # u /\ tab[w] # Unused
    BY <1>3, <1>8, <1>14, <1>18
  <2>2. PICK v \in Task : \E d \in Listed[v] : w = Address(d)
    BY <1>1, <2>1 DEF Records
  <2>3. PICK d \in Listed[v] : w = Address(d)
    BY <2>2
  <2>4. d \in Listed'[v]
    BY <1>13, <2>1, <2>3
  <2>. QED
    BY <2>3, <2>4
<1>19. Records(Listed', tab')
  BY <1>17, <1>18 DEF Records
<1>20. Apart(Parts') /\ Covers(Parts') /\ FreeBuddiesMerged'
  BY <1>8, <1>11 DEF IInv, FreeBuddiesMerged
<1>21. Counts(Charged)'
  BY <1>8, <1>12 DEF IInv, Counts
<1>. QED
  BY <1>10, <1>15, <1>19, <1>20, <1>21 DEF IInv, Apart, Covers, Records

\* What a task may free is a block that it holds: an address at which nothing is
\* held is not in the size table.
LEMMA FreeingIs ==
    ASSUME IInv, NEW t \in Task, NEW u \in Unit, kFreeMemory(t, u)
    PROVE  \E b \in held[t] :
             /\ u = Address(b) /\ b \in Block
             /\ Moves(t, "clear", b, held[t] \ {b})
             /\ \A d \in held[t] : Address(d) = u => d = b
<1> DEFINE tab == pbAllocatedBlockListIndex
<1>1. TypeOK /\ Apart(Parts) /\ Records(Listed, tab) /\ pc[t] = "idle" /\ tab[u] # Unused
  BY DEF IInv, kFreeMemory
<1>2. PICK w \in Task : \E d \in Listed[w] : u = Address(d)
  BY <1>1 DEF Records
<1>3. PICK d \in Listed[w] : u = Address(d)
  BY <1>2
<1>4. d \in Parts[w] /\ d \in Block /\ Address(d) \in Units(d)
  <2>1. d \in Parts[w] /\ d \in Block
    BY <1>1, <1>3, PartsInPool, PartsAre
  <2>. QED
    BY <2>1, BlockUnits, UnitsAre
<1>5. \E b \in held[t] : u = Address(b)
  <2>1. d \in held[w] \cup InFlight(w)
    BY <1>4, PartsAre DEF Parts
  <2>2. (\E b \in held[t] : u = Address(b))
        \/ \A v \in Task : \A b \in held[v] \cup InFlight(v) : u \notin Units(b)
    BY DEF kFreeMemory
  <2>. QED
    BY <1>3, <1>4, <2>1, <2>2
<1>6. PICK b \in held[t] : u = Address(b)
  BY <1>5
<1>7. \A e \in held[t] : Address(e) = u => e = b
  <2> SUFFICES ASSUME NEW e \in held[t], Address(e) = u PROVE e = b
    OBVIOUS
  <2>1. e \in Parts[t] /\ b \in Parts[t] /\ t \in Owner
    BY <1>1, PartsInPool, PartsAre
  <2>. QED
    BY <1>1, <1>6, <2>1, SameAddress
<1>8. b \in Listed[t] /\ b \in Block /\ b \in Shape
  <2>1. b \in Listed[t] /\ b \in Block
    BY <1>1, PartsAre DEF TypeOK
  <2>. QED
    BY <2>1, BlockUnits
<1>9. Recorded(u) = b
  <2>1. tab[u] = b[1]
    BY <1>1, <1>6, <1>8 DEF Records
  <2>2. Recorded(u) = <<b[1], u \div Size[b[1]]>>
    BY <2>1 DEF Recorded
  <2>. QED
    BY <1>6, <1>8, <2>2, AddressTells
<1>10. {e \in held[t] : Address(e) # u} = held[t] \ {b}
  BY <1>6, <1>7
<1>11. Moves(t, "clear", b, held[t] \ {b})
  <2>1. /\ pc' = [pc EXCEPT ![t] = "clear"]
        /\ block' = [block EXCEPT ![t] = Recorded(u)]
        /\ held' = [held EXCEPT ![t] = {e \in held[t] : Address(e) # u}]
    BY DEF kFreeMemory, Goto, SetBlock
  <2>. QED
    BY <1>9, <1>10, <2>1 DEF Moves
<1>. QED
  BY <1>6, <1>7, <1>8, <1>11

\* The block that the caller held is on its way back.
LEMMA kFreeMemoryStep ==
    ASSUME IInv, NEW t \in Task, NEW u \in Unit, kFreeMemory(t, u)
    PROVE  IInv'
<1>1. PICK b \in held[t] : b \in Block /\ Moves(t, "clear", b, held[t] \ {b})
  BY FreeingIs
<1>2. TypeOK /\ BlockOK /\ pc[t] = "idle"
  BY DEF IInv, kFreeMemory
<1>3. held[t] \ {b} \in SUBSET Block /\ b # NULL /\ b \notin held[t] \ {b}
  BY <1>1, <1>2, PartsInPool DEF TypeOK
<1>4. "clear" \in Label /\ "clear" \notin {"idle", "return", "search"}
  BY DEF Label
<1>5. BlockOK' /\ pc' \in [Task -> Label] /\ block' \in [Task -> Block \cup {NULL}]
      /\ held' \in [Task -> SUBSET Block]
  BY <1>1, <1>2, <1>3, <1>4, BlockMoves
<1>6. /\ Exist' = Exist /\ pbAllocatedBlockListIndex' = pbAllocatedBlockListIndex
      /\ qwUsedSize' = qwUsedSize /\ lostUpdates' = lostUpdates /\ used' = used
  BY DEF kFreeMemory
<1>7. \A calls \in {FlightCalls, ListedCalls, ChargedCalls} :
        (held[t] \ {b}) \cup Shown("clear", b, calls) = held[t] \cup Shown(pc[t], block[t], calls)
  BY <1>1, <1>2, <1>3 DEF FlightCalls, ListedCalls, ChargedCalls, Shown
<1>8. Parts' = Parts
  BY <1>1, <1>2, <1>6, <1>7, SameParts
<1>9. Listed' = Listed
  BY <1>1, <1>2, <1>7, SameListed
<1>10. Charged' = Charged
  BY <1>1, <1>2, <1>7, SameCharged
<1>. QED
  BY <1>2, <1>5, <1>6, <1>8, <1>9, <1>10, Quiet DEF TypeOK

\* The size of a block, and what is added for it, fit in a QWORD.
LEMMA SizeFits ==
    ASSUME NEW b \in Block
    PROVE  /\ Size[b[1]] \in Nat /\ Size[b[1]] <= QWORD
           /\ IntSize(b[1]) \in Nat /\ IntSize(b[1]) <= QWORD
           /\ IntSize(b[1]) = IF b[1] < INTList THEN Size[b[1]] ELSE QWORD - Size[b[1]]
<1>1. b[1] \in Level
  BY BlockUnits, BlockIs
<1>. QED
  BY <1>1, IntSizeIs, Word, Pool

\* Writing the count charges the block that has been handed out.
LEMMA AddUsedSizeStep ==
    ASSUME IInv, NEW t \in Task,
           WriteUsedSize(t, "addWrite", "return", used[t] + IntSize(block[t][1]))
    PROVE  IInv'
<1> DEFINE b == block[t]
           s == Size[b[1]]
           g == IntSize(b[1])
           x == Cardinality(UnitsOf(Plain(Charged)))
           y == Cardinality(UnitsOf(Huge(Charged)))
           x2 == Cardinality(UnitsOf(Plain(Charged')))
           y2 == Cardinality(UnitsOf(Huge(Charged')))
<1>1. TypeOK /\ BlockOK /\ pc[t] = "addWrite" /\ Counts(Charged)
  BY DEF IInv, WriteUsedSize, Goto
<1>2. held[t] \in SUBSET Block /\ b \in Block /\ b \notin held[t] /\ b # NULL
  BY <1>1 DEF TypeOK, BlockOK, InCall, Label
<1>3. /\ Exist' = Exist /\ pbAllocatedBlockListIndex' = pbAllocatedBlockListIndex
      /\ qwUsedSize' = (used[t] + g) % QWORD /\ used' = [used EXCEPT ![t] = 0]
      /\ lostUpdates' = lostUpdates + IF used[t] = qwUsedSize THEN 0 ELSE 1
  BY DEF WriteUsedSize
<1>4. Moves(t, "return", b, held[t])
  <2>1. block' = [block EXCEPT ![t] = IF "return" = "idle" THEN NULL ELSE block[t]]
        /\ pc' = [pc EXCEPT ![t] = "return"] /\ held' = held
    BY DEF WriteUsedSize, Goto, SetBlock
  <2>2. "return" # "idle"
    OBVIOUS
  <2>. QED
    BY <1>1, <2>1, <2>2, Same DEF Moves
<1>5. /\ s \in Nat /\ s <= QWORD /\ g \in Nat /\ g <= QWORD
      /\ g = IF b[1] < INTList THEN s ELSE QWORD - s
  BY <1>2, SizeFits
<1> HIDE DEF b, s, g
<1>6. "return" \in Label /\ "return" # "search"
  BY DEF Label
<1>7. BlockOK' /\ pc' \in [Task -> Label] /\ block' \in [Task -> Block \cup {NULL}]
      /\ held' \in [Task -> SUBSET Block]
  BY <1>1, <1>2, <1>4, <1>6, BlockMoves
<1>8. /\ held[t] \cup Shown("return", b, FlightCalls)
           = held[t] \cup Shown(pc[t], block[t], FlightCalls)
      /\ held[t] \cup Shown("return", b, ListedCalls)
           = held[t] \cup Shown(pc[t], block[t], ListedCalls)
      /\ Shown("return", b, ChargedCalls) = {b} /\ Shown(pc[t], block[t], ChargedCalls) = {}
  BY <1>1, <1>2 DEF FlightCalls, ListedCalls, ChargedCalls, Shown, b
<1>9. Parts' = Parts
  BY <1>1, <1>3, <1>4, <1>8, SameParts
<1>10. Listed' = Listed
  BY <1>1, <1>4, <1>8, SameListed
<1>11. Charged'[t] = held[t] \cup {b} /\ Charged[t] = held[t]
       /\ \A v \in Task \ {t} : Charged'[v] = Charged[v]
  <2>1. Charged'[t] = held[t] \cup Shown("return", b, ChargedCalls)
        /\ \A v \in Task \ {t} : Charged'[v] = Charged[v]
    BY <1>1, <1>4, MoveIs
  <2>2. Charged[t] = held[t] \cup Shown(pc[t], block[t], ChargedCalls)
    BY PartsAre
  <2>. QED
    BY <1>8, <2>1, <2>2
<1>12. /\ IsFiniteSet(UnitsOf(Plain(Charged))) /\ IsFiniteSet(UnitsOf(Huge(Charged)))
       /\ lostUpdates = 0 => (qwUsedSize + y) % QWORD = x % QWORD
  BY <1>1 DEF Counts
<1>13. /\ IsFiniteSet(UnitsOf(Plain(Charged'))) /\ IsFiniteSet(UnitsOf(Huge(Charged')))
       /\ x \in Nat /\ y \in Nat
       /\ b[1] < INTList => x2 = x + s /\ y2 = y
       /\ ~(b[1] < INTList) => x2 = x /\ y2 = y + s
  <2>1. Adds(Charged, Charged', t, b)
    BY <1>2, <1>11 DEF Adds
  <2>. QED
    BY <1>2, <1>12, <2>1, Counting DEF s
<1> HIDE DEF x, y, x2, y2
<1>14. qwUsedSize \in 0 .. QWORD - 1 /\ used[t] \in Nat /\ lostUpdates \in Nat
       /\ used' \in [Task -> 0 .. QWORD - 1]
  BY <1>1, <1>3, Word DEF TypeOK
<1>15. qwUsedSize' \in 0 .. QWORD - 1
  <2> DEFINE z == used[t] + g
  <2>1. z \in Nat
    BY <1>5, <1>14
  <2> HIDE DEF z
  <2>2. z % QWORD \in 0 .. QWORD - 1
    BY <2>1, Word, Division
  <2>. QED
    BY <1>3, <2>2 DEF z
<1>16. lostUpdates' \in Nat /\ (lostUpdates' = 0 => lostUpdates = 0 /\ used[t] = qwUsedSize)
  BY <1>3, <1>14
<1>17. lostUpdates' = 0 => (qwUsedSize' + y2) % QWORD = x2 % QWORD
  <2> SUFFICES ASSUME lostUpdates' = 0 PROVE (qwUsedSize' + y2) % QWORD = x2 % QWORD
    OBVIOUS
  <2> DEFINE u == used[t]
  <2>1. u \in Nat /\ (u + y) % QWORD = x % QWORD /\ qwUsedSize' = (u + g) % QWORD
    BY <1>3, <1>12, <1>14, <1>16
  <2> HIDE DEF u
  <2>2. (((u + s) % QWORD) + y) % QWORD = (x + s) % QWORD
        /\ (((u + (QWORD - s)) % QWORD) + (y + s)) % QWORD = (u + y) % QWORD
    <3>1. Keeps(QWORD, u, y, s)
      BY <1>5, <1>13, <2>1, Word, CountIsKept
    <3>. QED
      BY <1>13, <2>1, <3>1 DEF Keeps
  <2>3. CASE b[1] < INTList
    BY <1>5, <1>13, <2>1, <2>2, <2>3
  <2>4. CASE ~(b[1] < INTList)
    BY <1>5, <1>13, <2>1, <2>2, <2>4
  <2>. QED
    BY <2>3, <2>4
<1>18. TypeOK'
  BY <1>1, <1>3, <1>7, <1>14, <1>15, <1>16 DEF TypeOK
<1>19. Counts(Charged)'
  BY <1>13, <1>17 DEF Counts, x2, y2
<1>20. Apart(Parts') /\ Covers(Parts') /\ FreeBuddiesMerged'
  BY <1>3, <1>9 DEF IInv, FreeBuddiesMerged
<1>21. Records(Listed', pbAllocatedBlockListIndex')
  BY <1>3, <1>10 DEF IInv
<1>. QED
  BY <1>7, <1>18, <1>19, <1>20, <1>21 DEF IInv, Apart, Covers, Records

\* Writing the count discharges the block that has been taken back.
LEMMA SubUsedSizeStep ==
    ASSUME IInv, NEW t \in Task,
           WriteUsedSize(t, "subWrite", "idle", used[t] + QWORD - IntSize(block[t][1]))
    PROVE  IInv'
<1> DEFINE b == block[t]
           s == Size[b[1]]
           g == IntSize(b[1])
           x == Cardinality(UnitsOf(Plain(Charged)))
           y == Cardinality(UnitsOf(Huge(Charged)))
           x2 == Cardinality(UnitsOf(Plain(Charged')))
           y2 == Cardinality(UnitsOf(Huge(Charged')))
<1>1. TypeOK /\ BlockOK /\ pc[t] = "subWrite" /\ Counts(Charged)
  BY DEF IInv, WriteUsedSize, Goto
<1>2. held[t] \in SUBSET Block /\ b \in Block /\ b \notin held[t] /\ b # NULL
  BY <1>1 DEF TypeOK, BlockOK, InCall, Label
<1>3. /\ Exist' = Exist /\ pbAllocatedBlockListIndex' = pbAllocatedBlockListIndex
      /\ qwUsedSize' = (used[t] + QWORD - g) % QWORD /\ used' = [used EXCEPT ![t] = 0]
      /\ lostUpdates' = lostUpdates + IF used[t] = qwUsedSize THEN 0 ELSE 1
  BY DEF WriteUsedSize
<1>4. Moves(t, "idle", NULL, held[t])
  <2>1. block' = [block EXCEPT ![t] = IF "idle" = "idle" THEN NULL ELSE block[t]]
        /\ pc' = [pc EXCEPT ![t] = "idle"] /\ held' = held
    BY DEF WriteUsedSize, Goto, SetBlock
  <2>. QED
    BY <1>1, <2>1, Same DEF Moves
<1>5. /\ s \in Nat /\ s <= QWORD /\ g \in Nat /\ g <= QWORD
      /\ g = IF b[1] < INTList THEN s ELSE QWORD - s
  BY <1>2, SizeFits
<1> HIDE DEF b, s, g
<1>6. "idle" \in Label /\ "idle" # "search" /\ "idle" \notin InCall
  BY DEF Label, InCall
<1>7. BlockOK' /\ pc' \in [Task -> Label] /\ block' \in [Task -> Block \cup {NULL}]
      /\ held' \in [Task -> SUBSET Block]
  BY <1>1, <1>2, <1>4, <1>6, BlockMoves
<1>8. /\ held[t] \cup Shown("idle", NULL, FlightCalls)
           = held[t] \cup Shown(pc[t], block[t], FlightCalls)
      /\ held[t] \cup Shown("idle", NULL, ListedCalls)
           = held[t] \cup Shown(pc[t], block[t], ListedCalls)
      /\ Shown("idle", NULL, ChargedCalls) = {} /\ Shown(pc[t], block[t], ChargedCalls) = {b}
  BY <1>1, <1>2 DEF FlightCalls, ListedCalls, ChargedCalls, Shown, b
<1>9. Parts' = Parts
  BY <1>1, <1>3, <1>4, <1>8, SameParts
<1>10. Listed' = Listed
  BY <1>1, <1>4, <1>8, SameListed
<1>11. Charged'[t] = held[t] /\ Charged[t] = held[t] \cup {b}
       /\ \A v \in Task \ {t} : Charged'[v] = Charged[v]
  <2>1. Charged'[t] = held[t] \cup Shown("idle", NULL, ChargedCalls)
        /\ \A v \in Task \ {t} : Charged'[v] = Charged[v]
    BY <1>1, <1>4, MoveIs
  <2>2. Charged[t] = held[t] \cup Shown(pc[t], block[t], ChargedCalls)
    BY PartsAre
  <2>. QED
    BY <1>8, <2>1, <2>2
<1>12. /\ IsFiniteSet(UnitsOf(Plain(Charged))) /\ IsFiniteSet(UnitsOf(Huge(Charged)))
       /\ lostUpdates = 0 => (qwUsedSize + y) % QWORD = x % QWORD
  BY <1>1 DEF Counts
<1>13. /\ IsFiniteSet(UnitsOf(Plain(Charged'))) /\ IsFiniteSet(UnitsOf(Huge(Charged')))
       /\ x2 \in Nat /\ y2 \in Nat
       /\ b[1] < INTList => x = x2 + s /\ y = y2
       /\ ~(b[1] < INTList) => x = x2 /\ y = y2 + s
  <2>1. Adds(Charged', Charged, t, b)
    BY <1>2, <1>11 DEF Adds
  <2>. QED
    BY <1>2, <1>12, <2>1, Counting DEF s
<1> HIDE DEF x, y, x2, y2
<1>14. qwUsedSize \in 0 .. QWORD - 1 /\ used[t] \in Nat /\ lostUpdates \in Nat
       /\ used' \in [Task -> 0 .. QWORD - 1]
  BY <1>1, <1>3, Word DEF TypeOK
<1>15. qwUsedSize' \in 0 .. QWORD - 1
  <2> DEFINE z == used[t] + QWORD - g
  <2>1. z \in Nat
    BY <1>5, <1>14, Word
  <2> HIDE DEF z
  <2>2. z % QWORD \in 0 .. QWORD - 1
    BY <2>1, Word, Division
  <2>. QED
    BY <1>3, <2>2 DEF z
<1>16. lostUpdates' \in Nat /\ (lostUpdates' = 0 => lostUpdates = 0 /\ used[t] = qwUsedSize)
  BY <1>3, <1>14
<1>17. lostUpdates' = 0 => (qwUsedSize' + y2) % QWORD = x2 % QWORD
  <2> SUFFICES ASSUME lostUpdates' = 0 PROVE (qwUsedSize' + y2) % QWORD = x2 % QWORD
    OBVIOUS
  <2> DEFINE u == used[t]
  <2>1. /\ u \in Nat /\ (u + y) % QWORD = x % QWORD
        /\ qwUsedSize' = (u + (QWORD - g)) % QWORD
    <3>1. u + QWORD - g = u + (QWORD - g)
      BY <1>5, <1>14, Word
    <3>. QED
      BY <1>3, <1>12, <1>14, <1>16, <3>1
  <2> HIDE DEF u
  <2>5. Keeps(QWORD, u, y2, s)
    BY <1>5, <1>13, <2>1, Word, CountIsKept
  <2>2. CASE b[1] < INTList
    <3>1. (u + y2) % QWORD = (x2 + s) % QWORD
      BY <1>13, <2>1, <2>2
    <3>2. (((u + (QWORD - s)) % QWORD) + y2) % QWORD = x2 % QWORD
      BY <1>13, <2>5, <3>1 DEF Keeps
    <3>. QED
      BY <1>5, <2>1, <2>2, <3>2
  <2>3. CASE ~(b[1] < INTList)
    <3>1. (u + (y2 + s)) % QWORD = x2 % QWORD
      BY <1>13, <2>1, <2>3
    <3>2. (((u + s) % QWORD) + y2) % QWORD = (u + (y2 + s)) % QWORD
      BY <2>5 DEF Keeps
    <3>3. QWORD - g = s
      BY <1>5, <2>3, Word
    <3>. QED
      BY <2>1, <3>1, <3>2, <3>3
  <2>. QED
    BY <2>2, <2>3
<1>18. TypeOK'
  BY <1>1, <1>3, <1>7, <1>14, <1>15, <1>16 DEF TypeOK
<1>19. Counts(Charged)'
  BY <1>13, <1>17 DEF Counts, x2, y2
<1>20. Apart(Parts') /\ Covers(Parts') /\ FreeBuddiesMerged'
  BY <1>3, <1>9 DEF IInv, FreeBuddiesMerged
<1>21. Records(Listed', pbAllocatedBlockListIndex')
  BY <1>3, <1>10 DEF IInv
<1>. QED
  BY <1>7, <1>18, <1>19, <1>20, <1>21 DEF IInv, Apart, Covers, Records

\* The search finds a free block to halve, or no list from the wanted one on has
\* any.
LEMMA FindingIs ==
    ASSUME TypeOK, BlockOK, NEW t \in Task, kAllocationBuddyBlock(t), NEW i, i = block[t][1]
    PROVE  /\ i \in Level /\ block[t] \in Block
           /\ \/ /\ Moves(t, "return", NULL, held[t]) /\ Exist' = Exist
                 /\ \A b \in Exist : b[1] < i
              \/ \E b \in Exist : /\ i <= b[1] /\ Exist' = Split(b, i)
                                  /\ Moves(t, "setIndex", Left(b, b[1] - i), held[t])
<1> DEFINE F == {j \in i .. iMaxLevelCount - 1 : kFindFreeBlockInBitmap(j) # -1}
<1>1. pc[t] = "search"
  BY DEF kAllocationBuddyBlock
<1>2. block[t] \in Block
  BY <1>1 DEF TypeOK, BlockOK
<1>3. i \in Level /\ i \in Nat /\ iMaxLevelCount \in Nat
  BY <1>2, BlockUnits, ListOf, Levels, Pool
<1>4. \A j \in i .. iMaxLevelCount - 1 : j \in Level
  BY <1>3 DEF Level
<1>5. /\ held' = held
      /\ F = {} => Goto(t, "search", "return") /\ SetBlock(t, NULL) /\ UNCHANGED Exist
      /\ F # {} => LET j == CHOOSE k \in F : \A l \in F : k <= l
                       o == kFindFreeBlockInBitmap(j)
                   IN  /\ Goto(t, "search", "setIndex")
                       /\ Exist' = Split(<<j, o>>, i)
                       /\ SetBlock(t, <<i, o * Size[j - i]>>)
  BY Zenon DEF kAllocationBuddyBlock, callers
<1>6. held' = [held EXCEPT ![t] = held[t]]
  BY <1>5, Same
<1>7. CASE F = {}
  <2>1. Moves(t, "return", NULL, held[t]) /\ Exist' = Exist
    BY <1>5, <1>6, <1>7 DEF Moves, Goto, SetBlock
  <2>2. ASSUME NEW b \in Exist PROVE b[1] < i
    <3>1. b \in Block /\ b[1] \in Level /\ b \in Shape
      BY BlockUnits DEF TypeOK
    <3>2. b = <<b[1], b[2]>> /\ b[2] \in 0 .. BlockCount(b[1]) - 1
      <4>1. PICK k \in Level : b \in {k} \X (0 .. BlockCount(k) - 1)
        BY <3>1 DEF Block
      <4>. QED
        BY <4>1
    <3>3. kFindFreeBlockInBitmap(b[1]) # -1
      <4> DEFINE r == kFindFreeBlockInBitmap(b[1])
      <4>1. \/ r \in 0 .. BlockCount(b[1]) - 1
            \/ r = -1 /\ \A o \in 0 .. BlockCount(b[1]) - 1 : <<b[1], o>> \notin Exist
        BY <3>1, SearchFinds
      <4>2. <<b[1], b[2]>> \in Exist
        BY <3>2
      <4>3. BlockCount(b[1]) \in Nat
        BY <3>1, ListOf
      <4> HIDE DEF r
      <4>4. r # -1
        BY <3>2, <4>1, <4>2, <4>3
      <4>. QED
        BY <4>4 DEF r
    <3>4. b[1] \in Nat /\ b[1] < iMaxLevelCount
      BY <1>3, <3>1 DEF Level
    <3>5. ~(b[1] \in i .. iMaxLevelCount - 1)
      BY <1>7, <3>3
    <3>. QED
      BY <1>3, <3>4, <3>5
  <2>. QED
    BY <1>2, <1>3, <2>1, <2>2
<1>8. CASE F # {}
  <2> DEFINE j == CHOOSE k \in F : \A l \in F : k <= l
             o == kFindFreeBlockInBitmap(j)
             b == <<j, o>>
  <2>1. F \in SUBSET Nat
    BY <1>3
  <2>2. j \in F
    <3> HIDE DEF F
    <3>1. \E k \in F : \A l \in F : k <= l
      BY <1>8, <2>1, Least
    <3>. QED
      BY <3>1
  <2>3. /\ Goto(t, "search", "setIndex") /\ Exist' = Split(b, i)
        /\ SetBlock(t, <<i, o * Size[j - i]>>)
    BY <1>5, <1>8, Zenon
  <2>4. j \in i .. iMaxLevelCount - 1 /\ o # -1 /\ j \in Level
    BY <1>4, <2>2
  <2> HIDE DEF j
  <2>5. b \in Exist
    BY <2>4, SearchFinds
  <2> HIDE DEF F, o
  <2>6. b[1] = j /\ b[2] = o /\ i <= j /\ j - (j - i) = i
    BY <1>3, <2>4
  <2> HIDE DEF b
  <2>7. Left(b, b[1] - i) = <<i, o * Size[j - i]>>
    BY <2>6 DEF Left
  <2>8. Moves(t, "setIndex", Left(b, b[1] - i), held[t])
    BY <1>6, <2>3, <2>7 DEF Moves, Goto, SetBlock
  <2>. QED
    BY <1>2, <1>3, <2>3, <2>5, <2>6, <2>8
<1>. QED
  BY <1>7, <1>8

\* The block found is split into the one wanted and free right halves.
LEMMA kAllocationBuddyBlockStep ==
    ASSUME IInv, NEW t \in Task, kAllocationBuddyBlock(t)
    PROVE  IInv'
<1> DEFINE i == block[t][1]
<1>1. TypeOK /\ BlockOK /\ pc[t] = "search" /\ Apart(Parts) /\ Covers(Parts) /\ FreeBuddiesMerged
  BY DEF IInv, kAllocationBuddyBlock
<1>2. /\ pbAllocatedBlockListIndex' = pbAllocatedBlockListIndex
      /\ qwUsedSize' = qwUsedSize /\ lostUpdates' = lostUpdates /\ used' = used
  BY DEF kAllocationBuddyBlock, callers
<1>3. /\ i \in Level
      /\ \/ Moves(t, "return", NULL, held[t]) /\ Exist' = Exist
         \/ \E b \in Exist : /\ i <= b[1] /\ Exist' = Split(b, i)
                             /\ Moves(t, "setIndex", Left(b, b[1] - i), held[t])
  BY <1>1, FindingIs
<1>4. held[t] \in SUBSET Block /\ NULL \notin held[t]
  BY <1>1, PartsInPool DEF TypeOK
<1> HIDE DEF i
<1>5. ASSUME Moves(t, "return", NULL, held[t]), Exist' = Exist PROVE IInv'
  <2>1. "return" \in Label /\ "return" # "search"
    BY DEF Label
  <2>2. BlockOK' /\ pc' \in [Task -> Label] /\ block' \in [Task -> Block \cup {NULL}]
        /\ held' \in [Task -> SUBSET Block]
    BY <1>1, <1>4, <1>5, <2>1, BlockMoves
  <2>3. \A calls \in {FlightCalls, ListedCalls, ChargedCalls} :
          held[t] \cup Shown("return", NULL, calls) = held[t] \cup Shown(pc[t], block[t], calls)
    BY <1>1 DEF FlightCalls, ListedCalls, ChargedCalls, Shown
  <2>4. Parts' = Parts
    BY <1>1, <1>5, <2>3, SameParts
  <2>5. Listed' = Listed
    BY <1>1, <1>5, <2>3, SameListed
  <2>6. Charged' = Charged
    BY <1>1, <1>5, <2>3, SameCharged
  <2>. QED
    BY <1>1, <1>2, <1>5, <2>2, <2>4, <2>5, <2>6, Quiet DEF TypeOK
<1>6. ASSUME NEW b \in Exist, i <= b[1], Exist' = Split(b, i),
             Moves(t, "setIndex", Left(b, b[1] - i), held[t])
      PROVE  IInv'
  <2> DEFINE a == Left(b, b[1] - i)
  <2>1. i \in 0 .. b[1] /\ Exist \subseteq Block
    <3>1. Exist \subseteq Block /\ b[1] \in Level
      BY <1>1, BlockUnits DEF TypeOK
    <3>. QED
      BY <1>3, <1>6, <3>1, ListOf
  <2>2. /\ held[t] \cup Shown("setIndex", a, ListedCalls)
             = held[t] \cup Shown(pc[t], block[t], ListedCalls)
        /\ held[t] \cup Shown("setIndex", a, ChargedCalls)
             = held[t] \cup Shown(pc[t], block[t], ChargedCalls)
        /\ Shown("setIndex", a, FlightCalls) = {a} \ {NULL}
        /\ Shown(pc[t], block[t], FlightCalls) = {}
    BY <1>1 DEF FlightCalls, ListedCalls, ChargedCalls, Shown
  <2>3. Parts'[NULL] = Exist' /\ Parts'[t] = held[t] \cup ({a} \ {NULL}) /\ Parts[t] = held[t]
        /\ (\A v \in Task \ {t} : Parts'[v] = Parts[v]) /\ Parts[NULL] = Exist
    <3>1. Parts'[t] = held[t] \cup Shown("setIndex", a, FlightCalls)
          /\ \A v \in Task \ {t} : Parts'[v] = Parts[v]
      BY <1>1, <1>6, MoveIs
    <3>2. Parts[t] = held[t] \cup Shown(pc[t], block[t], FlightCalls) /\ Parts[NULL] = Exist
      BY PartsAre
    <3>. QED
      BY <2>2, <3>1, <3>2, PartsAreNext
  <2>4. a # NULL
    <3>1. b \in Shape /\ b[1] - i \in 0 .. b[1]
      BY <2>1, BlockUnits, ListOf
    <3>2. SplitOK(b, b[1] - i)
      BY <3>1, SplitUnits
    <3>3. a \in Shape
      BY <3>2 DEF SplitOK
    <3>. QED
      BY <3>3, Pool, MarkAssumption DEF Shape
  <2>5. \A x \in Owner \ {NULL, t} : Parts'[x] = Parts[x]
    BY <2>3 DEF Owner
  <2>6. Takes(t, b, i, Parts, Parts')
    BY <1>6, <2>3, <2>4, <2>5 DEF Takes
  <2>7. /\ a \in Block /\ a \notin Parts[t] /\ Exist' \subseteq Block
        /\ \A x \in Exist' : Buddy(x) \notin Exist'
        /\ Apart(Parts') /\ Covers(Parts')
    BY <1>1, <1>6, <2>1, <2>6, Taking
  <2> HIDE DEF a
  <2>8. "setIndex" \in Label /\ "setIndex" # "search"
    BY DEF Label
  <2>9. BlockOK' /\ pc' \in [Task -> Label] /\ block' \in [Task -> Block \cup {NULL}]
        /\ held' \in [Task -> SUBSET Block]
    BY <1>1, <1>4, <1>6, <2>3, <2>4, <2>7, <2>8, BlockMoves DEF a
  <2>10. Listed' = Listed
    BY <1>1, <1>6, <2>2, SameListed DEF a
  <2>11. Charged' = Charged
    BY <1>1, <1>6, <2>2, SameCharged DEF a
  <2>12. TypeOK'
    BY <1>1, <1>2, <2>7, <2>9 DEF TypeOK
  <2>13. Records(Listed', pbAllocatedBlockListIndex')
    BY <1>2, <2>10 DEF IInv
  <2>14. Counts(Charged)'
    BY <1>2, <2>11 DEF IInv, Counts
  <2>15. FreeBuddiesMerged'
    BY <2>7 DEF FreeBuddiesMerged
  <2>. QED
    BY <2>7, <2>9, <2>12, <2>13, <2>14, <2>15 DEF IInv, Apart, Covers, Records
<1>. QED
  BY <1>3, <1>5, <1>6

\* The block and the free buddies it meets become one free block.
LEMMA kFreeBuddyBlockStep ==
    ASSUME IInv, NEW t \in Task, kFreeBuddyBlock(t)
    PROVE  IInv'
<1> DEFINE b == block[t]
           n == Merges(b)
<1>1. TypeOK /\ BlockOK /\ pc[t] = "merge" /\ Apart(Parts) /\ Covers(Parts) /\ FreeBuddiesMerged
  BY DEF IInv, kFreeBuddyBlock, Goto
<1>2. /\ pbAllocatedBlockListIndex' = pbAllocatedBlockListIndex
      /\ qwUsedSize' = qwUsedSize /\ lostUpdates' = lostUpdates /\ used' = used
      /\ Exist' = (Exist \ {Buddy(Ancestor(b, m)) : m \in 0 .. n - 1})
                    \cup (IF b[1] + n = iMaxLevelCount THEN {} ELSE {Ancestor(b, n)})
  BY DEF kFreeBuddyBlock, callers
<1>3. held[t] \in SUBSET Block /\ b \in Block /\ b \notin held[t] /\ b # NULL
  BY <1>1 DEF TypeOK, BlockOK, InCall, Label
<1>4. Moves(t, "subRead", b, held[t])
  BY <1>1, Same DEF Moves, kFreeBuddyBlock, Goto, callers
<1> HIDE DEF b, n
<1>5. /\ held[t] \cup Shown("subRead", b, ListedCalls)
           = held[t] \cup Shown(pc[t], block[t], ListedCalls)
      /\ held[t] \cup Shown("subRead", b, ChargedCalls)
           = held[t] \cup Shown(pc[t], block[t], ChargedCalls)
      /\ Shown("subRead", b, FlightCalls) = {} /\ Shown(pc[t], block[t], FlightCalls) = {b}
  BY <1>1, <1>3 DEF FlightCalls, ListedCalls, ChargedCalls, Shown, b
<1>6. Parts'[NULL] = Exist' /\ Parts'[t] = held[t] /\ Parts[t] = held[t] \cup {b}
      /\ (\A v \in Task \ {t} : Parts'[v] = Parts[v]) /\ Parts[NULL] = Exist
  <2>1. Parts'[t] = held[t] \cup Shown("subRead", b, FlightCalls)
        /\ \A v \in Task \ {t} : Parts'[v] = Parts[v]
    BY <1>1, <1>4, MoveIs
  <2>2. Parts[t] = held[t] \cup Shown(pc[t], block[t], FlightCalls) /\ Parts[NULL] = Exist
    BY PartsAre
  <2>. QED
    BY <1>5, <2>1, <2>2, PartsAreNext
<1>7. Parts'[t] = Parts[t] \ {b} /\ b \in Parts[t]
  BY <1>3, <1>6
<1>8. \A x \in Owner \ {NULL, t} : Parts'[x] = Parts[x]
  BY <1>6 DEF Owner
<1>9. Gives(t, b, Parts, Parts')
  BY <1>2, <1>6, <1>7, <1>8 DEF Gives, n
<1>10. /\ Exist' \subseteq Block
       /\ \A x \in Exist' : Buddy(x) \notin Exist'
       /\ Apart(Parts') /\ Covers(Parts')
  <2>1. Exist \subseteq Block
    BY <1>1 DEF TypeOK
  <2>. QED
    BY <1>1, <1>3, <1>6, <1>9, <2>1, Giving
<1>11. "subRead" \in Label /\ "subRead" # "search"
  BY DEF Label
<1>12. BlockOK' /\ pc' \in [Task -> Label] /\ block' \in [Task -> Block \cup {NULL}]
      /\ held' \in [Task -> SUBSET Block]
  BY <1>1, <1>3, <1>4, <1>11, BlockMoves
<1>13. Listed' = Listed
  BY <1>1, <1>4, <1>5, SameListed
<1>14. Charged' = Charged
  BY <1>1, <1>4, <1>5, SameCharged
<1>15. TypeOK'
  BY <1>1, <1>2, <1>10, <1>12 DEF TypeOK
<1>16. Records(Listed', pbAllocatedBlockListIndex')
  BY <1>2, <1>13 DEF IInv
<1>17. Counts(Charged)'
  BY <1>2, <1>14 DEF IInv, Counts
<1>18. FreeBuddiesMerged'
  BY <1>10 DEF FreeBuddiesMerged
<1>. QED
  BY <1>10, <1>12, <1>15, <1>16, <1>17, <1>18 DEF IInv, Apart, Covers, Records

\* kInitializeDynamicMemory establishes the invariant, ...
LEMMA InitInv == Init => IInv
<1> SUFFICES ASSUME Init PROVE IInv
  OBVIOUS
<1>1. /\ Exist = InitialBlocks /\ pbAllocatedBlockListIndex = [u \in Unit |-> Unused]
      /\ qwUsedSize = 0 /\ pc = [t \in Task |-> "idle"] /\ block = [t \in Task |-> NULL]
      /\ used = [t \in Task |-> 0] /\ held = [t \in Task |-> {}] /\ lostUpdates = 0
  BY DEF Init
<1>2. Parts[NULL] = InitialBlocks
  BY <1>1, PartsAre
<1>3. \A v \in Task : Parts[v] = {} /\ Listed[v] = {} /\ Charged[v] = {}
  BY <1>1, PartsAre DEF Shown, FlightCalls, ListedCalls, ChargedCalls
<1>4. \A x \in Owner \ {NULL} : Parts[x] = {}
  BY <1>3 DEF Owner
<1>5. /\ InitialBlocks \subseteq Block
      /\ \A b \in InitialBlocks : Buddy(b) \notin InitialBlocks
      /\ Apart(Parts) /\ Covers(Parts)
  BY <1>2, <1>4, InitialPool
<1>6. TypeOK
  BY <1>1, <1>5, Word DEF TypeOK, Label
<1>7. BlockOK
  BY <1>1 DEF BlockOK, InCall
<1>8. FreeBuddiesMerged
  BY <1>1, <1>5 DEF FreeBuddiesMerged
<1>9. Records(Listed, pbAllocatedBlockListIndex)
  BY <1>1, <1>3 DEF Records
<1>10. Counts(Charged)
  <2>1. \A v \in Task : Plain(Charged)[v] = {} /\ Huge(Charged)[v] = {}
    BY <1>3 DEF Plain, Huge
  <2>2. UnitsOf(Plain(Charged)) = {} /\ UnitsOf(Huge(Charged)) = {}
    <3>1. ASSUME NEW C, \A v \in Task : C[v] = {} PROVE UnitsOf(C) = {}
      BY <3>1 DEF UnitsOf
    <3>. QED
      BY <2>1, <3>1
  <2>3. IsFiniteSet({}) /\ Cardinality({}) = 0
    BY FS_EmptySet
  <2>4. (0 + 0) % QWORD = 0 % QWORD
    BY Word
  <2>. QED
    BY <1>1, <2>2, <2>3, <2>4 DEF Counts
<1>. QED
  BY <1>5, <1>6, <1>7, <1>8, <1>9, <1>10 DEF IInv

\* ... and every step of every task keeps it.
LEMMA NextInv == IInv /\ [Next]_vars => IInv'
<1> SUFFICES ASSUME IInv, [Next]_vars PROVE IInv'
  OBVIOUS
<1>1. CASE UNCHANGED vars
  <2>1. /\ Exist' = Exist /\ pbAllocatedBlockListIndex' = pbAllocatedBlockListIndex
        /\ qwUsedSize' = qwUsedSize /\ lostUpdates' = lostUpdates /\ used' = used
        /\ pc' = pc /\ block' = block /\ held' = held
    BY <1>1 DEF vars, callers
  <2>2. Parts' = Parts /\ Listed' = Listed /\ Charged' = Charged /\ BlockOK'
    BY <2>1 DEF Parts, InFlight, Listed, Charged, Counted, BlockOK, IInv
  <2>3. TypeOK
    BY DEF IInv
  <2>. QED
    BY <2>1, <2>2, <2>3, Quiet DEF TypeOK
<1>2. ASSUME NEW t \in Task, Allocate(t) PROVE IInv'
  <2>1. CASE \E qwSize \in Request : kAllocateMemory(t, qwSize)
    BY <2>1, kAllocateMemoryStep
  <2>2. CASE kAllocationBuddyBlock(t)
    BY <2>2, kAllocationBuddyBlockStep
  <2>3. CASE SetIndex(t)
    BY <2>3, SetIndexStep
  <2>4. CASE ReadUsedSize(t, "addRead", "addWrite")
    BY <2>4, ReadUsedSizeStep
  <2>5. CASE WriteUsedSize(t, "addWrite", "return", used[t] + IntSize(block[t][1]))
    BY <2>5, AddUsedSizeStep
  <2>6. CASE Return(t)
    BY <2>6, ReturnStep
  <2>. QED
    BY <1>2, <2>1, <2>2, <2>3, <2>4, <2>5, <2>6 DEF Allocate
<1>3. ASSUME NEW t \in Task, Free(t) PROVE IInv'
  <2>1. CASE \E u \in Unit : kFreeMemory(t, u)
    BY <2>1, kFreeMemoryStep
  <2>2. CASE ClearIndex(t)
    BY <2>2, ClearIndexStep
  <2>3. CASE kFreeBuddyBlock(t)
    BY <2>3, kFreeBuddyBlockStep
  <2>4. CASE ReadUsedSize(t, "subRead", "subWrite")
    BY <2>4, ReadUsedSizeStep
  <2>5. CASE WriteUsedSize(t, "subWrite", "idle", used[t] + QWORD - IntSize(block[t][1]))
    BY <2>5, SubUsedSizeStep
  <2>. QED
    BY <1>3, <2>1, <2>2, <2>3, <2>4, <2>5 DEF Free
<1>. QED
  BY <1>1, <1>2, <1>3 DEF Next

\* The invariant holds in every state, whatever the size of the pool, the number of
\* tasks and the interleaving of kAllocateMemory and kFreeMemory.
THEOREM Invariance == Spec => []IInv
<1>1. Init => IInv
  BY InitInv
<1>2. IInv /\ [Next]_vars => IInv'
  BY NextInv
<1>. QED
  BY <1>1, <1>2, PTL DEF Spec

\* The allocator's state keeps its types: the bitmaps, the size table and the count
\* of kInitializeDynamicMemory, and where every caller stands.
THEOREM TypeCorrect == Spec => []TypeOK
<1>1. IInv => TypeOK
  BY DEF IInv
<1>. QED
  BY <1>1, Invariance, PTL

(***************************************************************************)
(* What the invariant says of the pool                                     *)
(***************************************************************************)
LEMMA ClaimIs ==
    ASSUME NEW c
    PROVE  c \in Claims <=> \E x \in Owner : \E b \in Parts[x] : c = <<x, b>>
<1>1. c \in Claims <=> \/ \E b \in Exist : c = <<NULL, b>>
                       \/ \E v \in Task : \E b \in held[v] \cup InFlight(v) : c = <<v, b>>
  <2>1. c \in {NULL} \X Exist <=> \E b \in Exist : c = <<NULL, b>>
    OBVIOUS
  <2>2. c \in UNION {{v} \X (held[v] \cup InFlight(v)) : v \in Task}
          <=> \E v \in Task : c \in {v} \X (held[v] \cup InFlight(v))
    BY Zenon
  <2>3. \A v \in Task : c \in {v} \X (held[v] \cup InFlight(v))
                          <=> \E b \in held[v] \cup InFlight(v) : c = <<v, b>>
    OBVIOUS
  <2>. QED
    BY <2>1, <2>2, <2>3 DEF Claims
<1>2. NULL \in Owner /\ Parts[NULL] = Exist
  BY PartsAre
<1>3. \A v \in Task : v \in Owner /\ Parts[v] = held[v] \cup InFlight(v)
  BY PartsAre DEF Parts
<1>. QED
  BY <1>1, <1>2, <1>3 DEF Owner

\* Exactly one claim to a unit: the parts are apart and cover the pool.
LEMMA Partitioned == IInv => PoolIsPartitioned
<1> SUFFICES ASSUME IInv, NEW u \in Unit
             PROVE  Cardinality({c \in Claims : u \in Units(c[2])}) = 1
  BY DEF PoolIsPartitioned
<1>1. Apart(Parts) /\ Covers(Parts)
  BY DEF IInv
<1>2. PICK x \in Owner : \E b \in Parts[x] : u \in Units(b)
  BY <1>1 DEF Covers
<1>3. PICK b \in Parts[x] : u \in Units(b)
  BY <1>2
<1>4. {c \in Claims : u \in Units(c[2])} = {<<x, b>>}
  <2>1. <<x, b>> \in Claims /\ u \in Units(<<x, b>>[2])
    BY <1>3, ClaimIs
  <2>2. ASSUME NEW c \in Claims, u \in Units(c[2]) PROVE c = <<x, b>>
    <3>1. PICK y \in Owner : \E d \in Parts[y] : c = <<y, d>>
      BY ClaimIs
    <3>2. PICK d \in Parts[y] : c = <<y, d>>
      BY <3>1
    <3>3. u \in Units(d)
      BY <2>2, <3>2
    <3>4. x = y /\ b = d
      BY <1>1, <1>3, <3>3 DEF Apart
    <3>. QED
      BY <3>2, <3>4
  <2>. QED
    BY <2>1, <2>2
<1>. QED
  BY <1>4, FS_Singleton

\* A number below w is its own remainder.
LEMMA Small == ASSUME NEW w \in Nat \ {0}, NEW x \in 0 .. w - 1 PROVE x % w = x
OBVIOUS

\* The units that qwUsedSize should count, as the model and the invariant say it.
LEMMA AccountedIs ==
    ASSUME TypeOK
    PROVE  /\ UNION {{c} \X Units(c[2]) : c \in Accounted} = UnitsOf(Charged)
           /\ \A v \in Task : \A b \in Charged[v] : <<v, b>> \in Accounted
<1>1. ASSUME NEW c
      PROVE  c \in Accounted <=> \E v \in Task : \E b \in Charged[v] : c = <<v, b>>
  <2> DEFINE A(v) == held[v] \cup IF pc[v] \in {"return", "clear", "merge", "subRead", "subWrite"}
                                  THEN {block[v]} \ {NULL} ELSE {}
  <2>1. Accounted = UNION {{v} \X A(v) : v \in Task}
    BY DEF Accounted
  <2>2. c \in UNION {{v} \X A(v) : v \in Task} <=> \E v \in Task : c \in {v} \X A(v)
    <3> HIDE DEF A
    <3>. QED
      BY Zenon
  <2>3. \A v \in Task : A(v) = Charged[v]
    BY DEF Charged, Counted, ChargedCalls
  <2> HIDE DEF A
  <2>4. \A v \in Task : c \in {v} \X A(v) <=> \E b \in A(v) : c = <<v, b>>
    OBVIOUS
  <2>. QED
    BY <2>1, <2>2, <2>3, <2>4
<1>2. \A v \in Task : \A b \in Charged[v] : b \in Block
  BY PartsAre DEF TypeOK, Shown, ChargedCalls
<1>3. ASSUME NEW w
      PROVE  w \in UNION {{c} \X Units(c[2]) : c \in Accounted} <=> w \in UnitsOf(Charged)
  <2>1. w \in UNION {{c} \X Units(c[2]) : c \in Accounted}
          <=> \E c \in Accounted : w \in {c} \X Units(c[2])
    BY Zenon
  <2>2. ASSUME NEW c \in Accounted, w \in {c} \X Units(c[2]) PROVE w \in UnitsOf(Charged)
    <3>1. PICK v \in Task : \E b \in Charged[v] : c = <<v, b>>
      BY <1>1
    <3>2. PICK b \in Charged[v] : c = <<v, b>>
      BY <3>1
    <3>3. b \in Block /\ w = <<c, w[2]>> /\ w[2] \in Units(b) /\ w[1] = c
      BY <1>2, <2>2, <3>2
    <3>4. w[2] \in Unit
      BY <3>3, BlockUnits
    <3>. QED
      BY <3>2, <3>3, <3>4 DEF UnitsOf
  <2>3. ASSUME w \in UnitsOf(Charged) PROVE \E c \in Accounted : w \in {c} \X Units(c[2])
    <3>1. /\ w \in (Task \X Block) \X Unit
          /\ w[1][2] \in Charged[w[1][1]] /\ w[2] \in Units(w[1][2])
      BY <2>3 DEF UnitsOf
    <3>2. w[1] = <<w[1][1], w[1][2]>> /\ w[1][1] \in Task /\ w = <<w[1], w[2]>>
      BY <3>1
    <3>3. w[1] \in Accounted
      BY <1>1, <3>1, <3>2
    <3>. QED
      BY <3>1, <3>2, <3>3
  <2>. QED
    BY <2>1, <2>2, <2>3
<1>. QED
  BY <1>1, <1>3

\* Where no block of 2 GB is in use, and no update is lost, the count is exact.
LEMMA CountIs ==
    ASSUME TypeOK, Counts(Charged), CountedRight
    PROVE  IsFiniteSet(UnitsOf(Charged)) /\ qwUsedSize = Cardinality(UnitsOf(Charged)) % QWORD
<1>1. ASSUME NEW v \in Task, NEW b \in Charged[v] PROVE b[1] < INTList
  <2> DEFINE c == <<v, b>>
  <2>1. c \in Accounted /\ c[2] = b
    BY AccountedIs
  <2>. QED
    BY <2>1 DEF CountedRight
<1>2. Plain(Charged) = Charged
  <2>1. \A v \in Task : {b \in Charged[v] : b[1] < INTList} = Charged[v]
    BY <1>1
  <2>2. Charged = [v \in Task |-> Charged[v]]
    BY DEF Charged
  <2>. QED
    BY <2>1, <2>2 DEF Plain
<1>3. UnitsOf(Huge(Charged)) = {}
  <2>1. \A v \in Task : Huge(Charged)[v] = {}
    BY <1>1 DEF Huge
  <2>. QED
    BY <2>1 DEF UnitsOf
<1>4. Cardinality({}) = 0
  BY FS_EmptySet
<1>5. (qwUsedSize + 0) % QWORD = Cardinality(UnitsOf(Charged)) % QWORD
  BY <1>2, <1>3, <1>4 DEF Counts, CountedRight
<1>6. qwUsedSize \in 0 .. QWORD - 1 /\ qwUsedSize + 0 = qwUsedSize
  BY Word DEF TypeOK
<1>7. qwUsedSize % QWORD = qwUsedSize
  BY <1>6, Word, Small
<1>. QED
  BY <1>2, <1>5, <1>6, <1>7 DEF Counts


\* Every unit of the pool is in exactly one block that is free, held or on its way
\* between kAllocateMemory or kFreeMemory and the bitmaps; free neighbours have been
\* joined; and qwUsedSize is right unless two tasks wrote it at the same time.
THEOREM PoolIsConsistentHolds == Spec => []PoolIsConsistent
<1>1. ASSUME IInv PROVE PoolIsConsistent
  <2>1. PoolIsPartitioned /\ FreeBuddiesMerged /\ TypeOK /\ Counts(Charged)
    BY <1>1, Partitioned DEF IInv
  <2>2. UsedSizeIsAccurate
    BY <2>1, AccountedIs, CountIs DEF UsedSizeIsAccurate
  <2>. QED
    BY <2>1, <2>2 DEF PoolIsConsistent
<1>. QED
  BY <1>1, Invariance, PTL

(***************************************************************************)
(* Refusals                                                                *)
(***************************************************************************)
\* The used units and those of a free block are different ones of the pool.
LEMMA RoomLeft ==
    ASSUME TypeOK, Apart(Parts), IsFiniteSet(UnitsOf(Charged)),
           \A v \in Task : Charged[v] \subseteq Parts[v], NEW b \in Exist
    PROVE  /\ Cardinality(UnitsOf(Charged)) \in Nat /\ Size[b[1]] \in Nat
           /\ Cardinality(UnitsOf(Charged)) + Size[b[1]] <= iBlockCountOfSmallestBlock
<1> DEFINE X == UnitsOf(Charged)
           Y == Unit \ Units(b)
           f == [w \in X |-> w[2]]
           N == iBlockCountOfSmallestBlock
<1>1. b \in Block /\ b \in Shape /\ Units(b) \subseteq Unit /\ b \in Parts[NULL] /\ NULL \in Owner
  BY BlockUnits, PartsAre DEF TypeOK
<1>2. ASSUME NEW w \in X
      PROVE  /\ w[1][1] \in Task /\ w[1][1] \in Owner /\ w[1][2] \in Parts[w[1][1]]
             /\ w[2] \in Unit /\ w[2] \in Units(w[1][2])
             /\ w = <<<<w[1][1], w[1][2]>>, w[2]>>
  <2>1. /\ w \in (Task \X Block) \X Unit
        /\ w[1][2] \in Charged[w[1][1]] /\ w[2] \in Units(w[1][2])
    BY DEF UnitsOf
  <2>. QED
    BY <2>1, PartsAre
<1>3. ASSUME NEW w \in X PROVE w[2] \in Y
  <2>1. w[1][1] # NULL
    BY <1>2, PartsAre
  <2>2. w[2] \notin Units(b)
    BY <1>1, <1>2, <2>1 DEF Apart
  <2>. QED
    BY <1>2, <2>2
<1>4. ASSUME NEW w \in X, NEW z \in X, w[2] = z[2] PROVE w = z
  <2>1. w[1][1] = z[1][1] /\ w[1][2] = z[1][2]
    BY <1>2, <1>4 DEF Apart
  <2>. QED
    BY <1>2, <1>4, <2>1
<1>5. IsFiniteSet(Units(b)) /\ Cardinality(Units(b)) = Size[b[1]] /\ Size[b[1]] \in Nat
  <2> DEFINE a == b[2] * Size[b[1]]
             e == (b[2] + 1) * Size[b[1]]
             s == Size[b[1]]
  <2>1. a \in Nat /\ e \in Nat /\ s \in Nat /\ s > 0 /\ e = a + s
    BY <1>1, ShapeIs
  <2>2. Units(b) = a .. e - 1
    BY DEF Units
  <2> HIDE DEF a, e, s
  <2>3. a \in Int /\ e - 1 \in Int /\ ~(a > e - 1) /\ e - 1 - a + 1 = s
    BY <2>1
  <2>4. IsFiniteSet(Units(b)) /\ Cardinality(Units(b)) = s
    BY <2>2, <2>3, FS_Interval
  <2>. QED
    BY <2>1, <2>4 DEF s
<1>6. IsFiniteSet(Unit) /\ Cardinality(Unit) = N
  <2>1. 0 \in Int /\ N - 1 \in Int /\ ~(0 > N - 1) /\ N - 1 - 0 + 1 = N
    BY Pool
  <2>. QED
    BY <2>1, FS_Interval DEF Unit
<1>7. Unit \cap Units(b) = Units(b)
  BY <1>1
<1>8. IsFiniteSet(Y) /\ Cardinality(Y) = N - Size[b[1]]
  <2> DEFINE U == Units(b)
  <2>1. IsFiniteSet(Unit) /\ Cardinality(Unit) = N /\ Unit \cap U = U /\ Cardinality(U) = Size[b[1]]
    BY <1>5, <1>6, <1>7
  <2> HIDE DEF U
  <2>2. IsFiniteSet(Unit \ U) /\ Cardinality(Unit \ U) = Cardinality(Unit) - Cardinality(Unit \cap U)
    BY <2>1, FS_Difference
  <2>. QED
    BY <2>1, <2>2 DEF U
<1>9. f \in [X -> Y] /\ \A w, z \in X : f[w] = f[z] => w = z
  BY <1>3, <1>4
<1>10. Cardinality(X) \in Nat
  BY FS_CardinalityType
<1> HIDE DEF X, Y, f
<1>11. ~(Cardinality(Y) < Cardinality(X))
  <2>1. IsFiniteSet(X)
    BY DEF X
  <2>. QED
    BY <1>8, <1>9, <2>1, FS_PigeonHole
<1>12. Cardinality(X) + Size[b[1]] <= N
  BY <1>5, <1>8, <1>10, <1>11, Pool
<1>. QED
  BY <1>5, <1>10, <1>12 DEF X

\* Where nobody is about to hand out or take back a block, the count of used memory
\* is exact, so that the check does not refuse what a free block could serve.
LEMMA CheckIsExact ==
    ASSUME IInv, CountedRight, \A u \in Task : pc[u] \in {"idle", "search"},
           NEW i \in Level, i < INTList, NoSpace(i), NEW b \in Exist
    PROVE  b[1] < i
<1> SUFFICES ASSUME ~(b[1] < i) PROVE FALSE
  OBVIOUS
<1> DEFINE x == Cardinality(UnitsOf(Charged))
           N == iBlockCountOfSmallestBlock
<1>1. TypeOK /\ Apart(Parts) /\ Counts(Charged)
  BY DEF IInv
<1>2. ASSUME NEW v \in Task PROVE Charged[v] \subseteq Parts[v]
  BY PartsAre DEF Shown, ChargedCalls
<1>3. IsFiniteSet(UnitsOf(Charged)) /\ qwUsedSize = x % QWORD
  BY <1>1, CountIs
<1>4. x \in Nat /\ Size[b[1]] \in Nat /\ x + Size[b[1]] <= N
  BY <1>1, <1>2, <1>3, RoomLeft
<1>5. Size[i] \in Nat /\ Size[i] <= Size[b[1]]
  <2>1. b[1] \in Level
    BY <1>1, BlockUnits DEF TypeOK
  <2>2. /\ b[1] \in 0 .. N /\ i \in 0 .. N /\ Size[i] \in Nat
    BY <2>1, ListOf
  <2>3. i \in 0 .. b[1]
    BY <2>2, Pool
  <2>. QED
    BY <2>2, <2>3, SizeGrows
<1>6. (Start + qwUsedSize + Size[i]) % QWORD > Start + N
  BY DEF NoSpace, IntSize
<1> HIDE DEF x
<1>7. x \in 0 .. QWORD - 1
  BY <1>4, Word, Pool
<1>8. x % QWORD = x
  BY <1>7, Word, Small
<1>9. Start + x + Size[i] \in 0 .. QWORD - 1 /\ Start + x + Size[i] <= Start + N
  BY <1>4, <1>5, SizeAssumption
<1>10. (Start + x + Size[i]) % QWORD = Start + x + Size[i]
  BY <1>9, Word, Small
<1>. QED
  BY <1>3, <1>6, <1>8, <1>9, <1>10, SizeAssumption

\* The list that matches the size of a list's blocks is that list.
LEMMA OwnSize ==
    ASSUME NEW i \in Level, i < INTList
    PROVE  ~TooLarge(Size[i]) /\ kGetBlockListIndexOfMatchSize(Size[i]) = i
<1> DEFINE m == kGetBlockListIndexOfMatchSize(Size[i])
<1>1. Size[i] \in Nat /\ i \in 0 .. iBlockCountOfSmallestBlock /\ Size[i] = IntSize(i)
  BY ListOf DEF IntSize
<1>2. ~TooLarge(Size[i])
  BY <1>1 DEF TooLarge
<1>3. m \in Level /\ Size[i] <= IntSize(m) /\ \A j \in 0 .. m - 1 : Size[i] > IntSize(j)
  BY <1>1, <1>2, MatchIs
<1>4. m \in 0 .. iBlockCountOfSmallestBlock /\ Size[m] \in Nat
  BY <1>3, ListOf
<1> HIDE DEF m
<1>5. ASSUME m < i PROVE FALSE
  <2>1. m \in 0 .. i
    BY <1>1, <1>4, <1>5, Pool
  <2>2. m < INTList
    BY <1>1, <1>4, <1>5, SizeAssumption
  <2>3. IntSize(m) = Size[m]
    BY <2>2 DEF IntSize
  <2>. QED
    BY <1>1, <1>3, <1>4, <1>5, <2>1, <2>3, SizeGrows
<1>6. ASSUME i < m PROVE FALSE
  <2>1. i \in 0 .. m - 1
    BY <1>1, <1>4, <1>6, Pool
  <2>2. IntSize(i) > IntSize(i) /\ IntSize(i) \in Nat
    BY <1>1, <1>3, <2>1
  <2>. QED
    BY <1>1, <2>2
<1>7. m = i
  <2>1. m \in Nat /\ i \in Nat
    BY <1>1, <1>4, Pool
  <2>. QED
    BY <1>5, <1>6, <2>1
<1>. QED
  BY <1>2, <1>7 DEF m

\* A task that stands where it searches moves on only by searching.
LEMMA OnlySearches ==
    ASSUME TypeOK, Next, NEW t \in Task, pc[t] = "search", pc'[t] # "search"
    PROVE  kAllocationBuddyBlock(t)
<1>1. PICK v \in Task : Allocate(v) \/ Free(v)
  BY DEF Next
<1>2. pc[v] = "search" => kAllocationBuddyBlock(v)
  BY <1>1 DEF Allocate, Free, kAllocateMemory, SetIndex, ReadUsedSize, WriteUsedSize, Return,
              kFreeMemory, ClearIndex, kFreeBuddyBlock, Goto
<1>3. \E to : pc' = [pc EXCEPT ![v] = to]
  <2>1. CASE Allocate(v)
    BY <2>1 DEF Allocate, kAllocateMemory, kAllocationBuddyBlock, SetIndex, ReadUsedSize,
                WriteUsedSize, Return, Goto
  <2>2. CASE Free(v)
    BY <2>2 DEF Free, kFreeMemory, ClearIndex, kFreeBuddyBlock, ReadUsedSize, WriteUsedSize, Goto
  <2>. QED
    BY <1>1, <2>1, <2>2
<1>4. v = t
  BY <1>3 DEF TypeOK
<1>. QED
  BY <1>2, <1>4

\* Where only one task calls at a time, kAllocateMemory returns NULL only if no free
\* block is large enough: neither the check of qwUsedSize nor the search of the
\* bitmaps misses one.
THEOREM RefusedOnlyWhenFullHolds == Spec => RefusedOnlyWhenFull
<1> DEFINE A == (\A u \in Task : pc[u] \in {"idle", "search"}) /\ CountedRight
                => \A t \in Task, i \in {j \in Level : j < INTList} :
                       Refused(t, i) => \A b \in Exist : b[1] < i
<1>1. IInv /\ [Next]_vars => [A]_vars
  <2> SUFFICES ASSUME IInv, Next, \A u \in Task : pc[u] \in {"idle", "search"},
                      CountedRight, NEW t \in Task, NEW i \in Level, i < INTList, Refused(t, i),
                      NEW b \in Exist
               PROVE  b[1] < i
    OBVIOUS
  <2>1. pc'[t] = "return" /\ block'[t] = NULL /\ TypeOK /\ BlockOK
    BY DEF Refused, IInv
  <2>2. CASE kAllocateMemory(t, Size[i])
    <3>1. NoSpace(i)
      <4> SUFFICES ASSUME ~NoSpace(i) PROVE FALSE
        OBVIOUS
      <4>1. pc' = [pc EXCEPT ![t] = "search"]
        BY <2>2, OwnSize DEF kAllocateMemory, Goto
      <4>. QED
        BY <2>1, <4>1 DEF TypeOK
    <3>. QED
      BY <3>1, CheckIsExact
  <2>3. CASE pc[t] = "search" /\ block[t] = <<i, 0>>
    <3>1. kAllocationBuddyBlock(t)
      BY <2>1, <2>3, OnlySearches
    <3>2. i = block[t][1]
      BY <2>3
    <3>3. \/ \A d \in Exist : d[1] < i
          \/ \E d : Moves(t, "setIndex", Left(d, d[1] - i), held[t])
      BY <2>1, <3>1, <3>2, FindingIs
    <3>4. ASSUME NEW d, Moves(t, "setIndex", Left(d, d[1] - i), held[t]) PROVE FALSE
      <4>1. pc' = [pc EXCEPT ![t] = "setIndex"]
        BY <3>4 DEF Moves
      <4>. QED
        BY <2>1, <4>1 DEF TypeOK
    <3>. QED
      BY <3>3, <3>4
  <2>. QED
    BY <2>2, <2>3 DEF Refused
<1>. QED
  BY <1>1, Invariance, PTL DEF Spec, RefusedOnlyWhenFull

(***************************************************************************)
(* The allocator that the callers see                                      *)
(***************************************************************************)
Runs(h) == {Units(b) : b \in h}
Given == [t \in Task |-> Runs(held[t])]

\* The refinement mapping, before and after a step.
LEMMA GivenIs ==
    /\ Given = [t \in Task |-> {Units(b) : b \in held[t]}]
    /\ Given' = [t \in Task |-> {Units(b) : b \in held'[t]}]
BY DEF Given, Runs

\* The units of a block are a run of the pool, and tell the block among the parts.
LEMMA RunOf ==
    ASSUME NEW b \in Block
    PROVE  Units(b) \in {a .. c : a, c \in Unit} \ {{}}
<1> DEFINE a == b[2] * Size[b[1]]
           e == (b[2] + 1) * Size[b[1]]
<1>1. a \in Nat /\ e \in Nat /\ Size[b[1]] \in Nat \ {0} /\ e = a + Size[b[1]]
  BY BlockUnits, ShapeIs
<1>2. Units(b) = a .. e - 1 /\ Units(b) \subseteq Unit
  BY BlockUnits DEF Units
<1> HIDE DEF a, e
<1>3. a \in a .. e - 1 /\ e - 1 \in a .. e - 1
  BY <1>1
<1>4. a \in Unit /\ e - 1 \in Unit /\ Units(b) # {}
  BY <1>2, <1>3
<1>. QED
  BY <1>2, <1>4

\* Parts with a unit in common are the same part.
LEMMA RunTells ==
    ASSUME TypeOK, Apart(Parts), NEW t \in Task, NEW v \in Task,
           NEW b \in Parts[t], NEW d \in Parts[v], Units(b) \cap Units(d) # {}
    PROVE  t = v /\ b = d
<1>1. d \in Block /\ t \in Owner /\ v \in Owner
  BY PartsInPool, PartsAre
<1>2. PICK u : u \in Units(b) /\ u \in Units(d)
  OBVIOUS
<1>3. u \in Unit
  BY <1>1, <1>2, BlockUnits
<1>. QED
  BY <1>1, <1>2, <1>3 DEF Apart

\* A block handed to its caller is a run that nobody holds.
LEMMA ReturnMaps ==
    ASSUME IInv, NEW t \in Task, Return(t)
    PROVE  UNCHANGED Given \/ \E s \in Abstract!Run : Abstract!Allocate(t, s)
<1> DEFINE b == block[t]
<1>1. /\ TypeOK /\ BlockOK /\ Apart(Parts) /\ pc[t] = "return"
      /\ held' = [held EXCEPT ![t] = held[t] \cup ({b} \ {NULL})]
  BY DEF IInv, Return, Goto
<1>2. CASE b = NULL
  <2>1. held' = held
    BY <1>1, <1>2 DEF TypeOK
  <2>. QED
    BY <2>1 DEF Given
<1>3. CASE b # NULL
  <2>1. b \in Block /\ b \notin held[t] /\ b \in Parts[t]
    BY <1>1, <1>3, PartsAre DEF TypeOK, BlockOK, InCall, Label, Shown, FlightCalls
  <2>2. held' = [held EXCEPT ![t] = held[t] \cup {b}]
    BY <1>1, <1>3
  <2> HIDE DEF b
  <2>3. ASSUME NEW v \in Task, NEW r \in Given[v] PROVE r \cap Units(b) = {}
    <3>1. PICK d \in held[v] : r = Units(d)
      BY DEF Given, Runs
    <3>2. d \in Parts[v]
      BY <1>1, PartsInPool
    <3>. QED
      BY <1>1, <2>1, <3>1, <3>2, RunTells
  <2>4. Given' = [Given EXCEPT ![t] = Given[t] \cup {Units(b)}]
    <3>1. Runs(held[t] \cup {b}) = Runs(held[t]) \cup {Units(b)}
      BY DEF Runs
    <3>2. held'[t] = held[t] \cup {b} /\ \A v \in Task \ {t} : held'[v] = held[v]
      BY <1>1, <2>2 DEF TypeOK
    <3>3. \A v \in Task : Given'[v] = [Given EXCEPT ![t] = Given[t] \cup {Units(b)}][v]
      BY <3>1, <3>2 DEF Given
    <3>. QED
      BY <3>3 DEF Given
  <2>5. PICK s : s = Units(b)
    OBVIOUS
  <2>6. Abstract!Allocate(t, s)
    BY <2>3, <2>4, <2>5, GivenIs, Zenon DEF Abstract!Allocate
  <2>7. s \in Abstract!Run
    BY <2>1, <2>5, RunOf DEF Abstract!Run
  <2>. QED
    BY <2>6, <2>7
<1>. QED
  BY <1>2, <1>3

\* A block taken back is one of the runs of who frees it.
LEMMA kFreeMemoryMaps ==
    ASSUME IInv, NEW t \in Task, NEW u \in Unit, kFreeMemory(t, u)
    PROVE  \E s \in Abstract!Run : Abstract!Free(t, s)
<1>1. PICK b \in held[t] : b \in Block /\ Moves(t, "clear", b, held[t] \ {b})
  BY FreeingIs
<1>2. TypeOK /\ Apart(Parts)
  BY DEF IInv
<1>3. held' = [held EXCEPT ![t] = held[t] \ {b}]
  BY <1>1 DEF Moves
<1>4. Runs(held[t] \ {b}) = Runs(held[t]) \ {Units(b)}
  <2>1. ASSUME NEW d \in held[t], Units(d) = Units(b) PROVE d = b
    <3>1. d \in Parts[t] /\ b \in Parts[t]
      BY <1>2, PartsInPool
    <3>2. Units(b) # {}
      BY <1>1, RunOf
    <3>. QED
      BY <1>2, <2>1, <3>1, <3>2, RunTells
  <2>. QED
    BY <2>1 DEF Runs
<1>5. Given' = [Given EXCEPT ![t] = Given[t] \ {Units(b)}]
  <2>1. held'[t] = held[t] \ {b} /\ \A v \in Task \ {t} : held'[v] = held[v]
    BY <1>2, <1>3 DEF TypeOK
  <2>2. \A v \in Task : Given'[v] = [Given EXCEPT ![t] = Given[t] \ {Units(b)}][v]
    BY <1>4, <2>1 DEF Given
  <2>. QED
    BY <2>2 DEF Given
<1>6. Units(b) \in Given[t]
  BY DEF Given, Runs
<1>7. Abstract!Free(t, Units(b))
  BY <1>5, <1>6, GivenIs, Zenon DEF Abstract!Free
<1>8. Units(b) \in Abstract!Run
  BY <1>1, RunOf DEF Abstract!Run
<1>. QED
  BY <1>7, <1>8

\* Whatever the tasks and the pool, and however calls interleave: to its callers
\* DynamicMemory.c is an allocator of runs of memory that nobody else holds.
THEOREM ImplementsAllocatorHolds == Spec => ImplementsAllocator
<1> DEFINE given == [t \in Task |-> {Units(b) : b \in held[t]}]
<1>1. Init => Abstract!Init
  <2> SUFFICES ASSUME Init PROVE given = [t \in Task |-> {}]
    BY DEF Abstract!Init
  <2>. QED
    BY DEF Init
<1>2. IInv /\ [Next]_vars => [Abstract!Next]_given
  <2> SUFFICES ASSUME IInv, [Next]_vars PROVE Abstract!Next \/ UNCHANGED Given
    BY GivenIs
  <2>1. CASE held' = held
    BY <2>1 DEF Given
  <2>2. ASSUME NEW t \in Task, Return(t) PROVE Abstract!Next \/ UNCHANGED Given
    BY <2>2, ReturnMaps DEF Abstract!Next
  <2>3. ASSUME NEW t \in Task, NEW u \in Unit, kFreeMemory(t, u) PROVE Abstract!Next
    BY <2>3, kFreeMemoryMaps DEF Abstract!Next
  <2>4. CASE UNCHANGED vars
    BY <2>1, <2>4 DEF vars, callers
  <2>5. ASSUME NEW t \in Task, Allocate(t), ~Return(t) PROVE held' = held
    BY <2>5 DEF Allocate, kAllocateMemory, kAllocationBuddyBlock, SetIndex, ReadUsedSize,
                WriteUsedSize, callers
  <2>6. ASSUME NEW t \in Task, Free(t), \A u \in Unit : ~kFreeMemory(t, u) PROVE held' = held
    BY <2>6 DEF Free, ClearIndex, kFreeBuddyBlock, ReadUsedSize, WriteUsedSize, callers
  <2>. QED
    BY <2>1, <2>2, <2>3, <2>4, <2>5, <2>6 DEF Next
<1>. QED
  BY <1>1, <1>2, Invariance, PTL DEF Spec, ImplementsAllocator, Abstract!Spec
===============================================================================
