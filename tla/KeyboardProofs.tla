----------------------------- MODULE KeyboardProofs -----------------------------
(***************************************************************************)
(* Proofs about module Keyboard, for any cores, anything a user may type   *)
(* and any capacity of the key queue: every field keeps its range, the key *)
(* queue is a first-in first-out queue of the keys, the keys are those the *)
(* user typed, and the LEDs follow the lock keys.  Before them, what is    *)
(* proved of the ring buffer of Queue by itself.                           *)
(***************************************************************************)
EXTENDS Keyboard, Sequences, WellFoundedInduction, TLAPS

(***************************************************************************)
(* The ring buffer of Queue is a bounded first-in first-out queue, for     *)
(* every capacity and any data: kPutQueue appends, kGetQueue takes the     *)
(* first, and both indices stay in the array however often they wrap.      *)
(***************************************************************************)
\* A queue of n places, each holding data of S (or what the array held before).
QueueOf(n, S) ==
    [pvQueueArray : [0 .. n - 1 -> S], iMaxDataCount : {n},
     iPutIndex : 0 .. n - 1, iGetIndex : 0 .. n - 1, bLastOperationPut : BOOLEAN]

LEMMA ModSmall ==
    ASSUME NEW n \in Nat \ {0}, NEW x \in 0 .. n - 1
    PROVE  x % n = x
OBVIOUS

LEMMA ModWrapped ==
    ASSUME NEW n \in Nat \ {0}, NEW x \in n .. n + n - 1
    PROVE  x % n = x - n
OBVIOUS

\* How far the put index is ahead of the get index.
Distance(n, get, put) == IF get <= put THEN put - get ELSE n + put - get

\* The places of the data that wait are not the next one, and the next one follows
\* them.
LEMMA PlaceIsTaken ==
    ASSUME NEW n \in Nat \ {0}, NEW get \in 0 .. n - 1, NEW put \in 0 .. n - 1,
           Distance(n, get, put) < n
    PROVE  /\ \A i \in 1 .. Distance(n, get, put) :
                (IF get + i - 1 < n THEN get + i - 1 ELSE get + i - 1 - n) # put
           /\ LET i == Distance(n, get, put) + 1
              IN  (IF get + i - 1 < n THEN get + i - 1 ELSE get + i - 1 - n) = put
<1>1. CASE get <= put
  BY <1>1 DEF Distance
<1>2. CASE put < get
  BY <1>2 DEF Distance
<1> QED
  BY <1>1, <1>2

\* How many data wait, without the remainder.
LEMMA CountIs ==
    ASSUME NEW n \in Nat \ {0}, NEW S, NEW q \in QueueOf(n, S)
    PROVE  /\ Count(q) \in 0 .. n
           /\ Count(q) = IF kIsQueueFull(q) THEN n ELSE Distance(n, q.iGetIndex, q.iPutIndex)
           /\ Count(q) = n <=> kIsQueueFull(q)
           /\ Count(q) = 0 <=> kIsQueueEmpty(q)
<1> DEFINE x == n + q.iPutIndex - q.iGetIndex
<1>1. q.iMaxDataCount = n /\ q.iPutIndex \in 0 .. n - 1 /\ q.iGetIndex \in 0 .. n - 1
      /\ q.bLastOperationPut \in BOOLEAN
  BY DEF QueueOf
<1>2. x \in 1 .. n + n - 1
  BY <1>1
<1>3. x % n = IF q.iGetIndex <= q.iPutIndex THEN q.iPutIndex - q.iGetIndex ELSE x
  <2>1. CASE q.iGetIndex <= q.iPutIndex
    <3>1. x \in n .. n + n - 1
      BY <1>1, <2>1
    <3>2. x % n = x - n
      BY <3>1, ModWrapped
    <3> QED
      BY <1>1, <2>1, <3>2
  <2>2. CASE ~(q.iGetIndex <= q.iPutIndex)
    <3>1. x \in 0 .. n - 1
      BY <1>1, <2>2
    <3> QED
      BY <2>2, <3>1, ModSmall
  <2> QED
    BY <2>1, <2>2
<1>4. Count(q) = IF kIsQueueFull(q) THEN n
                 ELSE IF q.iGetIndex <= q.iPutIndex THEN q.iPutIndex - q.iGetIndex ELSE x
  BY <1>1, <1>3 DEF Count
<1> QED
  BY <1>1, <1>4 DEF kIsQueueFull, kIsQueueEmpty, Distance

\* The place of the i-th datum.
Place(q, n, i) == IF q.iGetIndex + i - 1 < n THEN q.iGetIndex + i - 1
                  ELSE q.iGetIndex + i - 1 - n

LEMMA ContentsAre ==
    ASSUME NEW n \in Nat \ {0}, NEW S, NEW q \in QueueOf(n, S)
    PROVE  /\ Contents(q) \in Seq(S)
           /\ Len(Contents(q)) = Count(q)
           /\ \A i \in 1 .. Count(q) :
                /\ Place(q, n, i) \in 0 .. n - 1
                /\ Contents(q)[i] = q.pvQueueArray[Place(q, n, i)]
<1>1. q.iMaxDataCount = n /\ q.iGetIndex \in 0 .. n - 1 /\ q.pvQueueArray \in [0 .. n - 1 -> S]
  BY DEF QueueOf
<1>2. Count(q) \in 0 .. n
  BY CountIs
<1>3. ASSUME NEW i \in 1 .. Count(q)
      PROVE  /\ Place(q, n, i) \in 0 .. n - 1
             /\ (q.iGetIndex + i - 1) % q.iMaxDataCount = Place(q, n, i)
  <2> DEFINE x == q.iGetIndex + i - 1
  <2>1. x \in 0 .. n + n - 1
    BY <1>1, <1>2
  <2>2. CASE x < n
    <3>1. x \in 0 .. n - 1
      BY <2>1, <2>2
    <3> QED
      BY <1>1, <2>2, <3>1, ModSmall DEF Place
  <2>3. CASE ~(x < n)
    <3>1. x \in n .. n + n - 1 /\ x - n \in 0 .. n - 1
      BY <2>1, <2>3
    <3>2. x % n = x - n
      BY <3>1, ModWrapped
    <3>3. Place(q, n, i) = x - n
      BY <1>1, <1>2, <2>3 DEF Place
    <3> QED
      BY <1>1, <3>1, <3>2, <3>3
  <2> QED
    BY <2>2, <2>3
<1>4. Contents(q) = [i \in 1 .. Count(q) |-> q.pvQueueArray[Place(q, n, i)]]
  BY <1>3 DEF Contents
<1>5. \A i \in 1 .. Count(q) : q.pvQueueArray[Place(q, n, i)] \in S
  BY <1>1, <1>3
<1>6. Contents(q) \in Seq(S) /\ Len(Contents(q)) = Count(q)
  <2> DEFINE Datum(i) == q.pvQueueArray[Place(q, n, i)]
  <2>1. \A i \in 1 .. Count(q) : Datum(i) \in S
    BY <1>5
  <2>2. Contents(q) = [i \in 1 .. Count(q) |-> Datum(i)]
    BY <1>4
  <2> HIDE DEF Datum
  <2> QED
    BY <1>2, <2>1, <2>2
<1>7. \A i \in 1 .. Count(q) : Contents(q)[i] = q.pvQueueArray[Place(q, n, i)]
  BY <1>4, Zenon
<1> QED
  BY <1>3, <1>6, <1>7

\* An index moves one place, or back to the start.
LEMMA NextPlace ==
    ASSUME NEW n \in Nat \ {0}, NEW x \in 0 .. n - 1
    PROVE  /\ (x + 1) % n = IF x = n - 1 THEN 0 ELSE x + 1
           /\ (x + 1) % n \in 0 .. n - 1
<1>1. CASE x = n - 1
  <2>1. x + 1 \in n .. n + n - 1 /\ x + 1 - n = 0
    BY <1>1
  <2>2. (x + 1) % n = x + 1 - n
    BY <2>1, ModWrapped
  <2> QED
    BY <1>1, <2>1, <2>2
<1>2. CASE x # n - 1
  <2>1. x + 1 \in 0 .. n - 1
    BY <1>2
  <2>2. (x + 1) % n = x + 1
    BY <2>1, ModSmall
  <2> QED
    BY <1>2, <2>1, <2>2
<1> QED
  BY <1>1, <1>2

\* When the put index moves, equal indices mean a full queue, when the get index
\* does, an empty one.
LEMMA PutMoves ==
    ASSUME NEW n \in Nat \ {0}, NEW get \in 0 .. n - 1, NEW put \in 0 .. n - 1,
           NEW next, next = IF put = n - 1 THEN 0 ELSE put + 1
    PROVE  (IF get = next THEN n ELSE Distance(n, get, next)) = Distance(n, get, put) + 1
BY DEF Distance

LEMMA GetMoves ==
    ASSUME NEW n \in Nat \ {0}, NEW get \in 0 .. n - 1, NEW put \in 0 .. n - 1,
           NEW next, next = IF get = n - 1 THEN 0 ELSE get + 1
    PROVE  Distance(n, next, put) = (IF get = put THEN n ELSE Distance(n, get, put)) - 1
BY DEF Distance

\* kInitializeQueue makes an empty queue.
LEMMA InitialQueue ==
    ASSUME NEW n \in Nat \ {0}, NEW S, NEW unused \in S
    PROVE  /\ kInitializeQueue(n, unused) \in QueueOf(n, S)
           /\ Contents(kInitializeQueue(n, unused)) = <<>>
<1> DEFINE q == kInitializeQueue(n, unused)
<1>1. q \in QueueOf(n, S) /\ kIsQueueEmpty(q)
  BY DEF kInitializeQueue, QueueOf, kIsQueueEmpty
<1> HIDE DEF q
<1>2. Count(q) = 0
  BY <1>1, CountIs
<1>3. Contents(q) \in Seq(S) /\ Len(Contents(q)) = 0
  BY <1>1, <1>2, ContentsAre
<1>4. Contents(q) = <<>>
  BY <1>3
<1> QED
  BY <1>1, <1>4 DEF q

\* A full queue refuses data; else it is appended.
LEMMA PutAppends ==
    ASSUME NEW n \in Nat \ {0}, NEW S, NEW q \in QueueOf(n, S), NEW data \in S
    PROVE  /\ kPutQueue(q, data) \in QueueOf(n, S)
           /\ Contents(kPutQueue(q, data)) = IF Len(Contents(q)) < n
                                             THEN Append(Contents(q), data) ELSE Contents(q)
<1> DEFINE r == kPutQueue(q, data)
<1>0. /\ q.iMaxDataCount = n /\ q.iPutIndex \in 0 .. n - 1 /\ q.iGetIndex \in 0 .. n - 1
      /\ q.bLastOperationPut \in BOOLEAN /\ q.pvQueueArray \in [0 .. n - 1 -> S]
  BY DEF QueueOf
<1>1. Contents(q) \in Seq(S) /\ Len(Contents(q)) = Count(q) /\ Count(q) \in 0 .. n
  BY ContentsAre, CountIs
<1>2. CASE kIsQueueFull(q)
  <2>1. r = q /\ Count(q) = n
    BY <1>2, CountIs DEF kPutQueue
  <2> QED
    BY <1>1, <2>1
<1>3. CASE ~kIsQueueFull(q)
  <2>1. r = [q EXCEPT !.pvQueueArray[q.iPutIndex] = data,
                      !.iPutIndex = (q.iPutIndex + 1) % n,
                      !.bLastOperationPut = TRUE]
    BY <1>0, <1>3 DEF kPutQueue
  <2>2. (q.iPutIndex + 1) % n \in 0 .. n - 1
        /\ (q.iPutIndex + 1) % n = IF q.iPutIndex = n - 1 THEN 0 ELSE q.iPutIndex + 1
    BY <1>0, NextPlace
  <2> HIDE DEF r
  <2>3. /\ r.iMaxDataCount = n /\ r.iPutIndex = (q.iPutIndex + 1) % n
        /\ r.iGetIndex = q.iGetIndex /\ r.bLastOperationPut = TRUE
        /\ r.pvQueueArray = [q.pvQueueArray EXCEPT ![q.iPutIndex] = data]
    BY <2>1 DEF QueueOf
  <2>4. r \in QueueOf(n, S)
    BY <1>0, <2>1, <2>2 DEF QueueOf
  <2>5. Count(q) < n
    BY <1>1, <1>3, CountIs
  <2>6. Count(r) = Count(q) + 1
    <3>1. Count(q) = Distance(n, q.iGetIndex, q.iPutIndex)
      BY <1>3, CountIs
    <3>2. Count(r) = IF kIsQueueFull(r) THEN n ELSE Distance(n, r.iGetIndex, r.iPutIndex)
      BY <2>4, CountIs
    <3>3. kIsQueueFull(r) <=> q.iGetIndex = r.iPutIndex
      BY <2>3 DEF kIsQueueFull
    <3>4. r.iPutIndex = (IF q.iPutIndex = n - 1 THEN 0 ELSE q.iPutIndex + 1)
          /\ r.iGetIndex = q.iGetIndex
      BY <2>2, <2>3
    <3> QED
      BY <1>0, <3>1, <3>2, <3>3, <3>4, PutMoves
  <2>7. Contents(r) \in Seq(S) /\ Len(Contents(r)) = Count(r)
        /\ \A i \in 1 .. Count(r) : Contents(r)[i] = r.pvQueueArray[Place(r, n, i)]
    BY <2>4, ContentsAre
  <2>8. \A i \in 1 .. Count(q) :
          /\ Place(q, n, i) \in 0 .. n - 1
          /\ Contents(q)[i] = q.pvQueueArray[Place(q, n, i)]
    BY ContentsAre
  <2>9. \A i \in 1 .. Count(r) : Place(r, n, i) = Place(q, n, i)
    BY <2>3 DEF Place
  <2>10. Place(q, n, Count(r)) = q.iPutIndex
         /\ \A i \in 1 .. Count(q) : Place(q, n, i) # q.iPutIndex
    <3>1. Count(q) = Distance(n, q.iGetIndex, q.iPutIndex)
      BY <1>3, CountIs
    <3>2. q.iGetIndex \in 0 .. n - 1 /\ q.iPutIndex \in 0 .. n - 1 /\ Count(q) < n
      BY <1>0, <2>5
    <3>3. \A i \in 1 .. Count(q) : Place(q, n, i) # q.iPutIndex
      BY <3>1, <3>2, PlaceIsTaken DEF Place
    <3>4. Place(q, n, Count(q) + 1) = q.iPutIndex
      BY <3>1, <3>2, PlaceIsTaken DEF Place
    <3> QED
      BY <2>6, <3>3, <3>4
  <2>11. ASSUME NEW i \in 1 .. Count(q) PROVE Contents(r)[i] = Contents(q)[i]
    <3>1. i \in 1 .. Count(r)
      BY <1>1, <2>6
    <3>2. Contents(r)[i] = r.pvQueueArray[Place(q, n, i)]
      BY <2>7, <2>9, <3>1
    <3>3. r.pvQueueArray[Place(q, n, i)] = q.pvQueueArray[Place(q, n, i)]
      BY <1>0, <2>3, <2>8, <2>10
    <3> QED
      BY <2>8, <3>2, <3>3
  <2>12. Contents(r)[Count(r)] = data
    BY <1>0, <1>1, <2>3, <2>6, <2>7, <2>9, <2>10
  <2>13. Contents(r) = Append(Contents(q), data)
    BY <1>1, <2>6, <2>7, <2>11, <2>12
  <2> QED
    BY <1>1, <2>4, <2>5, <2>13 DEF r
<1> QED
  BY <1>2, <1>3

\* What kGetQueue returns is the first datum, and the others stay in order.
LEMMA GetTakesFirst ==
    ASSUME NEW n \in Nat \ {0}, NEW S, NEW q \in QueueOf(n, S), ~kIsQueueEmpty(q)
    PROVE  /\ kGetQueue(q) \in QueueOf(n, S)
           /\ Contents(q) # <<>> /\ Oldest(q) = Head(Contents(q))
           /\ Contents(kGetQueue(q)) = Tail(Contents(q))
<1> DEFINE r == kGetQueue(q)
<1>0. /\ q.iMaxDataCount = n /\ q.iPutIndex \in 0 .. n - 1 /\ q.iGetIndex \in 0 .. n - 1
      /\ q.bLastOperationPut \in BOOLEAN /\ q.pvQueueArray \in [0 .. n - 1 -> S]
  BY DEF QueueOf
<1>1. Contents(q) \in Seq(S) /\ Len(Contents(q)) = Count(q) /\ Count(q) \in 1 .. n
  BY ContentsAre, CountIs
<1>2. r = [q EXCEPT !.iGetIndex = (q.iGetIndex + 1) % n, !.bLastOperationPut = FALSE]
  BY <1>0 DEF kGetQueue
<1>3. (q.iGetIndex + 1) % n \in 0 .. n - 1
      /\ (q.iGetIndex + 1) % n = IF q.iGetIndex = n - 1 THEN 0 ELSE q.iGetIndex + 1
  BY <1>0, NextPlace
<1> HIDE DEF r
<1>4. /\ r.iMaxDataCount = n /\ r.iGetIndex = (q.iGetIndex + 1) % n
      /\ r.iPutIndex = q.iPutIndex /\ r.bLastOperationPut = FALSE
      /\ r.pvQueueArray = q.pvQueueArray
  BY <1>2 DEF QueueOf
<1>5. r \in QueueOf(n, S)
  BY <1>0, <1>2, <1>3 DEF QueueOf
<1>6. Count(r) = Count(q) - 1
  <2>1. Count(q) = IF kIsQueueFull(q) THEN n ELSE Distance(n, q.iGetIndex, q.iPutIndex)
    BY CountIs
  <2>2. Count(r) = IF kIsQueueFull(r) THEN n ELSE Distance(n, r.iGetIndex, r.iPutIndex)
    BY <1>5, CountIs
  <2>3. ~kIsQueueFull(r) /\ (kIsQueueFull(q) <=> q.iGetIndex = q.iPutIndex)
    BY <1>0, <1>4 DEF kIsQueueFull, kIsQueueEmpty
  <2>4. r.iGetIndex = (IF q.iGetIndex = n - 1 THEN 0 ELSE q.iGetIndex + 1)
        /\ r.iPutIndex = q.iPutIndex
    BY <1>3, <1>4
  <2> QED
    BY <1>0, <2>1, <2>2, <2>3, <2>4, GetMoves
<1>7. Contents(r) \in Seq(S) /\ Len(Contents(r)) = Count(r)
      /\ \A i \in 1 .. Count(r) : Contents(r)[i] = r.pvQueueArray[Place(r, n, i)]
  BY <1>5, ContentsAre
<1>8. \A i \in 1 .. Count(q) : Contents(q)[i] = q.pvQueueArray[Place(q, n, i)]
  BY ContentsAre
<1>9. \A i \in 1 .. Count(r) : Place(r, n, i) = Place(q, n, i + 1)
  <2> SUFFICES ASSUME NEW i \in 1 .. Count(r) PROVE Place(r, n, i) = Place(q, n, i + 1)
    OBVIOUS
  <2>1. i \in 1 .. n - 1
    BY <1>1, <1>6
  <2>2. CASE q.iGetIndex = n - 1
    <3>1. r.iGetIndex = 0
      BY <1>3, <1>4, <2>2
    <3> QED
      BY <2>1, <2>2, <3>1 DEF Place
  <2>3. CASE q.iGetIndex # n - 1
    <3>1. r.iGetIndex = q.iGetIndex + 1
      BY <1>3, <1>4, <2>3
    <3> QED
      BY <1>0, <2>1, <3>1 DEF Place
  <2> QED
    BY <2>2, <2>3
<1>10. ASSUME NEW i \in 1 .. Count(r) PROVE Contents(r)[i] = Contents(q)[i + 1]
  BY <1>1, <1>4, <1>6, <1>7, <1>8, <1>9, SMTT(30)
<1>11. Contents(q) # <<>> /\ Contents(r) = Tail(Contents(q))
  BY <1>1, <1>6, <1>7, <1>10
<1>12. Oldest(q) = Head(Contents(q))
  <2>1. Place(q, n, 1) = q.iGetIndex
    BY <1>0 DEF Place
  <2>2. Contents(q)[1] = q.pvQueueArray[q.iGetIndex]
    BY <1>1, <1>8, <2>1
  <2> QED
    BY <1>1, <1>11, <2>2 DEF Oldest
<1> QED
  BY <1>5, <1>11, <1>12 DEF r

(***************************************************************************)
(* The inductive invariant: the types, with the key queue as an array.     *)
(***************************************************************************)
DriverInv ==
    /\ gs_stKeyboardManager \in KEYBOARDMANAGER
    /\ gs_stKeyQueue \in QueueOf(KEY_MAXQUEUECOUNT, KeyData)
    /\ stack \in [Core -> Seq(Frame)]
    /\ boot \in {"activate", "leds", "on", "failed"}
    /\ produced \in Seq(KeyData)
InterruptInv ==
    /\ routed \in Core /\ irr \in [Core -> BOOLEAN] /\ count \in [Core -> Nat]
DeviceInv ==
    /\ typed \in Script /\ sent \in 0 .. Len(typed)
    /\ replies \in Seq({ACK, RESEND}) /\ option \in BOOLEAN /\ leds \in LED
    /\ port \in Byte /\ outputFull \in BOOLEAN
GhostInv == nested \in BOOLEAN /\ overlap \in BOOLEAN /\ missed \in BOOLEAN

IInv == DriverInv /\ InterruptInv /\ DeviceInv /\ GhostInv

(***************************************************************************)
(* Keys and calls                                                          *)
(***************************************************************************)
LEMMA BytesAreNumbers == 0 \in Byte /\ ACK \in Byte /\ RESEND \in Byte /\ Byte \subseteq Nat
BY ByteAssumption DEF ACK, RESEND

LEMMA NoKeyIsKey == NoKey \in KeyData /\ LEDsOff \in LED
BY BytesAreNumbers DEF NoKey, KeyData, LEDsOff, LED

\* The column of a key's character is one of the two.
LEMMA CombinedIsBoolean ==
    ASSUME NEW m \in KEYBOARDMANAGER, NEW code
    PROVE  kIsUseCombinedCode(m, code) \subseteq BOOLEAN
BY DEF kIsUseCombinedCode, KEYBOARDMANAGER

\* The combination keys keep their ranges.
LEMMA UpdateKeepsManager ==
    ASSUME NEW m \in KEYBOARDMANAGER, NEW code
    PROVE  UpdateCombinationKeyStatus(m, code) \in KEYBOARDMANAGER
<1>1. [m EXCEPT !.bShiftDown = ~Up(code)] \in KEYBOARDMANAGER
  BY DEF KEYBOARDMANAGER, Up
<1>2. [m EXCEPT !.bCapsLockOn = ~@] \in KEYBOARDMANAGER
  BY DEF KEYBOARDMANAGER
<1>3. [m EXCEPT !.bNumLockOn = ~@] \in KEYBOARDMANAGER
  BY DEF KEYBOARDMANAGER
<1>4. [m EXCEPT !.bScrollLockOn = ~@] \in KEYBOARDMANAGER
  BY DEF KEYBOARDMANAGER
<1> QED
  BY <1>1, <1>2, <1>3, <1>4 DEF UpdateCombinationKeyStatus

\* What a conversion leaves and makes.
Conversion == [manager : KEYBOARDMANAGER, keys : Seq(KeyData), led : BOOLEAN]

LEMMA ConversionType ==
    ASSUME NEW m \in KEYBOARDMANAGER, NEW code \in Byte
    PROVE  kConvertScanCodeToASCIICode(m, code) \subseteq Conversion
<1> SUFFICES ASSUME NEW r \in kConvertScanCodeToASCIICode(m, code) PROVE r \in Conversion
  OBVIOUS
<1>0. ASSUME NEW n \in KEYBOARDMANAGER PROVE Nothing(n) \in Conversion
  BY DEF Nothing, Conversion
<1>1. CASE m.iSkipCountForPause > 0
  <2>1. [m EXCEPT !.iSkipCountForPause = @ - 1] \in KEYBOARDMANAGER
    BY <1>1 DEF KEYBOARDMANAGER
  <2> QED
    BY <1>0, <1>1, <2>1 DEF kConvertScanCodeToASCIICode
<1>2. CASE ~(m.iSkipCountForPause > 0) /\ code = 225
  <2>1. [m EXCEPT !.iSkipCountForPause = 2] \in KEYBOARDMANAGER
    BY DEF KEYBOARDMANAGER
  <2>2. PauseKey \in KeyData
    BY <1>2 DEF PauseKey, NoKey, KeyData
  <2>3. <<PauseKey>> \in Seq(KeyData)
    BY <2>2
  <2>4. r = [manager |-> [m EXCEPT !.iSkipCountForPause = 2], keys |-> <<PauseKey>>,
             led |-> FALSE]
    BY <1>2 DEF kConvertScanCodeToASCIICode
  <2> QED
    BY <2>1, <2>3, <2>4 DEF Conversion
<1>3. CASE ~(m.iSkipCountForPause > 0) /\ code = 224
  <2>1. [m EXCEPT !.bExtendedCodeIn = TRUE] \in KEYBOARDMANAGER
    BY DEF KEYBOARDMANAGER
  <2> QED
    BY <1>0, <1>3, <2>1 DEF kConvertScanCodeToASCIICode
<1>4. CASE ~(m.iSkipCountForPause > 0) /\ code # 225 /\ code # 224
  <2>1. PICK combined \in kIsUseCombinedCode(m, Code(code)) :
          r = [manager |-> UpdateCombinationKeyStatus([m EXCEPT !.bExtendedCodeIn = FALSE],
                                                      code),
               keys |-> <<[scan |-> code, combined |-> combined,
                           extended |-> m.bExtendedCodeIn, down |-> ~Up(code)]>>,
               led |-> LockKey(code)]
    BY <1>4 DEF kConvertScanCodeToASCIICode
  <2>2. [m EXCEPT !.bExtendedCodeIn = FALSE] \in KEYBOARDMANAGER
    BY DEF KEYBOARDMANAGER
  <2>3. UpdateCombinationKeyStatus([m EXCEPT !.bExtendedCodeIn = FALSE], code)
          \in KEYBOARDMANAGER
    BY <2>2, UpdateKeepsManager
  <2>4. combined \in BOOLEAN
    BY CombinedIsBoolean
  <2>5. [scan |-> code, combined |-> combined, extended |-> m.bExtendedCodeIn,
         down |-> ~Up(code)] \in KeyData
    BY <2>4 DEF KeyData, KEYBOARDMANAGER, Up
  <2>6. LockKey(code) \in BOOLEAN
    BY DEF LockKey
  <2>7. <<[scan |-> code, combined |-> combined, extended |-> m.bExtendedCodeIn,
           down |-> ~Up(code)]>> \in Seq(KeyData)
    BY <2>5
  <2> QED
    BY <2>1, <2>3, <2>6, <2>7 DEF Conversion
<1> QED
  BY <1>1, <1>2, <1>3, <1>4

LEMMA CallType ==
    ASSUME NEW label \in PC PROVE Call(label) \in Frame
BY NoKeyIsKey, CountAssumption DEF Call, Frame

\* The calls that follow a conversion.
LEMMA ConvertType ==
    ASSUME NEW r \in Conversion PROVE Convert(r) \in Seq(Frame)
<1> DEFINE first == IF r.led THEN <<kChangeKeyboardLED(Locks(r.manager))>> ELSE <<>>
           rest == [i \in DOMAIN r.keys |-> PutKey(r.keys[i])]
<1>1. Call("command") \in Frame /\ Call("put") \in Frame
  BY CallType DEF PC
<1>2. r.manager \in KEYBOARDMANAGER /\ r.keys \in Seq(KeyData)
  BY DEF Conversion
<1>3. Locks(r.manager) \in LED
  BY <1>2 DEF Locks, LED, KEYBOARDMANAGER
<1>4. kChangeKeyboardLED(Locks(r.manager)) \in Frame
  BY <1>1, <1>3 DEF kChangeKeyboardLED, Frame
<1>5. first \in Seq(Frame)
  BY <1>4
<1>6. \A k \in KeyData : PutKey(k) \in Frame
  BY <1>1 DEF PutKey, Frame
<1>7. rest \in Seq(Frame)
  BY <1>2, <1>6
<1> QED
  BY <1>5, <1>7 DEF Convert

\* The innermost call is replaced.
LEMMA ReplaceType ==
    ASSUME stack \in [Core -> Seq(Frame)], NEW c \in Core, stack[c] # <<>>,
           NEW frames \in Seq(Frame), Replace(c, frames)
    PROVE  stack' \in [Core -> Seq(Frame)]
<1>1. Tail(stack[c]) \in Seq(Frame)
  OBVIOUS
<1>2. frames \o Tail(stack[c]) \in Seq(Frame)
  BY <1>1
<1> QED
  BY <1>2 DEF Replace

LEMMA HeadType ==
    ASSUME stack \in [Core -> Seq(Frame)], NEW c \in Core, stack[c] # <<>>
    PROVE  Head(stack[c]) \in Frame
OBVIOUS

LEMMA GotoType ==
    ASSUME stack \in [Core -> Seq(Frame)], NEW c \in Core, stack[c] # <<>>,
           NEW label \in PC, Goto(c, label)
    PROVE  stack' \in [Core -> Seq(Frame)]
<1>1. [Head(stack[c]) EXCEPT !.pc = label] \in Frame
  BY HeadType DEF Frame
<1>2. <<[Head(stack[c]) EXCEPT !.pc = label]>> \in Seq(Frame)
  BY <1>1
<1> QED
  BY <1>2, ReplaceType DEF Goto

(***************************************************************************)
(* The steps                                                               *)
(***************************************************************************)
LEMMA InitEstablishes == Init => IInv
<1> SUFFICES ASSUME Init PROVE IInv
  OBVIOUS
<1>1. gs_stKeyQueue \in QueueOf(KEY_MAXQUEUECOUNT, KeyData)
  BY InitialQueue, NoKeyIsKey, CountAssumption DEF Init
<1>2. Call("ackActivate") \in Frame
  BY CallType DEF PC, Waiting
<1>3. stack \in [Core -> Seq(Frame)]
  BY <1>2 DEF Init
<1>4. DriverInv
  BY <1>1, <1>3 DEF Init, DriverInv, KEYBOARDMANAGER, NothingHeld
<1>5. InterruptInv
  BY BootCore DEF Init, InterruptInv
<1>6. DeviceInv
  <2>1. typed \in Seq(Byte)
    BY ScriptAssumption DEF Init
  <2>2. sent \in 0 .. Len(typed)
    BY <2>1 DEF Init
  <2>3. replies \in Seq({ACK, RESEND})
    BY DEF Init
  <2> QED
    BY <2>2, <2>3, BytesAreNumbers, NoKeyIsKey DEF Init, DeviceInv
<1> QED
  BY <1>4, <1>5, <1>6 DEF Init, IInv, GhostInv

\* The keyboard sends a byte.
LEMMA EmitKeeps ==
    ASSUME IInv, NEW b \in Byte, Emit(b)
    PROVE  /\ DriverInv' /\ InterruptInv' /\ GhostInv' /\ typed' = typed
           /\ option' \in BOOLEAN /\ leds' \in LED
           /\ port' \in Byte /\ outputFull' \in BOOLEAN
BY DEF Emit, IInv, DriverInv, InterruptInv, DeviceInv, GhostInv, driver, ghosts

LEMMA TypeStep == ASSUME IInv, Type PROVE IInv'
<1>1. typed \in Seq(Byte) /\ sent \in 0 .. Len(typed) /\ sent < Len(typed)
  BY ScriptAssumption DEF IInv, DeviceInv, Type
<1>2. sent + 1 \in 1 .. Len(typed) /\ typed[sent + 1] \in Byte
  BY <1>1
<1>3. Emit(typed[sent + 1]) /\ sent' = sent + 1 /\ replies' = replies
  BY DEF Type
<1> QED
  BY <1>1, <1>2, <1>3, EmitKeeps DEF IInv, DeviceInv

LEMMA AnswerStep == ASSUME IInv, Answer PROVE IInv'
<1>1. replies \in Seq({ACK, RESEND}) /\ replies # <<>>
  BY DEF IInv, DeviceInv, Answer
<1>2. Head(replies) \in Byte /\ Tail(replies) \in Seq({ACK, RESEND})
  BY <1>1, BytesAreNumbers
<1>3. Emit(Head(replies)) /\ replies' = Tail(replies) /\ sent' = sent
  BY DEF Answer
<1> QED
  BY <1>2, <1>3, EmitKeeps DEF IInv, DeviceInv

LEMMA EnableInterruptStep == ASSUME IInv, EnableInterrupt PROVE IInv'
BY DEF EnableInterrupt, IInv, DriverInv, InterruptInv, DeviceInv, GhostInv, driver,
       interrupts, device

LEMMA KeyTakenStep == ASSUME IInv, kGetCh PROVE IInv'
<1>1. kGetQueue(gs_stKeyQueue) \in QueueOf(KEY_MAXQUEUECOUNT, KeyData)
  BY GetTakesFirst, CountAssumption DEF IInv, DriverInv, kGetCh
<1> QED
  BY <1>1 DEF kGetCh, IInv, DriverInv, InterruptInv, DeviceInv, GhostInv, interrupts,
              device, ghosts

LEMMA SendCommandStep == ASSUME IInv, NEW c \in Core, SendCommand(c) PROVE IInv'
<1>1. stack' \in [Core -> Seq(Frame)]
  BY GotoType DEF SendCommand, At, IInv, DriverInv, PC, Waiting
<1>2. replies' \in Seq({ACK, RESEND}) /\ option' \in BOOLEAN /\ leds' = leds
  BY DEF SendCommand, TakeCommand, IInv, DeviceInv
<1> QED
  BY <1>1, <1>2 DEF SendCommand, IInv, DriverInv, InterruptInv, DeviceInv, GhostInv,
                    driver, interrupts, ghosts

\* What a turn of the wait does to the port.
LEMMA TurnKeeps ==
    ASSUME IInv, NEW c \in Core, Turn(c)
    PROVE  /\ stack[c] # <<>> /\ Head(stack[c]) \in Frame
           /\ Head(stack[c]).j \in 0 .. MaxBytes /\ Head(stack[c]).j < MaxBytes
           /\ typed' = typed /\ sent' = sent /\ port' = port /\ outputFull' \in BOOLEAN
<1>1. stack[c] # <<>> /\ Head(stack[c]) \in Frame
  BY HeadType DEF Turn, IInv, DriverInv
<1> QED
  BY <1>1 DEF Turn, ReadPort, Frame

LEMMA WaitForACKStep == ASSUME IInv, NEW c \in Core, WaitForACK(c) PROVE IInv'
<1> DEFINE call == Head(stack[c])
<1>1. Turn(c) /\ UNCHANGED <<driver, interrupts, ghosts>>
  BY DEF WaitForACK
<1>2. /\ stack[c] # <<>> /\ call \in Frame
      /\ typed' = typed /\ sent' = sent /\ port' = port /\ outputFull' \in BOOLEAN
  BY <1>1, TurnKeeps
<1>3. stack \in [Core -> Seq(Frame)] /\ replies \in Seq({ACK, RESEND})
      /\ option \in BOOLEAN /\ leds \in LED
  BY DEF IInv, DriverInv, DeviceInv
<1>4. /\ stack' \in [Core -> Seq(Frame)] /\ boot' \in {"activate", "leds", "on", "failed"}
      /\ replies' \in Seq({ACK, RESEND}) /\ option' \in BOOLEAN /\ leds' \in LED
  <2>1. CASE call.pc = "ackCommand"
    <3>1. TakeLEDs(call.leds) /\ boot' = boot
          /\ Replace(c, <<[call EXCEPT !.pc = "ackData", !.j = 0]>>)
      BY <2>1 DEF WaitForACK
    <3>2. [call EXCEPT !.pc = "ackData", !.j = 0] \in Frame /\ call.leds \in LED
      <4>1. 0 \in 0 .. MaxBytes /\ "ackData" \in PC
        BY CountAssumption DEF PC, Waiting
      <4> QED
        BY <1>2, <4>1 DEF Frame
    <3>3. <<[call EXCEPT !.pc = "ackData", !.j = 0]>> \in Seq(Frame)
      BY <3>2
    <3>4. stack' \in [Core -> Seq(Frame)]
      BY <1>2, <1>3, <3>1, <3>3, ReplaceType
    <3>5. replies' \in Seq({ACK, RESEND}) /\ option' \in BOOLEAN /\ leds' \in LED
      <4>1. replies' = Append(replies, IF option THEN ACK ELSE RESEND)
            /\ leds' = (IF option THEN call.leds ELSE leds) /\ option' = FALSE
        BY <3>1 DEF TakeLEDs
      <4>2. (IF option THEN ACK ELSE RESEND) \in {ACK, RESEND}
        OBVIOUS
      <4>3. replies' \in Seq({ACK, RESEND})
        BY <1>3, <4>1, <4>2
      <4> QED
        BY <1>3, <3>2, <4>1, <4>3
    <3> QED
      BY <3>1, <3>4, <3>5 DEF IInv, DriverInv
  <2>2. CASE call.pc = "ackData"
    <3>1. Replace(c, <<>>) /\ UNCHANGED <<boot, replies, option, leds>>
      BY <2>2 DEF WaitForACK
    <3>2. <<>> \in Seq(Frame)
      OBVIOUS
    <3>3. stack' \in [Core -> Seq(Frame)]
      BY <1>2, <1>3, <3>1, <3>2, ReplaceType
    <3> QED
      BY <1>3, <3>1, <3>3 DEF IInv, DriverInv
  <2>3. CASE call.pc = "ackActivate"
    <3>1. boot' = "leds" /\ Replace(c, <<kChangeKeyboardLED(LEDsOff)>>)
          /\ UNCHANGED <<replies, option, leds>>
      BY <2>3 DEF WaitForACK
    <3>2. kChangeKeyboardLED(LEDsOff) \in Frame
      BY CallType, NoKeyIsKey DEF kChangeKeyboardLED, Frame, PC
    <3>3. <<kChangeKeyboardLED(LEDsOff)>> \in Seq(Frame)
      BY <3>2
    <3>4. stack' \in [Core -> Seq(Frame)]
      BY <1>2, <1>3, <3>1, <3>3, ReplaceType
    <3> QED
      BY <1>3, <3>1, <3>4
  <2> QED
    BY <1>1, <2>1, <2>2, <2>3 DEF Turn, Waiting
<1> QED
  BY <1>1, <1>2, <1>4 DEF IInv, DriverInv, InterruptInv, DeviceInv, GhostInv, driver,
                          interrupts, ghosts

LEMMA PutOtherScanCodeStep == ASSUME IInv, NEW c \in Core, PutOtherScanCode(c) PROVE IInv'
<1> DEFINE call == [Head(stack[c]) EXCEPT !.j = @ + 1]
<1>1. /\ stack[c] # <<>> /\ Head(stack[c]) \in Frame
      /\ Head(stack[c]).j \in 0 .. MaxBytes /\ Head(stack[c]).j < MaxBytes
      /\ typed' = typed /\ sent' = sent /\ port' = port /\ outputFull' \in BOOLEAN
  BY TurnKeeps DEF PutOtherScanCode
<1>2. PICK r \in kConvertScanCodeToASCIICode(gs_stKeyboardManager, port) :
        /\ gs_stKeyboardManager' = r.manager
        /\ Replace(c, Convert(r) \o <<call>>)
        /\ nested' = (nested \/ r.led)
  BY DEF PutOtherScanCode
<1>3. r \in Conversion
  BY <1>2, ConversionType DEF IInv, DriverInv, DeviceInv
<1>4. call \in Frame
  <2>1. Head(stack[c]).j + 1 \in 0 .. MaxBytes
    BY <1>1, CountAssumption
  <2> QED
    BY <1>1, <2>1 DEF Frame
<1>5. <<call>> \in Seq(Frame) /\ Convert(r) \in Seq(Frame)
  BY <1>3, <1>4, ConvertType
<1>6. Convert(r) \o <<call>> \in Seq(Frame)
  BY <1>5
<1>7. stack' \in [Core -> Seq(Frame)]
  BY <1>1, <1>2, <1>6, ReplaceType DEF IInv, DriverInv
<1>8. gs_stKeyboardManager' \in KEYBOARDMANAGER /\ nested' \in BOOLEAN
  BY <1>2, <1>3 DEF Conversion, IInv, GhostInv
<1>9. UNCHANGED <<gs_stKeyQueue, boot, interrupts, replies, option, leds,
                  produced, overlap, missed>>
  BY DEF PutOtherScanCode
<1> QED
  BY <1>1, <1>7, <1>8, <1>9 DEF IInv, DriverInv, InterruptInv, DeviceInv, GhostInv,
                                interrupts

LEMMA GiveUpStep == ASSUME IInv, NEW c \in Core, GiveUp(c) PROVE IInv'
<1>1. <<>> \in Seq(Frame)
  OBVIOUS
<1>2. stack' \in [Core -> Seq(Frame)]
  BY <1>1, ReplaceType DEF GiveUp, IInv, DriverInv
<1> QED
  BY <1>2 DEF GiveUp, IInv, DriverInv, InterruptInv, DeviceInv, GhostInv, driver,
              interrupts, device, ghosts

LEMMA PutStep == ASSUME IInv, NEW c \in Core, Put(c) PROVE IInv'
<1>1. stack[c] # <<>> /\ Head(stack[c]) \in Frame
  BY HeadType DEF Put, At, IInv, DriverInv
<1>2. Head(stack[c]).key \in KeyData
  BY <1>1 DEF Frame
<1>3. kPutQueue(gs_stKeyQueue, Head(stack[c]).key) \in QueueOf(KEY_MAXQUEUECOUNT, KeyData)
  BY <1>2, PutAppends, CountAssumption DEF IInv, DriverInv
<1>4. <<>> \in Seq(Frame)
  OBVIOUS
<1>5. stack' \in [Core -> Seq(Frame)]
  BY <1>1, <1>4, ReplaceType DEF Put, IInv, DriverInv
<1>6. produced' \in Seq(KeyData)
  BY <1>2 DEF Put, IInv, DriverInv
<1> QED
  BY <1>3, <1>5, <1>6 DEF Put, IInv, DriverInv, InterruptInv, DeviceInv, GhostInv,
                          interrupts, device

LEMMA HandlerStep == ASSUME IInv, NEW c \in Core, kKeyboardHandler(c) PROVE IInv'
<1>1. <<Call("status")>> \in Seq(Frame)
  <2>1. Call("status") \in Frame
    BY CallType DEF PC
  <2> QED
    BY <2>1
<1>2. stack' \in [Core -> Seq(Frame)]
  BY <1>1 DEF kKeyboardHandler, IInv, DriverInv
<1>3. overlap' \in BOOLEAN
  BY DEF kKeyboardHandler, IInv, GhostInv
<1> QED
  BY <1>2, <1>3 DEF kKeyboardHandler, IInv, DriverInv, InterruptInv, DeviceInv, GhostInv,
                    driver, device

LEMMA OutputBufferStep == ASSUME IInv, NEW c \in Core, kIsOutputBufferFull(c) PROVE IInv'
<1>1. stack' \in [Core -> Seq(Frame)]
  BY GotoType DEF kIsOutputBufferFull, At, IInv, DriverInv, PC
<1> QED
  BY <1>1 DEF kIsOutputBufferFull, IInv, DriverInv, InterruptInv, DeviceInv, GhostInv,
              driver, interrupts, device, ghosts

LEMMA ScanCodeStep == ASSUME IInv, NEW c \in Core, kGetKeyboardScanCode(c) PROVE IInv'
<1>1. stack[c] # <<>>
  BY DEF kGetKeyboardScanCode, At
<1>2. PICK r \in kConvertScanCodeToASCIICode(gs_stKeyboardManager, port) :
        /\ gs_stKeyboardManager' = r.manager
        /\ Replace(c, Convert(r) \o <<Call("end")>>)
  BY DEF kGetKeyboardScanCode
<1>3. r \in Conversion
  BY <1>2, ConversionType DEF IInv, DriverInv, DeviceInv
<1>4. Call("end") \in Frame
  BY CallType DEF PC
<1>5. <<Call("end")>> \in Seq(Frame) /\ Convert(r) \in Seq(Frame)
  BY <1>3, <1>4, ConvertType
<1>6. Convert(r) \o <<Call("end")>> \in Seq(Frame)
  BY <1>5
<1>7. stack' \in [Core -> Seq(Frame)]
  BY <1>1, <1>2, <1>6, ReplaceType DEF IInv, DriverInv
<1>8. gs_stKeyboardManager' \in KEYBOARDMANAGER
  BY <1>2, <1>3 DEF Conversion
<1>9. /\ UNCHANGED <<gs_stKeyQueue, boot, interrupts, replies, option, leds, ghosts>>
      /\ outputFull' = FALSE /\ UNCHANGED <<typed, sent, port>>
  BY DEF kGetKeyboardScanCode, ReadPort
<1> QED
  BY <1>7, <1>8, <1>9 DEF IInv, DriverInv, InterruptInv, DeviceInv, GhostInv,
                          interrupts, ghosts

\* A set of numbers that is not empty has a smallest one.
LEMMA SmallestExists ==
    ASSUME NEW T, T \subseteq Nat, T # {}
    PROVE  \E x \in T : \A y \in T : x <= y
<1> DEFINE Less == OpToRel(<, Nat)
<1>1. \A x, y \in Nat : y < x => <<y, x>> \in Less
  BY DEF OpToRel
<1>2. IsWellFoundedOn(Less, Nat)
  BY NatLessThanWellFounded
<1> HIDE DEF Less
<1>3. PICK x \in T : \A y \in T : ~(<<y, x>> \in Less)
  BY <1>2, WFMin, Zenon
<1>4. \A y \in T : ~(y < x)
  BY <1>1, <1>3
<1> QED
  BY <1>4

\* There is a core with the fewest interrupts, and a first one of those.
LEMMA FewestExist ==
    ASSUME NEW n \in [Core -> Nat]
    PROVE  /\ Fewest(n) \subseteq Core
           /\ \E d \in Fewest(n) : \A e \in Fewest(n) : d <= e
<1> DEFINE N == {n[c] : c \in Core}
<1>1. N \subseteq Nat /\ N # {}
  BY BootCore
<1>2. PICK k \in N : \A m \in N : k <= m
  BY <1>1, SmallestExists
<1>3. PICK c \in Core : n[c] = k
  BY <1>2
<1>4. \A d \in Core : n[c] <= n[d]
  BY <1>2, <1>3
<1>5. Fewest(n) \subseteq Core
  BY DEF Fewest
<1>6. c \in Fewest(n)
  BY <1>4 DEF Fewest
<1>7. Fewest(n) \subseteq Nat
  BY <1>5, BootCore
<1> QED
  BY <1>5, <1>6, <1>7, SmallestExists

LEMMA BalancingType ==
    ASSUME routed \in Core, NEW n \in [Core -> Nat], NEW c \in Core,
           kProcessLoadBalancing(c, n)
    PROVE  routed' \in Core
<1>1. (CHOOSE d \in Fewest(n) : \A e \in Fewest(n) : d <= e) \in Core
  BY FewestExist
<1> QED
  BY <1>1 DEF kProcessLoadBalancing

LEMMA EndOfHandlerStep == ASSUME IInv, NEW c \in Core, EndOfHandler(c) PROVE IInv'
<1>1. <<>> \in Seq(Frame)
  OBVIOUS
<1>2. stack' \in [Core -> Seq(Frame)]
  BY <1>1, ReplaceType DEF EndOfHandler, At, IInv, DriverInv
<1>3. count' \in [Core -> Nat]
  BY DEF EndOfHandler, IInv, InterruptInv
<1>4. routed' \in Core
  BY <1>3, BalancingType DEF EndOfHandler, IInv, InterruptInv
<1> QED
  BY <1>2, <1>3, <1>4 DEF EndOfHandler, IInv, DriverInv, InterruptInv, DeviceInv,
                          GhostInv, driver, device, ghosts

LEMMA StepPreserves == IInv /\ [Next]_vars => IInv'
<1> SUFFICES ASSUME IInv, [Next]_vars PROVE IInv'
  OBVIOUS
<1>1. ASSUME NEW c \in Core, Driver(c) PROVE IInv'
  BY <1>1, SendCommandStep, WaitForACKStep, PutOtherScanCodeStep, GiveUpStep, PutStep,
     HandlerStep, OutputBufferStep, ScanCodeStep, EndOfHandlerStep DEF Driver
<1>2. CASE UNCHANGED vars
  BY <1>2 DEF vars, IInv, DriverInv, InterruptInv, DeviceInv, GhostInv, driver,
              interrupts, device, ghosts
<1> QED
  BY <1>1, <1>2, TypeStep, AnswerStep, EnableInterruptStep, KeyTakenStep DEF Next

LEMMA IInvHolds == Spec => []IInv
BY InitEstablishes, StepPreserves, PTL DEF Spec

(***************************************************************************)
(* Theorems                                                                *)
(***************************************************************************)
\* Every field of the driver keeps its range, and the key queue holds keys only.
THEOREM TypeCorrect == Spec => []TypeOK
<1>1. IInv => TypeOK
  <2> SUFFICES ASSUME IInv PROVE TypeOK
    OBVIOUS
  <2>1. \A i \in 1 .. Count(gs_stKeyQueue) : Contents(gs_stKeyQueue)[i] \in KeyData
    <3>1. Contents(gs_stKeyQueue) \in Seq(KeyData)
          /\ Len(Contents(gs_stKeyQueue)) = Count(gs_stKeyQueue)
      BY ContentsAre, CountAssumption DEF IInv, DriverInv
    <3> QED
      BY <3>1
  <2> QED
    BY <2>1 DEF TypeOK, IInv, DriverInv, InterruptInv, DeviceInv, GhostInv
<1> QED
  BY <1>1, IInvHolds, PTL

\* A step is one of the abstract queue, or changes neither it nor what was offered.
LEMMA AbstractStep ==
    ASSUME IInv, [Next]_vars PROVE [FIFO!Next]_(FIFO!vars)
<1>0. gs_stKeyQueue \in QueueOf(KEY_MAXQUEUECOUNT, KeyData)
      /\ KEY_MAXQUEUECOUNT \in Nat \ {0}
  BY CountAssumption DEF IInv, DriverInv
<1>1. ASSUME NEW c \in Core, Put(c) PROVE FIFO!Next
  <2> DEFINE key == Head(stack[c]).key
  <2>1. key \in KeyData
    BY <1>1, HeadType DEF Put, At, IInv, DriverInv, Frame
  <2>2. gs_stKeyQueue' = kPutQueue(gs_stKeyQueue, key) /\ produced' = Append(produced, key)
    BY <1>1 DEF Put
  <2> HIDE DEF key
  <2>3. Contents(gs_stKeyQueue)' = IF Len(Contents(gs_stKeyQueue)) < KEY_MAXQUEUECOUNT
                                   THEN Append(Contents(gs_stKeyQueue), key)
                                   ELSE Contents(gs_stKeyQueue)
    BY <1>0, <2>1, <2>2, PutAppends
  <2> QED
    BY <2>1, <2>2, <2>3 DEF FIFO!Next, FIFO!Put
<1>2. CASE kGetCh
  <2>1. /\ ~kIsQueueEmpty(gs_stKeyQueue) /\ gs_stKeyQueue' = kGetQueue(gs_stKeyQueue)
        /\ produced' = produced
    BY <1>2 DEF kGetCh, ghosts
  <2>2. Contents(gs_stKeyQueue) # <<>>
        /\ Contents(gs_stKeyQueue)' = Tail(Contents(gs_stKeyQueue))
    BY <1>0, <2>1, GetTakesFirst
  <2> QED
    BY <2>1, <2>2 DEF FIFO!Next, FIFO!Get
<1>3. ASSUME UNCHANGED <<gs_stKeyQueue, produced>> PROVE UNCHANGED FIFO!vars
  BY <1>3 DEF FIFO!vars
<1>4. ASSUME NEW c \in Core, Driver(c), ~Put(c) PROVE UNCHANGED <<gs_stKeyQueue, produced>>
  BY <1>4 DEF Driver, SendCommand, WaitForACK, PutOtherScanCode, GiveUp, kKeyboardHandler,
              kIsOutputBufferFull, kGetKeyboardScanCode, EndOfHandler, driver, ghosts
<1>5. ASSUME Type \/ Answer \/ EnableInterrupt \/ UNCHANGED vars
      PROVE  UNCHANGED <<gs_stKeyQueue, produced>>
  BY <1>5 DEF Type, Answer, Emit, EnableInterrupt, vars, driver, ghosts
<1> QED
  BY <1>1, <1>2, <1>3, <1>4, <1>5 DEF Next

LEMMA AbstractInit == Init => FIFO!Init
<1> SUFFICES ASSUME Init PROVE FIFO!Init
  OBVIOUS
<1>1. gs_stKeyQueue = kInitializeQueue(KEY_MAXQUEUECOUNT, NoKey) /\ produced = <<>>
  BY DEF Init
<1> QED
  BY <1>1, InitialQueue, NoKeyIsKey, CountAssumption DEF FIFO!Init

\* The key queue is a first-in first-out queue that refuses a key only when it is
\* full: the ring buffer neither loses, doubles nor reorders keys, wherever its
\* indices wrap and whichever core puts.
THEOREM ImplementsFIFOHolds == Spec => ImplementsFIFO
<1>1. IInv /\ [Next]_vars => [FIFO!Next]_(FIFO!vars)
  BY AbstractStep
<1> QED
  BY <1>1, AbstractInit, IInvHolds, PTL DEF Spec, ImplementsFIFO, FIFO!Spec

(***************************************************************************)
(* What the keys and the LEDs are while nothing disturbs: one core at most *)
(* has calls, and these are a handler, a command, or a command in a        *)
(* handler, with the lock key that began it still to be put.               *)
(***************************************************************************)
\* A command at position i of the stack: of Main_64, or of a lock key.
Command(s, i) ==
    /\ s[i].pc \in {"command"} \cup Waiting
    /\ \/ Len(s) = i
       \/ /\ Len(s) = i + 2
          /\ s[i + 1].pc = "put" /\ LockKey(s[i + 1].key.scan)
          /\ s[i + 2].pc = "end"

Shape(s) ==
    \/ s = <<>>
    \/ Len(s) = 1 /\ s[1].pc \in {"status", "scan", "end"}
    \/ Len(s) = 2 /\ s[1].pc = "put" /\ s[2].pc = "end"
    \/ Command(s, 1)
    \/ s[1].pc = "put" /\ s[2].pc \in Waiting /\ Command(s, 2)

\* The call below a key that is put; the key on top and the number of them.
Inner(s) == IF s[1].pc = "put" THEN s[2] ELSE s[1]
Doing(s, labels) == s # <<>> /\ Inner(s).pc \in labels
Queued(s) == IF s # <<>> /\ s[1].pc = "put" THEN Append(produced, s[1].key) ELSE produced
Puts(s) == (IF s # <<>> /\ s[1].pc = "put" THEN 1 ELSE 0) + (IF Len(s) >= 3 THEN 1 ELSE 0)

\* How many typed bytes have been converted, and what should have come of them.
Unread == outputFull /\ port # ACK
Handled == IF Unread THEN sent - 1 ELSE sent
Expected == OneByOne(typed)[Handled]

\* The keyboard owes an ACK exactly while a wait is for one.
AckInv(s) ==
    /\ Unread => sent > 0 /\ port = typed[sent]
    /\ Doing(s, Waiting) =>
         /\ \/ replies = <<ACK>> /\ (outputFull => port # ACK)
            \/ replies = <<>> /\ outputFull /\ port = ACK
         /\ Inner(s).j <= Handled
    /\ ~Doing(s, Waiting) => replies = <<>> /\ (outputFull => port # ACK)
    /\ Doing(s, {"command"}) => Inner(s).j = 0

LEDInv(s) ==
    /\ Doing(s, {"command", "ackCommand"}) => Inner(s).leds = Locks(gs_stKeyboardManager)
    /\ ~Doing(s, {"command", "ackCommand"}) => leds = Locks(gs_stKeyboardManager)
    /\ Doing(s, {"ackCommand"}) => option
    /\ Doing(s, {"ackActivate"}) => Locks(gs_stKeyboardManager) = LEDsOff

KeyInv(s) ==
    /\ gs_stKeyboardManager = Expected.manager
    /\ Characters(Queued(s)) = Characters(Expected.keys)
    /\ Len(produced) + Puts(s) = Len(Expected.keys)

StackInv(s) == Shape(s) /\ AckInv(s) /\ LEDInv(s) /\ KeyInv(s)

KInv == Undisturbed => \E c \in Core : /\ \A d \in Core \ {c} : stack[d] = <<>>
                                       /\ StackInv(stack[c])

(***************************************************************************)
(* What the recursive functions of the properties compute                  *)
(***************************************************************************)
\* Induction over the numbers up to n.
LEMMA Induction ==
    ASSUME NEW n \in Nat, NEW S, 0 \in S, \A m \in 0 .. n - 1 : m \in S => m + 1 \in S
    PROVE  \A m \in 0 .. n : m \in S
<1> SUFFICES ASSUME NEW k \in 0 .. n, k \notin S PROVE FALSE
  OBVIOUS
<1> DEFINE T == {m \in 0 .. n : m \notin S}
<1>1. T \subseteq Nat /\ T # {}
  OBVIOUS
<1>2. PICK x \in T : \A y \in T : x <= y
  BY <1>1, SmallestExists
<1>3. x \in 0 .. n /\ x \notin S /\ x # 0
  OBVIOUS
<1>4. x - 1 \in 0 .. n - 1 /\ x - 1 \in 0 .. n /\ x - 1 + 1 = x /\ ~(x <= x - 1)
  BY <1>3
<1>5. x - 1 \in S
  BY <1>2, <1>4
<1> QED
  BY <1>3, <1>4, <1>5

\* A step that leads from any value to a value can be repeated from 1 to n.
Repeats(f, base, step, n) ==
    \A i \in 0 .. n : f[i] = IF i = 0 THEN base ELSE step[<<i, f[i - 1]>>]

LEMMA StepsRepeat ==
    ASSUME NEW n \in Nat, NEW S, NEW base \in S, NEW step \in [(1 .. n) \X S -> S]
    PROVE  \E f \in [0 .. n -> S] : Repeats(f, base, step, n)
<1> DEFINE Reached(k) == \E f \in [0 .. k -> S] : Repeats(f, base, step, k)
           T == {k \in Nat : Reached(k)}
<1>1. 0 \in T
  <2>1. [i \in 0 .. 0 |-> base] \in [0 .. 0 -> S]
    OBVIOUS
  <2>2. Repeats([i \in 0 .. 0 |-> base], base, step, 0)
    BY DEF Repeats
  <2> QED
    BY <2>1, <2>2
<1>2. ASSUME NEW k \in 0 .. n - 1, k \in T PROVE k + 1 \in T
  <2>1. PICK f \in [0 .. k -> S] : Repeats(f, base, step, k)
    BY <1>2
  <2> DEFINE g == [i \in 0 .. k + 1 |-> IF i = k + 1 THEN step[<<k + 1, f[k]>>] ELSE f[i]]
  <2>2. k \in 0 .. k /\ k + 1 \in 1 .. n /\ f[k] \in S
    OBVIOUS
  <2>3. step[<<k + 1, f[k]>>] \in S
    BY <2>2
  <2>4. g \in [0 .. k + 1 -> S]
    BY <2>3
  <2>5. \A i \in 0 .. k : g[i] = f[i]
    OBVIOUS
  <2>6. g[k + 1] = step[<<k + 1, f[k]>>]
    OBVIOUS
  <2> HIDE DEF g
  <2>7. ASSUME NEW i \in 0 .. k + 1
        PROVE  g[i] = IF i = 0 THEN base ELSE step[<<i, g[i - 1]>>]
    <3>1. CASE i = k + 1
      <4>1. i # 0 /\ i - 1 = k
        BY <3>1, <2>2
      <4> QED
        BY <3>1, <4>1, <2>2, <2>5, <2>6
    <3>2. CASE i # k + 1
      <4>1. i \in 0 .. k /\ (i # 0 => i - 1 \in 0 .. k)
        BY <3>2
      <4>2. f[i] = IF i = 0 THEN base ELSE step[<<i, f[i - 1]>>]
        BY <2>1, <4>1 DEF Repeats
      <4> QED
        BY <2>5, <4>1, <4>2
    <3> QED
      BY <3>1, <3>2
  <2>8. Reached(k + 1)
    BY <2>4, <2>7 DEF Repeats
  <2> QED
    BY <2>8
<1> HIDE DEF T
<1>3. \A k \in 0 .. n : k \in T
  BY <1>1, <1>2, Induction
<1>4. n \in T
  BY <1>3
<1> QED
  BY <1>4 DEF T

(***************************************************************************)
(* OneByOne                                                                *)
(***************************************************************************)
Results == [manager : KEYBOARDMANAGER, keys : Seq(KeyData)]
FirstResult == [manager |-> NothingHeld, keys |-> <<>>]
Chosen(m, b) == CHOOSE r \in kConvertScanCodeToASCIICode(m, b) : TRUE
Then(state, b) ==
    [manager |-> Chosen(state.manager, b).manager,
     keys |-> state.keys \o Chosen(state.manager, b).keys]

LEMMA ConversionExists ==
    ASSUME NEW m \in KEYBOARDMANAGER, NEW b \in Byte
    PROVE  /\ Chosen(m, b) \in kConvertScanCodeToASCIICode(m, b)
           /\ Chosen(m, b) \in Conversion
<1>1. kIsUseCombinedCode(m, Code(b)) # {}
  BY DEF kIsUseCombinedCode
<1>2. \E r : r \in kConvertScanCodeToASCIICode(m, b)
  <2>1. PICK combined : combined \in kIsUseCombinedCode(m, Code(b))
    BY <1>1
  <2>2. CASE ~(m.iSkipCountForPause > 0) /\ b # 225 /\ b # 224
    <3> DEFINE r == [manager |-> UpdateCombinationKeyStatus([m EXCEPT !.bExtendedCodeIn = FALSE], b),
                     keys |-> <<[scan |-> b, combined |-> combined,
                                 extended |-> m.bExtendedCodeIn, down |-> ~Up(b)]>>,
                     led |-> LockKey(b)]
    <3>1. r \in kConvertScanCodeToASCIICode(m, b)
      BY <2>1, <2>2, Zenon DEF kConvertScanCodeToASCIICode
    <3> QED
      BY <3>1
  <2>3. CASE m.iSkipCountForPause > 0
    <3>1. Nothing([m EXCEPT !.iSkipCountForPause = @ - 1]) \in kConvertScanCodeToASCIICode(m, b)
      BY <2>3, Zenon DEF kConvertScanCodeToASCIICode
    <3> QED
      BY <3>1
  <2>4. CASE ~(m.iSkipCountForPause > 0) /\ b = 225
    <3>1. [manager |-> [m EXCEPT !.iSkipCountForPause = 2], keys |-> <<PauseKey>>, led |-> FALSE]
            \in kConvertScanCodeToASCIICode(m, b)
      BY <2>4, Zenon DEF kConvertScanCodeToASCIICode
    <3> QED
      BY <3>1
  <2>5. CASE ~(m.iSkipCountForPause > 0) /\ b # 225 /\ b = 224
    <3>1. kConvertScanCodeToASCIICode(m, b) = {Nothing([m EXCEPT !.bExtendedCodeIn = TRUE])}
      BY <2>5 DEF kConvertScanCodeToASCIICode
    <3> QED
      BY <3>1
  <2> QED
    BY <2>2, <2>3, <2>4, <2>5
<1>3. Chosen(m, b) \in kConvertScanCodeToASCIICode(m, b)
  BY <1>2, Zenon DEF Chosen
<1> QED
  BY <1>3, ConversionType

LEMMA ThenType ==
    ASSUME NEW state \in Results, NEW b \in Byte PROVE Then(state, b) \in Results
<1>1. state.manager \in KEYBOARDMANAGER /\ state.keys \in Seq(KeyData)
  BY DEF Results
<1>2. /\ Chosen(state.manager, b).manager \in KEYBOARDMANAGER
      /\ Chosen(state.manager, b).keys \in Seq(KeyData)
  BY <1>1, ConversionExists DEF Conversion
<1>3. state.keys \o Chosen(state.manager, b).keys \in Seq(KeyData)
  BY <1>1, <1>2
<1> QED
  BY <1>2, <1>3 DEF Then, Results

\* After no byte nothing has happened, and each byte is converted once.
LEMMA OneByOneIs ==
    ASSUME NEW bytes \in Seq(Byte)
    PROVE  /\ OneByOne(bytes) \in [0 .. Len(bytes) -> Results]
           /\ OneByOne(bytes)[0] = FirstResult
           /\ \A n \in 1 .. Len(bytes) :
                 OneByOne(bytes)[n] = Then(OneByOne(bytes)[n - 1], bytes[n])
<1> DEFINE size == Len(bytes)
           step == [x \in (1 .. size) \X Results |-> Then(x[2], bytes[x[1]])]
           Text(f) == [n \in 0 .. size |-> IF n = 0 THEN FirstResult
                                           ELSE Then(f[n - 1], bytes[n])]
<1>1. size \in Nat /\ FirstResult \in Results /\ \A n \in 1 .. size : bytes[n] \in Byte
  BY DEF FirstResult, Results, NothingHeld, KEYBOARDMANAGER
<1>2. step \in [(1 .. size) \X Results -> Results]
  BY <1>1, ThenType
<1>3. PICK f \in [0 .. size -> Results] : Repeats(f, FirstResult, step, size)
  BY <1>1, <1>2, StepsRepeat
<1>4. \A n \in 0 .. size : f[n] = IF n = 0 THEN FirstResult ELSE Then(f[n - 1], bytes[n])
  <2> SUFFICES ASSUME NEW n \in 0 .. size
               PROVE  f[n] = IF n = 0 THEN FirstResult ELSE Then(f[n - 1], bytes[n])
    OBVIOUS
  <2>1. f[n] = IF n = 0 THEN FirstResult ELSE step[<<n, f[n - 1]>>]
    BY <1>3 DEF Repeats
  <2>2. ASSUME n # 0 PROVE step[<<n, f[n - 1]>>] = Then(f[n - 1], bytes[n])
    <3>1. n \in 1 .. size /\ n - 1 \in 0 .. size
      BY <1>1, <2>2
    <3>2. f[n - 1] \in Results
      BY <3>1
    <3> QED
      BY <3>1, <3>2
  <2> QED
    BY <2>1, <2>2
<1>5. f = [n \in 0 .. size |-> f[n]]
  OBVIOUS
<1> HIDE DEF step
<1>6. f = Text(f)
  BY <1>4, <1>5
<1>7. OneByOne(bytes) = CHOOSE h : h = Text(h)
  BY Zenon DEF OneByOne, FirstResult, Then, Chosen
<1>8. OneByOne(bytes) = Text(OneByOne(bytes))
  <2> HIDE DEF Text
  <2> QED
    BY <1>6, <1>7, Zenon
<1>g. PICK g : g = OneByOne(bytes)
  OBVIOUS
<1>9. g = Text(g)
  BY <1>8, <1>g
<1>10. \A n \in 0 .. size : g[n] = IF n = 0 THEN FirstResult ELSE Then(g[n - 1], bytes[n])
  BY <1>9
<1>11. g = [n \in 0 .. size |-> g[n]]
  BY <1>9
<1> DEFINE T == {n \in 0 .. size : g[n] \in Results}
<1>12. 0 \in T
  BY <1>1, <1>10
<1>13. ASSUME NEW k \in 0 .. size - 1, k \in T PROVE k + 1 \in T
  <2>1. k + 1 \in 1 .. size /\ k + 1 \in 0 .. size /\ k + 1 # 0 /\ (k + 1) - 1 = k
        /\ g[k] \in Results
    BY <1>1, <1>13
  <2>2. g[k + 1] = Then(g[k], bytes[k + 1])
    BY <1>10, <2>1
  <2>3. Then(g[k], bytes[k + 1]) \in Results
    BY <1>1, <2>1, ThenType
  <2> QED
    BY <2>1, <2>2, <2>3
<1> HIDE DEF T
<1>14. \A k \in 0 .. size : k \in T
  BY <1>1, <1>12, <1>13, Induction
<1>15. \A n \in 0 .. size : g[n] \in Results
  BY <1>14 DEF T
<1>16. g \in [0 .. size -> Results]
  BY <1>11, <1>15
<1>17. \A n \in 1 .. size : g[n] = Then(g[n - 1], bytes[n])
  BY <1>10
<1> QED
  BY <1>1, <1>g, <1>10, <1>16, <1>17

(***************************************************************************)
(* Characters                                                              *)
(***************************************************************************)
WithKey(characters, k) ==
    IF LockKey(k.scan) THEN characters ELSE Append(characters, Blur(k))
Filters(f, keys, n) ==
    \A i \in 0 .. n : f[i] = IF i = 0 THEN <<>> ELSE WithKey(f[i - 1], keys[i])

LEMMA BlurType == ASSUME NEW k \in KeyData PROVE Blur(k) \in KeyData /\ Blur(k).scan = k.scan
BY DEF Blur, KeyData

LEMMA WithKeyType ==
    ASSUME NEW s \in Seq(KeyData), NEW k \in KeyData PROVE WithKey(s, k) \in Seq(KeyData)
BY BlurType DEF WithKey

LEMMA CharactersAre ==
    ASSUME NEW keys \in Seq(KeyData)
    PROVE  \E f \in [0 .. Len(keys) -> Seq(KeyData)] :
              Filters(f, keys, Len(keys)) /\ Characters(keys) = f[Len(keys)]
<1> DEFINE size == Len(keys)
           S == Seq(KeyData)
           step == [x \in (1 .. size) \X S |-> WithKey(x[2], keys[x[1]])]
           Text(f) == [n \in 0 .. size |-> IF n = 0 THEN <<>> ELSE WithKey(f[n - 1], keys[n])]
<1>1. size \in Nat /\ <<>> \in S /\ \A n \in 1 .. size : keys[n] \in KeyData
  OBVIOUS
<1>2. step \in [(1 .. size) \X S -> S]
  BY <1>1, WithKeyType
<1> HIDE DEF S
<1>3. PICK f \in [0 .. size -> S] : Repeats(f, <<>>, step, size)
  BY <1>1, <1>2, StepsRepeat
<1>4. \A n \in 0 .. size : f[n] = IF n = 0 THEN <<>> ELSE WithKey(f[n - 1], keys[n])
  <2> SUFFICES ASSUME NEW n \in 0 .. size
               PROVE  f[n] = IF n = 0 THEN <<>> ELSE WithKey(f[n - 1], keys[n])
    OBVIOUS
  <2>1. f[n] = IF n = 0 THEN <<>> ELSE step[<<n, f[n - 1]>>]
    BY <1>3 DEF Repeats
  <2>2. ASSUME n # 0 PROVE step[<<n, f[n - 1]>>] = WithKey(f[n - 1], keys[n])
    <3>1. n \in 1 .. size /\ n - 1 \in 0 .. size
      BY <1>1, <2>2
    <3>2. f[n - 1] \in S
      BY <3>1
    <3> QED
      BY <3>1, <3>2
  <2> QED
    BY <2>1, <2>2
<1>5. f = [n \in 0 .. size |-> f[n]]
  OBVIOUS
<1> HIDE DEF step
<1>6. f = Text(f)
  BY <1>4, <1>5
<1> DEFINE g == CHOOSE h : h = Text(h)
<1>7. Characters(keys) = g[size]
  BY Zenon DEF Characters, WithKey
<1>8. g = Text(g)
  <2> HIDE DEF Text
  <2> QED
    BY <1>6, Zenon
<1> HIDE DEF g
<1>9. \A n \in 0 .. size : g[n] = IF n = 0 THEN <<>> ELSE WithKey(g[n - 1], keys[n])
  BY <1>8
<1>10. g = [n \in 0 .. size |-> g[n]]
  BY <1>8
<1> DEFINE T == {n \in 0 .. size : g[n] \in S}
<1>11. 0 \in T
  BY <1>1, <1>9
<1>12. ASSUME NEW k \in 0 .. size - 1, k \in T PROVE k + 1 \in T
  <2>1. k + 1 \in 1 .. size /\ k + 1 \in 0 .. size /\ k + 1 # 0 /\ (k + 1) - 1 = k
        /\ g[k] \in S
    BY <1>1, <1>12
  <2>2. g[k + 1] = WithKey(g[k], keys[k + 1])
    BY <1>9, <2>1
  <2>3. WithKey(g[k], keys[k + 1]) \in S
    BY <1>1, <2>1, WithKeyType DEF S
  <2> QED
    BY <2>1, <2>2, <2>3
<1> HIDE DEF T
<1>13. \A k \in 0 .. size : k \in T
  BY <1>1, <1>11, <1>12, Induction
<1>14. \A n \in 0 .. size : g[n] \in S
  BY <1>13 DEF T
<1>15. g \in [0 .. size -> Seq(KeyData)]
  BY <1>10, <1>14 DEF S
<1>16. Filters(g, keys, size)
  BY <1>9 DEF Filters
<1> QED
  BY <1>7, <1>15, <1>16

\* Filters of sequences that begin alike agree as far.
LEMMA FiltersAgree ==
    ASSUME NEW n \in Nat, NEW f, NEW g, NEW s, NEW t,
           Filters(f, s, n), Filters(g, t, n), \A i \in 1 .. n : s[i] = t[i]
    PROVE  f[n] = g[n]
<1> DEFINE T == {i \in 0 .. n : f[i] = g[i]}
<1>1. 0 \in T
  <2>1. 0 \in 0 .. n
    OBVIOUS
  <2>2. f[0] = <<>> /\ g[0] = <<>>
    BY <2>1 DEF Filters
  <2> QED
    BY <2>1, <2>2
<1>2. ASSUME NEW k \in 0 .. n - 1, k \in T PROVE k + 1 \in T
  <2>1. k + 1 \in 0 .. n /\ k + 1 \in 1 .. n /\ k + 1 # 0 /\ (k + 1) - 1 = k /\ f[k] = g[k]
    BY <1>2
  <2>2. f[k + 1] = WithKey(f[k], s[k + 1]) /\ g[k + 1] = WithKey(g[k], t[k + 1])
    BY <2>1 DEF Filters
  <2> QED
    BY <2>1, <2>2
<1> HIDE DEF T
<1>3. \A k \in 0 .. n : k \in T
  BY <1>1, <1>2, Induction
<1>4. n \in T
  BY <1>3
<1> QED
  BY <1>4 DEF T

\* One more key is one more character, unless it is a lock key.
LEMMA CharactersOfOneMore ==
    ASSUME NEW keys \in Seq(KeyData), NEW k \in KeyData
    PROVE  /\ Characters(keys) \in Seq(KeyData)
           /\ Characters(Append(keys, k)) = WithKey(Characters(keys), k)
<1> DEFINE more == Append(keys, k)
           n == Len(keys)
<1>1. /\ more \in Seq(KeyData) /\ Len(more) = n + 1 /\ n \in Nat
      /\ \A i \in 1 .. n : more[i] = keys[i]
      /\ more[n + 1] = k
  OBVIOUS
<1> HIDE DEF more
<1>2. PICK f \in [0 .. n -> Seq(KeyData)] : Filters(f, keys, n) /\ Characters(keys) = f[n]
  BY CharactersAre
<1>3. PICK g \in [0 .. n + 1 -> Seq(KeyData)] :
        Filters(g, more, n + 1) /\ Characters(more) = g[n + 1]
  BY <1>1, CharactersAre
<1> HIDE DEF n
<1>4. Filters(g, more, n)
  <2>1. \A i \in 0 .. n : i \in 0 .. n + 1
    BY <1>1
  <2> QED
    BY <1>3, <2>1 DEF Filters
<1>5. f[n] = g[n]
  BY <1>1, <1>2, <1>4, FiltersAgree
<1>6. g[n + 1] = WithKey(g[n], more[n + 1])
  <2>1. n + 1 \in 0 .. n + 1 /\ n + 1 # 0 /\ (n + 1) - 1 = n
    BY <1>1
  <2> QED
    BY <1>3, <2>1 DEF Filters
<1>7. f[n] \in Seq(KeyData)
  BY <1>1, <1>2
<1> QED
  BY <1>1, <1>2, <1>3, <1>5, <1>6, <1>7 DEF more

LEMMA NoCharacters == Characters(<<>>) = <<>>
<1>1. <<>> \in Seq(KeyData) /\ Len(<<>>) = 0
  OBVIOUS
<1>2. PICK f \in [0 .. 0 -> Seq(KeyData)] : Filters(f, <<>>, 0) /\ Characters(<<>>) = f[0]
  BY <1>1, CharactersAre
<1> QED
  BY <1>2 DEF Filters

(***************************************************************************)
(* Prefixes                                                                *)
(***************************************************************************)
LEMMA PrefixIs ==
    ASSUME NEW S, NEW s \in Seq(S), NEW t \in Seq(S)
    PROVE  IsPrefix(s, t) <=> Len(s) <= Len(t) /\ \A i \in 1 .. Len(s) : s[i] = t[i]
<1>1. SubSeq(s, 1, Len(s)) = s
  OBVIOUS
<1>2. ASSUME Len(s) <= Len(t)
      PROVE  /\ SubSeq(t, 1, Len(s)) \in Seq(S) /\ Len(SubSeq(t, 1, Len(s))) = Len(s)
             /\ \A i \in 1 .. Len(s) : SubSeq(t, 1, Len(s))[i] = t[i]
  BY <1>2
<1>3. ASSUME Len(s) <= Len(t)
      PROVE  s = SubSeq(t, 1, Len(s)) <=> \A i \in 1 .. Len(s) : s[i] = t[i]
  <2> DEFINE u == SubSeq(t, 1, Len(s))
  <2>1. u \in Seq(S) /\ Len(u) = Len(s) /\ \A i \in 1 .. Len(s) : u[i] = t[i]
    BY <1>2, <1>3
  <2> HIDE DEF u
  <2>2. (\A i \in 1 .. Len(s) : s[i] = u[i]) => s = u
    BY <2>1
  <2>3. s = u <=> \A i \in 1 .. Len(s) : s[i] = t[i]
    BY <2>1, <2>2
  <2> QED
    BY <2>3 DEF u
<1> QED
  BY <1>1, <1>3 DEF IsPrefix

LEMMA PrefixOfItself == ASSUME NEW S, NEW s \in Seq(S) PROVE IsPrefix(s, s)
BY PrefixIs

LEMMA PrefixOfAppend ==
    ASSUME NEW S, NEW s \in Seq(S), NEW t \in Seq(S), NEW e \in S, IsPrefix(s, t)
    PROVE  IsPrefix(s, Append(t, e))
<1>1. /\ Append(t, e) \in Seq(S) /\ Len(Append(t, e)) = Len(t) + 1
      /\ \A i \in 1 .. Len(t) : Append(t, e)[i] = t[i]
  OBVIOUS
<1>2. Len(s) <= Len(t) /\ \A i \in 1 .. Len(s) : s[i] = t[i]
  BY PrefixIs
<1> PICK u : u = Append(t, e)
  OBVIOUS
<1>3. u \in Seq(S) /\ Len(s) <= Len(u) /\ \A i \in 1 .. Len(s) : s[i] = u[i]
  BY <1>1, <1>2
<1>4. IsPrefix(s, u)
  BY <1>3, PrefixIs
<1> QED
  BY <1>4

LEMMA PrefixOfPrefix ==
    ASSUME NEW S, NEW s \in Seq(S), NEW t \in Seq(S), NEW u \in Seq(S),
           IsPrefix(s, t), IsPrefix(t, u)
    PROVE  IsPrefix(s, u)
<1>1. Len(s) <= Len(t) /\ \A i \in 1 .. Len(s) : s[i] = t[i]
  BY PrefixIs
<1>2. Len(t) <= Len(u) /\ \A i \in 1 .. Len(t) : t[i] = u[i]
  BY PrefixIs
<1>3. Len(s) \in Nat /\ Len(t) \in Nat /\ Len(u) \in Nat
  OBVIOUS
<1>4. Len(s) <= Len(u) /\ \A i \in 1 .. Len(s) : i \in 1 .. Len(t)
  BY <1>1, <1>2, <1>3
<1>5. \A i \in 1 .. Len(s) : s[i] = u[i]
  BY <1>1, <1>2, <1>4
<1> QED
  BY <1>4, <1>5, PrefixIs

(***************************************************************************)
(* What a conversion makes of a byte                                       *)
(***************************************************************************)
OneKey(r, k) == r.keys = <<k>> /\ k \in KeyData /\ (r.led <=> LockKey(k.scan))

\* The column of a key is open only behind the prefix E0.
LEMMA ColumnIsOpen ==
    ASSUME NEW m \in KEYBOARDMANAGER, NEW code \in Byte, ~m.bExtendedCodeIn,
           NEW a \in kIsUseCombinedCode(m, Code(code)), NEW b \in kIsUseCombinedCode(m, Code(code))
    PROVE  a = b
<1> DEFINE n == Code(code)
<1>1. n \in 0 .. 127
  BY BytesAreNumbers DEF Code
<1> HIDE DEF n
<1>2. CASE n \in OneColumn
  BY <1>2 DEF kIsUseCombinedCode, n
<1>3. CASE n \notin OneColumn /\ kIsAlphabetScanCode(n)
  BY <1>3 DEF kIsUseCombinedCode, n
<1>4. CASE n \notin OneColumn /\ ~kIsAlphabetScanCode(n) /\ kIsNumberOrSymbolScanCode(n)
  BY <1>4 DEF kIsUseCombinedCode, n
<1>5. CASE /\ n \notin OneColumn /\ ~kIsAlphabetScanCode(n) /\ ~kIsNumberOrSymbolScanCode(n)
           /\ kIsNumberPadScanCode(n)
  BY <1>5 DEF kIsUseCombinedCode, n
<1>6. ~(/\ n \notin OneColumn /\ ~kIsAlphabetScanCode(n) /\ ~kIsNumberOrSymbolScanCode(n)
        /\ ~kIsNumberPadScanCode(n))
  BY <1>1 DEF OneColumn, kIsNumberOrSymbolScanCode, kIsNumberPadScanCode
<1> QED
  BY <1>2, <1>3, <1>4, <1>5, <1>6

\* Only a lock key changes the locks.
LEMMA LocksStay ==
    ASSUME NEW m \in KEYBOARDMANAGER, NEW code \in Byte, ~LockKey(code)
    PROVE  Locks(UpdateCombinationKeyStatus(m, code)) = Locks(m)
<1>1. CASE Shift(code)
  <2>1. code # 58 /\ code # 69 /\ code # 70
    BY DEF LockKey
  <2>2. UpdateCombinationKeyStatus(m, code) = [m EXCEPT !.bShiftDown = ~Up(code)]
    BY <1>1, <2>1 DEF UpdateCombinationKeyStatus
  <2> QED
    BY <2>2 DEF Locks, KEYBOARDMANAGER
<1>2. CASE ~Shift(code)
  BY <1>2 DEF UpdateCombinationKeyStatus, LockKey
<1> QED
  BY <1>1, <1>2

\* Two conversions of a byte differ at most in the column of a key behind E0.
LEMMA ConversionsAgree ==
    ASSUME NEW m \in KEYBOARDMANAGER, NEW code \in Byte,
           NEW r \in kConvertScanCodeToASCIICode(m, code),
           NEW s \in kConvertScanCodeToASCIICode(m, code)
    PROVE  /\ r.manager = s.manager
           /\ ~r.led => Locks(r.manager) = Locks(m)
           /\ \/ r.keys = <<>> /\ s.keys = <<>> /\ ~r.led
              \/ \E k, l : OneKey(r, k) /\ OneKey(s, l) /\ Blur(k) = Blur(l) /\ k.scan = l.scan
<1> DEFINE Quietly(n) == Nothing(n).keys = <<>> /\ ~Nothing(n).led /\ Nothing(n).manager = n
<1>0. \A n : Quietly(n)
  BY DEF Nothing
<1>1. CASE m.iSkipCountForPause > 0
  <2> DEFINE n == [m EXCEPT !.iSkipCountForPause = @ - 1]
  <2>1. r = Nothing(n) /\ s = Nothing(n)
    BY <1>1 DEF kConvertScanCodeToASCIICode
  <2>2. Locks(n) = Locks(m)
    BY DEF Locks, KEYBOARDMANAGER
  <2> HIDE DEF n
  <2> QED
    BY <1>0, <2>1, <2>2
<1>2. CASE ~(m.iSkipCountForPause > 0) /\ code = 225
  <2> DEFINE n == [m EXCEPT !.iSkipCountForPause = 2]
             t == [manager |-> n, keys |-> <<PauseKey>>, led |-> FALSE]
  <2>1. r = t /\ s = t
    BY <1>2 DEF kConvertScanCodeToASCIICode
  <2>2. Locks(n) = Locks(m)
    BY DEF Locks, KEYBOARDMANAGER
  <2>3. PauseKey \in KeyData /\ ~LockKey(PauseKey.scan)
    <3>1. 225 \in Byte
      BY <1>2
    <3>2. PauseKey \in KeyData
      BY <3>1, BytesAreNumbers DEF PauseKey, NoKey, KeyData
    <3>3. PauseKey.scan = 225
      BY DEF PauseKey, NoKey
    <3> QED
      BY <3>2, <3>3 DEF LockKey
  <2> HIDE DEF n
  <2>4. t.manager = n /\ t.keys = <<PauseKey>> /\ t.led = FALSE
    OBVIOUS
  <2> HIDE DEF t
  <2>5. OneKey(r, PauseKey) /\ OneKey(s, PauseKey)
    BY <2>1, <2>3, <2>4 DEF OneKey
  <2> QED
    BY <2>1, <2>2, <2>4, <2>5
<1>3. CASE ~(m.iSkipCountForPause > 0) /\ code = 224
  <2> DEFINE n == [m EXCEPT !.bExtendedCodeIn = TRUE]
  <2>1. r = Nothing(n) /\ s = Nothing(n)
    BY <1>3 DEF kConvertScanCodeToASCIICode
  <2>2. Locks(n) = Locks(m)
    BY DEF Locks, KEYBOARDMANAGER
  <2> HIDE DEF n
  <2> QED
    BY <1>0, <2>1, <2>2
<1>4. CASE ~(m.iSkipCountForPause > 0) /\ code # 225 /\ code # 224
  <2> DEFINE n == [m EXCEPT !.bExtendedCodeIn = FALSE]
             Key(combined) == [scan |-> code, combined |-> combined,
                               extended |-> m.bExtendedCodeIn, down |-> ~Up(code)]
             Result(combined) == [manager |-> UpdateCombinationKeyStatus(n, code),
                                  keys |-> <<Key(combined)>>, led |-> LockKey(code)]
  <2>1. PICK a \in kIsUseCombinedCode(m, Code(code)) : r = Result(a)
    BY <1>4 DEF kConvertScanCodeToASCIICode
  <2>2. PICK b \in kIsUseCombinedCode(m, Code(code)) : s = Result(b)
    BY <1>4 DEF kConvertScanCodeToASCIICode
  <2>3. n \in KEYBOARDMANAGER /\ Locks(n) = Locks(m)
    BY DEF Locks, KEYBOARDMANAGER
  <2> HIDE DEF n
  <2>4. a \in BOOLEAN /\ b \in BOOLEAN
    BY CombinedIsBoolean
  <2>5. ASSUME NEW e \in BOOLEAN PROVE Key(e) \in KeyData /\ Key(e).scan = code
    BY DEF KeyData, KEYBOARDMANAGER, Up
  <2>6. Blur(Key(a)) = Blur(Key(b))
    <3>1. CASE m.bExtendedCodeIn
      <4>1. ASSUME NEW e
            PROVE  Blur(Key(e)) = [scan |-> code, combined |-> FALSE,
                                   extended |-> m.bExtendedCodeIn, down |-> ~Up(code)]
        BY <3>1 DEF Blur
      <4> QED
        BY <4>1
    <3>2. CASE ~m.bExtendedCodeIn
      BY <3>2, ColumnIsOpen
    <3> QED
      BY <3>1, <3>2
  <2> HIDE DEF Key
  <2>7. ASSUME NEW e \in BOOLEAN
        PROVE  /\ Result(e).manager = UpdateCombinationKeyStatus(n, code)
               /\ Result(e).keys = <<Key(e)>> /\ (Result(e).led <=> LockKey(code))
    OBVIOUS
  <2> HIDE DEF Result
  <2>8. OneKey(r, Key(a)) /\ OneKey(s, Key(b))
    BY <2>1, <2>2, <2>4, <2>5, <2>7 DEF OneKey
  <2>9. ~r.led => Locks(r.manager) = Locks(m)
    BY <2>1, <2>3, <2>4, <2>7, LocksStay
  <2>10. Key(a).scan = Key(b).scan
    BY <2>4, <2>5
  <2> QED
    BY <2>1, <2>2, <2>4, <2>6, <2>7, <2>8, <2>9, <2>10
<1> QED
  BY <1>1, <1>2, <1>3, <1>4

\* What the driver makes of a byte is what is expected of it.
LEMMA ConvertedAsExpected ==
    ASSUME NEW state \in Results, NEW b \in Byte,
           NEW r \in kConvertScanCodeToASCIICode(state.manager, b)
    PROVE  LET next == Then(state, b) IN
           /\ r.manager = next.manager
           /\ ~r.led => Locks(r.manager) = Locks(state.manager)
           /\ \/ r.keys = <<>> /\ ~r.led /\ next.keys = state.keys
              \/ \E k : /\ OneKey(r, k)
                        /\ Len(next.keys) = Len(state.keys) + 1
                        /\ Characters(next.keys) = WithKey(Characters(state.keys), k)
<1> DEFINE m == state.manager
           keys == state.keys
           c == Chosen(m, b)
           next == Then(state, b)
<1>1. m \in KEYBOARDMANAGER /\ keys \in Seq(KeyData)
  BY DEF Results
<1>2. c \in kConvertScanCodeToASCIICode(m, b)
  BY <1>1, ConversionExists
<1>3. next.manager = c.manager /\ next.keys = keys \o c.keys
  BY DEF Then
<1> HIDE DEF c, next
<1>4. /\ r.manager = c.manager
      /\ ~r.led => Locks(r.manager) = Locks(m)
      /\ \/ r.keys = <<>> /\ c.keys = <<>> /\ ~r.led
         \/ \E k, l : OneKey(r, k) /\ OneKey(c, l) /\ Blur(k) = Blur(l) /\ k.scan = l.scan
  BY <1>1, <1>2, ConversionsAgree
<1> HIDE DEF m
<1>5. CASE r.keys = <<>> /\ c.keys = <<>> /\ ~r.led
  <2>1. keys \o <<>> = keys
    BY <1>1
  <2>2. next.keys = keys
    BY <1>3, <1>5, <2>1
  <2> QED
    BY <1>3, <1>4, <1>5, <2>2 DEF m, next
<1>6. CASE \E k, l : OneKey(r, k) /\ OneKey(c, l) /\ Blur(k) = Blur(l) /\ k.scan = l.scan
  <2>1. PICK k, l : OneKey(r, k) /\ OneKey(c, l) /\ Blur(k) = Blur(l) /\ k.scan = l.scan
    BY <1>6
  <2>2. k \in KeyData /\ l \in KeyData /\ c.keys = <<l>>
    BY <2>1 DEF OneKey
  <2>3. keys \o <<l>> = Append(keys, l) /\ Len(Append(keys, l)) = Len(keys) + 1
    BY <1>1, <2>2
  <2>4. next.keys = Append(keys, l)
    BY <1>3, <2>2, <2>3
  <2>5. Characters(next.keys) = WithKey(Characters(keys), l)
    BY <1>1, <2>2, <2>4, CharactersOfOneMore
  <2>6. WithKey(Characters(keys), l) = WithKey(Characters(keys), k)
    BY <2>1 DEF WithKey
  <2>7. Len(next.keys) = Len(keys) + 1
    BY <2>3, <2>4
  <2>8. \E j : /\ OneKey(r, j) /\ Len(next.keys) = Len(keys) + 1
               /\ Characters(next.keys) = WithKey(Characters(keys), j)
    BY <2>1, <2>5, <2>6, <2>7
  <2> QED
    BY <1>3, <1>4, <2>8 DEF m, next
<1> QED
  BY <1>4, <1>5, <1>6

(***************************************************************************)
(* Calls that take the place of the one on top                             *)
(***************************************************************************)
LEMMA Popped ==
    ASSUME NEW s \in Seq(Frame), s # <<>>
    PROVE  LET t == <<>> \o Tail(s) IN
           /\ t \in Seq(Frame) /\ Len(t) = Len(s) - 1
           /\ \A i \in 1 .. Len(t) : t[i] = s[i + 1]
<1>1. Tail(s) \in Seq(Frame) /\ Len(Tail(s)) = Len(s) - 1
      /\ \A i \in 1 .. Len(s) - 1 : Tail(s)[i] = s[i + 1]
  OBVIOUS
<1>2. <<>> \o Tail(s) = Tail(s)
  BY <1>1
<1> QED
  BY <1>1, <1>2

LEMMA OneInstead ==
    ASSUME NEW s \in Seq(Frame), s # <<>>, NEW f \in Frame
    PROVE  LET t == <<f>> \o Tail(s) IN
           /\ t \in Seq(Frame) /\ Len(t) = Len(s) /\ t[1] = f
           /\ \A i \in 2 .. Len(t) : t[i] = s[i]
<1>1. /\ Tail(s) \in Seq(Frame) /\ Len(Tail(s)) = Len(s) - 1 /\ Len(s) \in Nat \ {0}
      /\ \A i \in 1 .. Len(s) - 1 : Tail(s)[i] = s[i + 1]
  OBVIOUS
<1>2. PICK u : u = Tail(s)
  OBVIOUS
<1>3. PICK t : t = <<f>> \o u
  OBVIOUS
<1>4. u \in Seq(Frame)
  BY <1>1, <1>2
<1>5. /\ t \in Seq(Frame) /\ Len(t) = 1 + Len(u) /\ t[1] = f
      /\ \A i \in 2 .. Len(t) : t[i] = u[i - 1]
  BY <1>3, <1>4
<1>6. \A i \in 2 .. Len(t) : t[i] = s[i]
  <2> SUFFICES ASSUME NEW i \in 2 .. Len(t) PROVE t[i] = s[i]
    OBVIOUS
  <2>1. i - 1 \in 1 .. Len(s) - 1 /\ (i - 1) + 1 = i
    BY <1>1, <1>2, <1>5
  <2> QED
    BY <1>1, <1>2, <1>5, <2>1
<1>7. Len(t) = Len(s)
  BY <1>1, <1>2, <1>5
<1> QED
  BY <1>2, <1>3, <1>5, <1>6, <1>7

LEMMA TwoInstead ==
    ASSUME NEW s \in Seq(Frame), s # <<>>, NEW f \in Frame, NEW g \in Frame
    PROVE  LET t == <<f, g>> \o Tail(s) IN
           /\ t \in Seq(Frame) /\ Len(t) = Len(s) + 1 /\ t[1] = f /\ t[2] = g
           /\ \A i \in 3 .. Len(t) : t[i] = s[i - 1]
<1>1. /\ Tail(s) \in Seq(Frame) /\ Len(Tail(s)) = Len(s) - 1 /\ Len(s) \in Nat \ {0}
      /\ \A i \in 1 .. Len(s) - 1 : Tail(s)[i] = s[i + 1]
  OBVIOUS
<1>2. PICK u : u = Tail(s)
  OBVIOUS
<1>3. PICK t : t = <<f, g>> \o u
  OBVIOUS
<1>4. u \in Seq(Frame)
  BY <1>1, <1>2
<1>5. /\ t \in Seq(Frame) /\ Len(t) = 2 + Len(u) /\ t[1] = f /\ t[2] = g
      /\ \A i \in 3 .. Len(t) : t[i] = u[i - 2]
  BY <1>3, <1>4
<1>6. \A i \in 3 .. Len(t) : t[i] = s[i - 1]
  <2> SUFFICES ASSUME NEW i \in 3 .. Len(t) PROVE t[i] = s[i - 1]
    OBVIOUS
  <2>1. i - 2 \in 1 .. Len(s) - 1 /\ (i - 2) + 1 = i - 1
    BY <1>1, <1>2, <1>5
  <2> QED
    BY <1>1, <1>2, <1>5, <2>1
<1>7. Len(t) = Len(s) + 1
  BY <1>1, <1>2, <1>5
<1> QED
  BY <1>2, <1>3, <1>5, <1>6, <1>7

LEMMA TwoCalls ==
    ASSUME NEW a, NEW b
    PROVE  <<a>> \o <<b>> = <<a, b>> /\ <<>> \o <<b>> = <<b>>
<1>1. <<a>> \in Seq({a, b}) /\ <<b>> \in Seq({a, b})
  OBVIOUS
<1>2. <<a>> \o <<b>> = Append(<<a>>, b)
  BY <1>1
<1>3. <<>> \o <<b>> = <<b>>
  BY <1>1
<1>4. Append(<<a>>, b) = <<a, b>>
  <2>1. PICK t : t = Append(<<a>>, b)
    OBVIOUS
  <2>2. PICK u : u = <<a, b>>
    OBVIOUS
  <2>3. t \in Seq({a, b}) /\ Len(t) = 2 /\ t[1] = a /\ t[2] = b
    BY <1>1, <2>1
  <2>4. u \in Seq({a, b}) /\ Len(u) = 2 /\ u[1] = a /\ u[2] = b
    BY <2>2
  <2>5. t = u
    BY <2>3, <2>4
  <2> QED
    BY <2>1, <2>2, <2>5
<1> QED
  BY <1>2, <1>3, <1>4

\* The calls for a key: it is put, after the command if it is a lock key.
LEMMA ConvertIs ==
    ASSUME NEW r \in Conversion
    PROVE  /\ r.keys = <<>> /\ ~r.led => Convert(r) = <<>>
           /\ \A k : r.keys = <<k>> =>
                Convert(r) = IF r.led THEN <<kChangeKeyboardLED(Locks(r.manager)), PutKey(k)>>
                             ELSE <<PutKey(k)>>
<1> DEFINE rest == [i \in DOMAIN r.keys |-> PutKey(r.keys[i])]
           first == IF r.led THEN <<kChangeKeyboardLED(Locks(r.manager))>> ELSE <<>>
<1>0. Convert(r) = first \o rest
  BY DEF Convert
<1>1. ASSUME r.keys = <<>>, ~r.led PROVE Convert(r) = <<>>
  <2>1. rest = <<>>
    BY <1>1
  <2>2. first = <<>>
    BY <1>1
  <2> HIDE DEF rest, first
  <2>3. <<>> \o <<>> = <<>>
    OBVIOUS
  <2> QED
    BY <1>0, <2>1, <2>2, <2>3
<1>2. ASSUME NEW k, r.keys = <<k>>
      PROVE  Convert(r) = IF r.led THEN <<kChangeKeyboardLED(Locks(r.manager)), PutKey(k)>>
                          ELSE <<PutKey(k)>>
  <2>1. rest = <<PutKey(k)>>
    <3>1. DOMAIN r.keys = 1 .. 1 /\ r.keys[1] = k
      BY <1>2
    <3>2. rest = [i \in 1 .. 1 |-> PutKey(k)]
      BY <3>1
    <3>3. ASSUME NEW e PROVE [i \in 1 .. 1 |-> e] = <<e>>
      OBVIOUS
    <3> QED
      BY <3>2, <3>3
  <2>2. ASSUME NEW a, NEW b PROVE <<a>> \o <<b>> = <<a, b>> /\ <<>> \o <<b>> = <<b>>
    BY TwoCalls
  <2> HIDE DEF rest
  <2>3. CASE r.led
    <3>1. first = <<kChangeKeyboardLED(Locks(r.manager))>>
      BY <2>3
    <3> HIDE DEF first
    <3> QED
      BY <1>0, <2>1, <2>2, <2>3, <3>1
  <2>4. CASE ~r.led
    <3>1. first = <<>>
      BY <2>4
    <3> HIDE DEF first
    <3> QED
      BY <1>0, <2>1, <2>2, <2>4, <3>1
  <2> QED
    BY <2>3, <2>4
<1> QED
  BY <1>1, <1>2

LEMMA CallsAre ==
    /\ \A label \in PC : /\ Call(label) \in Frame /\ Call(label).pc = label
                         /\ Call(label).j = 0
    /\ \A k \in KeyData : PutKey(k) \in Frame /\ PutKey(k).pc = "put" /\ PutKey(k).key = k
    /\ \A l \in LED : /\ kChangeKeyboardLED(l) \in Frame
                      /\ kChangeKeyboardLED(l).pc = "command"
                      /\ kChangeKeyboardLED(l).leds = l /\ kChangeKeyboardLED(l).j = 0
<1>1. ASSUME NEW label \in PC
      PROVE  /\ Call(label) \in Frame /\ Call(label).pc = label /\ Call(label).j = 0
             /\ DOMAIN Call(label) = {"pc", "key", "leds", "j"}
  BY CallType DEF Call
<1>2. "put" \in PC /\ "command" \in PC
  BY DEF PC
<1>3. ASSUME NEW k \in KeyData
      PROVE  PutKey(k) \in Frame /\ PutKey(k).pc = "put" /\ PutKey(k).key = k
  BY <1>1, <1>2 DEF PutKey, Frame
<1>4. ASSUME NEW l \in LED
      PROVE  /\ kChangeKeyboardLED(l) \in Frame /\ kChangeKeyboardLED(l).pc = "command"
             /\ kChangeKeyboardLED(l).leds = l /\ kChangeKeyboardLED(l).j = 0
  BY <1>1, <1>2 DEF kChangeKeyboardLED, Frame
<1> QED
  BY <1>1, <1>3, <1>4

(***************************************************************************)
(* What is expected, while bytes come and are read                         *)
(***************************************************************************)
LEMMA ReplaceIs ==
    ASSUME stack \in [Core -> Seq(Frame)], NEW c \in Core, NEW calls, Replace(c, calls)
    PROVE  /\ stack'[c] = calls \o Tail(stack[c])
           /\ \A d \in Core \ {c} : stack'[d] = stack[d]
BY DEF Replace

LEMMA TypedIs ==
    ASSUME IInv
    PROVE  /\ typed \in Seq(Byte) /\ sent \in 0 .. Len(typed) /\ Len(typed) < MaxBytes
           /\ \A i \in 1 .. Len(typed) : typed[i] \in Byte /\ typed[i] # ACK
           /\ Len(typed) \in Nat /\ MaxBytes \in Nat
<1>1. typed \in Seq(Byte \ {ACK}) /\ sent \in 0 .. Len(typed) /\ Len(typed) < MaxBytes
  BY ScriptAssumption, MaxBytesAssumption DEF IInv, DeviceInv
<1>2. \A i \in 1 .. Len(typed) : typed[i] \in Byte \ {ACK}
  BY <1>1
<1>3. typed \in Seq(Byte) /\ Len(typed) \in Nat
  BY <1>1
<1> QED
  BY <1>1, <1>2, <1>3, CountAssumption

LEMMA ExpectedType ==
    ASSUME IInv, Unread => sent > 0
    PROVE  Handled \in 0 .. sent /\ Expected \in Results
<1>1. Handled \in 0 .. sent
  BY TypedIs DEF Handled
<1>2. Handled \in 0 .. Len(typed)
  BY <1>1, TypedIs
<1>3. OneByOne(typed)[Handled] \in Results
  BY <1>2, TypedIs, OneByOneIs
<1> QED
  BY <1>1, <1>3 DEF Expected

LEMMA ExpectedStays ==
    ASSUME typed' = typed, Handled' = Handled PROVE Expected' = Expected
BY DEF Expected

\* A byte that is typed is read: one more is handled.
LEMMA ByteIsHandled ==
    ASSUME IInv, Unread, sent > 0, port = typed[sent], ReadPort
    PROVE  /\ ~Unread' /\ Handled' = Handled + 1 /\ port \in Byte
           /\ Expected \in Results /\ Expected' = Then(Expected, port)
<1>1. typed' = typed /\ sent' = sent /\ ~outputFull'
  BY DEF ReadPort
<1>2. ~Unread' /\ Handled = sent - 1 /\ Handled' = sent
  BY <1>1 DEF Unread, Handled
<1>3. sent \in 1 .. Len(typed) /\ typed \in Seq(Byte)
  BY TypedIs
<1>4. OneByOne(typed)[sent] = Then(OneByOne(typed)[sent - 1], typed[sent])
  BY <1>3, OneByOneIs
<1>5. Expected \in Results
  BY ExpectedType
<1>6. Expected' = OneByOne(typed)[sent]
  BY <1>1, <1>2 DEF Expected
<1>7. Expected = OneByOne(typed)[sent - 1]
  BY <1>2 DEF Expected
<1>8. port \in Byte
  BY DEF IInv, DeviceInv
<1>9. Handled' = Handled + 1
  BY <1>2, <1>3
<1> QED
  BY <1>2, <1>4, <1>5, <1>6, <1>7, <1>8, <1>9

(***************************************************************************)
(* The shapes of a stack                                                   *)
(***************************************************************************)
Puts3(s) == IF Len(s) >= 3 THEN 1 ELSE 0

LEMMA WithCommand ==
    ASSUME NEW s \in Seq(Frame), Command(s, 1)
    PROVE  /\ s # <<>> /\ Len(s) \in {1, 3} /\ s[1] \in Frame
           /\ s[1].pc \in {"command"} \cup Waiting /\ s[1].pc # "put"
           /\ Shape(s) /\ Inner(s) = s[1] /\ Puts(s) = Puts3(s)
           /\ \A labels : Doing(s, labels) <=> s[1].pc \in labels
<1>1. s # <<>> /\ Len(s) \in {1, 3} /\ s[1] \in Frame
  BY DEF Command
<1>2. s[1].pc \in {"command"} \cup Waiting /\ s[1].pc # "put"
  BY DEF Command, Waiting
<1> QED
  BY <1>1, <1>2 DEF Shape, Inner, Puts, Puts3, Doing

LEMMA WithKeyOnWait ==
    ASSUME NEW s \in Seq(Frame), s[1].pc = "put", s[2].pc \in Waiting, Command(s, 2)
    PROVE  /\ s # <<>> /\ Len(s) \in {2, 4} /\ s[1] \in Frame /\ s[2] \in Frame
           /\ Shape(s) /\ Inner(s) = s[2] /\ Puts(s) = 1 + Puts3(s)
           /\ \A labels : Doing(s, labels) <=> s[2].pc \in labels
<1>1. s # <<>> /\ Len(s) \in {2, 4} /\ s[1] \in Frame /\ s[2] \in Frame
  BY DEF Command
<1> QED
  BY <1>1 DEF Shape, Inner, Puts, Puts3, Doing

\* A handler that does not wait: it is before or after the conversion.
Handling == {"status", "scan", "end"}
Idle(s) ==
    \/ s = <<>>
    \/ Len(s) = 1 /\ s[1].pc \in Handling
    \/ Len(s) = 2 /\ s[1].pc = "put" /\ s[2].pc = "end"
LEMMA WithoutCommand ==
    ASSUME NEW s \in Seq(Frame), Idle(s)
    PROVE  /\ Shape(s) /\ Puts(s) = (IF Len(s) = 2 THEN 1 ELSE 0)
           /\ Len(s) # 2 => Puts(s) = 0
           /\ \A labels \in SUBSET ({"command"} \cup Waiting) : ~Doing(s, labels)
<1>1. Shape(s)
  BY DEF Idle, Shape, Handling
<1>2. ASSUME NEW labels \in SUBSET ({"command"} \cup Waiting) PROVE ~Doing(s, labels)
  <2>1. CASE s = <<>>
    BY <2>1 DEF Doing
  <2>2. CASE Len(s) = 1 /\ s[1].pc \in Handling
    BY <2>2 DEF Doing, Inner, Handling, Waiting
  <2>3. CASE Len(s) = 2 /\ s[1].pc = "put" /\ s[2].pc = "end"
    BY <2>3 DEF Doing, Inner, Waiting
  <2> QED
    BY <2>1, <2>2, <2>3 DEF Idle
<1>3. Puts(s) = (IF Len(s) = 2 THEN 1 ELSE 0)
  <2>1. Len(s) \in 0 .. 2 /\ (s = <<>> <=> Len(s) = 0)
    BY DEF Idle
  <2>2. s # <<>> /\ s[1].pc = "put" <=> Len(s) = 2
    BY <2>1 DEF Idle, Handling
  <2>3. ~(Len(s) >= 3)
    <3>1. ASSUME NEW n \in 0 .. 2 PROVE ~(n >= 3)
      OBVIOUS
    <3> QED
      BY <2>1, <3>1, Zenon
  <2> QED
    BY <2>2, <2>3 DEF Puts
<1> QED
  BY <1>1, <1>2, <1>3

\* Which shape it is shows on top.
LEMMA ShapeIs ==
    ASSUME NEW s \in Seq(Frame), Shape(s)
    PROVE  /\ Idle(s) \/ Command(s, 1) \/ (s[1].pc = "put" /\ s[2].pc \in Waiting /\ Command(s, 2))
           /\ s # <<>> /\ s[1].pc \in {"command"} \cup Waiting => Command(s, 1)
           /\ s # <<>> /\ s[1].pc \in Handling => Len(s) = 1
           /\ s # <<>> /\ s[1].pc = "put" =>
                \/ Len(s) = 2 /\ s[2].pc = "end"
                \/ s[2].pc \in Waiting /\ Command(s, 2)
<1>1. Idle(s) \/ Command(s, 1) \/ (s[1].pc = "put" /\ s[2].pc \in Waiting /\ Command(s, 2))
  BY DEF Shape, Idle, Handling
<1>2. ASSUME s # <<>>, s[1].pc \in {"command"} \cup Waiting PROVE Command(s, 1)
  BY <1>1, <1>2 DEF Idle, Handling, Waiting
<1>3. ASSUME s # <<>>, s[1].pc \in Handling PROVE Len(s) = 1
  BY <1>1, <1>3 DEF Idle, Handling, Waiting, Command
<1>4. ASSUME s # <<>>, s[1].pc = "put"
      PROVE  \/ Len(s) = 2 /\ s[2].pc = "end"
             \/ s[2].pc \in Waiting /\ Command(s, 2)
  BY <1>1, <1>4 DEF Idle, Handling, Waiting, Command
<1> QED
  BY <1>1, <1>2, <1>3, <1>4

(***************************************************************************)
(* The steps keep the keys as expected                                     *)
(***************************************************************************)
LEMMA DeviceKeeps ==
    ASSUME IInv, NEW s, StackInv(s), Type \/ Answer
    PROVE  StackInv(s)'
<1>0. /\ Shape(s) /\ AckInv(s) /\ LEDInv(s) /\ KeyInv(s)
      /\ UNCHANGED <<gs_stKeyboardManager, produced, typed, option, leds>>
      /\ ~outputFull /\ outputFull'
  BY DEF StackInv, Type, Answer, Emit, driver, ghosts
<1>1. sent \in Nat /\ ~Unread /\ Handled = sent
  BY <1>0, TypedIs DEF Unread, Handled
<1>2. Doing(s, Waiting) => replies = <<ACK>> /\ Inner(s).j <= sent
  BY <1>0, <1>1 DEF AckInv
<1>3. ~Doing(s, Waiting) => replies = <<>>
  BY <1>0 DEF AckInv
<1>4. Handled' = Handled /\ AckInv(s)'
  <2>1. CASE Type
    <3>1. sent + 1 \in 1 .. Len(typed) /\ sent' = sent + 1 /\ replies' = replies
          /\ port' = typed[sent + 1]
      BY <2>1, TypedIs DEF Type, Emit
    <3>2. port' # ACK
      BY <3>1, TypedIs
    <3>3. Unread' /\ Handled' = sent
      BY <1>0, <1>1, <3>1, <3>2 DEF Unread, Handled
    <3> QED
      BY <1>0, <1>1, <1>2, <1>3, <3>1, <3>2, <3>3 DEF AckInv, Doing
  <2>2. CASE Answer
    <3>1. Doing(s, Waiting) /\ replies = <<ACK>>
      BY <1>2, <1>3, <2>2 DEF Answer
    <3>2. Head(<<ACK>>) = ACK /\ Tail(<<ACK>>) = <<>>
      OBVIOUS
    <3>3. port' = ACK /\ replies' = <<>> /\ sent' = sent
      BY <2>2, <3>1, <3>2 DEF Answer, Emit
    <3>4. ~Unread' /\ Handled' = sent
      BY <3>3 DEF Unread, Handled
    <3> QED
      BY <1>0, <1>1, <1>2, <3>1, <3>3, <3>4 DEF AckInv, Doing
  <2> QED
    BY <2>1, <2>2
<1>5. Expected' = Expected
  BY <1>0, <1>4, ExpectedStays
<1>6. LEDInv(s)'
  BY <1>0 DEF LEDInv, Doing
<1>7. KeyInv(s)'
  BY <1>0, <1>5 DEF KeyInv, Queued
<1> QED
  BY <1>0, <1>4, <1>6, <1>7 DEF StackInv

\* What is expected does not depend on interrupts or the key queue.
LEMMA NothingDisturbed ==
    ASSUME NEW s, StackInv(s), UNCHANGED <<gs_stKeyboardManager, device, produced>>
    PROVE  StackInv(s)'
<1>1. Unread' = Unread /\ Handled' = Handled /\ Expected' = Expected
  BY DEF Unread, Handled, Expected, device
<1> QED
  BY <1>1 DEF StackInv, AckInv, LEDInv, KeyInv, Queued, Doing, device

LEMMA SendCommandKeeps ==
    ASSUME IInv, NEW c \in Core, NEW s, s = stack[c], StackInv(s), SendCommand(c),
           NEW t, t = stack'[c]
    PROVE  StackInv(t)'
<1> DEFINE f == [s[1] EXCEPT !.pc = "ackCommand"]
<1>1. s \in Seq(Frame) /\ s # <<>> /\ s[1].pc = "command" /\ Head(s) = s[1]
  BY DEF SendCommand, At, IInv, DriverInv
<1>2. Shape(s) /\ AckInv(s) /\ LEDInv(s) /\ KeyInv(s)
  BY DEF StackInv
<1>3. Command(s, 1)
  BY <1>1, <1>2, ShapeIs
<1>4. /\ s[1] \in Frame /\ Inner(s) = s[1] /\ Puts(s) = Puts3(s) /\ s[1].pc # "put"
      /\ \A labels : Doing(s, labels) <=> s[1].pc \in labels
  BY <1>1, <1>3, WithCommand
<1>5. f \in Frame /\ f.pc = "ackCommand" /\ f.leds = s[1].leds /\ f.j = s[1].j
  BY <1>4 DEF Frame, PC, Waiting
<1>6. t = <<f>> \o Tail(s)
  BY <1>1, ReplaceIs DEF SendCommand, Goto, IInv, DriverInv
<1> HIDE DEF f
<1>7. /\ t \in Seq(Frame) /\ Len(t) = Len(s) /\ t[1] = f
      /\ \A i \in 2 .. Len(t) : t[i] = s[i]
  BY <1>1, <1>5, <1>6, OneInstead
<1>8. Command(t, 1)
  BY <1>3, <1>5, <1>7 DEF Command, Waiting
<1>9. /\ Shape(t) /\ Inner(t) = f /\ Puts(t) = Puts3(t) /\ t # <<>>
      /\ \A labels : Doing(t, labels) <=> f.pc \in labels
  BY <1>7, <1>8, WithCommand
<1>10. /\ UNCHANGED <<gs_stKeyboardManager, produced, typed, sent, port, outputFull>>
       /\ replies' = Append(replies, ACK) /\ option' = TRUE /\ leds' = leds
  BY DEF SendCommand, TakeCommand, driver, ghosts
<1>11. Unread' = Unread /\ Handled' = Handled /\ Expected' = Expected
  BY <1>10 DEF Unread, Handled, Expected
<1>12. ~Doing(s, Waiting) /\ Doing(s, {"command"}) /\ Doing(s, {"command", "ackCommand"})
  BY <1>1, <1>4 DEF Waiting
<1>13. AckInv(t)'
  <2>1. replies = <<>> /\ (outputFull => port # ACK) /\ s[1].j = 0 /\ (Unread => sent > 0)
    BY <1>2, <1>4, <1>12 DEF AckInv
  <2>2. replies' = <<ACK>>
    BY <1>10, <2>1
  <2>3. Handled \in Nat
    BY <2>1, TypedIs, ExpectedType
  <2>4. Inner(t).j <= Handled'
    BY <1>5, <1>9, <1>11, <2>1, <2>3
  <2>5. Doing(t, Waiting) /\ ~Doing(t, {"command"})
    BY <1>5, <1>9 DEF Waiting
  <2> QED
    BY <1>2, <1>10, <1>11, <2>1, <2>2, <2>4, <2>5 DEF AckInv, Doing
<1>14. LEDInv(t)'
  <2>1. s[1].leds = Locks(gs_stKeyboardManager)
    BY <1>2, <1>4, <1>12 DEF LEDInv
  <2>2. Doing(t, {"command", "ackCommand"}) /\ ~Doing(t, {"ackActivate"})
    BY <1>5, <1>9
  <2> QED
    BY <1>5, <1>9, <1>10, <2>1, <2>2 DEF LEDInv, Doing
<1>15. KeyInv(t)'
  <2>1. Puts(t) = Puts(s)
    BY <1>4, <1>7, <1>9 DEF Puts3
  <2>2. Queued(s) = produced /\ Queued(t)' = produced'
    BY <1>4, <1>5, <1>7 DEF Queued
  <2> QED
    BY <1>2, <1>10, <1>11, <2>1, <2>2 DEF KeyInv
<1> QED
  BY <1>9, <1>13, <1>14, <1>15 DEF StackInv

\* A turn of the wait reads the byte that is there; an ACK is not taken for a key.
LEMMA TurnReads ==
    ASSUME IInv, NEW c \in Core, NEW s, s = stack[c], StackInv(s), Turn(c)
    PROVE  /\ s \in Seq(Frame) /\ s # <<>> /\ Head(s) = s[1] /\ s[1] \in Frame
           /\ s[1].pc \in Waiting /\ Command(s, 1) /\ Inner(s) = s[1]
           /\ Puts(s) = Puts3(s) /\ Queued(s) = produced
           /\ \A labels : Doing(s, labels) <=> s[1].pc \in labels
           /\ s[1].j <= Handled /\ s[1].j \in Nat
           /\ outputFull /\ (Unread => sent > 0 /\ port = typed[sent])
           /\ port = ACK => replies = <<>> /\ ~Unread /\ Handled' = Handled /\ ~Unread'
                            /\ Expected' = Expected
           /\ port # ACK => replies = <<ACK>> /\ Unread
<1>1. s \in Seq(Frame) /\ s # <<>> /\ s[1].pc \in Waiting /\ Head(s) = s[1] /\ s[1] \in Frame
  BY DEF Turn, IInv, DriverInv
<1>2. Shape(s) /\ AckInv(s)
  BY DEF StackInv
<1>3. Command(s, 1)
  BY <1>1, <1>2, ShapeIs
<1>4. /\ Inner(s) = s[1] /\ Puts(s) = Puts3(s) /\ s[1].pc # "put"
      /\ \A labels : Doing(s, labels) <=> s[1].pc \in labels
  BY <1>1, <1>3, WithCommand
<1>5. Doing(s, Waiting) /\ Queued(s) = produced
  BY <1>1, <1>4 DEF Queued
<1>6. /\ s[1].j <= Handled /\ s[1].j \in Nat /\ (Unread => sent > 0 /\ port = typed[sent])
      /\ \/ replies = <<ACK>> /\ (outputFull => port # ACK)
         \/ replies = <<>> /\ outputFull /\ port = ACK
  BY <1>1, <1>2, <1>4, <1>5 DEF AckInv, Frame
<1>7. outputFull
  <2>1. <<ACK>> # <<>>
    OBVIOUS
  <2> QED
    BY <1>6, <2>1 DEF Turn
<1>8. ASSUME port = ACK
      PROVE  replies = <<>> /\ ~Unread /\ Handled' = Handled /\ ~Unread' /\ Expected' = Expected
  <2>1. typed' = typed /\ sent' = sent /\ port' = port /\ ~outputFull'
    BY DEF Turn, ReadPort
  <2> QED
    BY <1>6, <1>7, <1>8, <2>1 DEF Unread, Handled, Expected
<1>9. ASSUME port # ACK PROVE replies = <<ACK>> /\ Unread
  BY <1>6, <1>7, <1>9 DEF Unread
<1> QED
  BY <1>1, <1>3, <1>4, <1>5, <1>6, <1>7, <1>8, <1>9

LEMMA WaitForACKKeeps ==
    ASSUME IInv, NEW c \in Core, NEW s, s = stack[c], StackInv(s), WaitForACK(c),
           NEW t, t = stack'[c]
    PROVE  StackInv(t)'
<1>1. Turn(c) /\ port = ACK /\ UNCHANGED <<gs_stKeyboardManager, produced>>
  BY DEF WaitForACK, driver, ghosts
<1>2. /\ s \in Seq(Frame) /\ s # <<>> /\ Head(s) = s[1] /\ s[1] \in Frame
      /\ s[1].pc \in Waiting /\ Command(s, 1) /\ Inner(s) = s[1]
      /\ Puts(s) = Puts3(s) /\ Queued(s) = produced
      /\ \A labels : Doing(s, labels) <=> s[1].pc \in labels
      /\ replies = <<>> /\ ~Unread' /\ Handled' = Handled /\ Expected' = Expected
      /\ (Unread => sent > 0)
  BY <1>1, TurnReads
<1>3. Shape(s) /\ AckInv(s) /\ LEDInv(s) /\ KeyInv(s) /\ ~outputFull'
  BY <1>1 DEF StackInv, Turn, ReadPort
<1>4. Handled \in Nat /\ stack \in [Core -> Seq(Frame)]
  BY <1>2, TypedIs, ExpectedType DEF IInv, DriverInv
<1>5. Characters(produced) = Characters(Expected.keys) /\ gs_stKeyboardManager = Expected.manager
      /\ Len(produced) + Puts3(s) = Len(Expected.keys)
  BY <1>2, <1>3 DEF KeyInv
<1>6. CASE s[1].pc = "ackCommand"
  <2> DEFINE f == [s[1] EXCEPT !.pc = "ackData", !.j = 0]
  <2>1. TakeLEDs(s[1].leds) /\ Replace(c, <<f>>)
    BY <1>2, <1>6 DEF WaitForACK
  <2>2. f \in Frame /\ f.pc = "ackData" /\ f.j = 0
    <3>1. 0 \in 0 .. MaxBytes /\ "ackData" \in PC
      BY CountAssumption DEF PC, Waiting
    <3> QED
      BY <1>2, <3>1 DEF Frame
  <2>3. t = <<f>> \o Tail(s)
    BY <1>4, <2>1, ReplaceIs
  <2> HIDE DEF f
  <2>4. /\ t \in Seq(Frame) /\ Len(t) = Len(s) /\ t[1] = f
        /\ \A i \in 2 .. Len(t) : t[i] = s[i]
    BY <1>2, <2>2, <2>3, OneInstead
  <2>5. Command(t, 1)
    BY <1>2, <2>2, <2>4 DEF Command, Waiting
  <2>6. /\ Shape(t) /\ Inner(t) = f /\ Puts(t) = Puts3(t) /\ t # <<>>
        /\ \A labels : Doing(t, labels) <=> f.pc \in labels
    BY <2>4, <2>5, WithCommand
  <2>7. option /\ s[1].leds = Locks(gs_stKeyboardManager)
    BY <1>2, <1>3, <1>6 DEF LEDInv
  <2>8. replies' = <<ACK>> /\ leds' = Locks(gs_stKeyboardManager)
    BY <1>2, <2>1, <2>7 DEF TakeLEDs
  <2>9. /\ Doing(t, Waiting) /\ ~Doing(t, {"command"}) /\ ~Doing(t, {"command", "ackCommand"})
        /\ ~Doing(t, {"ackCommand"}) /\ ~Doing(t, {"ackActivate"})
    BY <2>2, <2>6 DEF Waiting
  <2>10. AckInv(t)'
    BY <1>2, <1>3, <1>4, <2>2, <2>6, <2>8, <2>9 DEF AckInv, Doing
  <2>11. LEDInv(t)'
    BY <1>1, <2>8, <2>9 DEF LEDInv, Doing
  <2>12. KeyInv(t)'
    <3>1. Puts(t) = Puts3(s)
      BY <2>4, <2>6 DEF Puts3
    <3>2. Queued(t)' = produced'
      BY <2>2, <2>4 DEF Queued
    <3> QED
      BY <1>1, <1>2, <1>5, <3>1, <3>2 DEF KeyInv
  <2> QED
    BY <2>6, <2>10, <2>11, <2>12 DEF StackInv
<1>7. CASE s[1].pc = "ackData"
  <2>1. Replace(c, <<>>) /\ UNCHANGED <<replies, option, leds>>
    BY <1>2, <1>7 DEF WaitForACK
  <2>2. t = <<>> \o Tail(s)
    BY <1>4, <2>1, ReplaceIs
  <2>3. t \in Seq(Frame) /\ Len(t) = Len(s) - 1 /\ \A i \in 1 .. Len(t) : t[i] = s[i + 1]
    BY <1>2, <2>2, Popped
  <2>4. \/ Len(s) = 1 /\ t = <<>>
        \/ /\ Len(s) = 3 /\ Len(t) = 2 /\ t # <<>> /\ t[1].pc = "put" /\ t[2].pc = "end"
           /\ t[1] = s[2] /\ LockKey(t[1].key.scan)
    <3>1. CASE Len(s) = 1
      BY <2>3, <3>1
    <3>2. CASE Len(s) # 1
      <4>1. Len(s) = 3 /\ s[2].pc = "put" /\ LockKey(s[2].key.scan) /\ s[3].pc = "end"
        BY <1>2, <3>2 DEF Command
      <4>2. Len(t) = 2 /\ t[1] = s[2] /\ t[2] = s[3]
        BY <2>3, <4>1
      <4> QED
        BY <2>3, <4>1, <4>2
    <3> QED
      BY <3>1, <3>2
  <2>5. Idle(t)
    BY <2>4 DEF Idle
  <2>6. /\ Shape(t) /\ Puts(t) = (IF Len(t) = 2 THEN 1 ELSE 0)
        /\ \A labels \in SUBSET ({"command"} \cup Waiting) : ~Doing(t, labels)
    BY <2>3, <2>5, WithoutCommand
  <2>7. ~Doing(s, {"command", "ackCommand"})
    BY <1>2, <1>7
  <2>8. leds' = Locks(gs_stKeyboardManager') /\ replies' = <<>>
    BY <1>1, <1>2, <1>3, <2>1, <2>7 DEF LEDInv
  <2>9. /\ ~Doing(t, Waiting) /\ ~Doing(t, {"command"}) /\ ~Doing(t, {"command", "ackCommand"})
        /\ ~Doing(t, {"ackCommand"}) /\ ~Doing(t, {"ackActivate"})
    BY <2>6 DEF Waiting
  <2>10. AckInv(t)'
    BY <1>2, <1>3, <2>8, <2>9 DEF AckInv, Doing
  <2>11. LEDInv(t)'
    BY <2>8, <2>9 DEF LEDInv, Doing
  <2>12. Puts(t) = Puts3(s)
    <3>1. CASE Len(s) = 1
      <4>1. Len(t) = 0 /\ ~(1 >= 3)
        BY <2>3, <3>1
      <4> QED
        BY <2>6, <3>1, <4>1 DEF Puts3
    <3>2. CASE Len(s) = 3
      <4>1. Len(t) = 2 /\ 3 >= 3
        BY <2>3, <3>2
      <4> QED
        BY <2>6, <3>2, <4>1 DEF Puts3
    <3> QED
      BY <2>4, <3>1, <3>2
  <2>13. Characters(Queued(t)') = Characters(produced)
    <3>1. CASE Len(s) = 1 /\ t = <<>>
      BY <1>1, <3>1 DEF Queued
    <3>2. CASE Len(s) # 1
      <4>1. t # <<>> /\ t[1].pc = "put" /\ LockKey(t[1].key.scan) /\ t[1] \in Frame
        BY <2>3, <2>4, <3>2
      <4>2. Queued(t)' = Append(produced, t[1].key) /\ t[1].key \in KeyData
        BY <1>1, <4>1 DEF Queued, Frame
      <4>3. produced \in Seq(KeyData)
        BY DEF IInv, DriverInv
      <4> QED
        BY <4>1, <4>2, <4>3, CharactersOfOneMore DEF WithKey
    <3> QED
      BY <2>4, <3>1, <3>2
  <2>14. KeyInv(t)'
    BY <1>1, <1>2, <1>5, <2>12, <2>13 DEF KeyInv
  <2> QED
    BY <2>6, <2>10, <2>11, <2>14 DEF StackInv
<1>8. CASE s[1].pc = "ackActivate"
  <2> DEFINE f == kChangeKeyboardLED(LEDsOff)
  <2>1. Replace(c, <<f>>) /\ UNCHANGED <<replies, option, leds>>
    BY <1>2, <1>8 DEF WaitForACK
  <2>2. f \in Frame /\ f.pc = "command" /\ f.leds = LEDsOff /\ f.j = 0
    BY CallsAre, NoKeyIsKey
  <2>3. t = <<f>> \o Tail(s)
    BY <1>4, <2>1, ReplaceIs
  <2> HIDE DEF f
  <2>4. /\ t \in Seq(Frame) /\ Len(t) = Len(s) /\ t[1] = f
        /\ \A i \in 2 .. Len(t) : t[i] = s[i]
    BY <1>2, <2>2, <2>3, OneInstead
  <2>5. Command(t, 1)
    BY <1>2, <2>2, <2>4 DEF Command, Waiting
  <2>6. /\ Shape(t) /\ Inner(t) = f /\ Puts(t) = Puts3(t) /\ t # <<>>
        /\ \A labels : Doing(t, labels) <=> f.pc \in labels
    BY <2>4, <2>5, WithCommand
  <2>7. Locks(gs_stKeyboardManager) = LEDsOff
    BY <1>2, <1>3, <1>8 DEF LEDInv
  <2>8. /\ ~Doing(t, Waiting) /\ Doing(t, {"command"}) /\ Doing(t, {"command", "ackCommand"})
        /\ ~Doing(t, {"ackCommand"}) /\ ~Doing(t, {"ackActivate"})
    BY <2>2, <2>6 DEF Waiting
  <2>9. AckInv(t)'
    BY <1>2, <1>3, <2>1, <2>2, <2>6, <2>8 DEF AckInv, Doing
  <2>10. LEDInv(t)'
    BY <1>1, <2>2, <2>6, <2>7, <2>8 DEF LEDInv, Doing
  <2>11. KeyInv(t)'
    <3>1. Puts(t) = Puts3(s)
      BY <2>4, <2>6 DEF Puts3
    <3>2. Queued(t)' = produced'
      BY <2>2, <2>4 DEF Queued
    <3> QED
      BY <1>1, <1>2, <1>5, <3>1, <3>2 DEF KeyInv
  <2> QED
    BY <2>6, <2>9, <2>10, <2>11 DEF StackInv
<1> QED
  BY <1>2, <1>6, <1>7, <1>8 DEF Waiting

LEMMA PutOtherScanCodeKeeps ==
    ASSUME IInv, NEW c \in Core, NEW s, s = stack[c], StackInv(s), PutOtherScanCode(c),
           ~nested', NEW t, t = stack'[c]
    PROVE  StackInv(t)'
<1> DEFINE f == [s[1] EXCEPT !.j = @ + 1]
<1>1. Turn(c) /\ port # ACK /\ UNCHANGED <<produced, replies, option, leds>>
  BY DEF PutOtherScanCode
<1>2. /\ s \in Seq(Frame) /\ s # <<>> /\ Head(s) = s[1] /\ s[1] \in Frame
      /\ s[1].pc \in Waiting /\ Command(s, 1) /\ Inner(s) = s[1]
      /\ Puts(s) = Puts3(s) /\ Queued(s) = produced
      /\ \A labels : Doing(s, labels) <=> s[1].pc \in labels
      /\ s[1].j <= Handled /\ s[1].j \in Nat
      /\ Unread /\ sent > 0 /\ port = typed[sent] /\ replies = <<ACK>>
  BY <1>1, TurnReads
<1>3. Shape(s) /\ LEDInv(s) /\ KeyInv(s) /\ ReadPort /\ ~outputFull'
  BY <1>1 DEF StackInv, Turn, ReadPort
<1>4. /\ ~Unread' /\ Handled' = Handled + 1 /\ port \in Byte
      /\ Expected \in Results /\ Expected' = Then(Expected, port)
  BY <1>2, <1>3, ByteIsHandled
<1>5. Handled \in Nat /\ Len(s) \in {1, 3}
  BY <1>2, ExpectedType, TypedIs, WithCommand
<1>6. gs_stKeyboardManager = Expected.manager /\ Characters(produced) = Characters(Expected.keys)
      /\ Len(produced) + Puts3(s) = Len(Expected.keys)
  BY <1>2, <1>3 DEF KeyInv
<1>7. PICK r \in kConvertScanCodeToASCIICode(gs_stKeyboardManager, port) :
        /\ gs_stKeyboardManager' = r.manager
        /\ Replace(c, Convert(r) \o <<f>>)
        /\ nested' = (nested \/ r.led)
  BY <1>2 DEF PutOtherScanCode
<1>8. r \in Conversion /\ ~r.led
  BY <1>4, <1>7, ConversionType DEF IInv, DriverInv
<1>9. /\ r.manager = Expected'.manager /\ Locks(r.manager) = Locks(gs_stKeyboardManager)
      /\ \/ r.keys = <<>> /\ Expected'.keys = Expected.keys
         \/ \E k : /\ OneKey(r, k)
                   /\ Len(Expected'.keys) = Len(Expected.keys) + 1
                   /\ Characters(Expected'.keys) = WithKey(Characters(Expected.keys), k)
  BY <1>4, <1>6, <1>7, <1>8, ConvertedAsExpected
<1>10. f \in Frame /\ f.pc = s[1].pc /\ f.leds = s[1].leds /\ f.j = s[1].j + 1
  <2>1. s[1].j + 1 \in 0 .. MaxBytes
    BY <1>1, <1>2, CountAssumption DEF Turn
  <2> QED
    BY <1>2, <2>1 DEF Frame
<1> HIDE DEF f
<1>11. f.j <= Handled' /\ f.pc # "put"
  BY <1>2, <1>4, <1>5, <1>10 DEF Waiting
<1>12. stack \in [Core -> Seq(Frame)]
  BY DEF IInv, DriverInv
<1>13. ASSUME t \in Seq(Frame), Inner(t) = f, t # <<>>,
              \A labels : Doing(t, labels) <=> f.pc \in labels
       PROVE  AckInv(t)' /\ LEDInv(t)'
  <2>1. Doing(t, Waiting) /\ ~Doing(t, {"command"})
    BY <1>2, <1>10, <1>13 DEF Waiting
  <2>2. AckInv(t)'
    BY <1>1, <1>2, <1>3, <1>4, <1>11, <1>13, <2>1 DEF AckInv, Doing
  <2>3. \A labels : Doing(t, labels) <=> Doing(s, labels)
    BY <1>2, <1>10, <1>13
  <2>4. LEDInv(t)'
    BY <1>1, <1>2, <1>3, <1>7, <1>9, <1>10, <1>13, <2>3 DEF LEDInv, Doing
  <2> QED
    BY <2>2, <2>4
<1>14. CASE r.keys = <<>> /\ Expected'.keys = Expected.keys
  <2>1. Convert(r) = <<>>
    BY <1>8, <1>14, ConvertIs
  <2>2. <<>> \o <<f>> = <<f>>
    BY <1>10
  <2>3. t = <<f>> \o Tail(s)
    BY <1>7, <1>12, <2>1, <2>2, ReplaceIs
  <2>4. /\ t \in Seq(Frame) /\ Len(t) = Len(s) /\ t[1] = f
        /\ \A i \in 2 .. Len(t) : t[i] = s[i]
    BY <1>2, <1>10, <2>3, OneInstead
  <2>5. Command(t, 1)
    BY <1>2, <1>10, <2>4 DEF Command
  <2>6. /\ Shape(t) /\ Inner(t) = f /\ Puts(t) = Puts3(t) /\ t # <<>>
        /\ \A labels : Doing(t, labels) <=> f.pc \in labels
    BY <2>4, <2>5, WithCommand
  <2>7. KeyInv(t)'
    <3>1. Puts(t) = Puts3(s)
      BY <2>4, <2>6 DEF Puts3
    <3>2. Queued(t)' = produced'
      BY <1>11, <2>4 DEF Queued
    <3> QED
      BY <1>1, <1>6, <1>7, <1>9, <1>14, <3>1, <3>2 DEF KeyInv
  <2> QED
    BY <1>13, <2>4, <2>6, <2>7 DEF StackInv
<1>15. CASE \E k : /\ OneKey(r, k)
                   /\ Len(Expected'.keys) = Len(Expected.keys) + 1
                   /\ Characters(Expected'.keys) = WithKey(Characters(Expected.keys), k)
  <2>1. PICK k : /\ OneKey(r, k)
                 /\ Len(Expected'.keys) = Len(Expected.keys) + 1
                 /\ Characters(Expected'.keys) = WithKey(Characters(Expected.keys), k)
    BY <1>15
  <2>2. PICK p : p = PutKey(k)
    OBVIOUS
  <2>3. p \in Frame /\ p.pc = "put" /\ p.key = k /\ k \in KeyData
    BY <2>1, <2>2, CallsAre DEF OneKey
  <2>4. Convert(r) = <<p>>
    BY <1>8, <2>1, <2>2, ConvertIs DEF OneKey
  <2>5. <<p>> \o <<f>> = <<p, f>>
    BY TwoCalls
  <2>6. t = <<p, f>> \o Tail(s)
    BY <1>7, <1>12, <2>4, <2>5, ReplaceIs
  <2>7. /\ t \in Seq(Frame) /\ Len(t) = Len(s) + 1 /\ t[1] = p /\ t[2] = f
        /\ \A i \in 3 .. Len(t) : t[i] = s[i - 1]
    BY <1>2, <1>10, <2>3, <2>6, TwoInstead
  <2>8. Command(t, 2)
    <3>1. CASE Len(s) = 1
      BY <1>2, <1>10, <2>7, <3>1 DEF Command
    <3>2. CASE Len(s) = 3
      <4>1. Len(t) = 4 /\ t[3] = s[2] /\ t[4] = s[3]
        BY <2>7, <3>2
      <4>2. s[2].pc = "put" /\ LockKey(s[2].key.scan) /\ s[3].pc = "end"
        BY <1>2, <3>2 DEF Command
      <4>3. t[2].pc \in {"command"} \cup Waiting
        BY <1>2, <1>10, <2>7
      <4>4. t[3].pc = "put" /\ LockKey(t[3].key.scan) /\ t[4].pc = "end"
        BY <4>1, <4>2
      <4>5. Len(t) = 2 + 2 /\ t[2 + 1] = t[3] /\ t[2 + 2] = t[4]
        BY <4>1
      <4> QED
        BY <4>3, <4>4, <4>5, Zenon DEF Command
    <3> QED
      BY <1>5, <3>1, <3>2
  <2>9. /\ Shape(t) /\ Inner(t) = f /\ Puts(t) = 1 + Puts3(t) /\ t # <<>>
        /\ \A labels : Doing(t, labels) <=> f.pc \in labels
    BY <1>2, <1>10, <2>3, <2>7, <2>8, WithKeyOnWait
  <2>10. Puts3(t) = Puts3(s)
    <3>1. CASE Len(s) = 1
      <4>1. Len(t) = 2 /\ ~(2 >= 3) /\ ~(1 >= 3)
        BY <2>7, <3>1
      <4> QED
        BY <3>1, <4>1 DEF Puts3
    <3>2. CASE Len(s) = 3
      <4>1. Len(t) = 4 /\ 4 >= 3 /\ 3 >= 3
        BY <2>7, <3>2
      <4> QED
        BY <3>2, <4>1 DEF Puts3
    <3> QED
      BY <1>5, <3>1, <3>2
  <2>11. Queued(t)' = Append(produced, k)
    BY <1>1, <2>3, <2>7, <2>9 DEF Queued
  <2>12. Characters(Append(produced, k)) = WithKey(Characters(produced), k)
    BY <2>3, CharactersOfOneMore DEF IInv, DriverInv
  <2>13. KeyInv(t)'
    <3>1. Len(produced) \in Nat /\ Puts3(s) \in Nat /\ Len(Expected.keys) \in Nat
      <4>1. produced \in Seq(KeyData) /\ Expected.keys \in Seq(KeyData)
        BY <1>4 DEF IInv, DriverInv, Results
      <4> QED
        BY <4>1 DEF Puts3
    <3>2. Len(produced') + Puts(t) = Len(Expected'.keys)
      BY <1>1, <1>6, <2>1, <2>9, <2>10, <3>1
    <3> QED
      BY <1>6, <1>7, <1>9, <2>1, <2>11, <2>12, <3>2 DEF KeyInv
  <2> QED
    BY <1>13, <2>7, <2>9, <2>13 DEF StackInv
<1> QED
  BY <1>9, <1>14, <1>15

LEMMA PutKeeps ==
    ASSUME IInv, NEW c \in Core, NEW s, s = stack[c], StackInv(s), Put(c),
           NEW t, t = stack'[c]
    PROVE  StackInv(t)'
<1>1. /\ s \in Seq(Frame) /\ s # <<>> /\ Head(s) = s[1] /\ s[1].pc = "put"
      /\ s[1] \in Frame /\ produced \in Seq(KeyData)
  BY DEF Put, At, IInv, DriverInv
<1>2. Shape(s) /\ AckInv(s) /\ LEDInv(s) /\ KeyInv(s)
  BY DEF StackInv
<1>3. /\ produced' = Append(produced, s[1].key) /\ Replace(c, <<>>)
      /\ UNCHANGED <<gs_stKeyboardManager, device>>
  BY <1>1 DEF Put
<1>4. Unread' = Unread /\ Handled' = Handled /\ Expected' = Expected
  BY <1>3 DEF Unread, Handled, Expected, device
<1>5. t = <<>> \o Tail(s)
  BY <1>3, ReplaceIs DEF IInv, DriverInv
<1>6. t \in Seq(Frame) /\ Len(t) = Len(s) - 1 /\ \A i \in 1 .. Len(t) : t[i] = s[i + 1]
  BY <1>1, <1>5, Popped
<1>7. /\ Queued(s) = produced' /\ Len(produced') = Len(produced) + 1
      /\ gs_stKeyboardManager = Expected.manager
      /\ Characters(produced') = Characters(Expected.keys)
      /\ Len(produced) + Puts(s) = Len(Expected.keys)
      /\ Len(produced) \in Nat
  <2>1. s[1].key \in KeyData
    BY <1>1 DEF Frame
  <2>2. Len(Append(produced, s[1].key)) = Len(produced) + 1 /\ Len(produced) \in Nat
    BY <1>1, <2>1
  <2>3. Queued(s) = Append(produced, s[1].key)
    BY <1>1 DEF Queued
  <2> QED
    BY <1>2, <1>3, <2>2, <2>3 DEF KeyInv
<1>8. CASE Len(s) = 2 /\ s[2].pc = "end"
  <2>1. Len(t) = 1 /\ t[1] = s[2] /\ t # <<>>
    BY <1>6, <1>8
  <2>2. Idle(t) /\ Idle(s)
    BY <1>1, <1>8, <2>1 DEF Idle, Handling
  <2>3. /\ Shape(t) /\ Puts(t) = 0 /\ Puts(s) = 1
        /\ \A labels \in SUBSET ({"command"} \cup Waiting) : ~Doing(t, labels) /\ ~Doing(s, labels)
    BY <1>1, <1>6, <1>8, <2>1, <2>2, WithoutCommand
  <2>4. /\ ~Doing(t, Waiting) /\ ~Doing(t, {"command"}) /\ ~Doing(t, {"command", "ackCommand"})
        /\ ~Doing(t, {"ackCommand"}) /\ ~Doing(t, {"ackActivate"})
        /\ ~Doing(s, Waiting) /\ ~Doing(s, {"command", "ackCommand"})
    BY <2>3 DEF Waiting
  <2>5. AckInv(t)' /\ LEDInv(t)'
    BY <1>2, <1>3, <1>4, <2>4 DEF AckInv, LEDInv, Doing, device
  <2>6. Queued(t)' = produced'
    BY <1>8, <2>1 DEF Queued
  <2>7. KeyInv(t)'
    BY <1>3, <1>4, <1>7, <2>3, <2>6 DEF KeyInv
  <2> QED
    BY <2>3, <2>5, <2>7 DEF StackInv
<1>9. CASE s[2].pc \in Waiting /\ Command(s, 2)
  <2>1. /\ Len(s) \in {2, 4} /\ s[2] \in Frame /\ Inner(s) = s[2] /\ Puts(s) = 1 + Puts3(s)
        /\ \A labels : Doing(s, labels) <=> s[2].pc \in labels
    BY <1>1, <1>9, WithKeyOnWait
  <2>2. t[1] = s[2] /\ t # <<>> /\ Len(t) \in {1, 3} /\ (Len(t) = 1 <=> Len(s) = 2)
    BY <1>6, <2>1
  <2>3. Command(t, 1) /\ Puts3(t) = Puts3(s)
    <3>1. CASE Len(s) = 2
      <4>1. Len(t) = 1 /\ ~(2 >= 3) /\ ~(1 >= 3)
        BY <1>6, <3>1
      <4> QED
        BY <1>9, <2>2, <3>1, <4>1 DEF Command, Puts3
    <3>2. CASE Len(s) = 4
      <4>1. Len(t) = 3 /\ 4 >= 3 /\ 3 >= 3 /\ t[2] = s[3] /\ t[3] = s[4]
        BY <1>6, <3>2
      <4>2. s[3].pc = "put" /\ LockKey(s[3].key.scan) /\ s[4].pc = "end"
        BY <1>9, <3>2 DEF Command
      <4>3. Len(t) = 1 + 2 /\ t[1 + 1] = t[2] /\ t[1 + 2] = t[3]
        BY <4>1
      <4>4. t[1].pc \in {"command"} \cup Waiting
        BY <1>9, <2>2
      <4>5. Command(t, 1)
        BY <4>1, <4>2, <4>3, <4>4, Zenon DEF Command
      <4> QED
        BY <3>2, <4>1, <4>5 DEF Puts3
    <3> QED
      BY <2>1, <3>1, <3>2
  <2>4. /\ Shape(t) /\ Inner(t) = t[1] /\ Puts(t) = Puts3(t) /\ t[1].pc # "put"
        /\ \A labels : Doing(t, labels) <=> t[1].pc \in labels
    BY <1>6, <2>3, WithCommand
  <2>5. Inner(t) = Inner(s) /\ \A labels : Doing(t, labels) <=> Doing(s, labels)
    BY <2>1, <2>2, <2>4
  <2>6. AckInv(t)' /\ LEDInv(t)'
    BY <1>2, <1>3, <1>4, <2>5 DEF AckInv, LEDInv, Doing, device
  <2>7. Queued(t)' = produced'
    BY <2>4 DEF Queued
  <2>8. Len(produced') + Puts(t) = Len(Expected'.keys)
    <3>1. Puts3(s) \in Nat
      BY DEF Puts3
    <3> QED
      BY <1>4, <1>7, <2>1, <2>3, <2>4, <3>1
  <2>9. KeyInv(t)'
    BY <1>3, <1>4, <1>7, <2>7, <2>8 DEF KeyInv
  <2> QED
    BY <2>4, <2>6, <2>9 DEF StackInv
<1> QED
  BY <1>1, <1>2, <1>8, <1>9, ShapeIs

\* The handler enters, sees whether there is a byte, and returns.
LEMMA HandlerKeeps ==
    ASSUME IInv, NEW s \in Seq(Frame), StackInv(s), NEW t \in Seq(Frame),
           s = <<>> \/ (Len(s) = 1 /\ s[1].pc \in Handling),
           t = <<>> \/ (Len(t) = 1 /\ t[1].pc \in Handling),
           UNCHANGED <<gs_stKeyboardManager, device, produced>>
    PROVE  StackInv(t)'
<1>1. Idle(s) /\ Idle(t) /\ Len(s) # 2 /\ Len(t) # 2
  BY DEF Idle
<1>2. /\ Shape(t) /\ Puts(t) = 0 /\ Puts(s) = 0
      /\ \A labels \in SUBSET ({"command"} \cup Waiting) : ~Doing(t, labels) /\ ~Doing(s, labels)
  BY <1>1, WithoutCommand
<1>3. /\ ~Doing(t, Waiting) /\ ~Doing(t, {"command"}) /\ ~Doing(t, {"command", "ackCommand"})
      /\ ~Doing(t, {"ackCommand"}) /\ ~Doing(t, {"ackActivate"})
      /\ ~Doing(s, Waiting) /\ ~Doing(s, {"command", "ackCommand"})
  BY <1>2 DEF Waiting
<1>4. Unread' = Unread /\ Handled' = Handled /\ Expected' = Expected
  BY DEF Unread, Handled, Expected, device
<1>5. AckInv(t)' /\ LEDInv(t)'
  BY <1>3, <1>4 DEF StackInv, AckInv, LEDInv, Doing, device
<1>6. Queued(s) = produced /\ Queued(t)' = produced'
  BY DEF Queued, Handling
<1>7. KeyInv(t)'
  BY <1>2, <1>4, <1>6 DEF StackInv, KeyInv
<1> QED
  BY <1>2, <1>5, <1>7 DEF StackInv

LEMMA OneMoreCall ==
    ASSUME NEW x \in Seq(Frame), NEW e \in Frame, NEW t, t = Append(x, e)
    PROVE  /\ t \in Seq(Frame) /\ Len(t) = Len(x) + 1
           /\ \A i \in 1 .. Len(x) : t[i] = x[i]
           /\ t[Len(x) + 1] = e
<1>1. /\ Append(x, e) \in Seq(Frame) /\ Len(Append(x, e)) = Len(x) + 1
      /\ \A i \in 1 .. Len(x) : Append(x, e)[i] = x[i]
      /\ Append(x, e)[Len(x) + 1] = e
  OBVIOUS
<1> QED
  BY <1>1, Zenon

LEMMA ScanCodeKeeps ==
    ASSUME IInv, NEW c \in Core, NEW s, s = stack[c], StackInv(s), kGetKeyboardScanCode(c),
           NEW t, t = stack'[c]
    PROVE  StackInv(t)'
<1>1. /\ s \in Seq(Frame) /\ s # <<>> /\ Head(s) = s[1] /\ s[1].pc = "scan"
      /\ outputFull /\ produced \in Seq(KeyData)
  BY DEF kGetKeyboardScanCode, At, IInv, DriverInv
<1>2. Shape(s) /\ AckInv(s) /\ LEDInv(s) /\ KeyInv(s)
  BY DEF StackInv
<1>3. Len(s) = 1 /\ Idle(s)
  BY <1>1, <1>2, ShapeIs DEF Idle, Handling
<1>4. Puts(s) = 0 /\ ~Doing(s, Waiting) /\ ~Doing(s, {"command", "ackCommand"})
  <2>1. Len(s) # 2
    BY <1>3
  <2>2. Puts(s) = 0
    BY <1>1, <1>3, <2>1, WithoutCommand
  <2>3. ~Doing(s, Waiting) /\ ~Doing(s, {"command", "ackCommand"})
    BY <1>1, <1>3, WithoutCommand DEF Waiting
  <2> QED
    BY <2>2, <2>3
<1>5. /\ replies = <<>> /\ port # ACK /\ (Unread => sent > 0 /\ port = typed[sent])
      /\ leds = Locks(gs_stKeyboardManager) /\ Unread
  BY <1>1, <1>2, <1>4 DEF AckInv, LEDInv, Unread
<1>6. ReadPort /\ ~outputFull' /\ UNCHANGED <<replies, option, leds, produced>>
  BY DEF kGetKeyboardScanCode, ReadPort, ghosts
<1>7. /\ ~Unread' /\ Handled' = Handled + 1 /\ port \in Byte
      /\ Expected \in Results /\ Expected' = Then(Expected, port)
  BY <1>5, <1>6, ByteIsHandled
<1>8. gs_stKeyboardManager = Expected.manager /\ Characters(produced) = Characters(Expected.keys)
      /\ Len(produced) = Len(Expected.keys)
  <2>1. Queued(s) = produced
    BY <1>1 DEF Queued
  <2> QED
    BY <1>1, <1>2, <1>4, <2>1 DEF KeyInv
<1>9. PICK r \in kConvertScanCodeToASCIICode(gs_stKeyboardManager, port) :
        /\ gs_stKeyboardManager' = r.manager
        /\ Replace(c, Convert(r) \o <<Call("end")>>)
  BY DEF kGetKeyboardScanCode
<1>10. r \in Conversion /\ Locks(r.manager) \in LED
  <2>1. r \in Conversion
    BY <1>7, <1>9, ConversionType DEF IInv, DriverInv
  <2> QED
    BY <2>1 DEF Conversion, Locks, LED, KEYBOARDMANAGER
<1>11. /\ r.manager = Expected'.manager
       /\ ~r.led => Locks(r.manager) = Locks(gs_stKeyboardManager)
       /\ \/ r.keys = <<>> /\ ~r.led /\ Expected'.keys = Expected.keys
          \/ \E k : /\ OneKey(r, k)
                    /\ Len(Expected'.keys) = Len(Expected.keys) + 1
                    /\ Characters(Expected'.keys) = WithKey(Characters(Expected.keys), k)
  BY <1>7, <1>8, <1>9, ConvertedAsExpected
<1>12. PICK e : e = Call("end")
  OBVIOUS
<1>13. e \in Frame /\ e.pc = "end"
  BY <1>12, CallsAre DEF PC
<1>14. t = Convert(r) \o <<e>>
  <2>1. Convert(r) \o <<e>> \in Seq(Frame)
    <3>1. Convert(r) \in Seq(Frame) /\ <<e>> \in Seq(Frame)
      BY <1>10, <1>13, ConvertType
    <3> QED
      BY <3>1
  <2>2. Tail(s) = <<>>
    <3>1. Tail(s) \in Seq(Frame) /\ Len(Tail(s)) = 0
      BY <1>1, <1>3
    <3>2. ASSUME NEW x \in Seq(Frame), Len(x) = 0 PROVE x = <<>>
      BY <3>2
    <3> QED
      BY <3>1, <3>2
  <2>3. t = (Convert(r) \o <<e>>) \o Tail(s)
    BY <1>9, <1>12, ReplaceIs DEF IInv, DriverInv
  <2>4. ASSUME NEW x \in Seq(Frame) PROVE x \o <<>> = x
    OBVIOUS
  <2> QED
    BY <2>1, <2>2, <2>3, <2>4
<1>15. ASSUME t \in Seq(Frame), Idle(t), ~r.led PROVE AckInv(t)' /\ LEDInv(t)'
  <2>1. /\ ~Doing(t, Waiting) /\ ~Doing(t, {"command"}) /\ ~Doing(t, {"command", "ackCommand"})
        /\ ~Doing(t, {"ackCommand"}) /\ ~Doing(t, {"ackActivate"})
    BY <1>15, WithoutCommand DEF Waiting
  <2>2. leds' = Locks(gs_stKeyboardManager)'
    BY <1>5, <1>6, <1>9, <1>11, <1>15
  <2> QED
    BY <1>5, <1>6, <1>7, <2>1, <2>2 DEF AckInv, LEDInv, Doing
<1>16. CASE r.keys = <<>> /\ ~r.led /\ Expected'.keys = Expected.keys
  <2>1. Convert(r) = <<>>
    BY <1>10, <1>16, ConvertIs
  <2>2. t = <<e>>
    BY <1>14, <2>1, TwoCalls
  <2>3. t \in Seq(Frame) /\ Len(t) = 1 /\ t[1] = e /\ t # <<>>
    BY <1>13, <2>2
  <2>4. Idle(t)
    BY <1>13, <2>3 DEF Idle, Handling
  <2>5. Len(t) # 2
    BY <2>3
  <2>6. Shape(t) /\ Puts(t) = 0
    BY <2>3, <2>4, <2>5, WithoutCommand
  <2>7. Queued(t)' = produced'
    BY <1>13, <2>3 DEF Queued
  <2>8. Len(produced) + 0 = Len(produced)
    BY <1>1
  <2>9. KeyInv(t)'
    BY <1>6, <1>8, <1>9, <1>11, <1>16, <2>6, <2>7, <2>8 DEF KeyInv
  <2> QED
    BY <1>15, <1>16, <2>3, <2>4, <2>6, <2>9 DEF StackInv
<1>17. CASE \E k : /\ OneKey(r, k)
                   /\ Len(Expected'.keys) = Len(Expected.keys) + 1
                   /\ Characters(Expected'.keys) = WithKey(Characters(Expected.keys), k)
  <2>1. PICK k : /\ OneKey(r, k)
                 /\ Len(Expected'.keys) = Len(Expected.keys) + 1
                 /\ Characters(Expected'.keys) = WithKey(Characters(Expected.keys), k)
    BY <1>17
  <2>2. PICK p : p = PutKey(k)
    OBVIOUS
  <2>3. p \in Frame /\ p.pc = "put" /\ p.key = k /\ k \in KeyData
    BY <2>1, <2>2, CallsAre DEF OneKey
  <2>4. /\ Characters(Append(produced, k)) = WithKey(Characters(produced), k)
        /\ Len(produced) + 1 = Len(Expected'.keys)
    BY <1>1, <1>8, <2>1, <2>3, CharactersOfOneMore
  <2>5. CASE ~r.led
    <3>1. Convert(r) = <<p>>
      BY <1>10, <2>1, <2>2, <2>5, ConvertIs DEF OneKey
    <3>2. t = <<p, e>>
      BY <1>14, <3>1, TwoCalls
    <3>3. t \in Seq(Frame) /\ Len(t) = 2 /\ t[1] = p /\ t[2] = e /\ t # <<>>
      BY <1>13, <2>3, <3>2
    <3>4. Idle(t)
      BY <1>13, <2>3, <3>3 DEF Idle
    <3>5. Shape(t) /\ Puts(t) = 1
      BY <3>3, <3>4, WithoutCommand
    <3>6. Queued(t)' = Append(produced, k)
      BY <1>6, <2>3, <3>3 DEF Queued
    <3>7. KeyInv(t)'
      BY <1>6, <1>8, <1>9, <1>11, <2>1, <2>4, <3>5, <3>6 DEF KeyInv
    <3> QED
      BY <1>15, <2>5, <3>3, <3>4, <3>5, <3>7 DEF StackInv
  <2>6. CASE r.led
    <3>1. PICK q : q = kChangeKeyboardLED(Locks(r.manager))
      OBVIOUS
    <3>2. q \in Frame /\ q.pc = "command" /\ q.leds = Locks(r.manager) /\ q.j = 0
      BY <1>10, <3>1, CallsAre
    <3>3. Convert(r) = <<q, p>>
      BY <1>10, <2>1, <2>2, <2>6, <3>1, ConvertIs DEF OneKey
    <3>4. <<q, p>> \o <<e>> = Append(<<q, p>>, e)
      BY <1>13, <2>3, <3>2
    <3>5. t = Append(<<q, p>>, e)
      BY <1>14, <3>3, <3>4
    <3>6. t \in Seq(Frame) /\ Len(t) = 3 /\ t[1] = q /\ t[2] = p /\ t[3] = e /\ t # <<>>
      <4>1. PICK x : x = <<q, p>>
        OBVIOUS
      <4>2. x \in Seq(Frame) /\ Len(x) = 2 /\ x[1] = q /\ x[2] = p
        BY <2>3, <3>2, <4>1
      <4>3. t = Append(x, e)
        BY <3>5, <4>1
      <4>4. /\ t \in Seq(Frame) /\ Len(t) = Len(x) + 1
            /\ \A i \in 1 .. Len(x) : t[i] = x[i]
            /\ t[Len(x) + 1] = e
        BY <1>13, <4>2, <4>3, OneMoreCall
      <4>5. 1 \in 1 .. Len(x) /\ 2 \in 1 .. Len(x) /\ Len(x) + 1 = 3
        BY <4>2
      <4>6. t \in Seq(Frame) /\ Len(t) = 3 /\ t[1] = q /\ t[2] = p /\ t[3] = e
        BY <4>2, <4>4, <4>5
      <4> QED
        BY <4>6
    <3>7. LockKey(p.key.scan)
      BY <2>1, <2>3, <2>6 DEF OneKey
    <3>8. Command(t, 1)
      <4>1. Len(t) = 1 + 2 /\ t[1 + 1] = p /\ t[1 + 2] = e
        BY <3>6
      <4>2. t[1].pc \in {"command"} \cup Waiting
        BY <3>2, <3>6
      <4> QED
        BY <1>13, <2>3, <3>7, <4>1, <4>2, Zenon DEF Command
    <3>9. /\ Shape(t) /\ Inner(t) = q /\ Puts(t) = Puts3(t)
          /\ \A labels : Doing(t, labels) <=> q.pc \in labels
      BY <3>6, <3>8, WithCommand
    <3>10. Puts(t) = 1
      BY <3>6, <3>9 DEF Puts3
    <3>11. /\ ~Doing(t, Waiting) /\ Doing(t, {"command"}) /\ Doing(t, {"command", "ackCommand"})
           /\ ~Doing(t, {"ackCommand"}) /\ ~Doing(t, {"ackActivate"})
      BY <3>2, <3>9 DEF Waiting
    <3>12. AckInv(t)'
      BY <1>5, <1>6, <1>7, <3>2, <3>9, <3>11 DEF AckInv, Doing
    <3>13. LEDInv(t)'
      BY <1>9, <3>2, <3>9, <3>11 DEF LEDInv, Doing
    <3>14. Queued(t)' = produced'
      BY <3>2, <3>6 DEF Queued
    <3>15. WithKey(Characters(produced), k) = Characters(produced)
      BY <2>3, <3>7 DEF WithKey
    <3>16. KeyInv(t)'
      BY <1>6, <1>8, <1>9, <1>11, <2>1, <2>4, <3>10, <3>14, <3>15 DEF KeyInv
    <3> QED
      BY <3>9, <3>12, <3>13, <3>16 DEF StackInv
  <2> QED
    BY <2>5, <2>6
<1> QED
  BY <1>11, <1>16, <1>17

LEMMA AsExpectedAtFirst == Init => KInv
<1> SUFFICES ASSUME Init PROVE KInv
  OBVIOUS
<1>1. IInv
  BY InitEstablishes
<1>2. PICK f : f = Call("ackActivate")
  OBVIOUS
<1>3. f \in Frame /\ f.pc = "ackActivate" /\ f.j = 0
  BY <1>2, CallsAre DEF PC, Waiting
<1>4. PICK s : s = <<f>>
  OBVIOUS
<1>5. s \in Seq(Frame) /\ Len(s) = 1 /\ s[1] = f /\ s # <<>>
  BY <1>3, <1>4
<1>6. stack[0] = s /\ \A d \in Core \ {0} : stack[d] = <<>>
  BY <1>2, <1>4, BootCore DEF Init
<1>7. Command(s, 1)
  BY <1>3, <1>5 DEF Command, Waiting
<1>8. /\ Shape(s) /\ Inner(s) = f /\ Puts(s) = Puts3(s)
      /\ \A labels : Doing(s, labels) <=> f.pc \in labels
  BY <1>5, <1>7, WithCommand
<1>9. Puts(s) = 0
  <2>1. ~(1 >= 3)
    OBVIOUS
  <2> QED
    BY <1>5, <1>8, <2>1 DEF Puts3
<1>10. ~Unread /\ Handled = 0 /\ Expected = FirstResult
  <2>1. ~Unread /\ Handled = 0
    BY DEF Init, Unread, Handled
  <2> QED
    BY <1>1, <2>1, TypedIs, OneByOneIs DEF Expected
<1>11. AckInv(s)
  <2>1. Doing(s, Waiting) /\ ~Doing(s, {"command"})
    BY <1>3, <1>8 DEF Waiting
  <2> QED
    BY <1>3, <1>8, <1>10, <2>1 DEF AckInv, Init
<1>12. LEDInv(s)
  <2>1. ~Doing(s, {"command", "ackCommand"}) /\ ~Doing(s, {"ackCommand"})
    BY <1>3, <1>8
  <2>2. Locks(gs_stKeyboardManager) = LEDsOff /\ leds = LEDsOff
    BY DEF Init, Locks, NothingHeld, LEDsOff
  <2> QED
    BY <2>1, <2>2 DEF LEDInv
<1>13. KeyInv(s)
  <2>1. Queued(s) = <<>> /\ produced = <<>>
    BY <1>3, <1>5 DEF Queued, Init
  <2>2. Expected.manager = NothingHeld /\ Expected.keys = <<>>
    BY <1>10 DEF FirstResult
  <2>3. Len(<<>>) + 0 = Len(<<>>)
    OBVIOUS
  <2> QED
    BY <1>9, <2>1, <2>2, <2>3 DEF KeyInv, Init
<1> QED
  BY <1>6, <1>8, <1>11, <1>12, <1>13, BootCore DEF KInv, StackInv

\* Once disturbed, disturbed for good.
LEMMA DisturbedStays == ASSUME IInv, Next, Undisturbed' PROVE Undisturbed
<1>1. ASSUME NEW c \in Core, Driver(c) PROVE Undisturbed
  <2>1. CASE PutOtherScanCode(c)
    <3>1. PICK r : nested' = (nested \/ r.led)
      BY <2>1, Zenon DEF PutOtherScanCode
    <3>2. overlap' = overlap
      BY <2>1 DEF PutOtherScanCode
    <3> QED
      BY <3>1, <3>2 DEF Undisturbed
  <2>2. CASE kKeyboardHandler(c)
    BY <2>2 DEF kKeyboardHandler, Undisturbed
  <2>3. CASE ~PutOtherScanCode(c) /\ ~kKeyboardHandler(c)
    <3>1. nested' = nested /\ overlap' = overlap
      BY <1>1, <2>3 DEF Driver, SendCommand, WaitForACK, GiveUp, Put, kIsOutputBufferFull,
         kGetKeyboardScanCode, EndOfHandler, ghosts
    <3> QED
      BY <3>1 DEF Undisturbed
  <2> QED
    BY <2>1, <2>2, <2>3
<1> QED
  BY <1>1 DEF Next, Type, Answer, Emit, EnableInterrupt, kGetCh, ghosts, Undisturbed

\* Only the core that has calls goes on with them.
LEMMA CallsOfOneCore ==
    ASSUME IInv, NEW c \in Core, Driver(c), ~kKeyboardHandler(c)
    PROVE  stack[c] # <<>> /\ \A d \in Core \ {c} : stack'[d] = stack[d]
<1>1. stack[c] # <<>>
  BY DEF Driver, SendCommand, WaitForACK, PutOtherScanCode, GiveUp, Put,
     kIsOutputBufferFull, kGetKeyboardScanCode, EndOfHandler, At, Turn
<1>2. \E calls : Replace(c, calls)
  <2>1. ASSUME SendCommand(c) \/ kIsOutputBufferFull(c) PROVE \E calls : Replace(c, calls)
    BY <2>1 DEF SendCommand, kIsOutputBufferFull, Goto
  <2>2. ASSUME GiveUp(c) \/ Put(c) \/ EndOfHandler(c) PROVE \E calls : Replace(c, calls)
    BY <2>2 DEF GiveUp, Put, EndOfHandler
  <2>3. ASSUME PutOtherScanCode(c) \/ kGetKeyboardScanCode(c)
        PROVE  \E calls : Replace(c, calls)
    BY <2>3, Zenon DEF PutOtherScanCode, kGetKeyboardScanCode
  <2>4. ASSUME WaitForACK(c) PROVE \E calls : Replace(c, calls)
    <3>1. CASE Head(stack[c]).pc = "ackCommand"
      BY <2>4, <3>1 DEF WaitForACK
    <3>2. CASE Head(stack[c]).pc = "ackData"
      BY <2>4, <3>2 DEF WaitForACK
    <3>3. CASE Head(stack[c]).pc = "ackActivate"
      BY <2>4, <3>3 DEF WaitForACK
    <3> QED
      BY <2>4, <3>1, <3>2, <3>3 DEF WaitForACK, Turn, Waiting
  <2> QED
    BY <2>1, <2>2, <2>3, <2>4 DEF Driver
<1> QED
  BY <1>1, <1>2, ReplaceIs DEF IInv, DriverInv

LEMMA AsExpectedAfter ==
    ASSUME IInv, NEW c \in Core, NEW s, s = stack[c], StackInv(s), Driver(c),
           ~kKeyboardHandler(c), NEW t, t = stack'[c], ~nested'
    PROVE  StackInv(t)'
<1>1. s \in Seq(Frame) /\ s # <<>> /\ Shape(s) /\ AckInv(s)
  BY CallsOfOneCore DEF StackInv, IInv, DriverInv
<1>2. t \in Seq(Frame)
  BY StepPreserves DEF Next, IInv, DriverInv
<1>3. ~GiveUp(c)
  <2> SUFFICES ASSUME GiveUp(c) PROVE FALSE
    OBVIOUS
  <2>1. s[1].pc \in Waiting /\ s[1].j = MaxBytes
    BY <1>1 DEF GiveUp
  <2>2. Inner(s) = s[1] /\ Doing(s, Waiting)
    BY <1>1, <2>1, ShapeIs, WithCommand
  <2>3. s[1].j <= Handled /\ Handled \in 0 .. sent
    BY <1>1, <2>2, ExpectedType DEF AckInv
  <2> QED
    BY <2>1, <2>3, TypedIs
<1>4. CASE kIsOutputBufferFull(c)
  <2> DEFINE f == [s[1] EXCEPT !.pc = IF outputFull THEN "scan" ELSE "end"]
  <2>1. s[1].pc = "status" /\ s[1] \in Frame /\ Head(s) = s[1]
    BY <1>1, <1>4 DEF kIsOutputBufferFull, At
  <2>2. f \in Frame /\ f.pc \in {"scan", "end"}
    BY <2>1 DEF Frame, PC
  <2>3. t = <<f>> \o Tail(s)
    BY <1>4, <2>1, ReplaceIs DEF kIsOutputBufferFull, Goto, IInv, DriverInv
  <2> HIDE DEF f
  <2>4. Len(t) = Len(s) /\ t[1] = f
    BY <1>1, <2>2, <2>3, OneInstead
  <2>5. Len(s) = 1 /\ s[1].pc \in Handling
    BY <1>1, <2>1, ShapeIs DEF Handling
  <2>6. Len(t) = 1 /\ t[1].pc \in Handling
    BY <2>2, <2>4, <2>5 DEF Handling
  <2>7. UNCHANGED <<gs_stKeyboardManager, device, produced>>
    BY <1>4 DEF kIsOutputBufferFull, driver, ghosts
  <2> QED
    BY <1>1, <1>2, <2>5, <2>6, <2>7, HandlerKeeps
<1>5. CASE EndOfHandler(c)
  <2>1. s[1].pc = "end" /\ Replace(c, <<>>) /\ UNCHANGED <<gs_stKeyboardManager, device, produced>>
    BY <1>1, <1>5 DEF EndOfHandler, At, driver, ghosts
  <2>2. Len(s) = 1 /\ s[1].pc \in Handling
    BY <1>1, <2>1, ShapeIs DEF Handling
  <2>3. t = <<>> \o Tail(s)
    BY <2>1, ReplaceIs DEF IInv, DriverInv
  <2>4. Len(t) = Len(s) - 1
    BY <1>1, <2>3, Popped
  <2>5. t = <<>>
    BY <1>2, <2>2, <2>4
  <2> QED
    BY <1>1, <1>2, <2>1, <2>2, <2>5, HandlerKeeps
<1> QED
  BY <1>3, <1>4, <1>5, SendCommandKeeps, WaitForACKKeeps, PutOtherScanCodeKeeps, PutKeeps,
     ScanCodeKeeps DEF Driver

LEMMA AsExpectedStays == IInv /\ KInv /\ [Next]_vars => KInv'
<1> SUFFICES ASSUME IInv, KInv, [Next]_vars, Undisturbed'
             PROVE  \E c \in Core : /\ \A d \in Core \ {c} : stack'[d] = <<>>
                                    /\ StackInv(stack[c])'
  BY DEF KInv
<1>0. Undisturbed /\ stack \in [Core -> Seq(Frame)] /\ stack' \in [Core -> Seq(Frame)]
  <2>1. Undisturbed
    BY DisturbedStays DEF vars, ghosts, Undisturbed
  <2> QED
    BY <2>1, StepPreserves DEF IInv, DriverInv
<1>1. PICK c \in Core : (\A d \in Core \ {c} : stack[d] = <<>>) /\ StackInv(stack[c])
  BY <1>0 DEF KInv
<1>2. PICK s : s = stack[c]
  OBVIOUS
<1>3. StackInv(s)
  BY <1>1, <1>2
<1>4. ASSUME stack' = stack, StackInv(s)'
      PROVE  \E x \in Core : /\ \A d \in Core \ {x} : stack'[d] = <<>>
                             /\ StackInv(stack[x])'
  <2>1. StackInv(stack[c])'
    BY <1>2, <1>4
  <2> QED
    BY <1>1, <1>4, <2>1
<1>5. CASE Type \/ Answer
  BY <1>3, <1>4, <1>5, DeviceKeeps DEF Type, Answer, Emit
<1>6. CASE EnableInterrupt \/ kGetCh \/ UNCHANGED vars
  BY <1>3, <1>4, <1>6, NothingDisturbed DEF EnableInterrupt, kGetCh, vars, driver, ghosts
<1>7. ASSUME NEW d \in Core, kKeyboardHandler(d)
      PROVE  \E x \in Core : /\ \A e \in Core \ {x} : stack'[e] = <<>>
                             /\ StackInv(stack[x])'
  <2>1. \A e \in Core : stack[e] = <<>>
    BY <1>7 DEF kKeyboardHandler, InHandler, Undisturbed
  <2>2. PICK t : t = <<Call("status")>>
    OBVIOUS
  <2>3. stack'[d] = t /\ \A e \in Core \ {d} : stack'[e] = <<>>
    BY <1>0, <1>7, <2>1, <2>2 DEF kKeyboardHandler
  <2>4. t \in Seq(Frame) /\ Len(t) = 1 /\ t[1].pc \in Handling
    BY <2>2, CallsAre DEF PC, Handling
  <2>5. s = <<>> /\ s \in Seq(Frame)
    BY <1>0, <1>2, <2>1
  <2>6. UNCHANGED <<gs_stKeyboardManager, device, produced>>
    BY <1>7 DEF kKeyboardHandler, driver
  <2>7. StackInv(t)'
    BY <1>3, <2>4, <2>5, <2>6, HandlerKeeps
  <2>8. StackInv(stack[d])'
    BY <2>3, <2>7
  <2> QED
    BY <2>3, <2>8
<1>8. ASSUME NEW d \in Core, Driver(d), ~kKeyboardHandler(d)
      PROVE  \E x \in Core : /\ \A e \in Core \ {x} : stack'[e] = <<>>
                             /\ StackInv(stack[x])'
  <2>1. d = c /\ \A e \in Core \ {c} : stack'[e] = <<>>
    BY <1>1, <1>8, CallsOfOneCore
  <2>2. PICK t : t = stack'[c]
    OBVIOUS
  <2>3. StackInv(t)'
    BY <1>2, <1>3, <1>8, <2>1, <2>2, AsExpectedAfter DEF Undisturbed
  <2>4. StackInv(stack[c])'
    BY <2>2, <2>3
  <2> QED
    BY <2>1, <2>4
<1> QED
  BY <1>5, <1>6, <1>7, <1>8 DEF Next

LEMMA KInvHolds == Spec => []KInv
<1>1. IInv /\ KInv /\ [Next]_vars => KInv'
  BY AsExpectedStays
<1> QED
  BY <1>1, AsExpectedAtFirst, IInvHolds, PTL DEF Spec

\* The LEDs show the lock keys whenever no command is under way, wherever lock keys are
\* read: UpdateCombinationKeyStatusAndLED keeps both in step, one key at a time.
THEOREM LEDsFollowLocksHolds == Spec => []LEDsFollowLocks
<1>1. IInv /\ KInv => LEDsFollowLocks
  <2> SUFFICES ASSUME IInv, KInv, Undisturbed, Quiet PROVE leds = Locks(gs_stKeyboardManager)
    BY DEF LEDsFollowLocks
  <2>1. PICK c \in Core : StackInv(stack[c]) /\ stack[c] = <<>>
    BY DEF KInv, Quiet
  <2>2. ~Doing(<<>>, {"command", "ackCommand"})
    BY DEF Doing
  <2> QED
    BY <2>1, <2>2 DEF StackInv, LEDInv
<1> QED
  BY <1>1, IInvHolds, KInvHolds, PTL

\* The keys of the handled bytes are among those of the bytes that came.
LEMMA HandledIsPrefix ==
    ASSUME IInv, Unread => sent > 0 /\ port = typed[sent]
    PROVE  /\ Characters(Expected.keys) \in Seq(KeyData)
           /\ Characters(OneByOne(typed)[sent].keys) \in Seq(KeyData)
           /\ IsPrefix(Characters(Expected.keys), Characters(OneByOne(typed)[sent].keys))
<1> DEFINE all == OneByOne(typed)[sent]
<1>1. Expected \in Results /\ all \in Results
  BY TypedIs, OneByOneIs, ExpectedType
<1>2. Expected.keys \in Seq(KeyData) /\ all.keys \in Seq(KeyData)
  BY <1>1 DEF Results
<1>3. ASSUME NEW keys \in Seq(KeyData) PROVE Characters(keys) \in Seq(KeyData)
  <2>1. NoKey \in KeyData
    BY NoKeyIsKey
  <2> QED
    BY <2>1, CharactersOfOneMore
<1>4. Characters(Expected.keys) \in Seq(KeyData) /\ Characters(all.keys) \in Seq(KeyData)
  BY <1>2, <1>3
<1>5. CASE ~Unread
  <2>1. all = Expected
    BY <1>5 DEF Expected, Handled
  <2> HIDE DEF all
  <2>2. IsPrefix(Characters(all.keys), Characters(all.keys))
    BY <1>4, PrefixOfItself
  <2> QED
    BY <1>4, <2>1, <2>2 DEF all
<1>6. CASE Unread
  <2>1. sent \in 1 .. Len(typed) /\ Handled = sent - 1 /\ port \in Byte
    BY <1>6, TypedIs DEF Handled
  <2>2. all = Then(Expected, port)
    BY <1>6, <2>1, TypedIs, OneByOneIs DEF Expected
  <2>3. Expected.manager \in KEYBOARDMANAGER
    BY <1>1 DEF Results
  <2>4. PICK r : r \in kConvertScanCodeToASCIICode(Expected.manager, port)
    BY <2>1, <2>3, ConversionExists
  <2> HIDE DEF all
  <2>5. \/ all.keys = Expected.keys
        \/ \E k : k \in KeyData /\ Characters(all.keys) = WithKey(Characters(Expected.keys), k)
    BY <1>1, <2>1, <2>2, <2>4, ConvertedAsExpected DEF OneKey
  <2>6. PICK x : x = Characters(Expected.keys)
    OBVIOUS
  <2>7. x \in Seq(KeyData) /\ IsPrefix(x, x)
    BY <1>4, <2>6, PrefixOfItself
  <2>8. ASSUME NEW k \in KeyData PROVE IsPrefix(x, WithKey(x, k))
    BY <2>7, BlurType, PrefixOfAppend DEF WithKey
  <2> QED
    BY <1>4, <2>5, <2>6, <2>7, <2>8 DEF all
<1> QED
  BY <1>5, <1>6

\* The keys that reach the queue are those the user typed, once each and in order, with
\* the Shift, the lock keys and the prefix that were in force, whichever of the two loops
\* reads a byte and whatever command is under way.
THEOREM KeysAreTypedKeysHolds == Spec => []KeysAreTypedKeys
<1>1. IInv /\ KInv => KeysAreTypedKeys
  <2> SUFFICES ASSUME IInv, KInv, Undisturbed PROVE KeysAreTypedKeys
    BY DEF KeysAreTypedKeys
  <2> DEFINE all == OneByOne(typed)[sent].keys
  <2>1. PICK c \in Core : StackInv(stack[c])
    BY DEF KInv
  <2>2. PICK s : s = stack[c]
    OBVIOUS
  <2>3. s \in Seq(Frame) /\ AckInv(s) /\ KeyInv(s) /\ produced \in Seq(KeyData)
    BY <2>1, <2>2 DEF StackInv, IInv, DriverInv
  <2>4. /\ Characters(Expected.keys) \in Seq(KeyData) /\ Characters(all) \in Seq(KeyData)
        /\ IsPrefix(Characters(Expected.keys), Characters(all))
    BY <2>3, HandledIsPrefix DEF AckInv
  <2>5. Characters(Queued(s)) = Characters(Expected.keys)
        /\ Len(produced) + Puts(s) = Len(Expected.keys)
    BY <2>3 DEF KeyInv
  <2>6. Characters(produced) \in Seq(KeyData)
    BY <2>3, NoKeyIsKey, CharactersOfOneMore
  <2> HIDE DEF all
  <2>7. IsPrefix(Characters(produced), Characters(all))
    <3>1. CASE Queued(s) = produced
      BY <2>4, <2>5, <3>1
    <3>2. CASE Queued(s) # produced
      <4>1. Queued(s) = Append(produced, s[1].key) /\ s # <<>>
        BY <3>2 DEF Queued
      <4>2. s[1].key \in KeyData
        <5>1. s[1] \in Frame
          BY <2>3, <4>1
        <5> QED
          BY <5>1 DEF Frame
      <4>3. Characters(Queued(s)) = WithKey(Characters(produced), s[1].key)
        BY <2>3, <4>1, <4>2, CharactersOfOneMore
      <4>4. PICK x : x = Characters(produced)
        OBVIOUS
      <4>5. PICK y : y = WithKey(x, s[1].key)
        OBVIOUS
      <4>6. PICK z : z = Characters(all)
        OBVIOUS
      <4>7. x \in Seq(KeyData) /\ y \in Seq(KeyData) /\ z \in Seq(KeyData)
        BY <2>4, <2>6, <4>2, <4>4, <4>5, <4>6, WithKeyType
      <4>8. IsPrefix(y, z)
        BY <2>4, <2>5, <4>3, <4>4, <4>5, <4>6
      <4>9. IsPrefix(x, y)
        BY <4>2, <4>5, <4>7, BlurType, PrefixOfItself, PrefixOfAppend DEF WithKey
      <4>10. IsPrefix(x, z)
        BY <4>7, <4>8, <4>9, PrefixOfPrefix
      <4> QED
        BY <4>4, <4>6, <4>10
    <3> QED
      BY <3>1, <3>2
  <2>8. ASSUME Quiet, ~outputFull
        PROVE  Len(produced) = Len(all) /\ Characters(produced) = Characters(all)
    <3>1. s = <<>>
      BY <2>2, <2>8 DEF Quiet
    <3>2. all = Expected.keys
      BY <2>8 DEF all, Expected, Handled, Unread
    <3>3. Queued(s) = produced /\ Puts(s) = 0
      <4>1. ~(Len(<<>>) >= 3)
        OBVIOUS
      <4> QED
        BY <3>1, <4>1 DEF Queued, Puts
    <3>4. Len(produced) + 0 = Len(produced)
      BY <2>3
    <3> QED
      BY <2>5, <3>2, <3>3, <3>4
  <2> QED
    BY <2>7, <2>8 DEF KeysAreTypedKeys, all
<1> QED
  BY <1>1, IInvHolds, KInvHolds, PTL
===============================================================================
