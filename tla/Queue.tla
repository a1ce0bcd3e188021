--------------------------------- MODULE Queue ---------------------------------
(***************************************************************************)
(* The ring buffer of 02.Kernel64/Source/Queue.c.  When both indices are   *)
(* equal the last operation tells a full queue from an empty one.          *)
(***************************************************************************)
EXTENDS Naturals

kInitializeQueue(iMaxDataCount, unused) ==
    [pvQueueArray |-> [i \in 0 .. iMaxDataCount - 1 |-> unused],
     iMaxDataCount |-> iMaxDataCount,
     iPutIndex |-> 0, iGetIndex |-> 0, bLastOperationPut |-> FALSE]

kIsQueueFull(q) == q.iGetIndex = q.iPutIndex /\ q.bLastOperationPut
kIsQueueEmpty(q) == q.iGetIndex = q.iPutIndex /\ ~q.bLastOperationPut

\* Mutant of kPutQueue: data is stored in a full queue, too.
PutAlways(q, data) ==
    [q EXCEPT !.pvQueueArray[q.iPutIndex] = data,
              !.iPutIndex = (@ + 1) % q.iMaxDataCount,
              !.bLastOperationPut = TRUE]

\* The queue after kPutQueue, which stores nothing in a full queue.
kPutQueue(q, data) ==
    IF kIsQueueFull(q) THEN q
    ELSE [q EXCEPT !.pvQueueArray[q.iPutIndex] = data,
                   !.iPutIndex = (@ + 1) % q.iMaxDataCount,
                   !.bLastOperationPut = TRUE]

\* What kGetQueue returns and what it leaves; the queue must not be empty.
Oldest(q) == q.pvQueueArray[q.iGetIndex]
kGetQueue(q) == [q EXCEPT !.iGetIndex = (@ + 1) % q.iMaxDataCount,
                          !.bLastOperationPut = FALSE]

\* The data in the queue, oldest first.
Count(q) == IF kIsQueueFull(q) THEN q.iMaxDataCount
            ELSE (q.iMaxDataCount + q.iPutIndex - q.iGetIndex) % q.iMaxDataCount
Contents(q) == [i \in 1 .. Count(q) |->
                  q.pvQueueArray[(q.iGetIndex + i - 1) % q.iMaxDataCount]]
===============================================================================
