------------------------------ MODULE MCTaskSync ------------------------------
(***************************************************************************)
(* Two cores.  Tasks m1 and m2 use the mutex and are spread over the       *)
(* cores; s1 and s2 share the semaphore on core c0; i1 is a task of c1.    *)
(***************************************************************************)
EXTENDS TaskSync, TLC

CONSTANTS c0, c1, m1, m2, s1, s2, i1

MCStart == [t \in Task |-> IF t = i1 THEN c1 ELSE c0]
MCFirstRunning == (c0 :> m1 @@ c1 :> i1)
===============================================================================
