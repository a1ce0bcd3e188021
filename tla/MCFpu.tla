---------------------------------- MODULE MCFpu ----------------------------------
(***************************************************************************)
(* Two cores and three slots for tasks, one of them free at the start.     *)
(***************************************************************************)
EXTENDS Fpu, TLC

CONSTANTS c0, c1, a, b, new

MCFirstTask == c0 :> a @@ c1 :> b

\* Once a last user was moved nothing is claimed of the contents of registers, on
\* which nothing else depends.
control == <<tasks, bFPUUsed, TS, qwLastFPUUsedTaskID, movedUser>>
MCView == IF movedUser THEN <<control>> ELSE vars
===============================================================================
