----------------------------- MODULE MCScheduler ------------------------------
(***************************************************************************)
(* Instances of Scheduler.  Core c0 is the bootstrap processor: its boot   *)
(* task is the console shell (highest priority), its idle task a thread of *)
(* the shell.  The boot task of an application processor, c1, is its idle  *)
(* task, a process of its own.                                             *)
(***************************************************************************)
EXTENDS Scheduler

CONSTANTS c0, c1, shell, idle0, idle1, a, b, x, y

Free == [used |-> FALSE, priority |-> 0, process |-> FALSE, idle |-> FALSE,
         core |-> c0, affinity |-> c0, parent |-> shell]
Task(p, process, parent, core, affinity) ==
    [Free EXCEPT !.used = TRUE, !.priority = p, !.process = process,
                 !.parent = parent, !.core = core, !.affinity = affinity]
Shell == Task(0, TRUE, shell, c0, c0)
Idle0 == [Task(NPriority - 1, FALSE, shell, c0, c0) EXCEPT !.idle = TRUE]
Idle1 == [Task(NPriority - 1, TRUE, idle1, c1, c1) EXCEPT !.idle = TRUE]

Running == (c0 :> shell @@ c1 :> idle1)
MCBootRunning == [c \in Core |-> Running[c]]

Ways == "yield" :> {} @@ "exit" :> {} @@ "create" :> {}
Asking == "end" :> {} @@ "priority" :> {} @@ "affinity" :> {}

(***************************************************************************)
(* One core: process a with its thread b.  The shell may end a and create  *)
(* a thread or process in a TCB that was freed, and reprioritise b; a and  *)
(* b yield and exit.                                                       *)
(***************************************************************************)
UniBoot == [t \in TCB |->
    CASE t = shell -> Shell
      [] t = idle0 -> Idle0
      [] t = a -> Task(0, TRUE, shell, c0, c0)
      [] t = b -> Task(0, FALSE, a, c0, c0)]
UniMay == [Ways EXCEPT !["yield"] = {shell, b}, !["exit"] = {a, b},
                       !["create"] = {shell}]
UniAsks == [Asking EXCEPT !["end"] = {<<shell, a>>}, !["priority"] = {<<shell, b>>}]

(***************************************************************************)
(* Two cores, with load balancing: a and b have no affinity, and with the  *)
(* shell and x are just enough for one to be moved to the other core.  a   *)
(* ends itself and changes b's priority, b moves itself and ends a.        *)
(***************************************************************************)
SmpBoot == [t \in TCB |->
    CASE t = shell -> Shell
      [] t = idle0 -> Idle0
      [] t = idle1 -> Idle1
      [] t \in {a, b} -> Task(0, TRUE, shell, c0, AnyCore)
      [] t \in {x, y} -> Task(0, TRUE, shell, c0, c0)]
SmpMay == [Ways EXCEPT !["yield"] = {a}]
SmpAsks == [Asking EXCEPT !["end"] = {<<a, a>>, <<b, a>>}, !["affinity"] = {<<b, b>>},
                          !["priority"] = {<<a, b>>}]

\* The same, but the shell moves another task; a exits.
SmpNoMay == Ways
MoveOtherAsks == [Asking EXCEPT !["affinity"] = {<<shell, a>>}]
ExitMay == [Ways EXCEPT !["exit"] = {a}]
NoAsks == Asking
===============================================================================
