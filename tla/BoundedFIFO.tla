------------------------------ MODULE BoundedFIFO ------------------------------
(***************************************************************************)
(* What a queue promises: data comes out in the order it went in, each     *)
(* once, and is refused only when Capacity of them wait.                   *)
(***************************************************************************)
EXTENDS Naturals, Sequences

CONSTANTS Data, Capacity

VARIABLES
    fifo,     \* the data that waits
    offered   \* all data ever put, accepted or not

vars == <<fifo, offered>>

Init == fifo = <<>> /\ offered = <<>>

Put(d) ==
    /\ offered' = Append(offered, d)
    /\ fifo' = IF Len(fifo) < Capacity THEN Append(fifo, d) ELSE fifo

Get == fifo # <<>> /\ fifo' = Tail(fifo) /\ UNCHANGED offered

Next == Get \/ \E d \in Data : Put(d)

Spec == Init /\ [][Next]_vars
===============================================================================
