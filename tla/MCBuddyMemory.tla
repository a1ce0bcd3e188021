---------------------------- MODULE MCBuddyMemory ----------------------------
(***************************************************************************)
(* A pool of 5 units, which is no power of two: block lists of 5 blocks    *)
(* (the last without a buddy), 2 and 1.  Two tasks hold up to two blocks   *)
(* each.  A bitmap word has 4 bits and a byte 2, so that the search of     *)
(* list 0 tests a whole word and then a single bit.                        *)
(* The block of list 2, the whole of the pool but a unit, stands for one   *)
(* of 2 GB: its size has the sign bit of an int.                           *)
(***************************************************************************)
EXTENDS BuddyMemory, TLC

CONSTANTS t1, t2

Symmetry == Permutations(Task)
===============================================================================
