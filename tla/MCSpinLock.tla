------------------------------ MODULE MCSpinLock ------------------------------
(* Two cores with their interrupt handlers, an outer and an inner lock, two  *)
(* calls a critical section: nesting, reentrance, contention and stray       *)
(* unlocks all occur.                                                        *)
EXTENDS SpinLock

CONSTANTS c0, c1, noCore

MCCore == {c0, c1}
MCLock == {0, 1}
===============================================================================
