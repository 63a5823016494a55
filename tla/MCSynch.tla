------------------------------ MODULE MCSynch ------------------------------
(* Instance of Synch for TLC: one semaphore, one lock, one condition.      *)
EXTENDS Synch
CONSTANTS m, i, a, b, s, l, c
OneLock == [x \in {c} |-> l]
=============================================================================
