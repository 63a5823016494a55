------------------------------ MODULE Monitor ------------------------------
(***************************************************************************)
(* What synch.c promises of locks and condition variables: a lock has at   *)
(* most one owner; waiting on a condition releases the lock and starts the *)
(* wait in one atomic step; a waiter gets the lock back only after it was  *)
(* signalled, and signals reach waiters in the order they came.            *)
(***************************************************************************)
EXTENDS Sequences

CONSTANTS Threads, Locks, Conds, LockOf, NoOne

VARIABLES owner, waiting

Init ==
  /\ owner = [l \in Locks |-> NoOne]
  /\ waiting = [c \in Conds |-> <<>>]

Waits(t) == \E c \in Conds : \E k \in DOMAIN waiting[c] : waiting[c][k] = t

Acquire(t, l) ==
  /\ owner[l] = NoOne /\ ~Waits(t)
  /\ owner' = [owner EXCEPT ![l] = t]
  /\ UNCHANGED waiting

Release(t, l) ==
  /\ owner[l] = t
  /\ owner' = [owner EXCEPT ![l] = NoOne]
  /\ UNCHANGED waiting

Wait(t, c) ==
  /\ owner[LockOf[c]] = t
  /\ owner' = [owner EXCEPT ![LockOf[c]] = NoOne]
  /\ waiting' = [waiting EXCEPT ![c] = Append(@, t)]

Signal(t, c) ==
  /\ owner[LockOf[c]] = t
  /\ waiting[c] # <<>>
  /\ waiting' = [waiting EXCEPT ![c] = Tail(@)]
  /\ UNCHANGED owner

Next ==
  \E t \in Threads :
    \/ \E l \in Locks : Acquire(t, l) \/ Release(t, l)
    \/ \E c \in Conds : Wait(t, c) \/ Signal(t, c)

Spec == Init /\ [][Next]_<<owner, waiting>>
=============================================================================
