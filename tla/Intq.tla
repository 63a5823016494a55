-------------------------------- MODULE Intq --------------------------------
(***************************************************************************)
(* The interrupt queue of devices/intq.c: a circular buffer whose slot     *)
(* before tail stays empty, with the one thread that may wait for each     *)
(* condition, and the lock that threads take before they wait.             *)
(***************************************************************************)
EXTENDS Integers, Sequences

CONSTANTS INTQ_BUFSIZE, NULL

ASSUME IntqAssumption == INTQ_BUFSIZE \in Nat \ {0, 1}

intq_init ==
  [buf |-> [k \in 0 .. INTQ_BUFSIZE - 1 |-> 0], head |-> 0, tail |-> 0,
   not_full |-> NULL, not_empty |-> NULL,
   value |-> 1, waiters |-> <<>>]       \* the lock's semaphore

next(pos) == (pos + 1) % INTQ_BUFSIZE

intq_empty(q) == q.head = q.tail

\* Variant of intq_full: wrap-around is forgotten.
FullUnwrapped(q) == q.head + 1 = q.tail

intq_full(q) == next(q.head) = q.tail

First(q) == q.buf[q.tail]

\* Variant of Taken: signal does not reset the waiting thread.
TakenOnly(q) == [q EXCEPT !.tail = next(@)]

\* intq_getc and intq_putc on a queue that is not empty, or not full; the wakeup
\* of the waiting thread is the caller's step.
Taken(q) == [q EXCEPT !.tail = next(@), !.not_full = NULL]

Added(q, byte) ==
  [q EXCEPT !.buf[q.head] = byte, !.head = next(@), !.not_empty = NULL]

\* The bytes in the queue, oldest first.
Contents(q) ==
  [k \in 1 .. (q.head - q.tail) % INTQ_BUFSIZE |->
     q.buf[(q.tail + k - 1) % INTQ_BUFSIZE]]
=============================================================================
