------------------------------- MODULE Sched -------------------------------
(***************************************************************************)
(* The scheduler core of threads/thread.c: thread states, the run queue    *)
(* and the switch to another thread.  The operators below are called with  *)
(* interrupts off, so each one is part of a single step of its caller.     *)
(***************************************************************************)
EXTENDS Lists, FiniteSetsExt, Functions

CONSTANTS
  Thread,       \* the pages that can hold a struct thread
  Main,         \* initial_thread
  Idle          \* idle_thread

ASSUME SchedAssumption == Main \in Thread /\ Idle \in Thread /\ Main # Idle

VARIABLES
  status,       \* status of each thread; "none" where there is no thread
  ready_list,
  current       \* the thread on the processor, running_thread ()

schedVars == <<status, ready_list, current>>

Statuses == {"none", "blocked", "ready", "running", "dying"}

\* schedule: next_thread_to_run, switch_threads and thread_schedule_tail.  st
\* and q are the states and the run queue at entry, when the running thread has
\* already left the running state.
schedule(st, q) ==
  LET next == IF q = <<>> THEN Idle ELSE Head(q)
  IN  /\ current' = next
      /\ status' = [st EXCEPT ![next] = "running"]
      /\ ready_list' = IF q = <<>> THEN q ELSE Tail(q)

\* thread_block: the running thread is in no list that schedule looks at.
thread_block == schedule([status EXCEPT ![current] = "blocked"], ready_list)

\* thread_unblock, for the threads ts one after another.
ReadyAlso(ts) == ready_list \o ts

Unblocked(ts) ==
  [t \in Thread |-> IF t \in Range(ts) THEN "ready" ELSE status[t]]

\* Variant of YieldFrom: the idle thread is queued as well.
YieldAlways(st, q) ==
  schedule([st EXCEPT ![current] = "ready"], Append(q, current))

\* thread_yield; q is the run queue at entry.  The idle thread is never put on
\* the run queue.
YieldFrom(st, q) ==
  schedule([st EXCEPT ![current] = "ready"],
           IF current # Idle THEN Append(q, current) ELSE q)

\* The thread switched from is destroyed in thread_schedule_tail, except the
\* initial thread, whose page was not allocated.
Exited(t) == [status EXCEPT ![t] = IF t = Main THEN "dying" ELSE "none"]

-----------------------------------------------------------------------------
\* What the comment on elem in thread.h relies on: a thread is on the run queue
\* only if it is ready, at most once, and every ready thread is there, except
\* the idle thread, which never is.  Exactly one thread runs.
RunQueueExact ==
  /\ \A t \in Thread \ {Idle} : status[t] = "ready" <=> t \in Range(ready_list)
  /\ Idle \notin Range(ready_list)
  /\ IsInjective(ready_list)
  /\ \A t \in Thread : status[t] = "running" <=> t = current

\* Round-robin scheduling starves nobody: a thread that is ready gets to run, also
\* when the running thread never blocks.
ReadyRuns == \A t \in Thread \ {Idle} : status[t] = "ready" ~> current = t
=============================================================================
