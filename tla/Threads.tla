------------------------------ MODULE Threads ------------------------------
(***************************************************************************)
(* Kernel threads and the timer: creation, exit, preemption at the end of  *)
(* a time slice (thread.c), and sleeping until a given tick (timer_sleep   *)
(* in timer.c, thread_sleep and thread_wakeup in thread.c).                *)
(*                                                                         *)
(* Threads run any sequence of these calls.  A step is a stretch of code   *)
(* with interrupts off; the timer interrupt comes between two steps.       *)
(***************************************************************************)
EXTENDS Sched, FiniteSets

CONSTANTS
  TIME_SLICE,
  Durations,    \* arguments of timer_sleep
  MaxTicks,     \* bound on the tick counter
  MaxTid,       \* bound on thread identifiers
  INT64_MAX     \* beyond every wakeup tick

ASSUME ThreadsAssumption ==
  /\ TIME_SLICE \in Nat \ {0}
  /\ Durations \subseteq Int
  /\ MaxTicks \in Nat /\ MaxTid \in Nat
  /\ INT64_MAX \in Nat \ {0}
  /\ \A d \in Durations : MaxTicks + d < INT64_MAX

VARIABLES
  all_list, tid, next_tid,
  sleep_list, wakeup_tick, next_tick_to_wakeup,
  ticks, thread_ticks,
  halted,       \* the idle thread is at its hlt instruction
  pc,           \* what a thread does next: <<"run">>, or the rest of a call
  start         \* start + ticks, computed in timer_sleep before thread_sleep

threadVars == <<all_list, tid, next_tid>>
sleepVars == <<sleep_list, wakeup_tick, next_tick_to_wakeup>>
localVars == <<halted, pc, start>>
threadsVars == <<schedVars, threadVars, sleepVars, ticks, thread_ticks, localVars>>

\* After thread_start: main runs, and the idle thread has blocked once.
ThreadsInit ==
  /\ status = [t \in Thread |-> IF t = Main THEN "running"
                                ELSE IF t = Idle THEN "blocked" ELSE "none"]
  /\ ready_list = <<>> /\ current = Main
  /\ all_list = <<Main, Idle>>
  /\ tid = [t \in Thread |-> IF t = Main THEN 1 ELSE IF t = Idle THEN 2 ELSE 0]
  /\ next_tid = 3
  /\ sleep_list = <<>>
  /\ wakeup_tick = [t \in Thread |-> 0]
  /\ next_tick_to_wakeup = INT64_MAX
  /\ ticks = 0 /\ thread_ticks = 0
  /\ halted = TRUE
  /\ pc = [t \in Thread |-> <<"run">>]
  /\ start = [t \in Thread |-> 0]

\* The running thread starts a call.
Calls == current # Idle /\ pc[current] = <<"run">>

-----------------------------------------------------------------------------
\* thread_create, in three parts with interrupts on between them.  First
\* palloc_get_page and init_thread: a blocked thread, on all_list.
InitThread(u) ==
  /\ Calls
  /\ status[u] = "none" /\ next_tid <= MaxTid
  /\ status' = [status EXCEPT ![u] = "blocked"]
  /\ all_list' = Append(all_list, u)
  /\ tid' = [tid EXCEPT ![u] = 0]
  /\ wakeup_tick' = [wakeup_tick EXCEPT ![u] = 0]
  /\ pc' = [pc EXCEPT ![current] = <<"tid", u>>, ![u] = <<"run">>]
  /\ UNCHANGED <<ready_list, current, next_tid, sleep_list,
                 next_tick_to_wakeup, ticks, thread_ticks, halted, start>>

\* allocate_tid; tid_lock makes it atomic.
allocate_tid(u) ==
  /\ pc[current] = <<"tid", u>>
  /\ tid' = [tid EXCEPT ![u] = next_tid]
  /\ next_tid' = next_tid + 1
  /\ pc' = [pc EXCEPT ![current] = <<"unblock", u>>]
  /\ UNCHANGED <<schedVars, all_list, sleepVars, ticks, thread_ticks, halted,
                 start>>

\* thread_unblock puts it on the run queue.
Launch(u) ==
  /\ pc[current] = <<"unblock", u>>
  /\ ready_list' = ReadyAlso(<<u>>)
  /\ status' = Unblocked(<<u>>)
  /\ pc' = [pc EXCEPT ![current] = <<"run">>]
  /\ UNCHANGED <<current, threadVars, sleepVars, ticks, thread_ticks, halted,
                 start>>

thread_exit ==
  /\ Calls
  /\ all_list' = Only(all_list, Thread \ {current})
  /\ schedule(Exited(current), ready_list)
  /\ thread_ticks' = 0
  /\ UNCHANGED <<tid, next_tid, sleepVars, ticks, localVars>>

thread_yield ==
  /\ Calls
  /\ YieldFrom(status, ready_list)
  /\ thread_ticks' = 0
  /\ UNCHANGED <<threadVars, sleepVars, ticks, localVars>>

-----------------------------------------------------------------------------
\* timer_sleep reads the tick counter; interrupts are on until thread_sleep.
timer_sleep(d) ==
  /\ Calls
  /\ start' = [start EXCEPT ![current] = ticks + d]
  /\ pc' = [pc EXCEPT ![current] = <<"sleep">>]
  /\ UNCHANGED <<schedVars, threadVars, sleepVars, ticks, thread_ticks, halted>>

\* Variant of Least: the comparison is the wrong way round.
Greatest(a, b) == IF a < b THEN b ELSE a

Least(a, b) == IF a > b THEN b ELSE a

\* update_next_tick_to_wakeup, and the running thread goes to sleep.
thread_sleep ==
  /\ pc[current] = <<"sleep">>
  /\ wakeup_tick' = [wakeup_tick EXCEPT ![current] = start[current]]
  /\ next_tick_to_wakeup' = Least(next_tick_to_wakeup, start[current])
  /\ sleep_list' = Append(sleep_list, current)
  /\ thread_block
  /\ thread_ticks' = 0
  /\ pc' = [pc EXCEPT ![current] = <<"run">>]
  /\ UNCHANGED <<threadVars, ticks, halted, start>>

\* Variant of IsDue: a thread is woken one tick late.
IsDueAfter(t, now) == now > wakeup_tick[t]

\* thread_wakeup at tick now: the threads that are due, in their order, and
\* the ones that sleep on.
IsDue(t, now) == now >= wakeup_tick[t]
Due(now) == Only(sleep_list, {t \in Thread : IsDue(t, now)})
Asleep(now) == Only(sleep_list, {t \in Thread : ~IsDue(t, now)})

NextWakeup(ts) ==
  IF ts = <<>> THEN INT64_MAX ELSE Min({wakeup_tick[t] : t \in Range(ts)})

\* thread_tick: the time slice is used up after n ticks.
SliceOver(n) == n >= TIME_SLICE

\* Variant of StaysHalted: an interrupt is handled between sti and hlt.
HaltsAnyway == halted

\* An interrupt takes the idle thread out of hlt; as sti and hlt are executed
\* atomically it cannot come just before hlt.
StaysHalted == halted /\ current # Idle

\* timer_interrupt with thread_tick; the interrupt handler yields on return at
\* the end of the time slice.
timer_interrupt ==
  LET now == ticks + 1
      due == IF next_tick_to_wakeup <= now THEN Due(now) ELSE <<>>
      expired == SliceOver(thread_ticks + 1)
  IN  /\ ticks < MaxTicks
      /\ ticks' = now
      /\ IF next_tick_to_wakeup <= now
           THEN /\ sleep_list' = Asleep(now)
                /\ next_tick_to_wakeup' = NextWakeup(Asleep(now))
           ELSE UNCHANGED <<sleep_list, next_tick_to_wakeup>>
      /\ \/ /\ expired
            /\ YieldFrom(Unblocked(due), ReadyAlso(due))
            /\ thread_ticks' = 0
         \/ /\ ~expired
            /\ status' = Unblocked(due)
            /\ ready_list' = ReadyAlso(due)
            /\ UNCHANGED current
            /\ thread_ticks' = thread_ticks + 1
      /\ halted' = StaysHalted
      /\ UNCHANGED <<threadVars, wakeup_tick, pc, start>>

\* The idle thread, woken from hlt by an interrupt, lets someone else run; when
\* it comes back it halts, and no interrupt is handled between sti and hlt.
idle ==
  /\ current = Idle /\ ~halted
  /\ thread_block
  /\ thread_ticks' = 0
  /\ halted' = TRUE
  /\ UNCHANGED <<threadVars, sleepVars, ticks, pc, start>>

ThreadsNext ==
  \/ \E u \in Thread : InitThread(u) \/ allocate_tid(u) \/ Launch(u)
  \/ thread_exit \/ thread_yield
  \/ \E d \in Durations : timer_sleep(d)
  \/ thread_sleep \/ timer_interrupt \/ idle

-----------------------------------------------------------------------------
\* A thread is in at most one list through its elem member: a sleeping thread is
\* blocked, in sleep_list once, and therefore not on the run queue.
ElemExclusive ==
  /\ RunQueueExact
  /\ IsInjective(sleep_list)
  /\ \A t \in Range(sleep_list) : status[t] = "blocked" /\ t # Idle

\* The tick that timer_interrupt compares with is the earliest one any sleeper
\* waits for, although thread_sleep and thread_wakeup maintain it separately.
WakeupTickExact == next_tick_to_wakeup = NextWakeup(sleep_list)

\* A tick leaves no thread asleep past its time, not even one that read the
\* clock, was preempted past its wakeup tick and only then went to sleep; and
\* nobody is woken early.
WakesOnTime ==
  /\ ticks' # ticks => \A t \in Range(sleep_list') : wakeup_tick[t] > ticks'
  /\ \A t \in Range(sleep_list) \ Range(sleep_list') : wakeup_tick[t] <= ticks'
WakeupOnTime == [][WakesOnTime]_threadsVars

\* The processor is not halted while a thread is ready to run.
NoIdleWhileReady == current = Idle /\ halted => ready_list = <<>>
=============================================================================
