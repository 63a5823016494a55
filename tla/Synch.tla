------------------------------- MODULE Synch -------------------------------
(***************************************************************************)
(* Semaphores, locks and condition variables (threads/synch.c) over the    *)
(* scheduler.  Threads make any sequence of legal calls.                   *)
(*                                                                         *)
(* A call is a list of steps, todo, each of them a stretch of code that no *)
(* interrupt can divide: lock_acquire takes the lock's semaphore and then, *)
(* with interrupts on again, records the holder.                           *)
(***************************************************************************)
EXTENDS Sched, FiniteSets

CONSTANTS
  Sem, Lock, Cond,
  LockOf,       \* the lock a condition variable is used with
  NULL,
  MaxValue      \* bound on the value of a semaphore of Sem

ASSUME SynchAssumption ==
  /\ LockOf \in [Cond -> Lock]
  /\ MaxValue \in Nat
  /\ NULL \notin Thread
  /\ Sem \cap Lock = {} /\ (Sem \cup Lock) \cap Thread = {}

\* Every semaphore: those of the program, the one inside each lock, and the one
\* in the semaphore_elem on the stack of each thread in cond_wait.
Sema == Sem \cup Lock \cup Thread

VARIABLES
  value, waiters,       \* of each semaphore
  holder,               \* of each lock
  cond_waiters,         \* of each condition: the threads whose semaphore_elem
  todo                  \* the rest of each thread's call

synchVars == <<value, waiters, holder, cond_waiters>>
vars == <<schedVars, synchVars, todo>>

Clients == Thread \ {Idle}

\* All the threads are started; main runs.
Init ==
  /\ status = [t \in Thread |-> IF t = Main THEN "running"
                                ELSE IF t = Idle THEN "blocked" ELSE "ready"]
  /\ current = Main
  /\ ready_list \in {q \in [1 .. Cardinality(Thread) - 2 -> Thread \ {Main, Idle}] :
                       IsInjective(q)}
  /\ value = [s \in Sema |-> IF s \in Lock THEN 1 ELSE 0]
  /\ waiters = [s \in Sema |-> <<>>]
  /\ holder = [l \in Lock |-> NULL]
  /\ cond_waiters = [c \in Cond |-> <<>>]
  /\ todo = [t \in Thread |-> <<>>]

\* The running thread is about to do step op.
Does(op) == todo[current] # <<>> /\ Head(todo[current]) = op

Done == todo' = [todo EXCEPT ![current] = Tail(@)]

held(l) == holder[l] = current

-----------------------------------------------------------------------------
(* The calls. *)

Call(steps) ==
  /\ current # Idle /\ todo[current] = <<>>
  /\ todo' = [todo EXCEPT ![current] = steps]
  /\ UNCHANGED <<schedVars, synchVars>>

sema_down(s) == Call(<< <<"down", s>> >>)
sema_try_down(s) == Call(<< <<"try", s>> >>)
sema_up(s) == value[s] < MaxValue /\ Call(<< <<"up", s>> >>)
lock_acquire(l) == ~held(l) /\ Call(<< <<"down", l>>, <<"own", l>> >>)
lock_try_acquire(l) == ~held(l) /\ Call(<< <<"try", l>>, <<"own", l>> >>)
lock_release(l) == held(l) /\ Call(<< <<"disown", l>>, <<"up", l>> >>)

\* Variant of cond_wait: the lock is released before the wait has begun.
WaitAfterRelease(c, l) ==
  /\ held(l)
  /\ Call(<< <<"disown", l>>, <<"up", l>>, <<"enqueue", c>>,
             <<"down", current>>, <<"down", l>>, <<"own", l>> >>)

cond_wait(c, l) ==
  /\ held(l)
  /\ Call(<< <<"enqueue", c>>, <<"disown", l>>, <<"up", l>>,
             <<"down", current>>, <<"down", l>>, <<"own", l>> >>)

cond_signal(c) == held(LockOf[c]) /\ Call(<< <<"signal", c>> >>)
cond_broadcast(c) == held(LockOf[c]) /\ Call(<< <<"broadcast", c>> >>)

-----------------------------------------------------------------------------
(* The steps of the calls. *)

\* The loop of sema_down, entered with interrupts on ("down") or continued after
\* thread_block returned, with interrupts still off ("woken").
Down(s) ==
  /\ Does(<<"down", s>>) \/ Does(<<"woken", s>>)
  /\ \/ /\ value[s] = 0
        /\ waiters' = [waiters EXCEPT ![s] = Append(@, current)]
        /\ thread_block
        /\ todo' = [todo EXCEPT ![current] = << <<"woken", s>> >> \o Tail(@)]
        /\ UNCHANGED value
     \/ /\ value[s] > 0
        /\ value' = [value EXCEPT ![s] = @ - 1]
        /\ Done
        /\ UNCHANGED <<schedVars, waiters>>
  /\ UNCHANGED <<holder, cond_waiters>>

\* sema_try_down; a failure ends the call.
TryDown(s) ==
  /\ Does(<<"try", s>>)
  /\ \/ /\ value[s] > 0
        /\ value' = [value EXCEPT ![s] = @ - 1]
        /\ Done
     \/ /\ value[s] = 0
        /\ todo' = [todo EXCEPT ![current] = <<>>]
        /\ UNCHANGED value
  /\ UNCHANGED <<schedVars, waiters, holder, cond_waiters>>

\* Variant of Vee: sema_up wakes a waiter only when the value was 0.
VeeFromZero(s) ==
  /\ IF waiters[s] # <<>> /\ value[s] = 0
       THEN /\ ready_list' = ReadyAlso(<<Head(waiters[s])>>)
            /\ status' = Unblocked(<<Head(waiters[s])>>)
            /\ waiters' = [waiters EXCEPT ![s] = Tail(@)]
       ELSE UNCHANGED <<ready_list, status, waiters>>
  /\ value' = [value EXCEPT ![s] = @ + 1]
  /\ UNCHANGED <<current, holder, cond_waiters>>

\* The body of sema_up.
Vee(s) ==
  /\ IF waiters[s] # <<>>
       THEN /\ ready_list' = ReadyAlso(<<Head(waiters[s])>>)
            /\ status' = Unblocked(<<Head(waiters[s])>>)
            /\ waiters' = [waiters EXCEPT ![s] = Tail(@)]
       ELSE UNCHANGED <<ready_list, status, waiters>>
  /\ value' = [value EXCEPT ![s] = @ + 1]
  /\ UNCHANGED <<current, holder, cond_waiters>>

Up(s) == Does(<<"up", s>>) /\ Vee(s) /\ Done

Own(l) ==
  /\ Does(<<"own", l>>)
  /\ holder' = [holder EXCEPT ![l] = current]
  /\ Done
  /\ UNCHANGED <<schedVars, value, waiters, cond_waiters>>

Disown(l) ==
  /\ Does(<<"disown", l>>)
  /\ holder' = [holder EXCEPT ![l] = NULL]
  /\ Done
  /\ UNCHANGED <<schedVars, value, waiters, cond_waiters>>

\* cond_wait initializes the semaphore of its semaphore_elem and links it.
Enqueue(c) ==
  /\ Does(<<"enqueue", c>>)
  /\ value' = [value EXCEPT ![current] = 0]
  /\ waiters' = [waiters EXCEPT ![current] = <<>>]
  /\ cond_waiters' = [cond_waiters EXCEPT ![c] = Append(@, current)]
  /\ Done
  /\ UNCHANGED <<schedVars, holder>>

\* Variant of Signal: the whole list of waiters is dropped.
SignalDrops(c) ==
  /\ Does(<<"signal", c>>) \/ Does(<<"broadcast", c>>)
  /\ IF cond_waiters[c] = <<>>
       THEN Done /\ UNCHANGED cond_waiters
       ELSE /\ cond_waiters' = [cond_waiters EXCEPT ![c] = <<>>]
            /\ todo' = [todo EXCEPT ![current] =
                          << <<"up", Head(cond_waiters[c])>> >> \o Tail(@)]
  /\ UNCHANGED <<schedVars, value, waiters, holder>>

\* cond_signal takes the first semaphore_elem off the list and then ups its
\* semaphore; cond_broadcast goes on until the list is empty.
Signal(c) ==
  /\ Does(<<"signal", c>>) \/ Does(<<"broadcast", c>>)
  /\ IF cond_waiters[c] = <<>>
       THEN Done /\ UNCHANGED cond_waiters
       ELSE /\ cond_waiters' = [cond_waiters EXCEPT ![c] = Tail(@)]
            /\ todo' = [todo EXCEPT ![current] =
                          << <<"up", Head(cond_waiters[c])>> >>
                          \o (IF Does(<<"broadcast", c>>) THEN @ ELSE Tail(@))]
  /\ UNCHANGED <<schedVars, value, waiters, holder>>

-----------------------------------------------------------------------------
\* Interrupts are on, except in sema_down after thread_block.
Interruptible == \A s \in Sema : ~Does(<<"woken", s>>)

\* The timer interrupt ends the time slice of the running thread.
Preempt ==
  /\ Interruptible /\ current # Idle
  /\ YieldFrom(status, ready_list)
  /\ UNCHANGED <<synchVars, todo>>

\* A device's interrupt handler ups a semaphore.
InterruptUp(s) ==
  /\ Interruptible /\ value[s] < MaxValue
  /\ Vee(s)
  /\ UNCHANGED todo

\* The idle thread, after an interrupt.
IdleYields ==
  /\ current = Idle /\ ready_list # <<>>
  /\ thread_block
  /\ UNCHANGED <<synchVars, todo>>

Calls ==
  \/ \E s \in Sem : sema_down(s) \/ sema_try_down(s) \/ sema_up(s)
  \/ \E l \in Lock : lock_acquire(l) \/ lock_try_acquire(l) \/ lock_release(l)
  \/ \E c \in Cond : cond_wait(c, LockOf[c]) \/ cond_signal(c) \/ cond_broadcast(c)

Steps ==
  \/ \E s \in Sema : Down(s) \/ TryDown(s) \/ Up(s)
  \/ \E l \in Lock : Own(l) \/ Disown(l)
  \/ \E c \in Cond : Enqueue(c) \/ Signal(c)

Next ==
  \/ Calls \/ Steps
  \/ Preempt \/ IdleYields
  \/ \E s \in Sem : InterruptUp(s)

Spec == Init /\ [][Next]_vars

-----------------------------------------------------------------------------
Ops == {"down", "woken", "try", "up", "own", "disown", "enqueue", "signal", "broadcast"}

\* Type invariant of the synchronization objects.
TypeOK ==
  /\ status \in [Thread -> Statuses]
  /\ ready_list \in Seq(Thread) /\ current \in Thread
  /\ value \in [Sema -> Nat]
  /\ waiters \in [Sema -> Seq(Thread)]
  /\ holder \in [Lock -> Thread \cup {NULL}]
  /\ cond_waiters \in [Cond -> Seq(Thread)]
  /\ todo \in [Thread -> Seq(Ops \X (Sema \cup Cond))]

AtStep(t, op) == todo[t] # <<>> /\ Head(todo[t]) = op

\* The threads that thread_unblock has put on the run queue and that have not
\* yet looked at the semaphore again.
Woken(s) == {t \in Thread : AtStep(t, <<"woken", s>>) /\ status[t] # "blocked"}

\* No wakeup is lost: while threads wait for a semaphore, each unit of its value
\* has a woken thread on its way to take it, whoever takes it first.
NoLostWakeup ==
  \A s \in Sema : waiters[s] # <<>> => value[s] <= Cardinality(Woken(s))

\* A thread inside a lock: it holds the semaphore, although holder is not yet
\* set or is already cleared.
Inside(l) ==
  {t \in Thread : holder[l] = t \/ AtStep(t, <<"own", l>>) \/ AtStep(t, <<"up", l>>)}

\* A lock's semaphore is 1 when nobody is inside, and 0 when exactly one is.
LockExact == \A l \in Lock : value[l] + Cardinality(Inside(l)) = 1

\* The elem member of a thread is in one list at a time: a client that is blocked
\* waits for the one semaphore it is at, once; nobody else is in a list of waiters.
WaitersExact ==
  /\ RunQueueExact
  /\ \A s \in Sema :
       /\ IsInjective(waiters[s])
       /\ \A t \in Clients :
            t \in Range(waiters[s])
              <=> status[t] = "blocked" /\ AtStep(t, <<"woken", s>>)
  /\ \A t \in Clients : status[t] = "blocked" => \E s \in Sema : AtStep(t, <<"woken", s>>)

\* synch.c: no wakeup of a semaphore is lost, a lock has one owner and is free without
\* one, and a thread waits in exactly the list it sleeps in.
SynchExact == TypeOK /\ NoLostWakeup /\ LockExact /\ WaitersExact

\* Thread t is in cond_wait, with its semaphore_elem on its stack.
InCondWait(t) ==
  \E k \in DOMAIN todo[t] : todo[t][k] \in {<<"down", t>>, <<"woken", t>>}
Linked(t) == \E c \in Cond : t \in Range(cond_waiters[c])
BeingSignalled(t) == \E u \in Thread : AtStep(u, <<"up", t>>)

\* A semaphore_elem is used only while its owner is still in cond_wait, and a
\* waiter that left the list has its signal or will get it: exactly one of the
\* three holds of a thread that has enqueued itself.
SignalNotLost ==
  \A t \in Thread :
    LET enqueued == InCondWait(t) /\ \A c \in Cond : ~AtStep(t, <<"enqueue", c>>)
    IN  /\ enqueued <=> Linked(t) \/ BeingSignalled(t) \/ value[t] > 0
        /\ ~(Linked(t) /\ BeingSignalled(t))
        /\ value[t] > 0 => value[t] = 1 /\ ~Linked(t) /\ ~BeingSignalled(t)

\* The owner of a lock, seen from outside: a release, or a wait, counts from its
\* first step.
Owner(l) ==
  LET Owns(t) == \/ AtStep(t, <<"own", l>>)
                 \/ holder[l] = t /\ ~AtStep(t, <<"disown", l>>)
  IN  IF \E t \in Thread : Owns(t) THEN CHOOSE t \in Thread : Owns(t) ELSE NULL

M == INSTANCE Monitor WITH
       Threads <- Thread, Locks <- Lock, Conds <- Cond, NoOne <- NULL,
       owner <- [l \in Lock |-> Owner(l)], waiting <- cond_waiters

\* Locks and condition variables are the monitor they are documented to be, in
\* particular "Atomically releases LOCK and waits for COND to be signaled".
ActsAsMonitor == M!Spec
=============================================================================
