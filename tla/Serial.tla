------------------------------- MODULE Serial -------------------------------
(***************************************************************************)
(* Console output and keyboard input: the serial port (devices/serial.c)   *)
(* with its transmit queue, and the input buffer (devices/input.c) that    *)
(* the serial port and the keyboard (devices/kbd.c) fill, between threads  *)
(* and interrupt handlers.                                                 *)
(*                                                                         *)
(* Bytes are numbered in the order in which they enter a queue.  A thread  *)
(* inside serial_putc, serial_flush or input_getc has interrupts off; the  *)
(* UART works on meanwhile.                                                *)
(***************************************************************************)
EXTENDS Sched, Intq, FiniteSets

CONSTANTS
  Writers,      \* threads that call serial_putc
  Readers,      \* threads that call input_getc
  MaxBytes      \* bound on the bytes written and on the bytes received

ASSUME SerialAssumption ==
  /\ Writers \subseteq Thread \ {Idle} /\ Readers \subseteq Thread \ {Idle}
  /\ MaxBytes \in Nat

VARIABLES
  queue,        \* txq and the input buffer
  mode, ier,    \* of the serial port; ier is the set of enabled interrupts
  thr,          \* the byte in the transmitter, 0 when it is empty
  rbr,          \* a received byte is in the UART
  pc, call,     \* where in which call a thread is
  byte,         \* the byte it writes, or sends by polling
  off,          \* its caller has interrupts off
  written, sent, accepted, delivered,
  panicked      \* an assertion failed

portVars == <<mode, ier, thr, rbr>>
callVars == <<pc, call, byte, off>>
countVars == <<written, sent, accepted, delivered>>
vars == <<schedVars, queue, portVars, callVars, countVars, panicked>>

Init ==
  /\ status = [t \in Thread |-> IF t = Main THEN "running"
                                ELSE IF t = Idle THEN "blocked" ELSE "ready"]
  /\ current = Main
  /\ ready_list \in {q \in [1 .. Cardinality(Thread) - 2 -> Thread \ {Main, Idle}] :
                       IsInjective(q)}
  /\ queue = [q \in {"tx", "in"} |-> intq_init]
  /\ mode = "POLL" /\ ier = {} /\ thr = 0 /\ rbr = FALSE
  /\ pc = [t \in Thread |-> "run"]
  /\ call = [t \in Thread |-> "none"]
  /\ byte = [t \in Thread |-> 0]
  /\ off = [t \in Thread |-> FALSE]
  /\ written = 0 /\ sent = 0 /\ accepted = 0 /\ delivered = 0
  /\ panicked = FALSE

\* The running thread is at point p of its call; nothing runs after a panic.
At(p) == ~panicked /\ pc[current] = p
Goes(p) == pc' = [pc EXCEPT ![current] = p]

write_ier(qs) ==
  (IF intq_empty(qs["tx"]) THEN {} ELSE {"xmit"})
  \cup (IF intq_full(qs["in"]) THEN {} ELSE {"recv"})

\* Variant of signal: nobody is woken.
NobodyWoken(w) == <<>>

\* signal: the waiting thread, if there is one.
Woken(w) == IF w = NULL THEN <<>> ELSE <<w>>

Wake(ts) == ready_list' = ReadyAlso(ts) /\ status' = Unblocked(ts)

-----------------------------------------------------------------------------
(* Calls. *)

serial_init_queue ==
  /\ At("run") /\ current = Main /\ mode = "POLL"
  /\ mode' = "QUEUE"
  /\ ier' = write_ier(queue)
  /\ UNCHANGED <<schedVars, queue, thr, rbr, callVars, countVars, panicked>>

\* serial_putc up to the point where the byte is queued or sent; o says that the
\* caller has interrupts off.
serial_putc(o) ==
  /\ At("run") /\ current \in Writers /\ written < MaxBytes
  /\ off' = [off EXCEPT ![current] = o]
  /\ call' = [call EXCEPT ![current] = "putc"]
  /\ IF mode # "QUEUE"
       THEN /\ written' = written + 1
            /\ byte' = [byte EXCEPT ![current] = written + 1]
            /\ Goes("poll_and_return")
       ELSE /\ Goes(IF o /\ intq_full(queue["tx"]) THEN "spill" ELSE "try")
            /\ UNCHANGED <<written, byte>>
  /\ UNCHANGED <<schedVars, queue, portVars, sent, accepted, delivered, panicked>>

serial_flush ==
  /\ At("run") /\ current = Main
  /\ call' = [call EXCEPT ![current] = "flush"]
  /\ off' = [off EXCEPT ![current] = TRUE]
  /\ Goes("spill")
  /\ UNCHANGED <<schedVars, queue, portVars, byte, countVars, panicked>>

input_getc ==
  /\ At("run") /\ current \in Readers
  /\ call' = [call EXCEPT ![current] = "getc"]
  /\ off' = [off EXCEPT ![current] = FALSE]
  /\ Goes("try")
  /\ UNCHANGED <<schedVars, queue, portVars, byte, countVars, panicked>>

\* The first byte is taken out of the transmit queue to be sent by polling:
\* once in serial_putc, until the queue is empty in serial_flush.
Spill ==
  /\ At("spill")
  /\ \/ /\ ~intq_empty(queue["tx"])
        /\ byte' = [byte EXCEPT ![current] = First(queue["tx"])]
        /\ queue' = [queue EXCEPT !["tx"] = Taken(@)]
        /\ Wake(Woken(queue["tx"].not_full))
        /\ Goes("poll")
     \/ /\ intq_empty(queue["tx"])
        /\ Goes("run")
        /\ UNCHANGED <<status, ready_list, queue, byte>>
  /\ UNCHANGED <<current, portVars, call, off, countVars, panicked>>

\* putc_poll: waits until the transmitter is empty.
putc_poll ==
  /\ At("poll") \/ At("poll_and_return")
  /\ thr = 0
  /\ thr' = byte[current]
  /\ Goes(IF pc[current] = "poll_and_return" THEN "run"
          ELSE IF call[current] = "flush" THEN "spill" ELSE "try")
  /\ UNCHANGED <<schedVars, queue, mode, ier, rbr, call, byte, off, countVars,
                 panicked>>

-----------------------------------------------------------------------------
(* The loops of intq_putc and intq_getc. *)

Q == IF call[current] = "putc" THEN "tx" ELSE "in"
MustWait == IF call[current] = "putc" THEN intq_full(queue[Q])
                                      ELSE intq_empty(queue[Q])

\* Variant of Put: the interrupt enable register is not updated.
PutOnly ==
  /\ At("try") /\ call[current] = "putc" /\ ~MustWait
  /\ written' = written + 1
  /\ queue' = [queue EXCEPT ![Q] = Added(@, written + 1)]
  /\ Wake(Woken(queue[Q].not_empty))
  /\ Goes("run")
  /\ UNCHANGED <<current, portVars, call, byte, off, sent, accepted,
                 delivered, panicked>>

Put ==
  /\ At("try") /\ call[current] = "putc" /\ ~MustWait
  /\ written' = written + 1
  /\ queue' = [queue EXCEPT ![Q] = Added(@, written + 1)]
  /\ Wake(Woken(queue[Q].not_empty))
  /\ ier' = write_ier(queue')
  /\ Goes("run")
  /\ UNCHANGED <<current, mode, thr, rbr, call, byte, off, sent, accepted,
                 delivered, panicked>>

Get ==
  /\ At("try") /\ call[current] = "getc" /\ ~MustWait
  /\ delivered' = First(queue[Q])
  /\ queue' = [queue EXCEPT ![Q] = Taken(@)]
  /\ Wake(Woken(queue[Q].not_full))
  /\ ier' = IF mode = "QUEUE" THEN write_ier(queue') ELSE ier
  /\ Goes("run")
  /\ UNCHANGED <<current, mode, thr, rbr, call, byte, off, written, sent,
                 accepted, panicked>>

\* lock_acquire, which blocks while another thread waits for the condition.
AcquireLock ==
  /\ (At("try") /\ MustWait) \/ At("lock")
  /\ \/ /\ queue[Q].value = 0
        /\ queue' = [queue EXCEPT ![Q].waiters = Append(@, current)]
        /\ thread_block
        /\ Goes("lock")
     \/ /\ queue[Q].value = 1
        /\ queue' = [queue EXCEPT ![Q].value = 0]
        /\ Goes("wait")
        /\ UNCHANGED schedVars
  /\ UNCHANGED <<portVars, call, byte, off, countVars, panicked>>

\* wait asserts its condition.
wait ==
  /\ At("wait")
  /\ IF MustWait
       THEN /\ queue' = IF call[current] = "putc"
                          THEN [queue EXCEPT ![Q].not_full = current]
                          ELSE [queue EXCEPT ![Q].not_empty = current]
            /\ thread_block
            /\ Goes("waited")
            /\ UNCHANGED panicked
       ELSE panicked' = TRUE /\ UNCHANGED <<schedVars, queue, pc>>
  /\ UNCHANGED <<portVars, call, byte, off, countVars>>

ReleaseLock ==
  /\ At("waited")
  /\ queue' = [queue EXCEPT ![Q].value = 1,
                            ![Q].waiters = IF @ = <<>> THEN @ ELSE Tail(@)]
  /\ Wake(IF queue[Q].waiters = <<>> THEN <<>> ELSE <<Head(queue[Q].waiters)>>)
  /\ Goes("try")
  /\ UNCHANGED <<current, portVars, call, byte, off, countVars, panicked>>

-----------------------------------------------------------------------------
(* Interrupts and hardware. *)

InterruptsOn == ~panicked /\ pc[current] = "run"

\* input_putc, from an interrupt handler that has seen room in the buffer.
input_putc(qs) == [qs EXCEPT !["in"] = Added(@, accepted + 1)]

\* The UART asks for an enabled interrupt.  The handler receives a byte and
\* transmits one, as far as queues and UART allow.
serial_interrupt ==
  LET receives == rbr /\ ~intq_full(queue["in"])
      transmits == ~intq_empty(queue["tx"]) /\ thr = 0
      qs == IF receives THEN input_putc(queue) ELSE queue
  IN  /\ InterruptsOn
      /\ ("xmit" \in ier /\ thr = 0) \/ ("recv" \in ier /\ rbr)
      /\ rbr' = (rbr /\ ~receives)
      /\ accepted' = IF receives THEN accepted + 1 ELSE accepted
      /\ thr' = IF transmits THEN First(qs["tx"]) ELSE thr
      /\ queue' = IF transmits THEN [qs EXCEPT !["tx"] = Taken(@)] ELSE qs
      /\ Wake((IF receives THEN Woken(queue["in"].not_empty) ELSE <<>>)
              \o (IF transmits THEN Woken(queue["tx"].not_full) ELSE <<>>))
      /\ ier' = write_ier(queue')
      /\ UNCHANGED <<current, mode, callVars, written, sent, delivered, panicked>>

\* A character from the keyboard is dropped when the buffer is full.
keyboard_interrupt ==
  /\ InterruptsOn /\ accepted < MaxBytes
  /\ ~intq_full(queue["in"])
  /\ accepted' = accepted + 1
  /\ queue' = input_putc(queue)
  /\ Wake(Woken(queue["in"].not_empty))
  /\ ier' = IF mode = "QUEUE" THEN write_ier(queue') ELSE ier
  /\ UNCHANGED <<current, mode, thr, rbr, callVars, written, sent, delivered,
                 panicked>>

timer_interrupt ==
  /\ InterruptsOn /\ current # Idle
  /\ YieldFrom(status, ready_list)
  /\ UNCHANGED <<queue, portVars, callVars, countVars, panicked>>

idle ==
  /\ InterruptsOn /\ current = Idle /\ ready_list # <<>>
  /\ thread_block
  /\ UNCHANGED <<queue, portVars, callVars, countVars, panicked>>

\* The UART puts the byte on the line; a byte arrives.
Transmit ==
  /\ thr # 0
  /\ thr' = 0 /\ sent' = thr
  /\ UNCHANGED <<schedVars, queue, mode, ier, rbr, callVars, written, accepted,
                 delivered, panicked>>

Arrive ==
  /\ ~rbr /\ accepted < MaxBytes
  /\ rbr' = TRUE
  /\ UNCHANGED <<schedVars, queue, mode, ier, thr, callVars, countVars, panicked>>

Calls ==
  \/ serial_init_queue \/ serial_flush \/ input_getc
  \/ \E o \in BOOLEAN : serial_putc(o)

Steps ==
  Spill \/ putc_poll \/ Put \/ Get \/ AcquireLock \/ wait \/ ReleaseLock

Next ==
  \/ Calls \/ Steps
  \/ serial_interrupt \/ keyboard_interrupt \/ timer_interrupt \/ idle
  \/ Transmit \/ Arrive

Spec == Init /\ [][Next]_vars

\* The processor goes on with a call, the UART transmits, an interrupt that stays
\* pending is handled, and the timer preempts the running thread.
Fairness ==
  /\ WF_vars(Steps) /\ WF_vars(Transmit)
  /\ SF_vars(serial_interrupt) /\ SF_vars(timer_interrupt) /\ WF_vars(idle)

FairSpec == Spec /\ Fairness

-----------------------------------------------------------------------------
\* Type invariant of the queues and the port.
TypeOK ==
  /\ status \in [Thread -> Statuses]
  /\ ready_list \in Seq(Thread) /\ current \in Thread
  /\ \A q \in {"tx", "in"} :
       /\ queue[q].head \in 0 .. INTQ_BUFSIZE - 1
       /\ queue[q].tail \in 0 .. INTQ_BUFSIZE - 1
       /\ queue[q].not_full \in Thread \cup {NULL}
       /\ queue[q].not_empty \in Thread \cup {NULL}
       /\ queue[q].value \in {0, 1}
  /\ mode \in {"POLL", "QUEUE"} /\ ier \subseteq {"xmit", "recv"}
  /\ thr \in 0 .. MaxBytes /\ rbr \in BOOLEAN
  /\ panicked \in BOOLEAN

\* The bytes from a to b in order.
From(a, b) == [k \in 1 .. b - a |-> a + k]

\* What has been taken out of the transmit queue and not yet put on the line.
InFlight ==
  (IF thr = 0 THEN <<>> ELSE <<thr>>)
  \o (IF pc[current] \in {"poll", "poll_and_return"} THEN <<byte[current]>> ELSE <<>>)

\* The line carries the bytes in the order they were written and loses none, even
\* when callers with interrupts off send the oldest byte by polling; and input is
\* delivered in the order it was accepted, without loss.
BytesInOrder ==
  /\ InFlight \o Contents(queue["tx"]) = From(sent, written)
  /\ Contents(queue["in"]) = From(delivered, accepted)

\* Whenever an interrupt can come, the interrupts that the queues call for are
\* enabled: no byte waits with its interrupt turned off.  (After serial_flush the
\* transmit interrupt is still enabled for an empty queue, for one last time.)
IerSufficient == mode = "QUEUE" /\ InterruptsOn => write_ier(queue) \subseteq ier

\* A thread that waits for a queue, waits for a condition that is still false.
NoMissedSignal ==
  /\ queue["tx"].not_full # NULL => intq_full(queue["tx"])
  /\ queue["in"].not_empty # NULL => intq_empty(queue["in"])

\* A caller that has interrupts off is never put to sleep in serial_putc.
OffNeverSleeps == \A t \in Thread : off[t] => status[t] # "blocked"

\* serial.c, intq.c: bytes keep their order, the interrupts they need are enabled, and
\* nobody sleeps with interrupts off.
SerialExact == TypeOK /\ BytesInOrder /\ IerSufficient /\ OffNeverSleeps

\* The assertion in wait never fails.
NoPanic == ~panicked

\* Every byte handed to serial_putc reaches the line.
OutputReachesLine == \A n \in 1 .. MaxBytes : written >= n ~> sent >= n

\* A reader that waits gets a byte that arrives.
ReaderServed ==
  \A t \in Readers :
    pc[t] # "run" /\ accepted > delivered ~> pc[t] = "run" \/ accepted = delivered

\* input.c, thread.c: a waiting reader gets a byte that arrives, and a ready thread
\* gets the processor.
ThreadsServed == ReaderServed /\ ReadyRuns
=============================================================================
