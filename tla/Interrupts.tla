----------------------------- MODULE Interrupts -----------------------------
(***************************************************************************)
(* Interrupt handling (interrupt.c): the gates of the IDT, the dispatch of *)
(* external and internal interrupts, nested on the stacks of two or more   *)
(* threads, the end-of-interrupt signal and yielding on return.  The       *)
(* processor and the interrupt controllers (PICs) are external: the        *)
(* processor takes an interrupt if IF is set, a PIC offers none of lower   *)
(* or equal priority while one is in service.                              *)
(***************************************************************************)
EXTENDS Integers, Sequences, FiniteSets, Functions

CONSTANTS
  IntrThread,           \* threads
  ExtVec, IntVec,       \* vectors of devices; vectors of exceptions and system calls
  MaxFrames             \* frames on a thread's stack

ASSUME IntrAssumption ==
  /\ IntrThread # {}
  /\ ExtVec \subseteq 32 .. 47 /\ IntVec \subseteq Nat \ (32 .. 47)

VARIABLES
  intr_handlers,        \* vectors with a handler
  gate,                 \* the gate of a vector: "intr" (turns IF off) or "trap"
  IF_flag,              \* the processor's interrupt flag
  running,              \* the running thread
  frames,               \* interrupt frames on every thread's stack, innermost last
  resume_level,         \* the level thread_yield restores in a thread that waits
  chosen_level,         \* the level that a thread's own code last set
  in_external_intr, yield_on_return,
  raised, in_service,   \* the PICs: interrupts waiting, and not yet acknowledged
  failed                \* an ASSERT of interrupt.c failed

intrVars == <<intr_handlers, gate, IF_flag, running, frames, resume_level, chosen_level, in_external_intr,
              yield_on_return, raised, in_service, failed>>
idtVars == <<intr_handlers, gate>>
picVars == <<raised, in_service>>
flagVars == <<in_external_intr, yield_on_return>>

external(v) == v >= 32 /\ v < 48
Top(t) == frames[t][Len(frames[t])]
Base(t) == frames[t] = <<>>
InInternal == Top(running).pc = "handler" /\ ~external(Top(running).vec)
                /\ Top(running).vec \in intr_handlers
SetTop(t, pc) == [frames EXCEPT ![t] = [@ EXCEPT ![Len(@)].pc = pc]]

InterruptsInit ==
  /\ intr_handlers = {}
  /\ gate = [v \in ExtVec \cup IntVec |-> "intr"]
  /\ IF_flag = TRUE
  /\ running = CHOOSE t \in IntrThread : TRUE
  /\ frames = [t \in IntrThread |-> <<>>]
  /\ resume_level = [t \in IntrThread |-> TRUE]        \* kernel_thread enables interrupts
  /\ chosen_level = [t \in IntrThread |-> TRUE]
  /\ in_external_intr = FALSE /\ yield_on_return = FALSE
  /\ raised = {} /\ in_service = {}
  /\ failed = FALSE

-----------------------------------------------------------------------------
(* Registration and levels, by the running thread outside of interrupts. *)

register_handler(v, level) ==
  /\ v \notin intr_handlers
  /\ intr_handlers' = intr_handlers \cup {v}
  /\ gate' = [gate EXCEPT ![v] = IF level THEN "trap" ELSE "intr"]

intr_register_ext(v) == external(v) /\ register_handler(v, FALSE)
intr_register_int(v, level) == ~external(v) /\ register_handler(v, level)

Register ==
  /\ \A t \in IntrThread : Base(t)
  /\ \E v \in ExtVec \cup IntVec :
       intr_register_ext(v) \/ (\E level \in BOOLEAN : intr_register_int(v, level))
  /\ UNCHANGED <<IF_flag, running, frames, resume_level, chosen_level, flagVars, picVars, failed>>

\* intr_enable asserts that no external interrupt is being processed.
intr_set_level(level) ==
  /\ ~Base(running) => InInternal
  /\ failed' = (failed \/ (level /\ in_external_intr))
  /\ IF_flag' = level
  /\ chosen_level' = IF Base(running) THEN [chosen_level EXCEPT ![running] = level]
                     ELSE chosen_level
  /\ UNCHANGED <<idtVars, running, frames, resume_level, flagVars, picVars>>

-----------------------------------------------------------------------------
(* The processor and the PICs. *)

\* A PIC offers its line with the lowest number above all those in service; the
\* slave's lines share line 2 of the master.
MasterLine(v) == IF v >= 40 THEN 34 ELSE v
Offered(v) ==
  /\ v \in raised
  /\ \A w \in in_service : MasterLine(v) < MasterLine(w) \/ (v >= 40 /\ w >= 40 /\ v < w)

RaiseIrq(v) ==
  /\ v \notin raised
  /\ raised' = raised \cup {v}
  /\ UNCHANGED <<idtVars, IF_flag, running, frames, resume_level, chosen_level, flagVars,
                 in_service, failed>>

\* Entry of an interrupt: the gate decides whether interrupts stay on.
Enter(v) ==
  /\ Len(frames[running]) < MaxFrames
  /\ frames' = [frames EXCEPT ![running] =
                  Append(@, [vec |-> v, saved |-> IF_flag, pc |-> "handler"])]
  /\ IF_flag' = (IF_flag /\ gate[v] = "trap")

\* intr_handler, up to the call of the handler.
TakeExternal(v) ==
  /\ IF_flag /\ Offered(v)
  /\ Enter(v)
  /\ raised' = raised \ {v} /\ in_service' = in_service \cup {v}
  /\ failed' = (failed \/ IF_flag' \/ in_external_intr)
  /\ in_external_intr' = TRUE /\ yield_on_return' = FALSE
  /\ UNCHANGED <<idtVars, running, resume_level, chosen_level>>

\* An exception or system call, in a thread's code or in an internal handler; a
\* vector without a handler is an unexpected_interrupt, and does nothing.
TakeInternal(v) ==
  /\ ~Base(running) => InInternal
  /\ Enter(v)
  /\ UNCHANGED <<idtVars, running, resume_level, chosen_level, flagVars, picVars, failed>>

-----------------------------------------------------------------------------
(* Handlers. *)

intr_yield_on_return ==
  /\ in_external_intr /\ Top(running).vec \in intr_handlers
  /\ yield_on_return' = TRUE
  /\ UNCHANGED <<idtVars, IF_flag, running, frames, resume_level, chosen_level, in_external_intr,
                 picVars, failed>>

\* pic_end_of_interrupt acknowledges the line, and that of the slave.
pic_end_of_interrupt(v) == in_service' = in_service \ {v}

\* Variant of EndExternal: the controller is told after the yield.
EndAfterYield(v) ==
  /\ in_external_intr' = FALSE
  /\ IF yield_on_return THEN UNCHANGED in_service ELSE pic_end_of_interrupt(v)

EndExternal(v) == in_external_intr' = FALSE /\ pic_end_of_interrupt(v)

\* intr_handler, after the handler.
HandlerReturns ==
  /\ ~Base(running) /\ Top(running).pc = "handler"
  /\ IF external(Top(running).vec)
       THEN /\ failed' = (failed \/ IF_flag \/ ~in_external_intr)
            /\ EndExternal(Top(running).vec)
            /\ frames' = SetTop(running, IF yield_on_return THEN "yield" ELSE "return")
       ELSE /\ frames' = SetTop(running, "return")
            /\ UNCHANGED <<in_service, in_external_intr, failed>>
  /\ UNCHANGED <<idtVars, IF_flag, running, resume_level, chosen_level, yield_on_return, raised>>

\* intr_exit: the processor restores IF.
InterruptReturn ==
  /\ ~Base(running) /\ Top(running).pc = "return"
  /\ IF_flag' = Top(running).saved
  /\ frames' = [frames EXCEPT ![running] = SubSeq(@, 1, Len(@) - 1)]
  /\ UNCHANGED <<idtVars, running, resume_level, chosen_level, flagVars, picVars, failed>>

\* thread_yield to thread t: on return from an external interrupt, or by the
\* thread's own code or an internal handler.  The thread that resumes restores the
\* level at which it gave up the processor.
yield_to(t) ==
  /\ t # running
  /\ \/ Base(running) /\ UNCHANGED frames
     \/ ~Base(running) /\ InInternal /\ UNCHANGED frames
     \/ /\ ~Base(running) /\ Top(running).pc = "yield"
        /\ frames' = SetTop(running, "return")
  /\ failed' = (failed \/ in_external_intr)
  /\ running' = t
  /\ resume_level' = [resume_level EXCEPT ![running] = IF_flag]
  /\ IF_flag' = resume_level[t]
  /\ UNCHANGED <<idtVars, chosen_level, flagVars, picVars>>

InterruptsNext ==
  \/ Register \/ intr_yield_on_return \/ HandlerReturns \/ InterruptReturn
  \/ \E level \in BOOLEAN : intr_set_level(level)
  \/ \E v \in ExtVec : RaiseIrq(v) \/ TakeExternal(v)
  \/ \E v \in IntVec : TakeInternal(v)
  \/ \E t \in IntrThread : yield_to(t)

IntrSpec == InterruptsInit /\ [][InterruptsNext]_intrVars

-----------------------------------------------------------------------------
(* Properties *)

Handling(t) == {k \in DOMAIN frames[t] :
                  frames[t][k].pc = "handler" /\ external(frames[t][k].vec)}

\* interrupt.c: external interrupts never nest and run with interrupts off, on the
\* running thread; in_external_intr says so exactly; every interrupt in service is
\* the one being handled, so that a thread that yields on return leaves no line
\* blocked; code that was interrupted goes on at its own level; no ASSERT fails.
IntrExact ==
  /\ ~failed
  /\ in_external_intr <=> Handling(running) # {}
  /\ in_external_intr => ~IF_flag /\ Handling(running) = {Len(frames[running])}
  /\ \A t \in IntrThread : t # running => Handling(t) = {}
  /\ in_service = {frames[running][k].vec : k \in Handling(running)}
  /\ Base(running) => IF_flag = chosen_level[running]
=============================================================================
