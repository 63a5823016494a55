------------------------------ MODULE Console ------------------------------
(***************************************************************************)
(* The console (console.c): printing by several threads, by a thread that  *)
(* prints while it prints, by interrupt handlers, and by a kernel panic    *)
(* (debug.c), at the grain of one character.  A call of printf, puts,      *)
(* putbuf or putchar is a number of characters; serial_putc and vga_putc   *)
(* turn interrupts off, so that a character is one step.                   *)
(***************************************************************************)
EXTENDS Integers, Sequences, FiniteSets, Functions

CONSTANTS
  Writer,       \* threads; the first to run initializes the console
  Length,       \* characters of a call
  MaxPrints,    \* calls, of all threads
  MaxNested,    \* calls of one thread that are open at a time
  MaxNoise      \* characters printed by interrupt handlers

VARIABLES
  use_console_lock,
  console_lock, \* its holder, or Free
  console_lock_depth,
  prints,       \* open calls of every thread, innermost last
  made, noise,  \* calls made; characters printed by interrupt handlers
  panic,        \* who panicked, and how often
  output        \* characters: who printed them, in which outermost call

consoleVars == <<use_console_lock, console_lock, console_lock_depth, prints, made, noise,
                 panic, output>>
lockVars == <<use_console_lock, console_lock, console_lock_depth>>

Free == "free"

ASSUME ConsoleAssumption ==
  /\ Free \notin Writer
  /\ Length \in Nat /\ MaxPrints \in Nat /\ MaxNested \in Nat /\ MaxNoise \in Nat

Calm == [who |-> Free, level |-> 0]
Running(t) == panic.who \in {Free, t}       \* a panic turns interrupts off for good
Inner(t) == prints[t][Len(prints[t])]
AtCall(t, pc) == prints[t] # <<>> /\ Inner(t).pc = pc
SetInner(t, c) == [prints EXCEPT ![t] = [@ EXCEPT ![Len(@)] = c]]

ConsoleInit ==
  /\ use_console_lock = FALSE /\ console_lock = Free /\ console_lock_depth = 0
  /\ prints = [t \in Writer |-> <<>>]
  /\ made = 0 /\ noise = 0
  /\ panic = Calm
  /\ output = <<>>

\* Early in main, when there is one thread.
console_init ==
  /\ ~use_console_lock /\ panic = Calm /\ \A t \in Writer : prints[t] = <<>>
  /\ use_console_lock' = TRUE
  /\ UNCHANGED <<console_lock, console_lock_depth, prints, made, noise, panic, output>>

\* A thread starts a call; before console_init there is one thread.
Call(t) ==
  /\ made < MaxPrints /\ panic = Calm /\ Len(prints[t]) < MaxNested
  /\ prints[t] # <<>> => Inner(t).pc = "print"
  /\ \/ use_console_lock
     \/ \A u \in Writer \ {t} : prints[u] = <<>>
  /\ prints' = [prints EXCEPT ![t] = Append(@, [pc |-> "acquire", left |-> Length,
                                                nr |-> IF @ = <<>> THEN made + 1 ELSE @[1].nr])]
  /\ made' = made + 1
  /\ UNCHANGED <<lockVars, noise, panic, output>>

\* lock_held_by_current_thread.
Locked(t) == console_lock = t

acquire_console(t) ==
  /\ AtCall(t, "acquire") /\ Running(t)
  /\ \/ ~use_console_lock /\ UNCHANGED <<console_lock, console_lock_depth>>
     \/ /\ use_console_lock /\ Locked(t)
        /\ console_lock_depth' = console_lock_depth + 1
        /\ UNCHANGED console_lock
     \/ /\ use_console_lock /\ ~Locked(t) /\ console_lock = Free
        /\ console_lock' = t
        /\ UNCHANGED console_lock_depth
  /\ prints' = SetInner(t, [Inner(t) EXCEPT !.pc = "print"])
  /\ UNCHANGED <<use_console_lock, made, noise, panic, output>>

Character(t) == [who |-> IF panic.who = t THEN "panic" ELSE t, nr |-> Inner(t).nr]

putchar_have_lock(t) ==
  /\ AtCall(t, "print") /\ Running(t) /\ Inner(t).left > 0
  /\ output' = Append(output, Character(t))
  /\ prints' = SetInner(t, [Inner(t) EXCEPT !.left = @ - 1])
  /\ UNCHANGED <<lockVars, made, noise, panic>>

\* Variant of Nested: every release gives the lock up.
NestedNever == FALSE

Nested == console_lock_depth > 0

release_console(t) ==
  /\ AtCall(t, "print") /\ Running(t) /\ Inner(t).left = 0
  /\ \/ ~use_console_lock /\ UNCHANGED <<console_lock, console_lock_depth>>
     \/ /\ use_console_lock /\ Nested
        /\ console_lock_depth' = console_lock_depth - 1
        /\ UNCHANGED console_lock
     \/ /\ use_console_lock /\ ~Nested
        /\ console_lock' = Free
        /\ UNCHANGED console_lock_depth
  /\ prints' = [prints EXCEPT ![t] = SubSeq(@, 1, Len(@) - 1)]
  /\ UNCHANGED <<use_console_lock, made, noise, panic, output>>

\* An interrupt handler prints without the lock, between any two characters.
HandlerPrints ==
  /\ noise < MaxNoise /\ panic = Calm
  /\ noise' = noise + 1
  /\ output' = Append(output, [who |-> "intr", nr |-> 0])
  /\ UNCHANGED <<lockVars, prints, made, panic>>

\* debug_panic, in any thread and anywhere, itself included: the first two levels
\* print a message, and what the thread was printing is never resumed.
debug_panic(t) ==
  /\ Running(t) /\ panic.level < 3
  /\ use_console_lock' = FALSE                      \* console_panic
  /\ panic' = [who |-> t, level |-> panic.level + 1]
  /\ prints' = [prints EXCEPT ![t] = IF panic.level < 2
                                     THEN <<[pc |-> "acquire", left |-> Length, nr |-> 0]>>
                                     ELSE <<>>]
  /\ UNCHANGED <<console_lock, console_lock_depth, made, noise, output>>

ConsoleNext ==
  \/ console_init \/ HandlerPrints
  \/ \E t \in Writer :
       \/ Call(t) \/ acquire_console(t) \/ putchar_have_lock(t) \/ release_console(t)
       \/ debug_panic(t)

-----------------------------------------------------------------------------
(* Properties *)

Open(t) == {k \in DOMAIN prints[t] : prints[t][k].pc = "print"}

\* console.c: a call's characters follow one another, with only those of calls the
\* thread makes meanwhile, of interrupt handlers and of a panic between them; the
\* lock and its depth are those of the open calls, so that it is free again when
\* none is open; and a panic waits for no lock.
ConsoleExact ==
  /\ \A i, k \in DOMAIN output : \A j \in i .. k :
       output[i] = output[k] /\ output[i].nr # 0 /\ output[j].nr # 0 =>
         output[j] = output[i]
  /\ panic = Calm /\ use_console_lock =>
       /\ \A t \in Writer : console_lock = t <=> Open(t) # {}
       /\ console_lock # Free => console_lock_depth = Cardinality(Open(console_lock)) - 1
       /\ console_lock = Free => console_lock_depth = 0
  /\ \A t \in Writer : AtCall(t, "acquire") /\ panic.who = t => ~use_console_lock
  /\ \A t \in Writer : AtCall(t, "print") =>            \* putchar_have_lock's ASSERT
       ~use_console_lock \/ console_lock = t
=============================================================================
