--------------------------- MODULE ConsoleProofs ----------------------------
(***************************************************************************)
(* Proofs about console.c for any threads, lengths and depth of nesting:   *)
(* the characters of a call stay together, and the lock is given back      *)
(* once.                                                                   *)
(***************************************************************************)
EXTENDS Console, TLAPS

OutChar == [who : Writer \cup {"panic", "intr"}, nr : Nat]
PrintCall == [pc : {"acquire", "print"}, left : Nat, nr : Nat]

ConsoleTypes ==
  /\ use_console_lock \in BOOLEAN /\ console_lock \in Writer \cup {Free}
  /\ console_lock_depth \in Nat
  /\ prints \in [Writer -> Seq(PrintCall)]
  /\ made \in Nat /\ noise \in Nat
  /\ panic \in {Calm} \cup [who : Writer, level : Nat \ {0}]
  /\ output \in Seq(OutChar)

\* The characters of an outermost call follow one another.
Together ==
  \A i, k \in 1 .. Len(output) : \A j \in i .. k :
    output[i] = output[k] /\ output[i].nr # 0 /\ output[j].nr # 0 => output[j] = output[i]

\* The calls of thread t that have the lock.
Holding(t) == IF AtCall(t, "acquire") THEN Len(prints[t]) - 1 ELSE Len(prints[t])

\* The open calls of a thread have the number of the outermost one, which no other thread
\* has, and only the innermost may still wait for the lock.
CallsNumbered ==
  /\ \A i \in 1 .. Len(output) : output[i].nr <= made
  /\ \A t \in Writer : \A k \in 1 .. Len(prints[t]) :
       /\ prints[t][k].nr = prints[t][1].nr
       /\ prints[t][k].nr \in 1 .. made
       /\ k < Len(prints[t]) => prints[t][k].pc = "print"
  /\ \A t, u \in Writer :
       t # u /\ prints[t] # <<>> /\ prints[u] # <<>> => prints[t][1].nr # prints[u][1].nr

\* A call that has printed was the last to, except for interrupt handlers, and has the
\* lock.
LastToPrint ==
  \A t \in Writer : prints[t] # <<>> =>
    \A i \in 1 .. Len(output) : output[i].nr = prints[t][1].nr =>
      /\ output[i].who = t
      /\ prints[t][1].pc = "print"
      /\ \A j \in i .. Len(output) : output[j].nr # 0 => output[j] = output[i]

\* The lock counts the open calls of its holder; without it one thread prints.
LockCounts ==
  /\ use_console_lock =>
       /\ \A t \in Writer :
            /\ console_lock = t <=> Holding(t) > 0
            /\ console_lock = t => console_lock_depth = Holding(t) - 1
       /\ console_lock = Free => console_lock_depth = 0
  /\ ~use_console_lock =>
       /\ console_lock = Free /\ console_lock_depth = 0
       /\ \A t, u \in Writer : prints[t] # <<>> /\ prints[u] # <<>> => t = u

ConsoleInv ==
  /\ ConsoleTypes /\ Together
  /\ panic = Calm => CallsNumbered /\ LastToPrint /\ LockCounts
  /\ panic # Calm =>
       /\ ~use_console_lock
       /\ \A k \in 1 .. Len(prints[panic.who]) : prints[panic.who][k].nr = 0

ConsoleSpec == ConsoleInit /\ [][ConsoleNext]_consoleVars

\* A thread has at least the outermost call, and its innermost call waits or prints.
LEMMA CallOf ==
  ASSUME ConsoleTypes, NEW t \in Writer, prints[t] # <<>>
  PROVE  /\ prints[t] \in Seq(PrintCall) /\ Len(prints[t]) \in Nat /\ Len(prints[t]) > 0
         /\ Inner(t) \in PrintCall
         /\ \A k \in 1 .. Len(prints[t]) : prints[t][k] \in PrintCall
<1>1. prints[t] \in Seq(PrintCall)
  BY Zenon DEF ConsoleTypes
<1>2. Len(prints[t]) \in Nat /\ Len(prints[t]) > 0
  BY <1>1
<1> QED
  BY <1>1, <1>2 DEF Inner

\* The innermost call is replaced.
LEMMA InnerReplaced ==
  ASSUME ConsoleTypes, NEW t \in Writer, prints[t] # <<>>, NEW c \in PrintCall,
         prints' = SetInner(t, c)
  PROVE  /\ prints' \in [Writer -> Seq(PrintCall)]
         /\ Len(prints'[t]) = Len(prints[t]) /\ prints'[t] # <<>>
         /\ prints'[t][Len(prints[t])] = c
         /\ \A k \in 1 .. Len(prints[t]) : k # Len(prints[t]) => prints'[t][k] = prints[t][k]
         /\ \A u \in Writer : u # t => prints'[u] = prints[u]
<1>1. PICK q \in Seq(PrintCall) : q = prints[t] /\ Len(q) \in Nat /\ Len(q) > 0
  BY Zenon, CallOf
<1>2. PICK r : r = [q EXCEPT ![Len(q)] = c]
  BY Zenon
<1>3. r \in Seq(PrintCall) /\ Len(r) = Len(q)
  BY <1>1, <1>2
<1>4. /\ r # <<>> /\ r[Len(q)] = c
      /\ \A k \in 1 .. Len(q) : k # Len(q) => r[k] = q[k]
  BY <1>1, <1>2, <1>3
<1>5. prints' = [prints EXCEPT ![t] = r]
  BY Zenon, <1>1, <1>2 DEF SetInner
<1> QED
  BY Zenon, <1>1, <1>3, <1>4, <1>5 DEF ConsoleTypes

\* Whoever prints is the only one: it has the lock, or there is one thread.
LEMMA OnePrints ==
  ASSUME ConsoleInv, panic = Calm, NEW t \in Writer, NEW u \in Writer,
         Holding(t) > 0, Holding(u) > 0
  PROVE  t = u
<1>1. Holding(t) > 0 => prints[t] # <<>>
  BY DEF Holding, AtCall
<1>2. Holding(u) > 0 => prints[u] # <<>>
  BY DEF Holding, AtCall
<1>3. CASE use_console_lock
  BY Zenon, <1>3 DEF ConsoleInv, LockCounts
<1>4. CASE ~use_console_lock
  BY Zenon, <1>1, <1>2, <1>4 DEF ConsoleInv, LockCounts
<1> QED
  BY Zenon, <1>3, <1>4

\* A call that has the lock is open.
LEMMA OpenHolds ==
  ASSUME ConsoleTypes, CallsNumbered, NEW t \in Writer
  PROVE  /\ Holding(t) \in Nat
         /\ prints[t] # <<>> /\ (AtCall(t, "print") \/ prints[t][1].pc = "print") => Holding(t) > 0
         /\ Open(t) = 1 .. Holding(t)
<1>1. CASE prints[t] = <<>>
  BY <1>1 DEF Holding, AtCall, Open
<1>2. CASE prints[t] # <<>>
  <2>1. /\ Len(prints[t]) \in Nat /\ Len(prints[t]) > 0 /\ DOMAIN prints[t] = 1 .. Len(prints[t])
        /\ \A k \in 1 .. Len(prints[t]) : prints[t][k].pc \in {"acquire", "print"}
    BY SMTT(30), <1>2, CallOf DEF PrintCall
  <2>2. \A k \in 1 .. Len(prints[t]) : k < Len(prints[t]) => prints[t][k].pc = "print"
    BY Zenon DEF CallsNumbered
  <2> QED
    BY SMTT(30), <1>2, <2>1, <2>2 DEF Holding, AtCall, Inner, Open
<1> QED
  BY Zenon, <1>1, <1>2

\* Nothing is printed at first.
LEMMA ConsoleInvInit == ConsoleInit => ConsoleInv
<1> SUFFICES ASSUME ConsoleInit PROVE ConsoleInv
  OBVIOUS
<1> USE DEF ConsoleInit
<1>1. ConsoleTypes
  <2>1. use_console_lock \in BOOLEAN
    BY Zenon
  <2>2. prints \in [Writer -> Seq(PrintCall)]
    OBVIOUS
  <2> QED
    BY <2>1, <2>2 DEF ConsoleTypes
<1>2. Len(output) = 0 /\ \A t \in Writer : Len(prints[t]) = 0 /\ prints[t] = <<>>
  OBVIOUS
<1>3. Together /\ CallsNumbered /\ LastToPrint
  BY <1>2 DEF Together, CallsNumbered, LastToPrint
<1>4. LockCounts
  BY Zenon, <1>2 DEF LockCounts
<1> QED
  BY Zenon, <1>1, <1>3, <1>4 DEF ConsoleInv

\* A character is printed.
LEMMA Printed ==
  ASSUME ConsoleTypes, NEW c \in OutChar,
         output' = Append(output, c)
  PROVE  /\ output' \in Seq(OutChar)
         /\ Len(output) \in Nat /\ Len(output') = Len(output) + 1
         /\ \A i \in 1 .. Len(output) : output'[i] = output[i]
         /\ output'[Len(output) + 1] = c
BY DEF ConsoleTypes

\* A character that belongs to no call is between any two others.
LEMMA NoiseKeeps ==
  ASSUME ConsoleTypes, NEW c \in OutChar, c.nr = 0,
         output' = Append(output, c)
  PROVE  /\ Together => Together'
         /\ UNCHANGED <<prints, made>> /\ CallsNumbered => CallsNumbered'
         /\ UNCHANGED prints /\ CallsNumbered /\ LastToPrint => LastToPrint'
<1>1. /\ Len(output) \in Nat /\ Len(output') = Len(output) + 1
      /\ \A i \in 1 .. Len(output) : output'[i] = output[i]
      /\ output'[Len(output) + 1] = c
  BY Zenon, Printed
<1>2. ASSUME Together PROVE Together'
  <2> SUFFICES ASSUME NEW i \in 1 .. Len(output'), NEW k \in 1 .. Len(output'), NEW j \in i .. k,
                      output'[i] = output'[k], output'[i].nr # 0, output'[j].nr # 0
               PROVE  output'[j] = output'[i]
    BY DEF Together
  <2>1. i <= Len(output) /\ k <= Len(output)
    BY <1>1
  <2> QED
    BY <1>1, <1>2, <2>1 DEF Together
<1>3. ASSUME UNCHANGED <<prints, made>>, CallsNumbered PROVE CallsNumbered'
  <2>1. made \in Nat
    BY Zenon DEF ConsoleTypes
  <2> QED
    BY <1>1, <1>3, <2>1 DEF CallsNumbered
<1>4. ASSUME UNCHANGED prints, CallsNumbered, LastToPrint PROVE LastToPrint'
  <2> SUFFICES ASSUME NEW t \in Writer, prints[t] # <<>>,
                      NEW i \in 1 .. Len(output'), output'[i].nr = prints[t][1].nr
               PROVE  /\ output'[i].who = t
                      /\ prints[t][1].pc = "print"
                      /\ \A j \in i .. Len(output') : output'[j].nr # 0 => output'[j] = output'[i]
    BY Zenon, <1>4 DEF LastToPrint
  <2>1. prints[t][1].nr # 0
    BY SMTT(30), <1>4, CallOf DEF CallsNumbered
  <2>2. i \in 1 .. Len(output) /\ output'[i] = output[i]
    BY <1>1, <2>1
  <2> QED
    BY <1>1, <1>4, <2>2 DEF LastToPrint
<1> QED
  BY Zenon, <1>2, <1>3, <1>4

\* A thread prints a character of its call.
LEMMA PutcharKeeps ==
  ASSUME ConsoleInv, NEW t \in Writer, putchar_have_lock(t)
  PROVE  ConsoleInv'
<1> DEFINE n == Inner(t).nr
           m == Inner(t).left
           c == [Inner(t) EXCEPT !.left = m - 1]
<1>1. /\ prints[t] # <<>> /\ Inner(t).pc = "print" /\ m > 0 /\ Running(t) /\ ConsoleTypes
      /\ output' = Append(output, Character(t)) /\ prints' = SetInner(t, c)
      /\ UNCHANGED <<use_console_lock, console_lock, console_lock_depth, made, noise, panic>>
  BY Zenon DEF putchar_have_lock, AtCall, lockVars, ConsoleInv
<1>2. c \in PrintCall /\ c.pc = "print" /\ c.nr = n /\ n \in Nat
  BY SMTT(30), <1>1, CallOf DEF PrintCall
<1>3. /\ prints' \in [Writer -> Seq(PrintCall)]
      /\ Len(prints'[t]) = Len(prints[t]) /\ prints'[t] # <<>>
      /\ prints'[t][Len(prints[t])] = c
      /\ \A k \in 1 .. Len(prints[t]) : k # Len(prints[t]) => prints'[t][k] = prints[t][k]
      /\ \A u \in Writer : u # t => prints'[u] = prints[u]
  BY Zenon, <1>1, <1>2, InnerReplaced
<1>4. /\ Len(prints[t]) \in Nat /\ Len(prints[t]) > 0
      /\ prints[t][Len(prints[t])].nr = n /\ prints[t][Len(prints[t])].pc = "print"
  BY Zenon, <1>1, CallOf DEF Inner
<1>5. \A u \in Writer : \A k \in 1 .. Len(prints[u]) :
        /\ Len(prints'[u]) = Len(prints[u])
        /\ prints'[u][k].nr = prints[u][k].nr /\ prints'[u][k].pc = prints[u][k].pc
  BY <1>2, <1>3, <1>4, ZenonT(30)
<1>6. Character(t) \in OutChar /\ Character(t).nr = n
  BY Zenon, <1>2 DEF Character, OutChar
<1>7. ConsoleTypes'
  BY <1>1, <1>3, <1>6, Printed, Zenon DEF ConsoleTypes
<1>8. \A u \in Writer : Len(prints'[u]) = Len(prints[u]) /\ (prints'[u] # <<>> <=> prints[u] # <<>>)
  BY <1>3
<1>9. CASE panic # Calm
  <2>1. panic.who = t /\ n = 0
    <3>1. panic \in [who : Writer, level : Nat \ {0}]
      BY Zenon, <1>1, <1>9 DEF ConsoleTypes
    <3>2. panic.who \in Writer
      BY Zenon, <3>1
    <3>3. panic.who = t
      BY Zenon, <1>1, <3>2, ConsoleAssumption DEF Running
    <3>4. \A k \in 1 .. Len(prints[t]) : prints[t][k].nr = 0
      BY Zenon, <1>9, <3>3 DEF ConsoleInv
    <3> QED
      BY <1>4, <3>3, <3>4
  <2>2. Together'
    BY Zenon, <1>1, <1>6, <2>1, NoiseKeeps DEF ConsoleInv
  <2>3. \A k \in 1 .. Len(prints'[t]) : prints'[t][k].nr = 0
    BY <1>3, <1>5, <1>9, <2>1 DEF ConsoleInv
  <2>4. panic' # Calm /\ ~use_console_lock' /\ panic'.who = t
    BY Zenon, <1>1, <1>9, <2>1 DEF ConsoleInv
  <2> QED
    BY Zenon, <1>7, <2>2, <2>3, <2>4 DEF ConsoleInv
<1>10. CASE panic = Calm
  <2>1. /\ Len(output) \in Nat /\ Len(output') = Len(output) + 1
        /\ \A i \in 1 .. Len(output) : output'[i] = output[i]
        /\ output'[Len(output) + 1] = Character(t)
    BY Zenon, <1>1, <1>6, Printed
  <2>2. Character(t).who = t
    BY Zenon, <1>10, ConsoleAssumption DEF Character, Calm
  <2>3. n = prints[t][1].nr /\ n \in 1 .. made /\ made \in Nat
    BY SMTT(30), <1>1, <1>4, <1>10 DEF ConsoleInv, CallsNumbered, ConsoleTypes
  <2>4. CallsNumbered'
    <3>1. \A i \in 1 .. Len(output') : output'[i].nr <= made'
      BY SMTT(30), <1>1, <1>6, <1>10, <2>1, <2>3 DEF ConsoleInv, CallsNumbered
    <3>2. \A u \in Writer : \A k \in 1 .. Len(prints'[u]) :
            /\ k \in 1 .. Len(prints[u]) /\ 1 \in 1 .. Len(prints[u])
            /\ prints'[u][1].nr = prints[u][1].nr
      BY SMTT(30), <1>3, <1>5, <1>7, <1>8 DEF ConsoleTypes
    <3>3. \A u \in Writer : \A k \in 1 .. Len(prints'[u]) :
            /\ prints'[u][k].nr = prints'[u][1].nr
            /\ prints'[u][k].nr \in 1 .. made'
            /\ k < Len(prints'[u]) => prints'[u][k].pc = "print"
      <4> TAKE u \in Writer
      <4> TAKE k \in 1 .. Len(prints'[u])
      <4>1. /\ k \in 1 .. Len(prints[u]) /\ Len(prints'[u]) = Len(prints[u])
            /\ prints'[u][1].nr = prints[u][1].nr /\ made' = made
        BY Zenon, <1>1, <1>8, <3>2
      <4>2. prints'[u][k].nr = prints[u][k].nr /\ prints'[u][k].pc = prints[u][k].pc
        BY Zenon, <1>5, <4>1
      <4>3. /\ prints[u][k].nr = prints[u][1].nr
            /\ prints[u][k].nr \in 1 .. made
            /\ k < Len(prints[u]) => prints[u][k].pc = "print"
        BY Zenon, <1>10, <4>1 DEF ConsoleInv, CallsNumbered
      <4> QED
        BY Zenon, <4>1, <4>2, <4>3
    <3>4. \A u \in Writer : prints'[u] # <<>> => prints'[u][1].nr = prints[u][1].nr
      BY SMTT(30), <1>1, <1>5, <1>8, CallOf
    <3>5. \A u, v \in Writer : u # v /\ prints'[u] # <<>> /\ prints'[v] # <<>> =>
            prints'[u][1].nr # prints'[v][1].nr
      BY <1>8, <1>10, <3>4 DEF ConsoleInv, CallsNumbered
    <3> QED
      BY Zenon, <3>1, <3>3, <3>5 DEF CallsNumbered
  <2>5. \A u \in Writer : Holding(u)' = Holding(u)
    BY <1>2, <1>3, <1>4, Zenon DEF Holding, AtCall, Inner
  <2>6. LockCounts'
    BY <1>1, <1>8, <1>10, <2>5, ZenonT(30) DEF ConsoleInv, LockCounts, ConsoleTypes
  <2>7. Holding(t) > 0
    BY Zenon, <1>1, <1>4, <1>10, OpenHolds DEF ConsoleInv, AtCall
  <2>8. \A i \in 1 .. Len(output) : output[i].nr = n =>
          /\ output[i] = Character(t)
          /\ \A j \in i .. Len(output) : output[j].nr # 0 => output[j] = Character(t)
    <3> TAKE i \in 1 .. Len(output)
    <3> HAVE output[i].nr = n
    <3>1. output[i].who = t /\ \A j \in i .. Len(output) : output[j].nr # 0 => output[j] = output[i]
      BY SMTT(30), <1>1, <1>10, <2>3 DEF ConsoleInv, LastToPrint
    <3>2. output[i] \in OutChar
      BY <1>1 DEF ConsoleTypes
    <3>3. output[i] = Character(t)
      BY <1>6, <2>2, <3>1, <3>2 DEF OutChar
    <3> QED
      BY Zenon, <3>1, <3>3
  <2>9. Together'
    <3> SUFFICES ASSUME NEW i \in 1 .. Len(output'), NEW k \in 1 .. Len(output'), NEW j \in i .. k,
                        output'[i] = output'[k], output'[i].nr # 0, output'[j].nr # 0
                 PROVE  output'[j] = output'[i]
      BY Zenon DEF Together
    <3>1. CASE k <= Len(output)
      BY SMTT(30), <2>1, <3>1 DEF ConsoleInv, Together
    <3>2. CASE k = Len(output) + 1
      BY <1>6, <2>1, <2>8, <3>2
    <3> QED
      BY <2>1, <3>1, <3>2
  <2>10. LastToPrint'
    <3> SUFFICES ASSUME NEW u \in Writer, prints'[u] # <<>>,
                        NEW i \in 1 .. Len(output'), output'[i].nr = prints'[u][1].nr
                 PROVE  /\ output'[i].who = u
                        /\ prints'[u][1].pc = "print"
                        /\ \A j \in i .. Len(output') : output'[j].nr # 0 => output'[j] = output'[i]
      BY Zenon DEF LastToPrint
    <3>1. prints[u] # <<>> /\ 1 \in 1 .. Len(prints[u])
      BY SMTT(30), <1>1, <1>8, CallOf
    <3>2. prints'[u][1].nr = prints[u][1].nr /\ prints'[u][1].pc = prints[u][1].pc
      BY Zenon, <1>5, <3>1
    <3>3. CASE u = t
      <4>1. prints[t][1].pc = "print"
        BY SMTT(30), <1>1, <1>4, <1>10 DEF ConsoleInv, CallsNumbered
      <4> QED
        BY SMTT(30), <1>6, <2>1, <2>2, <2>3, <2>8, <3>2, <3>3, <4>1
    <3>4. CASE u # t
      <4>1. prints[u][1].nr # n
        BY Zenon, <1>1, <1>10, <2>3, <3>1, <3>4 DEF ConsoleInv, CallsNumbered
      <4>2. i \in 1 .. Len(output) /\ output[i].nr = prints[u][1].nr
        BY <1>6, <2>1, <3>2, <4>1
      <4>3. prints[u][1].pc = "print"
        BY Zenon, <1>10, <3>1, <4>2 DEF ConsoleInv, LastToPrint
      <4>4. Holding(u) > 0
        BY Zenon, <1>10, <3>1, <4>3, OpenHolds DEF ConsoleInv
      <4> QED
        BY Zenon, <1>10, <2>7, <3>4, <4>4, OnePrints
    <3> QED
      BY Zenon, <3>3, <3>4
  <2> QED
    BY Zenon, <1>1, <1>7, <1>10, <2>4, <2>6, <2>9, <2>10 DEF ConsoleInv
<1> QED
  BY Zenon, <1>9, <1>10

\* While it panics, only the thread that panicked runs.
LEMMA PanicRuns ==
  ASSUME ConsoleInv, panic # Calm, NEW t \in Writer, Running(t)
  PROVE  panic.who = t /\ \A k \in 1 .. Len(prints[t]) : prints[t][k].nr = 0
<1>1. panic \in [who : Writer, level : Nat \ {0}]
  BY Zenon DEF ConsoleInv, ConsoleTypes
<1>2. panic.who \in Writer
  BY Zenon, <1>1
<1>3. panic.who = t
  BY Zenon, <1>2, ConsoleAssumption DEF Running
<1> QED
  BY Zenon, <1>3 DEF ConsoleInv

\* A thread takes the lock, or has it already, or goes on without it.
LEMMA AcquireConsoleKeeps ==
  ASSUME ConsoleInv, NEW t \in Writer, acquire_console(t)
  PROVE  ConsoleInv'
<1> DEFINE c == [Inner(t) EXCEPT !.pc = "print"]
<1>1. /\ prints[t] # <<>> /\ Inner(t).pc = "acquire" /\ Running(t) /\ ConsoleTypes
      /\ prints' = SetInner(t, c)
      /\ UNCHANGED <<use_console_lock, made, noise, panic, output>>
  BY Zenon DEF acquire_console, AtCall, ConsoleInv
<1>2. c \in PrintCall /\ c.pc = "print" /\ c.nr = Inner(t).nr
  BY Zenon, <1>1, CallOf DEF PrintCall
<1> HIDE DEF c
<1>3. /\ prints' \in [Writer -> Seq(PrintCall)]
      /\ Len(prints'[t]) = Len(prints[t]) /\ prints'[t] # <<>>
      /\ prints'[t][Len(prints[t])] = c
      /\ \A k \in 1 .. Len(prints[t]) : k # Len(prints[t]) => prints'[t][k] = prints[t][k]
      /\ \A u \in Writer : u # t => prints'[u] = prints[u]
  BY Zenon, <1>1, <1>2, InnerReplaced
<1>4. /\ Len(prints[t]) \in Nat /\ Len(prints[t]) > 0
      /\ prints[t][Len(prints[t])].nr = Inner(t).nr /\ prints[t][Len(prints[t])].pc = "acquire"
  BY Zenon, <1>1, CallOf DEF Inner
<1>5. \A u \in Writer : \A k \in 1 .. Len(prints[u]) :
        /\ prints'[u][k].nr = prints[u][k].nr
        /\ prints[u][k].pc = "print" => prints'[u][k].pc = "print"
  BY Zenon, <1>2, <1>3, <1>4
<1>6. \A u \in Writer : Len(prints'[u]) = Len(prints[u]) /\ (prints'[u] # <<>> <=> prints[u] # <<>>)
  BY Zenon, <1>3, <1>1
<1>7. console_lock' \in Writer \cup {Free} /\ console_lock_depth' \in Nat
  BY <1>1 DEF acquire_console, ConsoleTypes
<1>8. ConsoleTypes'
  BY Zenon, <1>1, <1>3, <1>7 DEF ConsoleTypes
<1>9. Together'
  BY <1>1 DEF ConsoleInv, Together
<1>10. CASE panic # Calm
  <2>1. panic.who = t /\ \A k \in 1 .. Len(prints[t]) : prints[t][k].nr = 0
    BY Zenon, <1>1, <1>10, PanicRuns
  <2>2. \A k \in 1 .. Len(prints'[t]) : prints'[t][k].nr = 0
    BY <1>3, <1>5, <2>1
  <2>3. panic' # Calm /\ ~use_console_lock' /\ panic'.who = t
    BY Zenon, <1>1, <1>10, <2>1 DEF ConsoleInv
  <2> QED
    BY Zenon, <1>8, <1>9, <2>2, <2>3 DEF ConsoleInv
<1>11. CASE panic = Calm
  <2>1. \A u \in Writer : prints[u] # <<>> =>
          /\ prints'[u][1].nr = prints[u][1].nr
          /\ prints[u][1].pc = "print" => prints'[u][1].pc = "print"
    BY <1>1, <1>5, CallOf
  <2>2. CallsNumbered'
    <3>1. \A i \in 1 .. Len(output') : output'[i].nr <= made'
      BY Zenon, <1>1, <1>11 DEF ConsoleInv, CallsNumbered
    <3>2. ASSUME NEW u \in Writer, NEW k \in 1 .. Len(prints'[u])
          PROVE  /\ prints'[u][k].nr = prints'[u][1].nr
                 /\ prints'[u][k].nr \in 1 .. made'
                 /\ k < Len(prints'[u]) => prints'[u][k].pc = "print"
      <4>1. k \in 1 .. Len(prints[u]) /\ prints[u] # <<>> /\ Len(prints'[u]) = Len(prints[u])
        BY <1>6
      <4>2. /\ prints[u][k].nr = prints[u][1].nr
            /\ prints[u][k].nr \in 1 .. made
            /\ k < Len(prints[u]) => prints[u][k].pc = "print"
        BY Zenon, <1>11, <4>1 DEF ConsoleInv, CallsNumbered
      <4> QED
        BY Zenon, <1>1, <1>5, <2>1, <4>1, <4>2
    <3>3. \A u, v \in Writer : u # v /\ prints'[u] # <<>> /\ prints'[v] # <<>> =>
            prints'[u][1].nr # prints'[v][1].nr
      BY <1>6, <1>11, <2>1 DEF ConsoleInv, CallsNumbered
    <3> QED
      BY Zenon, <3>1, <3>2, <3>3 DEF CallsNumbered
  <2>3. LastToPrint'
    BY SMTT(30), <1>1, <1>6, <1>11, <2>1 DEF ConsoleInv, LastToPrint
  <2>4. /\ Holding(t) = Len(prints[t]) - 1 /\ Holding(t)' = Len(prints[t])
        /\ \A u \in Writer : u # t => Holding(u)' = Holding(u)
    BY SMTT(30), <1>1, <1>2, <1>3, <1>4 DEF Holding, AtCall, Inner
  <2>5. \A u \in Writer : Holding(u) \in Nat
    BY Zenon, <1>1, <1>11, OpenHolds DEF ConsoleInv
  <2>6. LockCounts'
    <3>1. CASE ~use_console_lock
      <4>1. UNCHANGED <<use_console_lock, console_lock, console_lock_depth>>
        BY Zenon, <1>1, <3>1 DEF acquire_console
      <4>2. console_lock = Free /\ console_lock_depth = 0
        BY Zenon, <1>11, <3>1 DEF ConsoleInv, LockCounts
      <4>3. \A u, v \in Writer : prints[u] # <<>> /\ prints[v] # <<>> => u = v
        BY Zenon, <1>11, <3>1 DEF ConsoleInv, LockCounts
      <4> QED
        BY Zenon, <1>6, <3>1, <4>1, <4>2, <4>3 DEF LockCounts
    <3>2. CASE use_console_lock /\ Locked(t)
      <4>1. console_lock = t /\ console_lock' = t /\ console_lock_depth' = console_lock_depth + 1
        BY Zenon, <3>2, ConsoleAssumption DEF acquire_console, Locked
      <4>2. console_lock_depth = Holding(t) - 1 /\ \A u \in Writer : u # t => ~(Holding(u) > 0)
        BY Zenon, <1>11, <3>2, <4>1 DEF ConsoleInv, LockCounts
      <4>3. t # Free
        BY Zenon, ConsoleAssumption
      <4> QED
        BY SMTT(30), <1>1, <1>4, <2>4, <2>5, <3>2, <4>1, <4>2, <4>3 DEF LockCounts
    <3>3. CASE use_console_lock /\ ~Locked(t)
      <4>1. console_lock = Free /\ console_lock' = t /\ console_lock_depth' = console_lock_depth
        BY Zenon, <3>3 DEF acquire_console
      <4>2. console_lock_depth = 0 /\ \A u \in Writer : ~(Holding(u) > 0)
        BY Zenon, <1>11, <3>3, <4>1, ConsoleAssumption DEF ConsoleInv, LockCounts
      <4>3. t # Free
        BY Zenon, ConsoleAssumption
      <4> QED
        BY SMTT(30), <1>1, <1>4, <2>4, <2>5, <3>3, <4>1, <4>2, <4>3 DEF LockCounts
    <3> QED
      BY Zenon, <3>1, <3>2, <3>3
  <2> QED
    BY Zenon, <1>1, <1>8, <1>9, <1>11, <2>2, <2>3, <2>6 DEF ConsoleInv
<1> QED
  BY Zenon, <1>10, <1>11

\* A call ends: a nested one leaves the lock with the thread.
LEMMA ReleaseConsoleKeeps ==
  ASSUME ConsoleInv, NEW t \in Writer, release_console(t)
  PROVE  ConsoleInv'
<1> DEFINE s == SubSeq(prints[t], 1, Len(prints[t]) - 1)
<1>1. /\ prints[t] # <<>> /\ Inner(t).pc = "print" /\ Running(t) /\ ConsoleTypes
      /\ prints' = [prints EXCEPT ![t] = s]
      /\ UNCHANGED <<use_console_lock, made, noise, panic, output>>
  BY Zenon DEF release_console, AtCall, ConsoleInv
<1>2. prints[t] \in Seq(PrintCall) /\ Len(prints[t]) \in Nat /\ Len(prints[t]) > 0
  BY Zenon, <1>1, CallOf
<1>3. /\ s \in Seq(PrintCall) /\ Len(s) = Len(prints[t]) - 1
      /\ \A k \in 1 .. Len(prints[t]) - 1 : s[k] = prints[t][k]
  BY <1>2
<1> HIDE DEF s
<1>4. /\ prints' \in [Writer -> Seq(PrintCall)] /\ prints'[t] = s
      /\ \A u \in Writer : u # t => prints'[u] = prints[u]
  BY Zenon, <1>1, <1>3 DEF ConsoleTypes
<1>5. \A u \in Writer : \A k \in 1 .. Len(prints'[u]) :
        /\ k \in 1 .. Len(prints[u]) /\ prints'[u][k] = prints[u][k]
        /\ k < Len(prints'[u]) => k < Len(prints[u])
  BY SMTT(30), <1>2, <1>3, <1>4
<1>6. \A u \in Writer : prints'[u] # <<>> =>
        prints[u] # <<>> /\ 1 \in 1 .. Len(prints'[u]) /\ prints'[u][1] = prints[u][1]
  <2> SUFFICES ASSUME NEW u \in Writer, prints'[u] # <<>>
               PROVE  /\ 1 \in 1 .. Len(prints'[u]) /\ prints[u] # <<>>
                      /\ prints'[u][1] = prints[u][1]
    OBVIOUS
  <2>1. 1 \in 1 .. Len(prints'[u])
    BY <1>4
  <2> QED
    BY Zenon, <1>4, <1>5, <1>1, <2>1
<1>7. CASE panic # Calm
  <2>1. panic.who = t /\ \A k \in 1 .. Len(prints[t]) : prints[t][k].nr = 0
    BY Zenon, <1>1, <1>7, PanicRuns
  <2>2. \A k \in 1 .. Len(prints'[t]) : prints'[t][k].nr = 0
    BY <1>5, <2>1
  <2>3. panic' # Calm /\ ~use_console_lock' /\ panic'.who = t
    BY Zenon, <1>1, <1>7, <2>1 DEF ConsoleInv
  <2>4. UNCHANGED <<console_lock, console_lock_depth>>
    BY Zenon, <1>7 DEF ConsoleInv, release_console
  <2>5. ConsoleTypes'
    BY Zenon, <1>1, <1>4, <2>4 DEF ConsoleTypes
  <2>6. Together'
    BY <1>1 DEF ConsoleInv, Together
  <2> QED
    BY Zenon, <2>2, <2>3, <2>5, <2>6 DEF ConsoleInv
<1>8. CASE panic = Calm
  <2>1. CallsNumbered'
    <3>1. \A i \in 1 .. Len(output') : output'[i].nr <= made'
      BY Zenon, <1>1, <1>8 DEF ConsoleInv, CallsNumbered
    <3>2. ASSUME NEW u \in Writer, NEW k \in 1 .. Len(prints'[u])
          PROVE  /\ prints'[u][k].nr = prints'[u][1].nr
                 /\ prints'[u][k].nr \in 1 .. made'
                 /\ k < Len(prints'[u]) => prints'[u][k].pc = "print"
      <4>1. /\ k \in 1 .. Len(prints[u]) /\ prints'[u][k] = prints[u][k]
            /\ k < Len(prints'[u]) => k < Len(prints[u])
            /\ prints'[u][1] = prints[u][1]
        BY SMTT(30), <1>4, <1>5, <1>6
      <4>2. /\ prints[u][k].nr = prints[u][1].nr
            /\ prints[u][k].nr \in 1 .. made
            /\ k < Len(prints[u]) => prints[u][k].pc = "print"
        BY Zenon, <1>8, <4>1 DEF ConsoleInv, CallsNumbered
      <4> QED
        BY Zenon, <1>1, <4>1, <4>2
    <3>3. \A u, v \in Writer : u # v /\ prints'[u] # <<>> /\ prints'[v] # <<>> =>
            prints'[u][1].nr # prints'[v][1].nr
      BY SMTT(30), <1>6, <1>8 DEF ConsoleInv, CallsNumbered
    <3> QED
      BY Zenon, <3>1, <3>2, <3>3 DEF CallsNumbered
  <2>2. LastToPrint'
    BY SMTT(30), <1>1, <1>6, <1>8 DEF ConsoleInv, LastToPrint
  <2>3. \A k \in 1 .. Len(prints[t]) : k < Len(prints[t]) => prints[t][k].pc = "print"
    BY Zenon, <1>8 DEF ConsoleInv, CallsNumbered
  <2>4. Holding(t) = Len(prints[t]) /\ Holding(t)' = Len(prints[t]) - 1
    <3>1. Holding(t) = Len(prints[t])
      BY Zenon, <1>1 DEF Holding, AtCall
    <3>2. CASE s = <<>>
      <4>1. Holding(t)' = 0 /\ Len(prints[t]) = 1
        BY <1>2, <1>3, <1>4, <3>2 DEF Holding, AtCall
      <4> QED
        BY <3>1, <4>1
    <3>3. CASE s # <<>>
      <4>1. Len(s) \in 1 .. Len(prints[t]) - 1
        BY <1>2, <1>3, <3>3
      <4>2. s[Len(s)].pc = "print"
        BY SMTT(30), <1>2, <1>3, <2>3, <4>1
      <4>3. Holding(t)' = Len(s)
        BY Zenon, <1>4, <4>2 DEF Holding, AtCall, Inner
      <4> QED
        BY Zenon, <1>3, <3>1, <4>3
    <3> QED
      BY Zenon, <3>1, <3>2, <3>3
  <2>5. \A u \in Writer : (u # t => Holding(u)' = Holding(u)) /\ Holding(u) \in Nat
    BY SMTT(30), <1>1, <1>4, <1>8, OpenHolds DEF Holding, AtCall, Inner, ConsoleInv
  <2>6. t # Free
    BY Zenon, ConsoleAssumption
  <2>7. LockCounts' /\ console_lock' \in Writer \cup {Free} /\ console_lock_depth' \in Nat
    <3>1. CASE ~use_console_lock
      <4>1. UNCHANGED <<use_console_lock, console_lock, console_lock_depth>>
        BY Zenon, <1>1, <3>1 DEF release_console
      <4>2. console_lock = Free /\ console_lock_depth = 0
        BY Zenon, <1>8, <3>1 DEF ConsoleInv, LockCounts
      <4>3. \A u, v \in Writer : prints[u] # <<>> /\ prints[v] # <<>> => u = v
        BY Zenon, <1>8, <3>1 DEF ConsoleInv, LockCounts
      <4> QED
        BY Zenon, <1>6, <3>1, <4>1, <4>2, <4>3 DEF LockCounts
    <3>2. CASE use_console_lock
      <4>1. console_lock = t /\ console_lock_depth = Len(prints[t]) - 1
        BY Zenon, <1>2, <1>8, <2>4, <3>2 DEF ConsoleInv, LockCounts
      <4>2. \A u \in Writer : u # t => Holding(u)' = 0
        BY <1>8, <2>5, <3>2, <4>1 DEF ConsoleInv, LockCounts
      <4>3. CASE Nested
        <5>1. console_lock' = t /\ console_lock_depth' = Len(prints[t]) - 2 /\ Len(prints[t]) > 1
          BY <1>2, <3>2, <4>1, <4>3 DEF release_console, Nested
        <5> QED
          BY SMTT(30), <1>1, <1>2, <2>4, <2>6, <3>2, <4>2, <5>1 DEF LockCounts
      <4>4. CASE ~Nested
        <5>1. console_lock' = Free /\ console_lock_depth' = 0 /\ Len(prints[t]) = 1
          <6>1. console_lock' = Free /\ console_lock_depth' = console_lock_depth
            BY Zenon, <3>2, <4>4 DEF release_console
          <6>2. ~(console_lock_depth > 0)
            BY Zenon, <4>4 DEF Nested
          <6>3. Len(prints[t]) = 1 /\ console_lock_depth = 0
            <7>1. \A l \in Nat : l > 0 /\ ~(l - 1 > 0) => l = 1 /\ l - 1 = 0
              OBVIOUS
            <7> QED
              BY <1>2, <4>1, <6>2, <7>1, Zenon
          <6> QED
            BY Zenon, <6>1, <6>3
        <5> QED
          BY <1>1, <2>4, <2>6, <3>2, <4>2, <5>1, ConsoleAssumption DEF LockCounts
      <4> QED
        BY Zenon, <4>3, <4>4
    <3> QED
      BY Zenon, <3>1, <3>2
  <2>8. ConsoleTypes'
    BY Zenon, <1>1, <1>4, <2>7 DEF ConsoleTypes
  <2>9. Together'
    BY <1>1 DEF ConsoleInv, Together
  <2> QED
    BY Zenon, <1>1, <1>8, <2>1, <2>2, <2>7, <2>8, <2>9 DEF ConsoleInv
<1> QED
  BY Zenon, <1>7, <1>8

\* What was printed has numbers.
LEMMA OutNumbers ==
  ASSUME ConsoleTypes, NEW i \in 1 .. Len(output)
  PROVE  output[i] \in OutChar /\ output[i].nr \in Nat
<1>1. output \in Seq(OutChar)
  BY Zenon DEF ConsoleTypes
<1>2. output[i] \in OutChar
  BY <1>1
<1> QED
  BY Zenon, <1>2 DEF OutChar

\* A thread makes a call, perhaps within one.
LEMMA CallPrintKeeps ==
  ASSUME ConsoleInv, NEW t \in Writer, Call(t)
  PROVE  ConsoleInv'
<1> DEFINE n == IF prints[t] = <<>> THEN made + 1 ELSE prints[t][1].nr
           c == [pc |-> "acquire", left |-> Length, nr |-> n]
           s == Append(prints[t], c)
<1>1. /\ panic = Calm /\ (prints[t] # <<>> => Inner(t).pc = "print") /\ ConsoleTypes
      /\ use_console_lock \/ \A u \in Writer \ {t} : prints[u] = <<>>
      /\ prints' = [prints EXCEPT ![t] = s] /\ made' = made + 1
      /\ UNCHANGED <<use_console_lock, console_lock, console_lock_depth, noise, panic, output>>
  BY Zenon DEF Call, lockVars, ConsoleInv
<1>2. CallsNumbered /\ LastToPrint /\ LockCounts /\ made \in Nat
  BY Zenon, <1>1 DEF ConsoleInv, ConsoleTypes
<1>3. prints[t] \in Seq(PrintCall) /\ Len(prints[t]) \in Nat
  BY <1>1 DEF ConsoleTypes
<1>4. n \in 1 .. made + 1 /\ (prints[t] # <<>> => n = prints[t][1].nr /\ n \in 1 .. made)
  <2>1. CASE prints[t] = <<>>
    BY <1>2, <2>1
  <2>2. CASE prints[t] # <<>>
    <3>1. 1 \in 1 .. Len(prints[t])
      BY SMTT(30), <1>1, <2>2, CallOf
    <3>2. prints[t][1].nr \in 1 .. made
      BY Zenon, <1>2, <3>1 DEF CallsNumbered
    <3> QED
      BY <1>2, <2>2, <3>2
  <2> QED
    BY Zenon, <2>1, <2>2
<1>5. prints[t] = <<>> => n = made + 1
  OBVIOUS
<1> HIDE DEF n
<1>6. c \in PrintCall /\ c.pc = "acquire" /\ c.nr = n
  BY <1>2, <1>4, ConsoleAssumption DEF PrintCall
<1> HIDE DEF c
<1>7. /\ s \in Seq(PrintCall) /\ Len(s) = Len(prints[t]) + 1 /\ s # <<>>
      /\ \A k \in 1 .. Len(prints[t]) : s[k] = prints[t][k]
      /\ s[Len(prints[t]) + 1] = c
  BY <1>3, <1>6
<1> HIDE DEF s
<1>8. /\ prints' \in [Writer -> Seq(PrintCall)] /\ prints'[t] = s
      /\ \A u \in Writer : u # t => prints'[u] = prints[u]
  BY Zenon, <1>1, <1>7 DEF ConsoleTypes
<1>9. \A k \in 1 .. Len(s) : s[k].nr = n
  <2>1. \A k \in 1 .. Len(prints[t]) : prints[t][k].nr = prints[t][1].nr /\ prints[t] # <<>>
    BY SMTT(30), <1>2, <1>3 DEF CallsNumbered
  <2> TAKE k \in 1 .. Len(s)
  <2>2. CASE k = Len(prints[t]) + 1
    BY Zenon, <1>6, <1>7, <2>2
  <2>3. CASE k \in 1 .. Len(prints[t])
    <3>1. prints[t][k].nr = prints[t][1].nr /\ prints[t] # <<>> /\ s[k] = prints[t][k]
      BY Zenon, <1>7, <2>1, <2>3
    <3> QED
      BY Zenon, <1>4, <3>1
  <2> QED
    BY SMTT(30), <1>3, <1>7, <2>2, <2>3
<1>10. ConsoleTypes'
  BY <1>1, <1>2, <1>8 DEF ConsoleTypes
<1>11. Together'
  BY SMTT(30), <1>1 DEF ConsoleInv, Together
<1>12. Len(s) \in Nat /\ 1 \in 1 .. Len(s)
  BY <1>3, <1>7
<1>13. CallsNumbered'
  <2>1. \A i \in 1 .. Len(output') : output'[i].nr <= made'
    <3>1. \A i \in 1 .. Len(output) : output[i].nr \in Nat
      BY Zenon, <1>1, OutNumbers
    <3>2. \A i \in 1 .. Len(output) : output[i].nr <= made
      BY Zenon, <1>2 DEF CallsNumbered
    <3> QED
      BY SMTT(30), <1>1, <1>2, <3>1, <3>2
  <2>2. ASSUME NEW u \in Writer, NEW k \in 1 .. Len(prints'[u])
        PROVE  /\ prints'[u][k].nr = prints'[u][1].nr
               /\ prints'[u][k].nr \in 1 .. made'
               /\ k < Len(prints'[u]) => prints'[u][k].pc = "print"
    <3>1. CASE u # t
      <4>1. prints'[u] = prints[u]
        BY Zenon, <1>8, <3>1
      <4>2. /\ prints[u][k].nr = prints[u][1].nr
            /\ prints[u][k].nr \in 1 .. made
            /\ k < Len(prints[u]) => prints[u][k].pc = "print"
        BY Zenon, <1>2, <4>1 DEF CallsNumbered
      <4> QED
        BY SMTT(30), <1>1, <1>2, <4>1, <4>2
    <3>2. CASE u = t
      <4>1. prints'[u] = s /\ k \in 1 .. Len(s)
        BY Zenon, <1>8, <3>2
      <4>2. s[k].nr = n /\ s[1].nr = n
        BY Zenon, <1>9, <1>12, <4>1
      <4>3. ASSUME k < Len(s) PROVE s[k].pc = "print"
        <5>1. k \in 1 .. Len(prints[t]) /\ prints[t] # <<>>
          BY <1>3, <1>7, <4>1, <4>3
        <5>2. CASE k < Len(prints[t])
          <6>1. prints[t][k].pc = "print"
            BY Zenon, <1>2, <5>1, <5>2 DEF CallsNumbered
          <6> QED
            BY Zenon, <1>7, <5>1, <6>1
        <5>3. CASE k = Len(prints[t])
          BY Zenon, <1>1, <1>7, <5>1, <5>3 DEF Inner
        <5> QED
          BY <1>3, <5>1, <5>2, <5>3
      <4> QED
        BY Zenon, <1>1, <1>4, <4>1, <4>2, <4>3
    <3> QED
      BY Zenon, <3>1, <3>2
  <2>3. ASSUME NEW u \in Writer, NEW v \in Writer, u # v, prints'[u] # <<>>, prints'[v] # <<>>
        PROVE  prints'[u][1].nr # prints'[v][1].nr
    <3>1. ASSUME NEW w \in Writer, w # t, prints[w] # <<>>
          PROVE  prints[w][1].nr # n
      <4>1. prints[w][1].nr \in 1 .. made
        BY SMTT(30), <1>1, <1>2, <3>1, CallOf DEF CallsNumbered
      <4>2. CASE prints[t] = <<>>
        BY <1>2, <1>5, <4>1, <4>2
      <4>3. CASE prints[t] # <<>>
        BY ZenonT(30), <1>2, <1>4, <3>1, <4>3 DEF CallsNumbered
      <4> QED
        BY Zenon, <4>2, <4>3
    <3>2. prints'[t][1].nr = n
      BY Zenon, <1>8, <1>9, <1>12
    <3>3. CASE u = t
      BY Zenon, <1>8, <2>3, <3>1, <3>2, <3>3
    <3>4. CASE v = t
      BY Zenon, <1>8, <2>3, <3>1, <3>2, <3>4
    <3>5. CASE u # t /\ v # t
      BY SMTT(30), <1>2, <1>8, <2>3, <3>5 DEF CallsNumbered
    <3> QED
      BY Zenon, <3>3, <3>4, <3>5
  <2> QED
    BY Zenon, <2>1, <2>2, <2>3 DEF CallsNumbered
<1>14. LastToPrint'
  <2> SUFFICES ASSUME NEW u \in Writer, prints'[u] # <<>>,
                      NEW i \in 1 .. Len(output), output[i].nr = prints'[u][1].nr
               PROVE  /\ output[i].who = u
                      /\ prints'[u][1].pc = "print"
                      /\ \A j \in i .. Len(output) : output[j].nr # 0 => output[j] = output[i]
    BY ZenonT(30), <1>1 DEF LastToPrint
  <2>1. prints[u] # <<>> /\ prints'[u][1] = prints[u][1]
    <3>1. CASE u # t
      BY Zenon, <1>8, <3>1
    <3>2. CASE u = t
      <4>1. output[i].nr = n /\ output[i].nr <= made /\ output[i].nr \in Nat
        BY Zenon, <1>1, <1>2, <1>8, <1>9, <1>12, <3>2, OutNumbers DEF CallsNumbered
      <4>2. prints[t] # <<>>
        BY <1>2, <1>5, <4>1
      <4> QED
        BY SMTT(30), <1>1, <1>7, <1>8, <3>2, <4>2, CallOf
    <3> QED
      BY Zenon, <3>1, <3>2
  <2> QED
    BY SMTT(30), <1>2, <2>1 DEF LastToPrint
<1>15. \A u \in Writer : Holding(u)' = Holding(u)
  <2>1. \A u \in Writer : u # t => Holding(u)' = Holding(u)
    BY Zenon, <1>8 DEF Holding, AtCall, Inner
  <2>2. Holding(t) = Len(prints[t])
    BY Zenon, <1>1 DEF Holding, AtCall
  <2>3. s[Len(s)].pc = "acquire"
    BY Zenon, <1>6, <1>7
  <2>4. Holding(t)' = Len(s) - 1
    BY Zenon, <1>7, <1>8, <2>3 DEF Holding, AtCall, Inner
  <2> QED
    BY SMTT(30), <1>3, <1>7, <2>1, <2>2, <2>4
<1>16. LockCounts'
  <2>1. CASE use_console_lock
    BY Zenon, <1>1, <1>2, <1>15, <2>1 DEF LockCounts
  <2>2. CASE ~use_console_lock
    <3>1. \A u \in Writer : prints'[u] # <<>> => u = t
      BY Zenon, <1>1, <1>8, <2>2
    <3> QED
      BY Zenon, <1>1, <1>2, <2>2, <3>1 DEF LockCounts
  <2> QED
    BY Zenon, <2>1, <2>2
<1> QED
  BY Zenon, <1>1, <1>10, <1>11, <1>13, <1>14, <1>16 DEF ConsoleInv

\* The lock comes into use while nobody prints.
LEMMA ConsoleInitKeeps == ConsoleInv /\ console_init => ConsoleInv'
<1> SUFFICES ASSUME ConsoleInv, console_init PROVE ConsoleInv'
  OBVIOUS
<1>1. /\ ~use_console_lock /\ panic = Calm /\ \A t \in Writer : prints[t] = <<>>
      /\ UNCHANGED <<console_lock, console_lock_depth, prints, made, noise, panic, output>>
  BY Zenon DEF console_init
<1>2. use_console_lock' \in BOOLEAN /\ use_console_lock'
  BY Zenon DEF console_init
<1>3. ConsoleTypes'
  BY Zenon, <1>1, <1>2 DEF ConsoleInv, ConsoleTypes
<1>4. Together' /\ LastToPrint'
  BY SMTT(30), <1>1 DEF ConsoleInv, Together, LastToPrint
<1>5. CallsNumbered'
  BY Zenon, <1>1 DEF ConsoleInv, CallsNumbered
<1>6. \A t \in Writer : Holding(t)' = 0
  BY SMTT(30), <1>1 DEF Holding, AtCall
<1>7. LockCounts'
  BY SMTT(30), <1>1, <1>2, <1>6, ConsoleAssumption DEF ConsoleInv, LockCounts
<1> QED
  BY Zenon, <1>1, <1>3, <1>4, <1>5, <1>7 DEF ConsoleInv

\* An interrupt handler prints.
LEMMA HandlerPrintsKeeps == ConsoleInv /\ HandlerPrints => ConsoleInv'
<1> SUFFICES ASSUME ConsoleInv, HandlerPrints PROVE ConsoleInv'
  OBVIOUS
<1> DEFINE c == [who |-> "intr", nr |-> 0]
<1>1. /\ panic = Calm /\ noise' = noise + 1 /\ output' = Append(output, c) /\ ConsoleTypes
      /\ UNCHANGED <<use_console_lock, console_lock, console_lock_depth, prints, made, panic>>
  BY Zenon DEF HandlerPrints, lockVars, ConsoleInv
<1>2. c \in OutChar /\ c.nr = 0
  BY Zenon DEF OutChar
<1> HIDE DEF c
<1>3. output' \in Seq(OutChar)
  BY Zenon, <1>1, <1>2, Printed
<1>4. ConsoleTypes'
  BY <1>1, <1>3 DEF ConsoleTypes
<1>5. Together' /\ CallsNumbered' /\ LastToPrint'
  BY Zenon, <1>1, <1>2, NoiseKeeps DEF ConsoleInv
<1>6. LockCounts'
  BY Zenon, <1>1 DEF ConsoleInv, LockCounts, Holding, AtCall, Inner
<1> QED
  BY Zenon, <1>1, <1>4, <1>5, <1>6 DEF ConsoleInv

\* A panic starts, or starts over.
LEMMA PanicKeeps ==
  ASSUME ConsoleInv, NEW t \in Writer, debug_panic(t)
  PROVE  ConsoleInv'
<1> DEFINE c == [pc |-> "acquire", left |-> Length, nr |-> 0]
           s == IF panic.level < 2 THEN <<c>> ELSE <<>>
           p == [who |-> t, level |-> panic.level + 1]
<1>1. /\ panic' = p /\ prints' = [prints EXCEPT ![t] = s] /\ ConsoleTypes
      /\ UNCHANGED <<console_lock, console_lock_depth, made, noise, output>>
  BY Zenon DEF debug_panic, ConsoleInv
<1>2. use_console_lock' \in BOOLEAN /\ ~use_console_lock'
  BY Zenon DEF debug_panic
<1>3. c \in PrintCall /\ c.nr = 0
  BY Zenon, ConsoleAssumption DEF PrintCall
<1> HIDE DEF c
<1>4. s \in Seq(PrintCall) /\ \A k \in 1 .. Len(s) : s[k].nr = 0
  BY <1>3
<1> HIDE DEF s
<1>5. prints' \in [Writer -> Seq(PrintCall)] /\ prints'[t] = s
  BY Zenon, <1>1, <1>4 DEF ConsoleTypes
<1>6. panic.level \in Nat
  BY <1>1 DEF ConsoleTypes, Calm
<1>7. p \in [who : Writer, level : Nat \ {0}] /\ p.who = t /\ p # Calm
  BY <1>6, ConsoleAssumption DEF Calm
<1> HIDE DEF p
<1>8. ConsoleTypes'
  BY Zenon, <1>1, <1>2, <1>5, <1>7 DEF ConsoleTypes
<1>9. Together'
  BY SMTT(30), <1>1 DEF ConsoleInv, Together
<1>10. \A k \in 1 .. Len(prints'[panic'.who]) : prints'[panic'.who][k].nr = 0
  BY Zenon, <1>1, <1>4, <1>5, <1>7
<1> QED
  BY Zenon, <1>1, <1>2, <1>7, <1>8, <1>9, <1>10 DEF ConsoleInv

\* Every step that prints keeps the invariant.
LEMMA ConsoleInvNext == ConsoleInv /\ [ConsoleNext]_consoleVars => ConsoleInv'
<1> SUFFICES ASSUME ConsoleInv, [ConsoleNext]_consoleVars PROVE ConsoleInv'
  OBVIOUS
<1>1. CASE UNCHANGED consoleVars
  <2> USE <1>1 DEF consoleVars
  <2>1. ConsoleTypes' /\ Together'
    <3>1. ConsoleTypes'
      BY Zenon DEF ConsoleInv, ConsoleTypes
    <3>2. Together'
      BY DEF ConsoleInv, Together
    <3> QED
      BY Zenon, <3>1, <3>2
  <2>2. panic = Calm => CallsNumbered' /\ LastToPrint'
    BY SMTT(30) DEF ConsoleInv, CallsNumbered, LastToPrint
  <2>3. panic = Calm => LockCounts'
    BY Zenon DEF ConsoleInv, LockCounts, Holding, AtCall, Inner
  <2> QED
    BY Zenon, <2>1, <2>2, <2>3 DEF ConsoleInv
<1> QED
  BY Zenon, <1>1, ConsoleInitKeeps, HandlerPrintsKeeps, CallPrintKeeps, AcquireConsoleKeeps,
     PutcharKeeps, ReleaseConsoleKeeps, PanicKeeps DEF ConsoleNext

\* The number of elements of 1 .. n.
SpanSize(n) == Cardinality(1 .. n)

\* The invariant implies the property.
LEMMA ConsoleInvGives ==
  ASSUME ConsoleInv, \A n \in Nat : SpanSize(n) = n
  PROVE  ConsoleExact
<1>1. DOMAIN output = 1 .. Len(output)
  BY SMTT(30) DEF ConsoleInv, ConsoleTypes
<1>2. \A i, k \in DOMAIN output : \A j \in i .. k :
        output[i] = output[k] /\ output[i].nr # 0 /\ output[j].nr # 0 => output[j] = output[i]
  BY Zenon, <1>1 DEF ConsoleInv, Together
<1>3. ASSUME panic = Calm, use_console_lock
      PROVE  /\ \A t \in Writer : console_lock = t <=> Open(t) # {}
             /\ console_lock # Free => console_lock_depth = Cardinality(Open(console_lock)) - 1
             /\ console_lock = Free => console_lock_depth = 0
  <2>1. /\ \A t \in Writer : /\ console_lock = t <=> Holding(t) > 0
                             /\ console_lock = t => console_lock_depth = Holding(t) - 1
        /\ console_lock = Free => console_lock_depth = 0
    BY Zenon, <1>3 DEF ConsoleInv, LockCounts
  <2>2. \A t \in Writer : Holding(t) \in Nat /\ Open(t) = 1 .. Holding(t)
    BY Zenon, <1>3, OpenHolds DEF ConsoleInv
  <2>3. \A t \in Writer : Cardinality(Open(t)) = Holding(t)
    BY Zenon, <2>2 DEF SpanSize
  <2>4. console_lock # Free => console_lock \in Writer
    BY Zenon DEF ConsoleInv, ConsoleTypes
  <2> QED
    BY <2>1, <2>2, <2>3, <2>4
<1>4. \A t \in Writer : AtCall(t, "acquire") /\ panic.who = t => ~use_console_lock
  BY ConsoleAssumption DEF ConsoleInv, Calm
<1>5. ASSUME NEW t \in Writer, AtCall(t, "print"), use_console_lock
      PROVE  console_lock = t
  <2>1. panic = Calm
    BY Zenon, <1>5 DEF ConsoleInv
  <2>2. Holding(t) > 0
    BY Zenon, <1>5, <2>1, OpenHolds DEF ConsoleInv, AtCall
  <2> QED
    BY Zenon, <1>5, <2>1, <2>2 DEF ConsoleInv, LockCounts
<1> QED
  BY Zenon, <1>2, <1>3, <1>4, <1>5 DEF ConsoleExact

\* How FiniteSets defines the number of elements: the library of theorems, in scope
\* from here on only because the provers are slow behind it, has a copy of its own.
LEMMA SpanDefined ==
  \A n : SpanSize(n) = (LET CS[T \in SUBSET (1 .. n)] ==
                             IF T = {} THEN 0 ELSE 1 + CS[T \ {CHOOSE x : x \in T}]
                       IN  CS[1 .. n])
  BY Zenon DEF SpanSize, Cardinality

LOCAL INSTANCE FiniteSetTheorems

\* The invariant implies the property, with no assumption left.
LEMMA ConsoleInvImplies == ConsoleInv => ConsoleExact
<1>1. \A n \in Nat : Cardinality(1 .. n) = n
  BY FS_Interval
<1>2. \A n : SpanSize(n) = Cardinality(1 .. n)
  BY Zenon, SpanDefined DEF Cardinality
<1> QED
  BY Zenon, <1>1, <1>2, ConsoleInvGives

\* console.c: for any threads, lengths and depths of nesting, the output of two calls is
\* not mixed, the lock is given back exactly when the outermost call ends, and a panic
\* waits for no lock.
THEOREM ConsoleSafe == ConsoleSpec => []ConsoleExact
<1> QED
  BY ConsoleInvInit, ConsoleInvNext, ConsoleInvImplies, PTL DEF ConsoleSpec
=============================================================================
