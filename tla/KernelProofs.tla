---------------------------- MODULE KernelProofs ----------------------------
(***************************************************************************)
(* The properties of the kernel's components as MCKernel states them, for  *)
(* every value of the constants.                                           *)
(***************************************************************************)
EXTENDS MCKernel, FilesysProofs, DevicesProofs, ConsoleProofs, IdeProofs, ThreadsProofs,
        MemoryProofs

\* A step of the kernel is a step of its component.
LEMMA KernelSteps ==
  ASSUME [Next]_allVars
  PROVE  /\ part' = part
         /\ part = "threads" => [ThreadsNext]_threadsVars
         /\ part = "malloc" => [MallocNext]_heapVars
         /\ part = "paging" => [PagingNext]_pagingVars
         /\ part = "interrupts" => [InterruptsNext]_intrVars
         /\ part = "console" => [ConsoleNext]_consoleVars
         /\ part = "ide" => [IdeNext]_ideVars
         /\ part = "filesys" => [FilesysNext]_filesysVars
<1>1. CASE UNCHANGED allVars
  BY Zenon, <1>1 DEF allVars
<1>2. CASE Ended
  BY Zenon, <1>2 DEF Ended, allVars
<1>3. CASE Next
  BY Zenon, <1>2, <1>3 DEF Next
<1> QED
  BY Zenon, <1>1, <1>3

\* filesys/: no sector belongs to two files and no name is in the directory twice, as
\* long as the directory can be read.
THEOREM KernelNoSharedSectors ==
  ASSUME ~ReadsFail
  PROVE  Spec => []MCNoSharedSectors
<1> DEFINE Inv == part = "filesys" => FilesysInv /\ Kept
<1>1. Init => Inv
  BY Zenon, FilesysInvInit DEF Init
<1>2. Inv /\ [Next]_allVars => Inv'
  BY Zenon, FilesysInvNext, KernelSteps
<1>3. Inv => MCNoSharedSectors
  BY Zenon, FilesysInvImplies DEF MCNoSharedSectors, Kept
<1> QED
  BY <1>1, <1>2, <1>3, PTL DEF Spec

\* filesys/: the machine may stop at any moment, even if reads of the directory fail.
THEOREM KernelCrashSafe == Spec => []MCCrashSafe
<1> DEFINE Inv == part = "filesys" => FilesysInv
<1>1. Init => Inv
  BY Zenon, FilesysInvInit DEF Init
<1>2. Inv /\ [Next]_allVars => Inv'
  BY Zenon, FilesysInvNext, KernelSteps
<1>3. Inv => MCCrashSafe
  BY Zenon, FilesysInvImplies DEF MCCrashSafe
<1> QED
  BY <1>1, <1>2, <1>3, PTL DEF Spec

\* filesys/: no sector is lost except where the code loses it, and the counts of an inode
\* are those of its open files.
THEOREM KernelSectorsAccounted ==
  ASSUME ~ReadsFail
  PROVE  Spec => []MCSectorsAccounted
<1> DEFINE Inv == part = "filesys" => FilesysInv /\ Kept
<1>1. Init => Inv
  BY Zenon, FilesysInvInit DEF Init
<1>2. Inv /\ [Next]_allVars => Inv'
  BY Zenon, FilesysInvNext, KernelSteps
<1>3. Inv => MCSectorsAccounted
  BY Zenon, FilesysInvImplies DEF MCSectorsAccounted, Kept
<1> QED
  BY <1>1, <1>2, <1>3, PTL DEF Spec

\* interrupt.c: external interrupts do not nest, leave no line blocked and give back the
\* interrupted level.
THEOREM KernelInterruptsExact == Spec => []MCIntrExact
<1> DEFINE Inv == part = "interrupts" => IntrInv
<1>1. Init => Inv
  BY Zenon, InitInv DEF Init
<1>2. Inv /\ [Next]_allVars => Inv'
  BY Zenon, NextInv, KernelSteps
<1>3. Inv => MCIntrExact
  BY Zenon, InvExact DEF MCIntrExact
<1> QED
  BY <1>1, <1>2, <1>3, PTL DEF Spec

\* console.c: the output of two threads is not mixed, and the lock is given back once.
THEOREM KernelConsoleExact == Spec => []MCConsoleExact
<1> DEFINE Inv == part = "console" => ConsoleInv
<1>1. Init => Inv
  BY Zenon, ConsoleInvInit DEF Init
<1>2. Inv /\ [Next]_allVars => Inv'
  BY Zenon, ConsoleInvNext, KernelSteps
<1>3. Inv => MCConsoleExact
  BY Zenon, ConsoleInvImplies DEF MCConsoleExact
<1> QED
  BY <1>1, <1>2, <1>3, PTL DEF Spec

\* The invariant of ide.c, in the kernel.
LEMMA KernelIde == Spec => [](part = "ide" => IdeInv)
<1> DEFINE Inv == part = "ide" => IdeInv
<1>1. Init => Inv
  BY Zenon, IdeInvInit DEF Init
<1>2. Inv /\ [Next]_allVars => Inv'
  BY Zenon, IdeInvNext, KernelSteps
<1> QED
  BY <1>1, <1>2, PTL DEF Spec

\* ide.c: reads return what was written.
THEOREM KernelIdeDataExact == Spec => []MCIdeDataExact
<1>1. (part = "ide" => IdeInv) => MCIdeDataExact
  BY Zenon, IdeInvImplies DEF MCIdeDataExact
<1> QED
  BY <1>1, KernelIde, PTL

\* ide.c: a thread that waits for its command is woken.
THEOREM KernelIdeCompletes == Spec => []MCIdeCompletes
<1>1. (part = "ide" => IdeInv) => MCIdeCompletes
  BY Zenon, IdeInvImplies DEF MCIdeCompletes
<1> QED
  BY <1>1, KernelIde, PTL

\* The invariant of thread.c and timer.c, in the kernel.
LEMMA KernelThreads == Spec => [](part = "threads" => ThreadsInv)
<1> DEFINE Inv == part = "threads" => ThreadsInv
<1>1. Init => Inv
  BY Zenon, ThreadsInvInit DEF Init
<1>2. Inv /\ [Next]_allVars => Inv'
  BY Zenon, ThreadsInvNext, KernelSteps
<1> QED
  BY <1>1, <1>2, PTL DEF Spec

\* thread.c: a thread is in one list at most.
THEOREM KernelElemExclusive == Spec => []MCElemExclusive
<1>1. (part = "threads" => ThreadsInv) => MCElemExclusive
  BY Zenon, ThreadsInvImplies DEF MCElemExclusive
<1> QED
  BY <1>1, KernelThreads, PTL

\* thread.c: the cached wakeup tick is the earliest.
THEOREM KernelWakeupTickExact == Spec => []MCWakeupTickExact
<1>1. (part = "threads" => ThreadsInv) => MCWakeupTickExact
  BY Zenon, ThreadsInvImplies DEF MCWakeupTickExact
<1> QED
  BY <1>1, KernelThreads, PTL

\* thread.c: the processor is not halted while a thread is ready.
THEOREM KernelNoIdleWhileReady == Spec => []MCNoIdleWhileReady
<1>1. (part = "threads" => ThreadsInv) => MCNoIdleWhileReady
  BY Zenon, ThreadsInvImplies DEF MCNoIdleWhileReady
<1> QED
  BY <1>1, KernelThreads, PTL

\* timer.c, thread.c: sleepers wake at the tick they asked for.
THEOREM KernelWakeupOnTime == Spec => MCWakeupOnTime
<1> DEFINE Inv == part = "threads" => ThreadsInv
<1>1. Inv /\ [Next]_allVars => [part = "threads" => WakesOnTime]_allVars
  <2> SUFFICES ASSUME Inv, [Next]_allVars, part = "threads" PROVE WakesOnTime \/ UNCHANGED allVars
    BY Zenon
  <2>1. [ThreadsNext]_threadsVars
    BY Zenon, KernelSteps
  <2>2. CASE UNCHANGED threadsVars
    <3>1. sleep_list' = sleep_list /\ ticks' = ticks
      BY Zenon, <2>2 DEF threadsVars, sleepVars
    <3> QED
      BY Zenon, <3>1 DEF WakesOnTime
  <2> QED
    BY Zenon, <2>1, <2>2, ThreadsWakeOnTime
<1> QED
  BY <1>1, KernelThreads, PTL DEF Spec, MCWakeupOnTime

\* The invariant of pagedir.c and process.c, in the kernel.
LEMMA KernelPaging == Spec => [](part = "paging" => PagingInv)
<1> DEFINE Inv == part = "paging" => PagingInv
<1>1. Init => Inv
  BY Zenon, PagingInvInit DEF Init
<1>2. Inv /\ [Next]_allVars => Inv'
  BY Zenon, PagingInvNext, KernelSteps
<1> QED
  BY <1>1, <1>2, PTL DEF Spec

\* pagedir.c, process.c: the translations in use are those of the running process.
THEOREM KernelTlbCoherent == Spec => []MCTlbCoherent
<1>1. (part = "paging" => PagingInv) => MCTlbCoherent
  BY Zenon, PagingInvImplies DEF MCTlbCoherent
<1> QED
  BY <1>1, KernelPaging, PTL

\* process.c, pagedir.c: every page is freed once, and not while it is used.
THEOREM KernelFramesExact == Spec => []MCFramesExact
<1>1. (part = "paging" => PagingInv) => MCFramesExact
  BY Zenon, PagingInvImplies DEF MCFramesExact
<1> QED
  BY <1>1, KernelPaging, PTL
=============================================================================
