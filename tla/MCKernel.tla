------------------------------ MODULE MCKernel ------------------------------
(***************************************************************************)
(* The parts of the kernel that threads, interrupts and failures make      *)
(* hard.  A behaviour belongs to one component (part); the variables of    *)
(* the others are set aside.                                               *)
(***************************************************************************)
EXTENDS Threads, Malloc, Paging, Interrupts, Console, Ide, Filesys, TLC

CONSTANTS tm, ti, ta, tb, t1, t2, d16, f, g, bad

VARIABLE part

\* Malloc: one descriptor with two blocks per arena.
TwoBlocks == [x \in {d16} |-> 2]

\* Paging: a process of two pages, one of them read-only, and one of one page.
Pages2 == [p1 |-> <<[u |-> 1, w |-> FALSE], [u |-> 3, w |-> TRUE]>>,
           p2 |-> <<[u |-> 3, w |-> TRUE]>>]

\* Ide: a disk, and what check_device_type and identify_ata_device must refuse:
\* another device, a failed diagnosis, a drive that is not ready, one too big.
Drive(error, ready, ata, capacity) ==
  [error |-> error, ready |-> ready, ata |-> ata, capacity |-> capacity]
Diagnoses ==
  {Drive(1, TRUE, TRUE, 1), Drive(1, TRUE, FALSE, 1), Drive(129, TRUE, TRUE, 1),
   Drive(1, FALSE, TRUE, 1), Drive(1, TRUE, TRUE, 9)}

\* t1 and t2 stand for callers of the heap and, in the file system, for open files.
Alike == Permutations({t1, t2}) \cup Permutations(Name)

-----------------------------------------------------------------------------
\* The variables of a component that a behaviour is not about.
Aside == "aside"
ThreadsAside ==
  /\ status = Aside /\ ready_list = Aside /\ current = Aside /\ all_list = Aside
  /\ tid = Aside /\ next_tid = Aside /\ sleep_list = Aside /\ wakeup_tick = Aside
  /\ next_tick_to_wakeup = Aside /\ ticks = Aside /\ thread_ticks = Aside /\ halted = Aside
  /\ pc = Aside /\ start = Aside
HeapAside ==
  /\ used_map = Aside /\ pool_lock = Aside /\ call = Aside /\ free_list = Aside
  /\ desc_lock = Aside /\ arena = Aside /\ live = Aside
PagingAside ==
  /\ kernel = Aside /\ user = Aside /\ pte = Aside /\ proc = Aside /\ on_cpu = Aside
  /\ cr3 = Aside /\ tlb = Aside /\ kpage = Aside /\ held = Aside
  /\ modified = Aside
IntrAside ==
  /\ intr_handlers = Aside /\ gate = Aside /\ IF_flag = Aside /\ running = Aside
  /\ frames = Aside /\ resume_level = Aside /\ chosen_level = Aside
  /\ in_external_intr = Aside /\ yield_on_return = Aside /\ raised = Aside
  /\ in_service = Aside /\ failed = Aside
ConsoleAside ==
  /\ use_console_lock = Aside /\ console_lock = Aside /\ console_lock_depth = Aside
  /\ prints = Aside /\ made = Aside /\ noise = Aside /\ panic = Aside /\ output = Aside
IdeAside ==
  /\ device = Aside /\ is_ata = Aside /\ registered = Aside /\ boot = Aside
  /\ channel = Aside /\ drive = Aside /\ irq = Aside /\ media = Aside /\ request = Aside
  /\ strays = Aside /\ down = Aside /\ acknowledged = Aside
FilesysAside ==
  /\ free_map = Aside /\ disk_map = Aside /\ disk_inode = Aside /\ disk_dir = Aside
  /\ open_inodes = Aside /\ file = Aside /\ op = Aside /\ lost = Aside

Init ==
  /\ part \in {"threads", "malloc", "paging", "interrupts", "console", "ide", "filesys"}
  /\ IF part = "threads" THEN ThreadsInit ELSE ThreadsAside
  /\ IF part = "malloc" THEN MallocInit ELSE HeapAside
  /\ IF part = "paging" THEN PagingInit ELSE PagingAside
  /\ IF part = "interrupts" THEN InterruptsInit ELSE IntrAside
  /\ IF part = "console" THEN ConsoleInit ELSE ConsoleAside
  /\ IF part = "ide" THEN IdeInit ELSE IdeAside
  /\ IF part = "filesys" THEN FilesysInit ELSE FilesysAside

allVars == <<part, threadsVars, heapVars, pagingVars, intrVars, consoleVars, ideVars,
             filesysVars>>

\* Where a component rightly stops: the ticks of the bound are over, all printing is
\* done or the kernel panicked, no disk was found.
Ended ==
  /\ \/ part = "threads"
     \/ part = "console" /\ (panic # Calm \/ \A t \in Writer : prints[t] = <<>>)
     \/ part = "ide" /\ (down \/ (boot = "up" /\ registered = {}))
  /\ UNCHANGED allVars

Next ==
  \/ /\ part = "threads" /\ ThreadsNext
     /\ UNCHANGED <<part, heapVars, pagingVars, intrVars, consoleVars, ideVars, filesysVars>>
  \/ /\ part = "malloc" /\ MallocNext
     /\ UNCHANGED <<part, threadsVars, pagingVars, intrVars, consoleVars, ideVars,
                   filesysVars>>
  \/ /\ part = "paging" /\ PagingNext
     /\ UNCHANGED <<part, threadsVars, heapVars, intrVars, consoleVars, ideVars, filesysVars>>
  \/ /\ part = "interrupts" /\ InterruptsNext
     /\ UNCHANGED <<part, threadsVars, heapVars, pagingVars, consoleVars, ideVars,
                   filesysVars>>
  \/ /\ part = "console" /\ ConsoleNext
     /\ UNCHANGED <<part, threadsVars, heapVars, pagingVars, intrVars, ideVars, filesysVars>>
  \/ /\ part = "ide" /\ IdeNext
     /\ UNCHANGED <<part, threadsVars, heapVars, pagingVars, intrVars, consoleVars,
                   filesysVars>>
  \/ /\ part = "filesys" /\ FilesysNext
     /\ UNCHANGED <<part, threadsVars, heapVars, pagingVars, intrVars, consoleVars, ideVars>>
  \/ Ended

Spec == Init /\ [][Next]_allVars

-----------------------------------------------------------------------------
\* thread.c: a thread is in one list at most (ElemExclusive).
MCElemExclusive == part = "threads" => ElemExclusive

\* thread.c: the cached wakeup tick is the earliest (WakeupTickExact).
MCWakeupTickExact == part = "threads" => WakeupTickExact

\* thread.c: the processor is not halted while a thread is ready (NoIdleWhileReady).
MCNoIdleWhileReady == part = "threads" => NoIdleWhileReady

\* timer.c, thread.c: sleepers wake at the tick they asked for (WakeupOnTime).
MCWakeupOnTime == [][part = "threads" => WakesOnTime]_allVars

\* malloc.c, palloc.c: what two callers own never overlaps (NoOverlap).
MCNoOverlap == part = "malloc" => NoOverlap

\* malloc.c, palloc.c: no page is lost or given back twice (PagesAccounted).
MCPagesAccounted == part = "malloc" => HeapTypeOK /\ PagesAccounted

\* malloc.c: the free lists hold each free block once (FreeListExact).
MCFreeListExact == part = "malloc" => FreeListExact

\* pagedir.c, process.c: the translations in use are those of the running process
\* (TlbCoherent).
MCTlbCoherent == part = "paging" => TlbCoherent

\* process.c, pagedir.c: every page is freed once, and not while it is used
\* (FramesExact).
MCFramesExact == part = "paging" => FramesExact

\* interrupt.c: external interrupts do not nest, leave no line blocked and give back
\* the interrupted level (IntrExact).
MCIntrExact == part = "interrupts" => IntrExact

\* console.c: the output of two threads is not mixed, the lock is given back once
\* (ConsoleExact).
MCConsoleExact == part = "console" => ConsoleExact

\* ide.c: reads return what was written (IdeDataExact).
MCIdeDataExact == part = "ide" => IdeDataExact

\* ide.c: a thread that waits for its command is woken (IdeCompletes).
MCIdeCompletes == part = "ide" => IdeCompletes

\* filesys/: no sector belongs to two files, and no name is in the directory twice
\* (NoSharedSectors, NamesUnique).
MCNoSharedSectors == part = "filesys" => NoSharedSectors /\ NamesUnique

\* filesys/: the machine may stop at any moment (CrashSafe).
MCCrashSafe == part = "filesys" => CrashSafe

\* filesys/: no sector is lost, except where the code loses it, and the counts of an
\* inode are those of its open files (SectorsAccounted, CountsExact).
MCSectorsAccounted == part = "filesys" => FilesysTypeOK /\ SectorsAccounted /\ CountsExact
=============================================================================
