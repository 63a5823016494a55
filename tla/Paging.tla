------------------------------- MODULE Paging -------------------------------
(***************************************************************************)
(* User processes and their page tables (process.c, pagedir.c): starting a *)
(* process, installing its pages, page faults, eviction, and exit, with    *)
(* the scheduler switching between any two steps.  The processor is        *)
(* external: it fills its translation buffer (TLB) from the active page    *)
(* directory and keeps an entry until CR3 is loaded.  A page of the kernel *)
(* pool is named for what it holds, a frame of the user pool is a number.  *)
(* What load reads from the file is the subject of Loader.                 *)
(***************************************************************************)
EXTENDS Integers, FiniteSets, FiniteSetsExt, Sequences, Functions

CONSTANTS
  Proc,                      \* processes
  Paged,                     \* processes whose pages may be evicted and cleaned
  KernelPages,               \* pages in the kernel pool
  UserFrames,                \* frames of the user pool
  UPage,                     \* pages of a user address space, two to a page table
  LoadList,                  \* for a process, the pages load installs, in order: [u, w]
  MaxHeld                    \* bound on the frames of cleared pages

ASSUME PagingAssumption ==
  /\ "main" \notin Proc /\ Paged \subseteq Proc
  /\ KernelPages \in Nat /\ UserFrames \subseteq Nat \ {0}
  /\ UPage \subseteq 0 .. 3
  /\ LoadList \in [Proc -> Seq([u : UPage, w : BOOLEAN])]

VARIABLES
  kernel,       \* pages in use of the kernel pool
  user,         \* frames in use of the user pool
  pte,          \* page table entries of every process's directory
  proc,         \* processes
  on_cpu,      \* the running thread; "main" has no page directory
  cr3, tlb,     \* the processor
  kpage,        \* the page load has got for a process and not yet installed, or 0
  held,         \* these, and the frames of pages cleared by pagedir_clear_page
  modified      \* pages written since their dirty bit was last cleared

pagingVars == <<kernel, user, pte, proc, on_cpu, cr3, tlb, kpage, held, modified>>
tableVars == <<kernel, user, pte>>
cpuVars == <<on_cpu, cr3, tlb>>

pd_no(u) == u \div 2
Absent == [p |-> FALSE, frame |-> 0, w |-> FALSE, d |-> FALSE]
NoEntries == [u \in UPage |-> Absent]
NoProc == [pc |-> "none", pagedir |-> FALSE, next |-> 1]

\* Pages of the kernel pool: a copy of a name, a directory, the page tables.
NamePage(t) == <<t, "name">>
Dir(t) == <<t, "dir">>
Table(t, u) == <<t, IF pd_no(u) = 0 THEN "pt0" ELSE "pt1">>
Tables(t) == {Table(t, u) : u \in UPage} \cap kernel

PagingInit ==
  /\ kernel = {} /\ user = {}
  /\ pte = [t \in Proc |-> NoEntries]
  /\ proc = [t \in Proc |-> NoProc]
  /\ on_cpu = "main" /\ cr3 = "main" /\ tlb = NoEntries
  /\ kpage = [t \in Proc |-> 0] /\ held = {}
  /\ modified = [t \in Proc |-> {}]

-----------------------------------------------------------------------------
(* pagedir.c *)

\* palloc_get_page: a page of the kernel pool, or the first free user frame.
KernelRoom == Cardinality(kernel) < KernelPages
UserRoom == UserFrames \ user # {}
NewFrame == Min(UserFrames \ user)

\* The entry of page u of process t; there is none without a page table.
lookup_page(t, u) == IF Table(t, u) \in kernel THEN pte[t][u] ELSE Absent

SetEntry(t, u, e) == pte' = [pte EXCEPT ![t][u] = e]

\* Loading CR3 empties the translation buffer.
pagedir_activate(t) == cr3' = t /\ tlb' = NoEntries

\* Variant of invalidate_pagedir: the buffer is left as it is.
InvalidateNothing(t) == UNCHANGED <<cr3, tlb>>

invalidate_pagedir(t) ==
  IF cr3 = t THEN pagedir_activate(t) ELSE UNCHANGED <<cr3, tlb>>

\* Maps u to a frame; lookup_page may need a page table first, and fail.
SetPageFails(t, u) == Table(t, u) \notin kernel /\ ~KernelRoom

pagedir_set_page(t, u, frame, w) ==
  /\ kernel' = kernel \cup {Table(t, u)}
  /\ SetEntry(t, u, [p |-> TRUE, frame |-> frame, w |-> w, d |-> FALSE])

Present(t) == {u \in UPage : lookup_page(t, u).p}
Frames(t) == {lookup_page(t, u).frame : u \in Present(t)}

\* Frees the pages that are present, the page tables and the directory.
pagedir_destroy(t) ==
  /\ user' = user \ Frames(t)
  /\ kernel' = kernel \ (Tables(t) \cup {Dir(t)})
  /\ pte' = [pte EXCEPT ![t] = NoEntries]

-----------------------------------------------------------------------------
(* Starting a process *)

InCode(t, pc) == t = on_cpu /\ proc[t].pc = pc

\* A page for the copy of the name; thread_create may fail, and the page is freed.
process_execute(t) ==
  /\ on_cpu = "main" /\ proc[t] = NoProc /\ KernelRoom
  /\ \/ /\ proc' = [proc EXCEPT ![t].pc = "start"]
        /\ kernel' = kernel \cup {NamePage(t)}
     \/ UNCHANGED <<proc, kernel>>
  /\ UNCHANGED <<user, pte, cpuVars, held, modified>>

\* The start of load: pagedir_create, then process_activate.
CreateDir(t) ==
  /\ InCode(t, "start")
  /\ \/ /\ KernelRoom
        /\ kernel' = kernel \cup {Dir(t)}
        /\ proc' = [proc EXCEPT ![t].pc = "load", ![t].pagedir = TRUE]
        /\ pagedir_activate(t)
     \/ /\ ~KernelRoom
        /\ proc' = [proc EXCEPT ![t].pc = "failed"]
        /\ UNCHANGED <<kernel, cr3, tlb>>
  /\ UNCHANGED <<user, pte, on_cpu, held, modified>>

\* load_segment and setup_stack: palloc_get_page.  Without a page load fails.
GetPage(t) ==
  /\ InCode(t, "load") /\ proc[t].next <= Len(LoadList[t]) /\ kpage[t] = 0
  /\ \/ /\ UserRoom
        /\ user' = user \cup {NewFrame} /\ held' = held \cup {NewFrame}
        /\ kpage' = [kpage EXCEPT ![t] = NewFrame]
        /\ UNCHANGED proc
     \/ /\ ~UserRoom
        /\ proc' = [proc EXCEPT ![t].pc = "failed"]
        /\ UNCHANGED <<user, held, kpage>>
  /\ UNCHANGED <<kernel, pte, cpuVars, modified>>

\* They fill the page and install it.  If the file cannot be read, or where a page is
\* mapped already, or without a page table, the page is freed and load fails.
install_page(t) ==
  /\ InCode(t, "load") /\ proc[t].next <= Len(LoadList[t]) /\ kpage[t] # 0
  /\ LET page == LoadList[t][proc[t].next]
     IN  \/ /\ ~lookup_page(t, page.u).p /\ ~SetPageFails(t, page.u)
            /\ pagedir_set_page(t, page.u, kpage[t], page.w)
            /\ proc' = [proc EXCEPT ![t].next = @ + 1]
            /\ UNCHANGED user
         \/ /\ user' = user \ {kpage[t]}
            /\ proc' = [proc EXCEPT ![t].pc = "failed"]
            /\ UNCHANGED <<kernel, pte>>
  /\ kpage' = [kpage EXCEPT ![t] = 0] /\ held' = held \ {kpage[t]}
  /\ UNCHANGED <<cpuVars, modified>>

\* start_process frees the name, and enters the program or exits.
start_process(t) ==
  /\ \/ /\ InCode(t, "load") /\ proc[t].next > Len(LoadList[t]) /\ kpage[t] = 0
        /\ proc' = [proc EXCEPT ![t].pc = "user", ![t].next = 1]
     \/ /\ InCode(t, "failed")
        /\ proc' = [proc EXCEPT ![t].pc = "exit", ![t].next = 1]
  /\ kernel' = kernel \ {NamePage(t)}
  /\ UNCHANGED <<user, pte, cpuVars, held, modified>>

-----------------------------------------------------------------------------
(* Exit *)

\* Variant of ForgetDir: the thread still names the directory it gives up.
ForgetNothing(t) ==
  /\ InCode(t, "exit")
  /\ proc' = [proc EXCEPT ![t].pc = IF proc[t].pagedir THEN "forgot" ELSE "dying"]
  /\ UNCHANGED <<tableVars, cpuVars>>

\* Steps of process_exit: forget the directory, leave it, destroy it.
ForgetDir(t) ==
  /\ InCode(t, "exit")
  /\ proc' = [proc EXCEPT ![t].pc = IF proc[t].pagedir THEN "forgot" ELSE "dying",
                          ![t].pagedir = FALSE]
  /\ UNCHANGED <<tableVars, cpuVars>>

LeaveDir(t) ==
  /\ InCode(t, "forgot")
  /\ proc' = [proc EXCEPT ![t].pc = "left"]
  /\ pagedir_activate("main")
  /\ UNCHANGED <<tableVars, on_cpu>>

DestroyDir(t) ==
  /\ InCode(t, "left")
  /\ proc' = [proc EXCEPT ![t].pc = "dying"]
  /\ pagedir_destroy(t)
  /\ UNCHANGED cpuVars

process_exit(t) ==
  /\ ForgetDir(t) \/ LeaveDir(t) \/ DestroyDir(t)
  /\ UNCHANGED <<held, modified>>

-----------------------------------------------------------------------------
(* Running *)

\* thread_schedule_tail: the next thread runs, under its own directory if it has
\* one and init_page_dir otherwise.
Pagedir(t) == IF t \in Proc /\ proc[t].pagedir THEN t ELSE "main"

Switch(t) ==
  /\ t # on_cpu /\ (t # "main" => proc[t].pc \notin {"none", "dying"})
  /\ on_cpu' = t
  /\ pagedir_activate(Pagedir(t))                      \* process_activate
  /\ proc' = [q \in Proc |-> IF q = on_cpu /\ proc[q].pc = "dying" THEN NoProc ELSE proc[q]]
  /\ UNCHANGED <<tableVars, held, modified>>

\* The processor reads or writes page u, walking the tables if the buffer lacks
\* the page, the right to write it or its dirty bit; where there is none, or none to
\* write, page_fault kills the process.
Touch(t, u, write) ==
  LET hit == tlb[u].p /\ (write => tlb[u].w /\ tlb[u].d)
      walked == lookup_page(cr3, u)
      marked == [walked EXCEPT !.d = @ \/ write]
      allowed == walked.p /\ (write => walked.w)
  IN  /\ InCode(t, "user")
      /\ \/ /\ \/ hit /\ UNCHANGED <<pte, tlb>>
               \/ ~hit /\ allowed /\ SetEntry(cr3, u, marked) /\ tlb' = [tlb EXCEPT ![u] = marked]
            /\ modified' = [modified EXCEPT ![t] = IF write THEN @ \cup {u} ELSE @]
            /\ UNCHANGED proc
         \/ /\ ~hit /\ ~allowed
            /\ proc' = [proc EXCEPT ![t].pc = "exit"]
            /\ modified' = [modified EXCEPT ![t] = {}]
            /\ UNCHANGED <<pte, tlb>>
      /\ UNCHANGED <<kernel, user, on_cpu, cr3, held>>

syscall_handler(t) ==
  /\ InCode(t, "user")
  /\ proc' = [proc EXCEPT ![t].pc = "exit"]
  /\ modified' = [modified EXCEPT ![t] = {}]
  /\ UNCHANGED <<tableVars, cpuVars, held>>

-----------------------------------------------------------------------------
(* A virtual memory system above pagedir.h: any thread may work on a process *)
(* that has a directory.                                                     *)

Cleared == held \ Range(kpage)

pagedir_clear_page(t, u) ==
  LET e == lookup_page(t, u)
  IN  /\ t \in Paged /\ proc[t].pc = "user" /\ e.p /\ Cardinality(Cleared) < MaxHeld
      /\ SetEntry(t, u, [e EXCEPT !.p = FALSE])
      /\ invalidate_pagedir(t)
      /\ held' = held \cup {e.frame}
      /\ UNCHANGED <<kernel, user, proc, on_cpu, modified>>

\* The caller gives the frame to an unmapped page of the running process, or back.
UseHeld(f) ==
  /\ f \in Cleared /\ held' = held \ {f}
  /\ \/ \E t \in Paged, u \in UPage :
          /\ InCode(t, "user") /\ ~lookup_page(t, u).p /\ ~SetPageFails(t, u)
          /\ pagedir_set_page(t, u, f, TRUE)
          /\ modified' = [modified EXCEPT ![t] = @ \ {u}]
          /\ UNCHANGED user
     \/ user' = user \ {f} /\ UNCHANGED <<kernel, pte, modified>>
  /\ UNCHANGED <<proc, cpuVars>>

\* Clearing the bit must be seen by the processor; setting it need not.
pagedir_set_dirty(t, u, dirty) ==
  /\ t \in Paged /\ proc[t].pc = "user" /\ Table(t, u) \in kernel
  /\ SetEntry(t, u, [pte[t][u] EXCEPT !.d = dirty])
  /\ IF dirty THEN UNCHANGED <<cr3, tlb, modified>>
              ELSE /\ invalidate_pagedir(t)
                   /\ modified' = [modified EXCEPT ![t] = @ \ {u}]
  /\ UNCHANGED <<kernel, user, proc, on_cpu, held>>

OtherStep ==
  \/ \E t \in Proc :
       \/ process_execute(t) \/ CreateDir(t) \/ start_process(t)
       \/ process_exit(t) \/ syscall_handler(t)
       \/ \E u \in UPage : pagedir_clear_page(t, u)
                           \/ (\E write \in BOOLEAN : Touch(t, u, write))
                           \/ (\E dirty \in BOOLEAN : pagedir_set_dirty(t, u, dirty))
  \/ \E t \in Proc \cup {"main"} : Switch(t)
  \/ \E f \in held : UseHeld(f)

PagingNext ==
  \/ \E t \in Proc : GetPage(t) \/ install_page(t)
  \/ OtherStep /\ UNCHANGED kpage

-----------------------------------------------------------------------------
(* Properties *)

\* pagedir.c, thread.c: the running thread runs under its own directory or, while
\* it exits, under none that is forgotten; what the buffer holds is what the page
\* tables say, so that a cleared page faults; and the dirty bit of a process's page is
\* set if the page was written since the bit was cleared.
TlbCoherent ==
  /\ cr3 = Pagedir(on_cpu) \/ (cr3 = on_cpu /\ proc[on_cpu].pc = "forgot")
  /\ \A u \in UPage : tlb[u].p =>
       LET e == lookup_page(cr3, u)
       IN  e.p /\ e.frame = tlb[u].frame /\ e.w = tlb[u].w /\ (tlb[u].d => e.d)
  /\ \A t \in Proc : proc[t].pc = "user" =>
       \A u \in modified[t] : lookup_page(t, u).d

\* palloc.c, process.c: every page in use has one owner, whatever failed or was
\* killed and wherever it was preempted: none leaks, none is mapped twice or while
\* load has it in hand, and the active directory is never free.
FramesExact ==
  /\ user = held \cup UNION {Frames(t) : t \in Proc}
  /\ \A t, q \in Proc : t # q => Frames(t) \cap Frames(q) = {}
  /\ \A t \in Proc :
       /\ \A u, v \in Present(t) : lookup_page(t, u).frame = lookup_page(t, v).frame => u = v
       /\ Frames(t) \cap held = {}
       /\ kpage[t] # 0 => kpage[t] \in held /\ proc[t].pc = "load"
       /\ \A q \in Proc : kpage[t] # 0 /\ kpage[t] = kpage[q] => t = q
       /\ NamePage(t) \in kernel <=> proc[t].pc \in {"start", "load", "failed"}
       /\ Dir(t) \in kernel <=> proc[t].pagedir \/ proc[t].pc \in {"forgot", "left"}
       /\ Dir(t) \notin kernel => Tables(t) = {}
  /\ cr3 # "main" => Dir(cr3) \in kernel
=============================================================================
