---------------------------- MODULE MemoryProofs ----------------------------
(***************************************************************************)
(* Proofs about userprog/pagedir.c and userprog/process.c.                 *)
(***************************************************************************)
EXTENDS Paging, TLAPS

-----------------------------------------------------------------------------
(* userprog/pagedir.c, userprog/process.c *)

PTE == [p : BOOLEAN, frame : Nat, w : BOOLEAN, d : BOOLEAN]
ProcStages == {"none", "start", "load", "failed", "user", "exit", "forgot", "left", "dying"}
Process == [pc : ProcStages, pagedir : BOOLEAN, next : Nat \ {0}]

PagingTypes ==
  /\ pte \in [Proc -> [UPage -> PTE]] /\ tlb \in [UPage -> PTE]
  /\ proc \in [Proc -> Process] /\ modified \in [Proc -> SUBSET UPage]
  /\ on_cpu \in Proc \cup {"main"} /\ cr3 \in Proc \cup {"main"}
  /\ user \subseteq UserFrames
  /\ kernel \subseteq Proc \X {"name", "dir", "pt0", "pt1"}

\* A page table that is not there has no entries.
TablesHold == \A t \in Proc, u \in UPage : Table(t, u) \notin kernel => pte[t][u] = Absent

\* Pages of the kernel pool belong to a process at the right stage of its life.
KernelExact ==
  \A t \in Proc :
    /\ NamePage(t) \in kernel <=> proc[t].pc \in {"start", "load", "failed"}
    /\ Dir(t) \in kernel <=> proc[t].pagedir \/ proc[t].pc \in {"forgot", "left"}
    /\ \A u \in UPage : Table(t, u) \in kernel => Dir(t) \in kernel
    /\ proc[t].pc \in {"load", "user"} => proc[t].pagedir
    /\ proc[t].pc \in {"none", "start", "forgot", "left", "dying"} => ~proc[t].pagedir

\* A frame in use is held, or mapped by one page.
FramesUsed ==
  \A f : f \in user <=> f \in held \/ \E t \in Proc, u \in UPage : pte[t][u].p /\ pte[t][u].frame = f
FramesApart ==
  \A t, q \in Proc, u, v \in UPage :
    pte[t][u].p /\ pte[q][v].p /\ pte[t][u].frame = pte[q][v].frame => t = q /\ u = v
FramesUnheld == \A t \in Proc, u \in UPage : pte[t][u].p => pte[t][u].frame \notin held
FramesOnce == FramesUsed /\ FramesApart /\ FramesUnheld

\* The directory in use is that of the running thread.
RightDir == cr3 = Pagedir(on_cpu) \/ (cr3 = on_cpu /\ on_cpu \in Proc /\ proc[on_cpu].pc = "forgot")

\* The translation buffer has entries of the active directory.
BufferExact ==
  \A u \in UPage : tlb[u].p =>
    /\ cr3 \in Proc
    /\ pte[cr3][u].p /\ pte[cr3][u].frame = tlb[u].frame
    /\ pte[cr3][u].w = tlb[u].w /\ (tlb[u].d => pte[cr3][u].d)

\* What was written is dirty.
DirtyKept ==
  \A t \in Proc : /\ proc[t].pc # "user" => modified[t] = {}
                  /\ \A u \in modified[t] : pte[t][u].d

TablesInv ==
  PagingTypes /\ TablesHold /\ KernelExact /\ FramesOnce /\ RightDir /\ BufferExact /\ DirtyKept

\* A page in the hands of load is that of one process, which is loading.
PagesInHand ==
  /\ kpage \in [Proc -> Nat]
  /\ \A t \in Proc : kpage[t] # 0 => kpage[t] \in held /\ proc[t].pc = "load"
  /\ \A t, q \in Proc : kpage[t] # 0 /\ kpage[t] = kpage[q] => t = q

PagingInv == TablesInv /\ PagesInHand

-----------------------------------------------------------------------------
\* Pages of the kernel pool have one name.
LEMMA PagesDiffer ==
  \A t, q : /\ Dir(t) = Dir(q) => t = q
            /\ NamePage(t) = NamePage(q) => t = q
            /\ Dir(t) # NamePage(q)
            /\ \A u, v : Table(t, u) = Table(q, v) => t = q
            /\ \A u : Table(t, u) # Dir(q) /\ Table(t, u) # NamePage(q)
<1> TAKE t, q
<1>1. (Dir(t) = Dir(q) => t = q) /\ (NamePage(t) = NamePage(q) => t = q) /\ Dir(t) # NamePage(q)
  BY Zenon DEF Dir, NamePage
<1>2. \A u, v : Table(t, u) = Table(q, v) => t = q
  BY Zenon DEF Table
<1>3. \A u : Table(t, u) # Dir(q) /\ Table(t, u) # NamePage(q)
  BY Zenon DEF Table, Dir, NamePage
<1> QED
  BY Zenon, <1>1, <1>2, <1>3

\* What is not mapped.
LEMMA AbsentEntry == Absent \in PTE /\ Absent.p = FALSE /\ Absent.d = FALSE
  BY Zenon DEF Absent, PTE

\* lookup_page finds the entry; init_page_dir has none.
LEMMA LookupIs ==
  ASSUME PagingTypes, TablesHold
  PROVE  /\ \A t \in Proc, u \in UPage : lookup_page(t, u) = pte[t][u]
         /\ \A u \in UPage : lookup_page("main", u) = Absent
<1>1. \A t \in Proc, u \in UPage : lookup_page(t, u) = pte[t][u]
  BY Zenon DEF TablesHold, lookup_page
<1>2. ASSUME NEW u \in UPage PROVE Table("main", u) \notin kernel
  <2>1. PICK s : Table("main", u) = <<"main", s>>
    BY Zenon DEF Table
  <2>2. <<"main", s>> \notin Proc \X {"name", "dir", "pt0", "pt1"}
    BY Zenon, PagingAssumption
  <2> QED
    BY Zenon, <2>1, <2>2 DEF PagingTypes
<1> QED
  BY Zenon, <1>1, <1>2 DEF lookup_page

\* The pages and the frames of a process, by its page tables.
LEMMA FramesAre ==
  ASSUME PagingTypes, TablesHold, NEW t \in Proc
  PROVE  /\ \A u : u \in Present(t) <=> u \in UPage /\ pte[t][u].p
         /\ \A g : g \in Frames(t) <=> \E u \in UPage : pte[t][u].p /\ pte[t][u].frame = g
<1>1. \A u \in UPage : lookup_page(t, u) = pte[t][u]
  BY Zenon, LookupIs
<1>2. \A u : u \in Present(t) <=> u \in UPage /\ pte[t][u].p
  BY Zenon, <1>1 DEF Present
<1>3. Frames(t) = {pte[t][u].frame : u \in Present(t)}
  BY Zenon, <1>1, <1>2 DEF Frames
<1> QED
  BY Zenon, <1>2, <1>3

\* A page table entry is written.
LEMMA EntrySet ==
  ASSUME PagingTypes, NEW t \in Proc, NEW u \in UPage, NEW e \in PTE, SetEntry(t, u, e)
  PROVE  /\ pte' \in [Proc -> [UPage -> PTE]] /\ pte'[t][u] = e
         /\ \A q \in Proc, v \in UPage : q # t \/ v # u => pte'[q][v] = pte[q][v]
<1>1. pte \in [Proc -> [UPage -> PTE]] /\ pte' = [pte EXCEPT ![t][u] = e]
  BY Zenon DEF PagingTypes, SetEntry
<1> HIDE DEF PTE
<1> QED
  BY Zenon, <1>1

\* The fields of a process.
LEMMA ProcFields ==
  ASSUME NEW P \in [Proc -> Process], NEW t \in Proc
  PROVE  P[t].pc \in ProcStages /\ P[t].pagedir \in BOOLEAN /\ P[t].next \in Nat \ {0}
  BY Zenon DEF Process

\* The stage of a process is assigned.
LEMMA PcSet ==
  ASSUME NEW P \in [Proc -> Process], NEW t \in Proc, NEW s \in ProcStages, NEW R, R = [P EXCEPT ![t].pc = s]
  PROVE  /\ R \in [Proc -> Process] /\ \A q \in Proc \ {t} : R[q] = P[q]
         /\ R[t].pc = s /\ R[t].pagedir = P[t].pagedir
<1>1. PICK a \in ProcStages, c \in BOOLEAN, d \in Nat \ {0} :
        P[t] = [pc |-> a, pagedir |-> c, next |-> d]
  BY Zenon DEF Process
<1>2. P[t].pc = a /\ P[t].pagedir = c
  BY <1>1
<1>3. PICK r : r = [P[t] EXCEPT !.pc = s]
  OBVIOUS
<1>4. r = [pc |-> s, pagedir |-> c, next |-> d]
  BY <1>1, <1>3
<1>5. r \in Process
  BY Zenon, <1>4 DEF Process
<1>6. r.pc = s /\ r.pagedir = c
  BY Zenon, <1>4
<1>7. R = [P EXCEPT ![t] = r]
  BY Zenon, <1>3
<1>8. R \in [Proc -> Process] /\ R[t] = r /\ \A q \in Proc \ {t} : R[q] = P[q]
  BY Zenon, <1>5, <1>7
<1> QED
  BY <1>2, <1>6, <1>8, Zenon

\* Its directory is assigned.
LEMMA DirSet ==
  ASSUME NEW P \in [Proc -> Process], NEW t \in Proc, NEW b \in BOOLEAN, NEW R, R = [P EXCEPT ![t].pagedir = b]
  PROVE  /\ R \in [Proc -> Process] /\ \A q \in Proc \ {t} : R[q] = P[q]
         /\ R[t].pc = P[t].pc /\ R[t].pagedir = b
<1>1. PICK a \in ProcStages, c \in BOOLEAN, d \in Nat \ {0} :
        P[t] = [pc |-> a, pagedir |-> c, next |-> d]
  BY Zenon DEF Process
<1>2. P[t].pc = a /\ P[t].pagedir = c
  BY <1>1
<1>3. PICK r : r = [P[t] EXCEPT !.pagedir = b]
  OBVIOUS
<1>4. r = [pc |-> a, pagedir |-> b, next |-> d]
  BY <1>1, <1>3
<1>5. r \in Process
  BY Zenon, <1>4 DEF Process
<1>6. r.pc = a /\ r.pagedir = b
  BY Zenon, <1>4
<1>7. R = [P EXCEPT ![t] = r]
  BY Zenon, <1>3
<1>8. R \in [Proc -> Process] /\ R[t] = r /\ \A q \in Proc \ {t} : R[q] = P[q]
  BY Zenon, <1>5, <1>7
<1> QED
  BY <1>2, <1>6, <1>8, Zenon

\* Its place in the list of pages to load is assigned.
LEMMA NextSet ==
  ASSUME NEW P \in [Proc -> Process], NEW t \in Proc, NEW n \in Nat \ {0}, NEW R, R = [P EXCEPT ![t].next = n]
  PROVE  /\ R \in [Proc -> Process] /\ \A q \in Proc \ {t} : R[q] = P[q]
         /\ R[t].pc = P[t].pc /\ R[t].pagedir = P[t].pagedir
<1>1. PICK a \in ProcStages, c \in BOOLEAN, d \in Nat \ {0} :
        P[t] = [pc |-> a, pagedir |-> c, next |-> d]
  BY Zenon DEF Process
<1>2. P[t].pc = a /\ P[t].pagedir = c
  BY <1>1
<1>3. PICK r : r = [P[t] EXCEPT !.next = n]
  OBVIOUS
<1>4. r = [pc |-> a, pagedir |-> c, next |-> n]
  BY <1>1, <1>3
<1>5. r \in Process
  BY Zenon, <1>4 DEF Process
<1>6. r.pc = a /\ r.pagedir = c
  BY Zenon, <1>4
<1>7. R = [P EXCEPT ![t] = r]
  BY Zenon, <1>3
<1>8. R \in [Proc -> Process] /\ R[t] = r /\ \A q \in Proc \ {t} : R[q] = P[q]
  BY Zenon, <1>5, <1>7
<1> QED
  BY <1>2, <1>6, <1>8, Zenon

\* Process t goes to stage s, with a directory or without.
Moves(t, s, b) ==
  /\ proc' \in [Proc -> Process]
  /\ proc'[t].pc = s /\ proc'[t].pagedir = b
  /\ \A q \in Proc \ {t} : proc'[q] = proc[q]

\* The assignments of a stage.
LEMMA StageSet ==
  ASSUME PagingTypes, NEW t \in Proc, NEW s \in ProcStages, NEW b \in BOOLEAN
  PROVE  /\ proc[t].pc \in ProcStages /\ proc[t].pagedir \in BOOLEAN /\ proc[t].next \in Nat \ {0}
         /\ proc' = [proc EXCEPT ![t].pc = s] => Moves(t, s, proc[t].pagedir)
         /\ proc' = [proc EXCEPT ![t].pc = s, ![t].pagedir = b] => Moves(t, s, b)
         /\ proc' = [proc EXCEPT ![t].pc = s, ![t].next = 1] => Moves(t, s, proc[t].pagedir)
         /\ proc' = [proc EXCEPT ![t].next = @ + 1] => Moves(t, proc[t].pc, proc[t].pagedir)
<1>1. proc \in [Proc -> Process]
  BY Zenon DEF PagingTypes
<1>2. PICK P : P = [proc EXCEPT ![t].pc = s]
  BY Zenon
<1>3. PICK n \in Nat \ {0} : n = proc[t].next + 1
  <2>1. proc[t].next \in Nat \ {0}
    BY Zenon, <1>1, ProcFields
  <2> QED
    BY <2>1
<1>4. /\ proc[t].pc \in ProcStages /\ proc[t].pagedir \in BOOLEAN /\ proc[t].next \in Nat \ {0}
      /\ P \in [Proc -> Process] /\ \A q \in Proc \ {t} : P[q] = proc[q]
      /\ P[t].pc = s /\ P[t].pagedir = proc[t].pagedir
  BY SMTT(30), <1>1, <1>2, ProcFields, PcSet
<1>5. proc' = [proc EXCEPT ![t].pc = s] => Moves(t, s, proc[t].pagedir)
  BY Zenon, <1>2, <1>4 DEF Moves
<1>6. ASSUME proc' = [proc EXCEPT ![t].pc = s, ![t].pagedir = b] PROVE Moves(t, s, b)
  <2>1. PICK R : R = [P EXCEPT ![t].pagedir = b]
    BY Zenon
  <2>2. proc' = R
    BY Zenon, <1>2, <1>6, <2>1
  <2>3. /\ R \in [Proc -> Process] /\ \A q \in Proc \ {t} : R[q] = P[q]
        /\ R[t].pc = P[t].pc /\ R[t].pagedir = b
    BY <1>4, <2>1, DirSet
  <2> QED
    BY Zenon, <1>4, <2>2, <2>3 DEF Moves
<1>7. ASSUME proc' = [proc EXCEPT ![t].pc = s, ![t].next = 1] PROVE Moves(t, s, proc[t].pagedir)
  <2>1. PICK one \in Nat \ {0} : one = 1
    OBVIOUS
  <2>2. PICK R : R = [P EXCEPT ![t].next = one]
    BY Zenon
  <2>3. proc' = R
    BY Zenon, <1>2, <1>7, <2>1, <2>2
  <2>4. /\ R \in [Proc -> Process] /\ \A q \in Proc \ {t} : R[q] = P[q]
        /\ R[t].pc = P[t].pc /\ R[t].pagedir = P[t].pagedir
    BY <1>4, <2>2, NextSet
  <2> QED
    BY Zenon, <1>4, <2>3, <2>4 DEF Moves
<1>8. ASSUME proc' = [proc EXCEPT ![t].next = @ + 1] PROVE Moves(t, proc[t].pc, proc[t].pagedir)
  <2>1. PICK R : R = [proc EXCEPT ![t].next = n]
    BY Zenon
  <2>2. proc' = R
    BY Zenon, <1>3, <1>8, <2>1
  <2>3. /\ R \in [Proc -> Process] /\ \A q \in Proc \ {t} : R[q] = proc[q]
        /\ R[t].pc = proc[t].pc /\ R[t].pagedir = proc[t].pagedir
    BY <1>1, <2>1, NextSet
  <2> QED
    BY Zenon, <2>2, <2>3 DEF Moves
<1> QED
  BY Zenon, <1>4, <1>5, <1>6, <1>7, <1>8

\* Nothing changes.
LEMMA PagingSame ==
  ASSUME TablesInv, UNCHANGED <<kernel, user, pte, proc, on_cpu, cr3, tlb, held, modified>>
  PROVE  TablesInv'
<1> USE DEF TablesInv
<1>1. PagingTypes' /\ TablesHold'
  BY Zenon DEF PagingTypes, TablesHold, lookup_page, Table
<1>2. KernelExact'
  BY Zenon DEF KernelExact, Table, Dir, NamePage
<1>3. FramesOnce' /\ BufferExact' /\ DirtyKept'
  BY SMTT(30) DEF FramesOnce, FramesUsed, FramesApart, FramesUnheld, BufferExact, DirtyKept
<1>4. RightDir'
  BY Zenon DEF RightDir, Pagedir
<1> QED
  BY Zenon, <1>1, <1>2, <1>3, <1>4

\* No frame and no entry changes.
LEMMA FramesSame ==
  ASSUME FramesOnce, UNCHANGED <<user, pte, held>>
  PROVE  FramesOnce'
  BY DEF FramesOnce, FramesUsed, FramesApart, FramesUnheld

\* A process goes from one stage to another, and nothing happens to page tables.
LEMMA StageTables ==
  ASSUME TablesInv, NEW t \in Proc, NEW s \in ProcStages, NEW b \in BOOLEAN, Moves(t, s, b),
         UNCHANGED pte,
         \A q, u : Table(q, u) \in kernel' <=> Table(q, u) \in kernel,
         \A q \in Proc \ {t} : /\ NamePage(q) \in kernel' <=> NamePage(q) \in kernel
                               /\ Dir(q) \in kernel' <=> Dir(q) \in kernel,
         NamePage(t) \in kernel' <=> s \in {"start", "load", "failed"},
         Dir(t) \in kernel' <=> b \/ s \in {"forgot", "left"},
         Dir(t) \in kernel => Dir(t) \in kernel',
         s \in {"load", "user"} => b,
         s \in {"none", "start", "forgot", "left", "dying"} => ~b
  PROVE  TablesHold' /\ KernelExact'
<1> USE DEF TablesInv
<1>1. TablesHold'
  BY Zenon DEF TablesHold, Table
<1>2. KernelExact'
  <2> SUFFICES ASSUME NEW q \in Proc
               PROVE  /\ NamePage(q) \in kernel' <=> proc'[q].pc \in {"start", "load", "failed"}
                      /\ Dir(q) \in kernel' <=> proc'[q].pagedir \/ proc'[q].pc \in {"forgot", "left"}
                      /\ \A u \in UPage : Table(q, u) \in kernel' => Dir(q) \in kernel'
                      /\ proc'[q].pc \in {"load", "user"} => proc'[q].pagedir
                      /\ proc'[q].pc \in {"none", "start", "forgot", "left", "dying"} => ~proc'[q].pagedir
    BY Zenon DEF KernelExact, Table, Dir, NamePage
  <2>1. CASE q # t
    <3>1. proc'[q] = proc[q]
      BY Zenon, <2>1 DEF Moves
    <3> QED
      BY Zenon, <2>1, <3>1 DEF KernelExact
  <2>2. CASE q = t
    <3>1. proc'[q].pc = s /\ (proc'[q].pagedir <=> b)
      BY Zenon, <2>2 DEF Moves
    <3> QED
      BY Zenon, <2>2, <3>1 DEF KernelExact
  <2> QED
    BY Zenon, <2>1, <2>2
<1> QED
  BY Zenon, <1>1, <1>2

\* Nor to frames.
LEMMA StageInv ==
  ASSUME TablesInv, NEW t \in Proc, NEW s \in ProcStages, NEW b \in BOOLEAN, Moves(t, s, b),
         UNCHANGED <<user, pte, held>>,
         \A q, u : Table(q, u) \in kernel' <=> Table(q, u) \in kernel,
         \A q \in Proc \ {t} : /\ NamePage(q) \in kernel' <=> NamePage(q) \in kernel
                               /\ Dir(q) \in kernel' <=> Dir(q) \in kernel,
         NamePage(t) \in kernel' <=> s \in {"start", "load", "failed"},
         Dir(t) \in kernel' <=> b \/ s \in {"forgot", "left"},
         Dir(t) \in kernel => Dir(t) \in kernel',
         s \in {"load", "user"} => b,
         s \in {"none", "start", "forgot", "left", "dying"} => ~b
  PROVE  TablesHold' /\ KernelExact' /\ FramesOnce'
<1>1. FramesOnce'
  BY Zenon, FramesSame DEF TablesInv
<1>2. TablesHold' /\ KernelExact'
  BY Zenon, StageTables
<1> QED
  BY Zenon, <1>1, <1>2

\* A frame that is held and not mapped is freed.
LEMMA FrameFreed ==
  ASSUME FramesOnce, NEW f \in held, user' = user \ {f}, held' = held \ {f}, UNCHANGED pte
  PROVE  FramesOnce'
<1>1. ASSUME NEW g
      PROVE  g \in user' <=> g \in held' \/ \E q \in Proc, v \in UPage : pte'[q][v].p /\ pte'[q][v].frame = g
  <2>1. g \in user <=> g \in held \/ \E q \in Proc, v \in UPage : pte[q][v].p /\ pte[q][v].frame = g
    BY Zenon DEF FramesOnce, FramesUsed
  <2>2. \A q \in Proc, v \in UPage : pte[q][v].p => pte[q][v].frame # f
    BY Zenon DEF FramesOnce, FramesUnheld
  <2>3. CASE g = f
    BY Zenon, <2>2, <2>3
  <2>4. CASE g # f
    BY Zenon, <2>1, <2>4
  <2> QED
    BY Zenon, <2>3, <2>4
<1>2. /\ \A t, q \in Proc, u, v \in UPage :
           pte'[t][u].p /\ pte'[q][v].p /\ pte'[t][u].frame = pte'[q][v].frame => t = q /\ u = v
      /\ \A t \in Proc, u \in UPage : pte'[t][u].p => pte'[t][u].frame \notin held'
  BY SMTT(30) DEF FramesOnce, FramesApart, FramesUnheld
<1> QED
  BY Zenon, <1>1, <1>2 DEF FramesOnce, FramesUsed, FramesApart, FramesUnheld

\* A stage that fits the pages a process has, and the directory it runs under.
StaysPut(t, s, b) ==
  /\ NamePage(t) \in kernel <=> s \in {"start", "load", "failed"}
  /\ Dir(t) \in kernel <=> b \/ s \in {"forgot", "left"}
  /\ s \in {"load", "user"} => b
  /\ s \in {"none", "start", "forgot", "left", "dying"} => ~b
  /\ \/ b /\ cr3 = t
     \/ ~b /\ cr3 = "main"
     \/ cr3 = t /\ s = "forgot"

\* The running process goes from one stage to another, and no page is got or freed.
LEMMA StageOnly ==
  ASSUME TablesInv, NEW t \in Proc, NEW s \in ProcStages, NEW b \in BOOLEAN, Moves(t, s, b),
         StaysPut(t, s, b), on_cpu = t,
         modified' \in [Proc -> SUBSET UPage], modified'[t] = {},
         \A q \in Proc \ {t} : modified'[q] = modified[q],
         UNCHANGED <<kernel, user, pte, on_cpu, cr3, tlb, held>>
  PROVE  TablesInv'
<1> USE PagingAssumption
<1>1. TablesHold' /\ KernelExact' /\ FramesOnce'
  <2>1. /\ \A q, u : Table(q, u) \in kernel' <=> Table(q, u) \in kernel
        /\ \A q \in Proc \ {t} : /\ NamePage(q) \in kernel' <=> NamePage(q) \in kernel
                                 /\ Dir(q) \in kernel' <=> Dir(q) \in kernel
        /\ NamePage(t) \in kernel' <=> s \in {"start", "load", "failed"}
        /\ Dir(t) \in kernel' <=> b \/ s \in {"forgot", "left"}
        /\ Dir(t) \in kernel => Dir(t) \in kernel'
        /\ s \in {"load", "user"} => b
        /\ s \in {"none", "start", "forgot", "left", "dying"} => ~b
    BY Zenon DEF StaysPut
  <2> QED
    BY <2>1, StageInv
<1>2. PagingTypes'
  BY Zenon DEF TablesInv, PagingTypes, Moves
<1>3. BufferExact'
  BY Zenon DEF TablesInv, BufferExact
<1>4. RightDir'
  <2>1. proc'[t].pc = s /\ (proc'[t].pagedir <=> b)
    BY Zenon DEF Moves
  <2> QED
    BY Zenon, <2>1 DEF StaysPut, RightDir, Pagedir
<1>5. DirtyKept'
  BY Zenon DEF TablesInv, DirtyKept, Moves
<1> QED
  BY Zenon, <1>1, <1>2, <1>3, <1>4, <1>5 DEF TablesInv

\* process_execute.
LEMMA ExecuteInv ==
  ASSUME TablesInv, NEW t \in Proc, process_execute(t)
  PROVE  TablesInv'
<1> USE PagingAssumption
<1>1. PagingTypes /\ KernelExact /\ proc[t].pc = "none" /\ on_cpu = "main"
  BY DEF process_execute, TablesInv, NoProc
<1>2. CASE UNCHANGED <<proc, kernel>>
  <2>1. UNCHANGED <<kernel, user, pte, proc, on_cpu, cr3, tlb, held, modified>>
    BY Zenon, <1>2 DEF process_execute, cpuVars
  <2> QED
    BY Zenon, <2>1, PagingSame
<1>3. CASE proc' = [proc EXCEPT ![t].pc = "start"] /\ kernel' = kernel \cup {NamePage(t)}
  <2>1. UNCHANGED <<user, pte, on_cpu, cr3, tlb, held, modified>>
    BY Zenon DEF process_execute, cpuVars
  <2>2. PICK s \in ProcStages : s = "start"
    BY Zenon DEF ProcStages
  <2>3. ~proc[t].pagedir /\ Dir(t) \notin kernel /\ proc[t].pagedir \in BOOLEAN
    BY <1>1, StageSet, Zenon DEF KernelExact
  <2>4. PICK b \in BOOLEAN : b = proc[t].pagedir /\ ~b
    BY Zenon, <2>3
  <2>5. Moves(t, s, b)
    BY <1>1, <1>3, <2>2, <2>4, StageSet, Zenon
  <2>6. NamePage(t) \in Proc \X {"name", "dir", "pt0", "pt1"}
    BY Zenon DEF NamePage
  <2>7. kernel' \subseteq Proc \X {"name", "dir", "pt0", "pt1"}
    BY Zenon, <1>1, <1>3, <2>6 DEF PagingTypes
  <2>8. /\ \A q, u : Table(q, u) \in kernel' <=> Table(q, u) \in kernel
        /\ \A q : Dir(q) \in kernel' <=> Dir(q) \in kernel
        /\ \A q \in Proc \ {t} : NamePage(q) \in kernel' <=> NamePage(q) \in kernel
        /\ NamePage(t) \in kernel'
    BY <1>3, PagesDiffer, Zenon
  <2>9. /\ NamePage(t) \in kernel' <=> s \in {"start", "load", "failed"}
        /\ Dir(t) \in kernel' <=> b \/ s \in {"forgot", "left"}
        /\ s \in {"load", "user"} => b
        /\ s \in {"none", "start", "forgot", "left", "dying"} => ~b
    BY Zenon, <2>2, <2>3, <2>4, <2>8
  <2>10. TablesHold' /\ KernelExact' /\ FramesOnce'
    BY Zenon, <2>1, <2>5, <2>8, <2>9, StageInv
  <2>11. PagingTypes' /\ BufferExact'
    BY Zenon, <2>1, <2>5, <2>7 DEF TablesInv, PagingTypes, BufferExact, Moves
  <2>12. RightDir'
    BY Zenon, <1>1, <2>1 DEF TablesInv, RightDir, Pagedir
  <2>13. DirtyKept'
    BY Zenon, <1>1, <2>1, <2>5 DEF TablesInv, DirtyKept, Moves
  <2> QED
    BY Zenon, <2>10, <2>11, <2>12, <2>13 DEF TablesInv
<1> QED
  BY Zenon, <1>2, <1>3 DEF process_execute

\* The running process fails, exits or is killed, or forgets its directory.
LEMMA LeavesUserInv ==
  ASSUME TablesInv, NEW t \in Proc, on_cpu = t, NEW s \in ProcStages, NEW b \in BOOLEAN,
         Moves(t, s, b), StaysPut(t, s, b),
         modified' = [modified EXCEPT ![t] = {}] \/ (UNCHANGED modified /\ proc[t].pc # "user"),
         UNCHANGED <<kernel, user, pte, on_cpu, cr3, tlb, held>>
  PROVE  TablesInv'
<1>1. /\ modified' \in [Proc -> SUBSET UPage] /\ modified'[t] = {}
      /\ \A q \in Proc \ {t} : modified'[q] = modified[q]
  BY Zenon DEF TablesInv, PagingTypes, DirtyKept
<1> QED
  BY Zenon, <1>1, StageOnly

\* The start of load.
LEMMA CreateDirInv ==
  ASSUME TablesInv, NEW t \in Proc, CreateDir(t)
  PROVE  TablesInv'
<1> USE PagingAssumption
<1>1. /\ PagingTypes /\ KernelExact /\ proc[t].pc = "start" /\ on_cpu = t
      /\ UNCHANGED <<user, pte, on_cpu, held, modified>>
  BY Zenon DEF CreateDir, TablesInv, InCode
<1>2. ~proc[t].pagedir /\ Dir(t) \notin kernel /\ NamePage(t) \in kernel /\ proc[t].pagedir \in BOOLEAN
  <2>1. ~proc[t].pagedir /\ Dir(t) \notin kernel /\ NamePage(t) \in kernel
    BY Zenon, <1>1 DEF KernelExact
  <2>2. proc[t].pagedir \in BOOLEAN
    BY <1>1, ProcFields, Zenon DEF PagingTypes
  <2> QED
    BY Zenon, <2>1, <2>2
<1>3. CASE /\ kernel' = kernel \cup {Dir(t)} /\ pagedir_activate(t)
           /\ proc' = [proc EXCEPT ![t].pc = "load", ![t].pagedir = TRUE]
  <2>1. PICK s \in ProcStages, b \in BOOLEAN : s = "load" /\ b = TRUE
    BY Zenon DEF ProcStages
  <2>2. Moves(t, s, b)
    BY <1>1, <1>3, <2>1, StageSet, Zenon
  <2>3. Dir(t) \in Proc \X {"name", "dir", "pt0", "pt1"}
    BY Zenon DEF Dir
  <2>4. kernel' \subseteq Proc \X {"name", "dir", "pt0", "pt1"}
    BY Zenon, <1>1, <1>3, <2>3 DEF PagingTypes
  <2>5. /\ \A q, u : Table(q, u) \in kernel' <=> Table(q, u) \in kernel
        /\ \A q : NamePage(q) \in kernel' <=> NamePage(q) \in kernel
        /\ \A q \in Proc \ {t} : Dir(q) \in kernel' <=> Dir(q) \in kernel
        /\ Dir(t) \in kernel'
    BY <1>3, PagesDiffer, Zenon
  <2>6. /\ NamePage(t) \in kernel' <=> s \in {"start", "load", "failed"}
        /\ Dir(t) \in kernel' <=> b \/ s \in {"forgot", "left"}
        /\ s \in {"load", "user"} => b
        /\ s \in {"none", "start", "forgot", "left", "dying"} => ~b
    BY Zenon, <1>2, <2>1, <2>5
  <2>7. TablesHold' /\ KernelExact' /\ FramesOnce'
    BY Zenon, <1>1, <2>2, <2>5, <2>6, StageInv
  <2>8. cr3' = t /\ tlb' = NoEntries
    BY Zenon, <1>3 DEF pagedir_activate
  <2>9. tlb' \in [UPage -> PTE] /\ \A u \in UPage : ~tlb'[u].p
    BY Zenon, <2>8, AbsentEntry DEF NoEntries
  <2>10. PagingTypes' /\ BufferExact'
    BY Zenon, <1>1, <2>2, <2>4, <2>8, <2>9 DEF PagingTypes, BufferExact, Moves
  <2>11. RightDir'
    BY Zenon, <1>1, <2>1, <2>2, <2>8 DEF RightDir, Pagedir, Moves
  <2>12. DirtyKept'
    BY <1>1, <2>1, <2>2, Zenon DEF TablesInv, DirtyKept, Moves
  <2> QED
    BY Zenon, <2>7, <2>10, <2>11, <2>12 DEF TablesInv
<1>4. CASE proc' = [proc EXCEPT ![t].pc = "failed"] /\ UNCHANGED <<kernel, cr3, tlb>>
  <2>1. PICK s \in ProcStages, b \in BOOLEAN : s = "failed" /\ b = proc[t].pagedir /\ ~b
    BY Zenon, <1>2 DEF ProcStages
  <2>2. Moves(t, s, b)
    BY <1>1, <1>4, <2>1, StageSet, Zenon
  <2>3. cr3 = "main"
    BY Zenon, <1>1, <1>2 DEF TablesInv, RightDir, Pagedir
  <2>4. StaysPut(t, s, b)
    BY Zenon, <1>2, <2>1, <2>3 DEF StaysPut
  <2> QED
    BY Zenon, <1>1, <1>4, <2>2, <2>4, LeavesUserInv
<1> QED
  BY Zenon, <1>3, <1>4 DEF CreateDir

\* start_process.
LEMMA StartInv ==
  ASSUME TablesInv, NEW t \in Proc, start_process(t)
  PROVE  TablesInv'
<1> USE PagingAssumption
<1>1. /\ PagingTypes /\ KernelExact /\ on_cpu = t
      /\ UNCHANGED <<user, pte, on_cpu, cr3, tlb, held, modified>>
      /\ kernel' = kernel \ {NamePage(t)}
  BY Zenon DEF start_process, TablesInv, InCode, cpuVars
<1>2. PICK b \in BOOLEAN : b = proc[t].pagedir
  BY <1>1, ProcFields, Zenon DEF PagingTypes
<1>3. PICK s \in ProcStages :
        /\ proc[t].pc \in {"load", "failed"}
        /\ proc' = [proc EXCEPT ![t].pc = s, ![t].next = 1]
        /\ \/ proc[t].pc = "load" /\ s = "user"
           \/ proc[t].pc = "failed" /\ s = "exit"
  BY Zenon DEF start_process, InCode, ProcStages
<1>4. Moves(t, s, b)
  BY <1>1, <1>2, <1>3, StageSet, Zenon
<1>5. /\ \A q, u : Table(q, u) \in kernel' <=> Table(q, u) \in kernel
      /\ \A q : Dir(q) \in kernel' <=> Dir(q) \in kernel
      /\ \A q \in Proc \ {t} : NamePage(q) \in kernel' <=> NamePage(q) \in kernel
      /\ NamePage(t) \notin kernel'
  BY <1>1, PagesDiffer, Zenon
<1>6. (Dir(t) \in kernel <=> b) /\ (proc[t].pc = "load" => b)
  BY Zenon, <1>1, <1>2, <1>3 DEF KernelExact
<1>7. /\ NamePage(t) \in kernel' <=> s \in {"start", "load", "failed"}
      /\ Dir(t) \in kernel' <=> b \/ s \in {"forgot", "left"}
      /\ s \in {"load", "user"} => b
      /\ s \in {"none", "start", "forgot", "left", "dying"} => ~b
  BY Zenon, <1>3, <1>5, <1>6
<1>8. TablesHold' /\ KernelExact' /\ FramesOnce'
  BY <1>1, <1>4, <1>5, <1>7, StageInv
<1>9. PagingTypes' /\ BufferExact'
  BY Zenon, <1>1, <1>4 DEF TablesInv, PagingTypes, BufferExact, Moves
<1>10. RightDir'
  BY Zenon, <1>1, <1>2, <1>3, <1>4 DEF TablesInv, RightDir, Pagedir, Moves
<1>11. DirtyKept'
  BY Zenon, <1>1, <1>3, <1>4 DEF TablesInv, DirtyKept, Moves
<1> QED
  BY Zenon, <1>8, <1>9, <1>10, <1>11 DEF TablesInv

\* process_exit forgets the directory of the process.
LEMMA ForgetInv ==
  ASSUME TablesInv, NEW t \in Proc, ForgetDir(t), UNCHANGED <<held, modified>>
  PROVE  TablesInv'
<1> USE PagingAssumption
<1>1. /\ PagingTypes /\ KernelExact /\ on_cpu = t /\ proc[t].pc = "exit"
      /\ UNCHANGED <<kernel, user, pte, on_cpu, cr3, tlb>>
  BY Zenon DEF ForgetDir, TablesInv, InCode, cpuVars, tableVars
<1>2. PICK c \in BOOLEAN, b \in BOOLEAN : c = proc[t].pagedir /\ b = FALSE
  BY <1>1, ProcFields, Zenon DEF PagingTypes
<1>3. PICK s \in ProcStages : s = IF c THEN "forgot" ELSE "dying"
  BY Zenon DEF ProcStages
<1>4. proc' = [proc EXCEPT ![t].pc = s, ![t].pagedir = b]
  BY <1>2, <1>3, Zenon DEF ForgetDir
<1>5. Moves(t, s, b)
  BY <1>1, <1>4, StageSet, Zenon
<1>6. /\ NamePage(t) \notin kernel /\ (Dir(t) \in kernel <=> c)
      /\ c => cr3 = t
      /\ ~c => cr3 = "main"
  BY Zenon, <1>1, <1>2 DEF KernelExact, TablesInv, RightDir, Pagedir
<1>7. StaysPut(t, s, b)
  BY Zenon, <1>2, <1>3, <1>6 DEF StaysPut
<1> QED
  BY Zenon, <1>1, <1>5, <1>7, LeavesUserInv

\* process_exit leaves the directory for that of the kernel.
LEMMA LeaveInv ==
  ASSUME TablesInv, NEW t \in Proc, LeaveDir(t), UNCHANGED <<held, modified>>
  PROVE  TablesInv'
<1> USE PagingAssumption
<1>1. /\ PagingTypes /\ KernelExact /\ on_cpu = t /\ proc[t].pc = "forgot"
      /\ UNCHANGED <<kernel, user, pte, on_cpu>> /\ cr3' = "main" /\ tlb' = NoEntries
  BY Zenon DEF LeaveDir, TablesInv, InCode, tableVars, pagedir_activate
<1>2. PICK b \in BOOLEAN : b = proc[t].pagedir
  BY Zenon, <1>1, ProcFields DEF PagingTypes
<1>3. PICK s \in ProcStages : s = "left"
  BY Zenon DEF ProcStages
<1>4. Moves(t, s, b)
  BY <1>1, <1>2, <1>3, StageSet, Zenon DEF LeaveDir
<1>5. NamePage(t) \notin kernel /\ Dir(t) \in kernel /\ ~b
  BY Zenon, <1>1, <1>2 DEF KernelExact
<1>6. /\ NamePage(t) \in kernel' <=> s \in {"start", "load", "failed"}
      /\ Dir(t) \in kernel' <=> b \/ s \in {"forgot", "left"}
      /\ s \in {"load", "user"} => b
      /\ s \in {"none", "start", "forgot", "left", "dying"} => ~b
      /\ \A q, u : Table(q, u) \in kernel' <=> Table(q, u) \in kernel
      /\ \A q \in Proc \ {t} : /\ NamePage(q) \in kernel' <=> NamePage(q) \in kernel
                               /\ Dir(q) \in kernel' <=> Dir(q) \in kernel
      /\ Dir(t) \in kernel => Dir(t) \in kernel'
  BY Zenon, <1>1, <1>3, <1>5
<1>7. TablesHold' /\ KernelExact' /\ FramesOnce'
  BY Zenon, <1>1, <1>4, <1>6, StageInv
<1>8. tlb' \in [UPage -> PTE] /\ \A u \in UPage : ~tlb'[u].p
  BY Zenon, <1>1, AbsentEntry DEF NoEntries
<1>9. PagingTypes' /\ BufferExact'
  BY Zenon, <1>1, <1>4, <1>8 DEF PagingTypes, BufferExact, Moves
<1>10. RightDir'
  BY Zenon, <1>1, <1>4, <1>5 DEF RightDir, Pagedir, Moves
<1>11. DirtyKept'
  BY Zenon, <1>1, <1>3, <1>4 DEF TablesInv, DirtyKept, Moves
<1> QED
  BY Zenon, <1>7, <1>9, <1>10, <1>11 DEF TablesInv

\* A system call ends the process.
LEMMA SyscallInv ==
  ASSUME TablesInv, NEW t \in Proc, proc[t].pc = "user", on_cpu = t,
         proc' = [proc EXCEPT ![t].pc = "exit"], modified' = [modified EXCEPT ![t] = {}],
         UNCHANGED <<kernel, user, pte, on_cpu, cr3, tlb, held>>
  PROVE  TablesInv'
<1> USE PagingAssumption
<1>1. PagingTypes /\ KernelExact
  BY Zenon DEF TablesInv
<1>2. PICK b \in BOOLEAN, s \in ProcStages : b = proc[t].pagedir /\ s = "exit"
  BY <1>1, StageSet, Zenon DEF ProcStages
<1>3. Moves(t, s, b)
  BY <1>1, <1>2, StageSet, Zenon
<1>4. NamePage(t) \notin kernel /\ Dir(t) \in kernel /\ b /\ cr3 = t
  BY Zenon, <1>1, <1>2 DEF KernelExact, TablesInv, RightDir, Pagedir
<1>5. StaysPut(t, s, b)
  BY Zenon, <1>2, <1>4 DEF StaysPut
<1> QED
  BY <1>1, <1>3, <1>5, LeavesUserInv, Zenon

\* Page u of t is unmapped, and no page is mapped to frame f.
Mappable(t, u, f) == ~pte[t][u].p /\ \A q \in Proc, v \in UPage : pte[q][v].p => pte[q][v].frame # f

\* What mapping page u of t keeps.
Mapped(t, u) ==
  /\ pte' \in [Proc -> [UPage -> PTE]] /\ TablesHold' /\ FramesOnce' /\ BufferExact'
  /\ \A q \in Proc, v \in UPage : q # t \/ v # u => pte'[q][v] = pte[q][v]
  /\ kernel' \subseteq Proc \X {"name", "dir", "pt0", "pt1"}
  /\ \A q : /\ NamePage(q) \in kernel' <=> NamePage(q) \in kernel
            /\ Dir(q) \in kernel' <=> Dir(q) \in kernel
  /\ \A q \in Proc \ {t}, v \in UPage : Table(q, v) \in kernel' <=> Table(q, v) \in kernel

\* A page of a process is mapped to a frame that no page is mapped to.
LEMMA MapPage ==
  ASSUME TablesInv, NEW t \in Proc, NEW u \in UPage, NEW f \in UserFrames, NEW w \in BOOLEAN,
         Mappable(t, u, f),
         pagedir_set_page(t, u, f, w), user' = user \cup {f}, held' = held \ {f},
         UNCHANGED <<cr3, tlb>>
  PROVE  Mapped(t, u)
<1> USE PagingAssumption DEF TablesInv, Mappable
<1>1. PICK e : e = [p |-> TRUE, frame |-> f, w |-> w, d |-> FALSE]
  BY Zenon
<1>2. e \in PTE /\ e.p /\ e.frame = f
  BY Zenon, <1>1 DEF PTE
<1>3. kernel' = kernel \cup {Table(t, u)} /\ SetEntry(t, u, e)
  BY Zenon, <1>1 DEF pagedir_set_page
<1>4. /\ pte' \in [Proc -> [UPage -> PTE]] /\ pte'[t][u] = e
      /\ \A q \in Proc, v \in UPage : q # t \/ v # u => pte'[q][v] = pte[q][v]
  BY <1>2, <1>3, EntrySet, ZenonT(30)
<1>5. Table(t, u) \in Proc \X {"name", "dir", "pt0", "pt1"}
  BY Zenon DEF Table
<1>6. kernel' \subseteq Proc \X {"name", "dir", "pt0", "pt1"}
  BY Zenon, <1>3, <1>5 DEF PagingTypes
<1>7. \A q : /\ NamePage(q) \in kernel' <=> NamePage(q) \in kernel
             /\ Dir(q) \in kernel' <=> Dir(q) \in kernel
  BY <1>3, PagesDiffer, Zenon
<1>8. \A q \in Proc \ {t}, v \in UPage : Table(q, v) \in kernel' <=> Table(q, v) \in kernel
  BY <1>3, PagesDiffer, Zenon
<1>9. TablesHold'
  <2> SUFFICES ASSUME NEW q \in Proc, NEW v \in UPage, Table(q, v) \notin kernel'
               PROVE  pte'[q][v] = Absent
    BY Zenon DEF TablesHold, Table
  <2>1. Table(q, v) \notin kernel /\ (q # t \/ v # u)
    BY Zenon, <1>3
  <2> QED
    BY <1>4, <2>1, ZenonT(30) DEF TablesHold
<1>10. FramesOnce'
  <2>1. \A g : g \in user' <=> g \in held' \/ \E q \in Proc, v \in UPage : pte'[q][v].p /\ pte'[q][v].frame = g
    <3> TAKE g
    <3>1. CASE g = f
      BY Zenon, <1>2, <1>4, <3>1
    <3>2. CASE g # f
      <4>1. ASSUME NEW q \in Proc, NEW v \in UPage, pte[q][v].p /\ pte[q][v].frame = g
            PROVE  pte'[q][v].p /\ pte'[q][v].frame = g
        BY Zenon, <1>4, <4>1
      <4>2. ASSUME NEW q \in Proc, NEW v \in UPage, pte'[q][v].p /\ pte'[q][v].frame = g
            PROVE  pte[q][v].p /\ pte[q][v].frame = g
        <5>1. CASE q = t /\ v = u
          BY Zenon, <1>2, <1>4, <3>2, <4>2, <5>1
        <5>2. CASE q # t \/ v # u
          BY Zenon, <1>4, <4>2, <5>2
        <5> QED
          BY Zenon, <5>1, <5>2
      <4>3. g \in user' <=> g \in user
        BY Zenon, <3>2
      <4>4. g \in held' <=> g \in held
        BY Zenon, <3>2
      <4>5. g \in user <=> g \in held \/ \E q \in Proc, v \in UPage : pte[q][v].p /\ pte[q][v].frame = g
        BY Zenon DEF FramesOnce, FramesUsed
      <4> QED
        BY Zenon, <4>1, <4>2, <4>3, <4>4, <4>5
    <3> QED
      BY Zenon, <3>1, <3>2
  <2>2. ASSUME NEW q \in Proc, NEW r \in Proc, NEW v \in UPage, NEW x \in UPage,
               pte'[q][v].p /\ pte'[r][x].p /\ pte'[q][v].frame = pte'[r][x].frame
        PROVE  q = r /\ v = x
    <3>1. CASE (q # t \/ v # u) /\ (r # t \/ x # u)
      <4>1. pte'[q][v] = pte[q][v] /\ pte'[r][x] = pte[r][x]
        BY Zenon, <1>4, <3>1
      <4> QED
        BY SMTT(30), <2>2, <4>1 DEF FramesOnce, FramesUsed, FramesApart, FramesUnheld
    <3>2. CASE (q = t /\ v = u) /\ (r # t \/ x # u)
      <4>1. pte'[q][v] = e /\ pte'[r][x] = pte[r][x]
        BY Zenon, <1>4, <3>2
      <4>2. pte[r][x].p /\ pte[r][x].frame = f
        BY Zenon, <1>2, <2>2, <4>1
      <4> QED
        BY <4>2, Zenon
    <3>3. CASE (q # t \/ v # u) /\ (r = t /\ x = u)
      <4>1. pte'[r][x] = e /\ pte'[q][v] = pte[q][v]
        BY Zenon, <1>4, <3>3
      <4>2. pte[q][v].p /\ pte[q][v].frame = f
        BY Zenon, <1>2, <2>2, <4>1
      <4> QED
        BY Zenon, <4>2
    <3> QED
      BY Zenon, <3>1, <3>2, <3>3
  <2>3. ASSUME NEW q \in Proc, NEW v \in UPage, pte'[q][v].p
        PROVE  pte'[q][v].frame \notin held'
    <3>1. CASE q = t /\ v = u
      BY Zenon, <1>2, <1>4, <3>1
    <3>2. CASE q # t \/ v # u
      <4>1. pte'[q][v] = pte[q][v]
        BY Zenon, <1>4, <3>2
      <4> QED
        BY <2>3, <4>1, Zenon DEF FramesOnce, FramesUsed, FramesApart, FramesUnheld
    <3> QED
      BY Zenon, <3>1, <3>2
  <2> QED
    BY <2>1, <2>2, <2>3, Zenon DEF FramesOnce, FramesUsed, FramesApart, FramesUnheld
<1>11. BufferExact'
  <2> SUFFICES ASSUME NEW v \in UPage, tlb[v].p
               PROVE  /\ cr3 \in Proc
                      /\ pte'[cr3][v].p /\ pte'[cr3][v].frame = tlb[v].frame
                      /\ pte'[cr3][v].w = tlb[v].w /\ (tlb[v].d => pte'[cr3][v].d)
    BY Zenon DEF BufferExact
  <2>1. cr3 \in Proc /\ pte[cr3][v].p
    BY Zenon DEF BufferExact
  <2>2. pte'[cr3][v] = pte[cr3][v]
    BY Zenon, <1>4, <2>1
  <2> QED
    BY ZenonT(30), <2>2 DEF BufferExact
<1> QED
  BY <1>4, <1>6, <1>7, <1>8, <1>9, <1>10, <1>11, Zenon DEF Mapped

\* The page load_segment and setup_stack are about to install.
LEMMA PageInHand ==
  ASSUME PagingInv, NEW t \in Proc, install_page(t)
  PROVE  /\ on_cpu = t /\ proc[t].pc = "load"
         /\ kpage[t] \in held /\ kpage[t] \in UserFrames /\ kpage[t] \in user
<1>1. on_cpu = t /\ proc[t].pc = "load" /\ kpage[t] # 0
  BY Zenon DEF install_page, InCode
<1>2. kpage[t] \in held
  BY Zenon, <1>1 DEF PagingInv, PagesInHand
<1> QED
  BY Zenon, <1>1, <1>2 DEF PagingInv, TablesInv, PagingTypes, FramesOnce, FramesUsed

\* They install it.
LEMMA InstallInv ==
  ASSUME PagingInv, NEW t \in Proc, install_page(t)
  PROVE  TablesInv'
<1> USE PagingAssumption
<1>1. /\ TablesInv /\ PagingTypes /\ KernelExact /\ TablesHold /\ FramesOnce
      /\ on_cpu = t /\ proc[t].pc = "load"
      /\ UNCHANGED <<on_cpu, cr3, tlb, modified>>
      /\ proc[t].next <= Len(LoadList[t])
  BY Zenon DEF install_page, PagingInv, TablesInv, InCode, cpuVars
<1>f. PICK f \in UserFrames : f = kpage[t] /\ f \in held /\ f \in user /\ held' = held \ {f}
  BY Zenon, PageInHand DEF install_page
<1>2. PICK b \in BOOLEAN : b = proc[t].pagedir
  BY Zenon, <1>1, ProcFields DEF PagingTypes
<1>3. b /\ Dir(t) \in kernel /\ NamePage(t) \in kernel /\ cr3 = t
  BY Zenon, <1>1, <1>2 DEF KernelExact, TablesInv, RightDir, Pagedir
<1>4. PICK u \in UPage, w \in BOOLEAN : LoadList[t][proc[t].next].u = u /\ LoadList[t][proc[t].next].w = w
  <2>1. proc[t].next \in Nat \ {0} /\ LoadList[t] \in Seq([u : UPage, w : BOOLEAN])
    BY <1>1, ProcFields, Zenon DEF PagingTypes
  <2>2. PICK S : S = [u : UPage, w : BOOLEAN]
    BY Zenon
  <2>3. PICK L \in Seq(S), n \in Nat \ {0} : L = LoadList[t] /\ n = proc[t].next /\ n <= Len(L)
    BY Zenon, <1>1, <2>1, <2>2
  <2>4. PICK page \in S : page = LoadList[t][proc[t].next]
    BY SMTT(30), <2>3
  <2> QED
    BY <2>2, <2>4, Zenon
<1>5. CASE /\ proc' = [proc EXCEPT ![t].pc = "failed"]
           /\ user' = user \ {f} /\ UNCHANGED <<kernel, pte>>
  <2>1. PICK s \in ProcStages : s = "failed"
    BY Zenon DEF ProcStages
  <2>2. Moves(t, s, b)
    BY <1>1, <1>2, <1>5, <2>1, StageSet, Zenon
  <2>3. /\ \A q, v : Table(q, v) \in kernel' <=> Table(q, v) \in kernel
        /\ \A q \in Proc \ {t} : /\ NamePage(q) \in kernel' <=> NamePage(q) \in kernel
                                 /\ Dir(q) \in kernel' <=> Dir(q) \in kernel
        /\ NamePage(t) \in kernel' <=> s \in {"start", "load", "failed"}
        /\ Dir(t) \in kernel' <=> b \/ s \in {"forgot", "left"}
        /\ Dir(t) \in kernel => Dir(t) \in kernel'
        /\ s \in {"load", "user"} => b
        /\ s \in {"none", "start", "forgot", "left", "dying"} => ~b
    BY Zenon, <1>3, <1>5, <2>1
  <2>4. TablesHold' /\ KernelExact'
    BY Zenon, <1>1, <1>5, <2>2, <2>3, StageTables
  <2>5. FramesOnce'
    BY Zenon, <1>1, <1>f, <1>5, FrameFreed
  <2>6. PagingTypes' /\ BufferExact'
    BY Zenon, <1>1, <1>5, <2>2 DEF TablesInv, PagingTypes, BufferExact, Moves
  <2>7. RightDir'
    BY Zenon, <1>1, <1>3, <2>2 DEF RightDir, Pagedir, Moves
  <2>8. DirtyKept'
    BY Zenon, <1>1, <1>5, <2>2, <2>1 DEF TablesInv, DirtyKept, Moves
  <2> QED
    BY Zenon, <2>4, <2>5, <2>6, <2>7, <2>8 DEF TablesInv
<1>6. CASE /\ ~lookup_page(t, u).p
           /\ UNCHANGED user /\ pagedir_set_page(t, u, f, w)
           /\ proc' = [proc EXCEPT ![t].next = @ + 1]
  <2>2. ~pte[t][u].p
    BY Zenon, <1>1, <1>6, LookupIs
  <2>3. \A q \in Proc, v \in UPage : pte[q][v].p => pte[q][v].frame # f
    BY Zenon, <1>1, <1>f DEF FramesOnce, FramesUnheld
  <2>4. pagedir_set_page(t, u, f, w) /\ user' = user \cup {f} /\ Mappable(t, u, f) /\ UNCHANGED <<cr3, tlb>>
    BY Zenon, <1>1, <1>f, <1>6, <2>2, <2>3 DEF Mappable
  <2>5. Mapped(t, u)
    BY Zenon, <1>1, <1>f, <2>4, MapPage
  <2>6. PICK s \in ProcStages : s = "load"
    BY Zenon DEF ProcStages
  <2>7. Moves(t, s, b)
    BY <1>1, <1>2, <1>6, <2>6, StageSet, Zenon
  <2>8. PagingTypes'
    BY Zenon, <1>1, <1>6, <2>5, <2>7 DEF PagingTypes, Moves, Mapped
  <2>9. KernelExact'
    <3> SUFFICES ASSUME NEW q \in Proc
                 PROVE  /\ NamePage(q) \in kernel' <=> proc'[q].pc \in {"start", "load", "failed"}
                        /\ Dir(q) \in kernel' <=> proc'[q].pagedir \/ proc'[q].pc \in {"forgot", "left"}
                        /\ \A v \in UPage : Table(q, v) \in kernel' => Dir(q) \in kernel'
                        /\ proc'[q].pc \in {"load", "user"} => proc'[q].pagedir
                        /\ proc'[q].pc \in {"none", "start", "forgot", "left", "dying"} => ~proc'[q].pagedir
      BY Zenon DEF KernelExact, Table, Dir, NamePage
    <3>1. CASE q = t
      <4>1. proc'[q].pc = "load" /\ proc'[q].pagedir
        BY <1>3, <2>6, <2>7, <3>1, Zenon DEF Moves
      <4> QED
        BY Zenon, <1>3, <2>5, <3>1, <4>1 DEF Mapped
    <3>2. CASE q # t
      <4>1. proc'[q] = proc[q]
        BY Zenon, <2>7, <3>2 DEF Moves
      <4> QED
        BY Zenon, <1>1, <2>5, <3>2, <4>1 DEF KernelExact, Mapped
    <3> QED
      BY Zenon, <3>1, <3>2
  <2>10. RightDir'
    BY Zenon, <1>1, <1>3, <2>7 DEF RightDir, Pagedir, Moves
  <2>11. DirtyKept'
    <3> SUFFICES ASSUME NEW q \in Proc
                 PROVE  /\ proc'[q].pc # "user" => modified'[q] = {}
                        /\ \A v \in modified'[q] : pte'[q][v].d
      BY Zenon DEF DirtyKept
    <3>1. CASE q = t
      BY Zenon, <1>1, <3>1 DEF TablesInv, DirtyKept
    <3>2. CASE q # t
      <4>1. proc'[q] = proc[q] /\ modified[q] \subseteq UPage
        BY Zenon, <1>1, <2>7, <3>2 DEF Moves, PagingTypes
      <4> QED
        BY <1>1, <2>5, <3>2, <4>1, ZenonT(30) DEF TablesInv, DirtyKept, Mapped
    <3> QED
      BY Zenon, <3>1, <3>2
  <2> QED
    BY Zenon, <2>5, <2>8, <2>9, <2>10, <2>11 DEF TablesInv, Mapped
<1> QED
  BY Zenon, <1>f, <1>4, <1>5, <1>6 DEF install_page

\* They get it.
LEMMA GetPageInv ==
  ASSUME PagingInv, NEW t \in Proc, GetPage(t),
         UserRoom => NewFrame \in UserFrames /\ NewFrame \notin user
  PROVE  PagingInv'
<1> USE PagingAssumption
<1>1. /\ TablesInv /\ PagesInHand /\ PagingTypes /\ KernelExact /\ FramesOnce
      /\ on_cpu = t /\ proc[t].pc = "load" /\ kpage[t] = 0
      /\ UNCHANGED <<kernel, pte, on_cpu, cr3, tlb, modified>>
  BY Zenon DEF GetPage, PagingInv, TablesInv, InCode, cpuVars
<1>2. CASE /\ UserRoom /\ user' = user \cup {NewFrame} /\ held' = held \cup {NewFrame}
           /\ kpage' = [kpage EXCEPT ![t] = NewFrame] /\ UNCHANGED proc
  <2>1. PICK f \in UserFrames : f = NewFrame /\ f \notin user
    BY Zenon, <1>2
  <2>2. /\ user' = user \cup {f} /\ held' = held \cup {f} /\ kpage' = [kpage EXCEPT ![t] = f]
        /\ f \in Nat
    BY Zenon, <1>2, <2>1
  <2>3. f \notin held /\ \A q \in Proc, v \in UPage : pte[q][v].p => pte[q][v].frame # f
    BY Zenon, <1>1, <2>1 DEF FramesOnce, FramesUsed
  <2>4. FramesOnce'
    <3>1. ASSUME NEW g
          PROVE  g \in user' <=> g \in held' \/ \E q \in Proc, v \in UPage : pte'[q][v].p /\ pte'[q][v].frame = g
      <4>1. g \in user <=> g \in held \/ \E q \in Proc, v \in UPage : pte[q][v].p /\ pte[q][v].frame = g
        BY Zenon, <1>1 DEF FramesOnce, FramesUsed
      <4>2. /\ g \in user' <=> g \in user \/ g = f
            /\ g \in held' <=> g \in held \/ g = f
        BY Zenon, <2>2
      <4> QED
        BY Zenon, <1>1, <4>1, <4>2
    <3>2. pte' = pte
      BY Zenon, <1>1
    <3>3. ASSUME NEW r \in Proc, NEW q \in Proc, NEW u \in UPage, NEW v \in UPage,
                 pte'[r][u].p, pte'[q][v].p, pte'[r][u].frame = pte'[q][v].frame
          PROVE  r = q /\ u = v
      <4>1. pte[r][u].p /\ pte[q][v].p /\ pte[r][u].frame = pte[q][v].frame
        BY Zenon, <3>2, <3>3
      <4> QED
        BY Zenon, <1>1, <4>1 DEF FramesOnce, FramesApart
    <3>4. ASSUME NEW r \in Proc, NEW u \in UPage, pte'[r][u].p PROVE pte'[r][u].frame \notin held'
      <4>1. pte[r][u].p /\ pte[r][u].frame \notin held /\ pte[r][u].frame # f
        BY Zenon, <1>1, <2>3, <3>2, <3>4 DEF FramesOnce, FramesUnheld
      <4> QED
        BY Zenon, <2>2, <3>2, <4>1
    <3>5. /\ \A r, q \in Proc, u, v \in UPage :
               pte'[r][u].p /\ pte'[q][v].p /\ pte'[r][u].frame = pte'[q][v].frame => r = q /\ u = v
          /\ \A r \in Proc, u \in UPage : pte'[r][u].p => pte'[r][u].frame \notin held'
      BY Zenon, <3>3, <3>4
    <3> QED
      BY Zenon, <3>1, <3>5 DEF FramesOnce, FramesUsed, FramesApart, FramesUnheld
  <2>5. PagingTypes' /\ TablesHold' /\ BufferExact' /\ DirtyKept'
    BY Zenon, <1>1, <1>2, <2>2 DEF TablesInv, PagingTypes, TablesHold, BufferExact, DirtyKept, Table
  <2>6. KernelExact'
    BY Zenon, <1>1, <1>2 DEF KernelExact, Table, Dir, NamePage
  <2>7. RightDir'
    BY Zenon, <1>1, <1>2 DEF TablesInv, RightDir, Pagedir
  <2>8. PagesInHand'
    <3>1. kpage' \in [Proc -> Nat] /\ kpage'[t] = f /\ \A q \in Proc \ {t} : kpage'[q] = kpage[q]
      BY Zenon, <1>1, <2>2 DEF PagesInHand
    <3>2. \A q \in Proc : kpage'[q] # 0 => kpage'[q] \in held' /\ proc'[q].pc = "load"
      BY Zenon, <1>1, <1>2, <2>2, <3>1 DEF PagesInHand
    <3>3. \A q \in Proc \ {t} : kpage'[q] # 0 => kpage'[q] # f
      BY Zenon, <1>1, <2>3, <3>1 DEF PagesInHand
    <3>4. ASSUME NEW q \in Proc, NEW r \in Proc, kpage'[q] # 0, kpage'[q] = kpage'[r] PROVE q = r
      BY Zenon, <1>1, <3>1, <3>3, <3>4 DEF PagesInHand
    <3> QED
      BY Zenon, <3>1, <3>2, <3>4 DEF PagesInHand
  <2> QED
    BY Zenon, <2>4, <2>5, <2>6, <2>7, <2>8 DEF PagingInv, TablesInv
<1>3. CASE /\ proc' = [proc EXCEPT ![t].pc = "failed"] /\ UNCHANGED <<user, held, kpage>>
  <2>1. PICK b \in BOOLEAN, s \in ProcStages : b = proc[t].pagedir /\ s = "failed"
    BY Zenon, <1>1, ProcFields DEF PagingTypes, ProcStages
  <2>2. b /\ Dir(t) \in kernel /\ NamePage(t) \in kernel /\ cr3 = t
    BY Zenon, <1>1, <2>1 DEF KernelExact, TablesInv, RightDir, Pagedir
  <2>3. Moves(t, s, b)
    BY <1>1, <1>3, <2>1, StageSet, Zenon
  <2>4. StaysPut(t, s, b)
    BY Zenon, <2>1, <2>2 DEF StaysPut
  <2>5. TablesInv'
    <3>1. proc[t].pc # "user"
      BY Zenon, <1>1
    <3> QED
      BY Zenon, <1>1, <1>3, <2>3, <2>4, <3>1, LeavesUserInv
  <2>6. PagesInHand'
    BY Zenon, <1>1, <1>3, <2>3 DEF PagesInHand, Moves
  <2> QED
    BY Zenon, <2>5, <2>6 DEF PagingInv
<1> QED
  BY Zenon, <1>2, <1>3 DEF GetPage

\* The page that was installed or freed is nobody's.
LEMMA InstallHand ==
  ASSUME PagingInv, NEW t \in Proc, install_page(t)
  PROVE  PagesInHand'
<1>1. /\ PagesInHand /\ PagingTypes /\ held' = held \ {kpage[t]} /\ kpage[t] # 0
      /\ kpage' = [kpage EXCEPT ![t] = 0]
      /\ \A q \in Proc \ {t} : proc'[q] = proc[q]
  BY Zenon DEF install_page, PagingInv, TablesInv, PagingTypes
<1>2. PICK zero \in Nat : zero = 0
  OBVIOUS
<1>3. kpage' \in [Proc -> Nat] /\ kpage'[t] = 0 /\ \A q \in Proc \ {t} : kpage'[q] = kpage[q]
  BY Zenon, <1>1, <1>2 DEF PagesInHand
<1>4. ASSUME NEW q \in Proc, kpage'[q] # 0 PROVE kpage'[q] \in held' /\ proc'[q].pc = "load"
  BY Zenon, <1>1, <1>3, <1>4 DEF PagesInHand
<1>5. ASSUME NEW q \in Proc, NEW r \in Proc, kpage'[q] # 0, kpage'[q] = kpage'[r] PROVE q = r
  BY Zenon, <1>1, <1>3, <1>5 DEF PagesInHand
<1> QED
  BY Zenon, <1>3, <1>4, <1>5 DEF PagesInHand

\* A step that takes no page out of anybody's hands.
LEMMA HandsKept ==
  ASSUME PagesInHand, UNCHANGED kpage,
         \A t \in Proc : kpage[t] # 0 => kpage[t] \in held' /\ proc'[t] = proc[t]
  PROVE  PagesInHand'
  BY Zenon DEF PagesInHand

\* The steps that are not about loading a page.
LEMMA OtherHand ==
  ASSUME PagingInv, OtherStep, UNCHANGED kpage
  PROVE  PagesInHand'
<1>1. PagesInHand /\ proc \in [Proc -> Process]
  BY Zenon DEF PagingInv, TablesInv, PagingTypes
<1>2. ASSUME NEW t \in Proc, kpage[t] = 0, \A q \in Proc \ {t} : proc'[q] = proc[q], UNCHANGED held
      PROVE  PagesInHand'
  BY Zenon, <1>1, <1>2, HandsKept DEF PagesInHand
<1>3. ASSUME NEW t \in Proc, proc[t].pc # "load" PROVE kpage[t] = 0
  BY Zenon, <1>1, <1>3 DEF PagesInHand
<1>4. ASSUME NEW t \in Proc, process_execute(t) PROVE PagesInHand'
  <2>1. UNCHANGED held /\ \A q \in Proc \ {t} : proc'[q] = proc[q]
    BY Zenon, <1>1, <1>4 DEF process_execute
  <2>2. proc[t].pc # "load"
    BY <1>4 DEF process_execute, NoProc
  <2> QED
    BY Zenon, <1>2, <1>3, <2>1, <2>2
<1>5. ASSUME NEW t \in Proc, CreateDir(t) PROVE PagesInHand'
  <2>1. proc[t].pc # "load" /\ UNCHANGED held /\ \A q \in Proc \ {t} : proc'[q] = proc[q]
    BY Zenon, <1>1, <1>5 DEF CreateDir, InCode
  <2> QED
    BY Zenon, <1>2, <1>3, <2>1
<1>6. ASSUME NEW t \in Proc, start_process(t) PROVE PagesInHand'
  <2>1. kpage[t] = 0 /\ UNCHANGED held /\ \A q \in Proc \ {t} : proc'[q] = proc[q]
    BY Zenon, <1>1, <1>3, <1>6 DEF start_process, InCode
  <2> QED
    BY Zenon, <1>2, <2>1
<1>7. ASSUME NEW t \in Proc, process_exit(t) PROVE PagesInHand'
  <2>1. proc[t].pc # "load" /\ UNCHANGED held /\ \A q \in Proc \ {t} : proc'[q] = proc[q]
    BY Zenon, <1>1, <1>7 DEF process_exit, ForgetDir, LeaveDir, DestroyDir, InCode
  <2> QED
    BY Zenon, <1>2, <1>3, <2>1
<1>8. ASSUME NEW t \in Proc, syscall_handler(t) PROVE PagesInHand'
  <2>1. proc[t].pc # "load" /\ UNCHANGED held /\ \A q \in Proc \ {t} : proc'[q] = proc[q]
    BY Zenon, <1>1, <1>8 DEF syscall_handler, InCode
  <2> QED
    BY Zenon, <1>2, <1>3, <2>1
<1>9. ASSUME NEW t \in Proc, NEW u \in UPage, pagedir_clear_page(t, u) PROVE PagesInHand'
  <2>1. UNCHANGED proc /\ held \subseteq held'
    BY Zenon, <1>9 DEF pagedir_clear_page
  <2> QED
    BY Zenon, <1>1, <2>1, HandsKept DEF PagesInHand
<1>10. ASSUME NEW t \in Proc, NEW u \in UPage, NEW write \in BOOLEAN, Touch(t, u, write) PROVE PagesInHand'
  <2>1. proc[t].pc # "load" /\ UNCHANGED held /\ \A q \in Proc \ {t} : proc'[q] = proc[q]
    BY Zenon, <1>1, <1>10 DEF Touch, InCode
  <2> QED
    BY Zenon, <1>2, <1>3, <2>1
<1>11. ASSUME NEW t \in Proc, NEW u \in UPage, NEW dirty \in BOOLEAN, pagedir_set_dirty(t, u, dirty)
       PROVE  PagesInHand'
  <2>1. UNCHANGED <<proc, held>>
    BY Zenon, <1>11 DEF pagedir_set_dirty
  <2> QED
    BY Zenon, <1>1, <2>1, HandsKept DEF PagesInHand
<1>12. ASSUME NEW t \in Proc \cup {"main"}, Switch(t) PROVE PagesInHand'
  <2>1. UNCHANGED held /\ \A q \in Proc : proc[q].pc # "dying" => proc'[q] = proc[q]
    BY Zenon, <1>12 DEF Switch
  <2> QED
    BY Zenon, <1>1, <2>1, HandsKept DEF PagesInHand
<1>13. ASSUME NEW f \in held, UseHeld(f) PROVE PagesInHand'
  <2>1. UNCHANGED proc /\ held' = held \ {f} /\ \A q \in Proc : kpage[q] # f
    BY Zenon, <1>1, <1>13 DEF UseHeld, Cleared, Range, PagesInHand
  <2> QED
    BY Zenon, <1>1, <2>1, HandsKept DEF PagesInHand
<1> QED
  BY Zenon, <1>4, <1>5, <1>6, <1>7, <1>8, <1>9, <1>10, <1>11, <1>12, <1>13 DEF OtherStep

\* process_exit destroys the directory, with every page it maps.
LEMMA DestroyInv ==
  ASSUME TablesInv, NEW t \in Proc, DestroyDir(t), UNCHANGED <<held, modified>>
  PROVE  TablesInv'
<1> USE PagingAssumption
<1>1. /\ PagingTypes /\ KernelExact /\ TablesHold /\ FramesOnce /\ on_cpu = t /\ proc[t].pc = "left"
      /\ UNCHANGED <<on_cpu, cr3, tlb>> /\ pagedir_destroy(t)
  BY Zenon DEF DestroyDir, TablesInv, InCode, cpuVars
<1>2. PICK b \in BOOLEAN : b = proc[t].pagedir
  BY Zenon, <1>1, ProcFields DEF PagingTypes
<1>3. PICK s \in ProcStages : s = "dying"
  BY Zenon DEF ProcStages
<1>4. Moves(t, s, b)
  BY <1>1, <1>2, <1>3, StageSet, Zenon DEF DestroyDir
<1>5. NamePage(t) \notin kernel /\ ~b /\ cr3 = "main"
  BY Zenon, <1>1, <1>2 DEF KernelExact, TablesInv, RightDir, Pagedir
<1>6. /\ \A q : NamePage(q) \in kernel' <=> NamePage(q) \in kernel
      /\ \A q \in Proc \ {t} : Dir(q) \in kernel' <=> Dir(q) \in kernel
      /\ \A q \in Proc \ {t}, v \in UPage : Table(q, v) \in kernel' <=> Table(q, v) \in kernel
      /\ Dir(t) \notin kernel' /\ \A v \in UPage : Table(t, v) \notin kernel'
      /\ kernel' \subseteq kernel
  BY <1>1, PagesDiffer, Zenon DEF pagedir_destroy, Tables
<1>7. /\ pte' \in [Proc -> [UPage -> PTE]]
      /\ \A v \in UPage : pte'[t][v] = Absent
      /\ \A q \in Proc \ {t} : pte'[q] = pte[q]
  <2>1. NoEntries \in [UPage -> PTE] /\ \A v \in UPage : NoEntries[v] = Absent
    BY Zenon, AbsentEntry DEF NoEntries
  <2> QED
    BY Zenon, <1>1, <2>1 DEF pagedir_destroy, PagingTypes
<1>8. TablesHold'
  <2> SUFFICES ASSUME NEW q \in Proc, NEW v \in UPage, Table(q, v) \notin kernel'
               PROVE  pte'[q][v] = Absent
    BY Zenon DEF TablesHold, Table
  <2> QED
    BY ZenonT(30), <1>1, <1>6, <1>7 DEF TablesHold
<1>9. FramesOnce'
  <2>1. \A g : g \in user' <=> g \in user /\ ~\E v \in UPage : pte[t][v].p /\ pte[t][v].frame = g
    <3>1. user' = user \ Frames(t)
      BY Zenon, <1>1 DEF pagedir_destroy
    <3> QED
      BY Zenon, <1>1, <3>1, FramesAre
  <2>2. \A q \in Proc, v \in UPage : pte'[q][v].p => q # t /\ pte'[q][v] = pte[q][v]
    BY <1>7, AbsentEntry, Zenon
  <2>3. \A g : g \in user' <=> g \in held' \/ \E q \in Proc, v \in UPage : pte'[q][v].p /\ pte'[q][v].frame = g
    <3> TAKE g
    <3>1. ASSUME g \in user', g \notin held'
          PROVE  \E q \in Proc, v \in UPage : pte'[q][v].p /\ pte'[q][v].frame = g
      <4>1. PICK q \in Proc, v \in UPage : pte[q][v].p /\ pte[q][v].frame = g
        BY Zenon, <1>1, <2>1, <3>1 DEF FramesOnce, FramesUsed, FramesApart, FramesUnheld
      <4>2. q # t
        BY Zenon, <2>1, <3>1, <4>1
      <4> QED
        BY Zenon, <1>7, <4>1, <4>2
    <3>2. ASSUME g \in held' PROVE g \in user'
      BY SMTT(30), <1>1, <2>1, <3>2 DEF FramesOnce, FramesUsed, FramesApart, FramesUnheld
    <3>3. ASSUME NEW q \in Proc, NEW v \in UPage, pte'[q][v].p /\ pte'[q][v].frame = g PROVE g \in user'
      <4>1. q # t /\ pte[q][v].p /\ pte[q][v].frame = g
        BY Zenon, <2>2, <3>3
      <4> QED
        BY <1>1, <2>1, <4>1, Zenon DEF FramesOnce, FramesUsed, FramesApart, FramesUnheld
    <3> QED
      BY Zenon, <3>1, <3>2, <3>3
  <2>4. ASSUME NEW q \in Proc, NEW r \in Proc, NEW v \in UPage, NEW x \in UPage,
               pte'[q][v].p /\ pte'[r][x].p /\ pte'[q][v].frame = pte'[r][x].frame
        PROVE  q = r /\ v = x
    <3>1. pte'[q][v] = pte[q][v] /\ pte'[r][x] = pte[r][x]
      BY Zenon, <2>2, <2>4
    <3> QED
      BY SMTT(30), <1>1, <2>4, <3>1 DEF FramesOnce, FramesUsed, FramesApart, FramesUnheld
  <2>5. ASSUME NEW q \in Proc, NEW v \in UPage, pte'[q][v].p PROVE pte'[q][v].frame \notin held'
    <3>1. pte'[q][v] = pte[q][v]
      BY Zenon, <2>2, <2>5
    <3> QED
      BY Zenon, <1>1, <2>5, <3>1 DEF FramesOnce, FramesUsed, FramesApart, FramesUnheld
  <2>6. FramesUsed'
    BY Zenon, <2>3 DEF FramesUsed
  <2>7. FramesApart'
    BY Zenon, <2>4 DEF FramesApart
  <2>8. FramesUnheld'
    BY Zenon, <2>5 DEF FramesUnheld
  <2> QED
    BY Zenon, <2>6, <2>7, <2>8 DEF FramesOnce
<1>10. KernelExact'
  <2> SUFFICES ASSUME NEW q \in Proc
               PROVE  /\ NamePage(q) \in kernel' <=> proc'[q].pc \in {"start", "load", "failed"}
                      /\ Dir(q) \in kernel' <=> proc'[q].pagedir \/ proc'[q].pc \in {"forgot", "left"}
                      /\ \A u \in UPage : Table(q, u) \in kernel' => Dir(q) \in kernel'
                      /\ proc'[q].pc \in {"load", "user"} => proc'[q].pagedir
                      /\ proc'[q].pc \in {"none", "start", "forgot", "left", "dying"} => ~proc'[q].pagedir
    BY Zenon DEF KernelExact, Table, Dir, NamePage
  <2>1. CASE q = t
    <3>1. proc'[q].pc = "dying" /\ ~proc'[q].pagedir
      BY Zenon, <1>3, <1>4, <1>5, <2>1 DEF Moves
    <3> QED
      BY Zenon, <1>5, <1>6, <2>1, <3>1
  <2>2. CASE q # t
    <3>1. proc'[q] = proc[q]
      BY Zenon, <1>4, <2>2 DEF Moves
    <3> QED
      BY Zenon, <1>1, <1>6, <2>2, <3>1 DEF KernelExact
  <2> QED
    BY Zenon, <2>1, <2>2
<1>11. PagingTypes'
  BY <1>1, <1>4, <1>6, <1>7, Zenon DEF PagingTypes, Moves, pagedir_destroy
<1>12. BufferExact'
  BY <1>1, <1>5, Zenon DEF TablesInv, BufferExact
<1>13. RightDir'
  BY Zenon, <1>1, <1>4, <1>5 DEF RightDir, Pagedir, Moves
<1>14. DirtyKept'
  BY <1>1, <1>3, <1>4, <1>7, Zenon DEF TablesInv, DirtyKept, Moves
<1> QED
  BY Zenon, <1>8, <1>9, <1>10, <1>11, <1>12, <1>13, <1>14 DEF TablesInv

\* thread_schedule_tail.
LEMMA SwitchInv ==
  ASSUME TablesInv, NEW t \in Proc \cup {"main"}, Switch(t)
  PROVE  TablesInv'
<1> USE PagingAssumption
<1>1. /\ PagingTypes /\ KernelExact /\ TablesHold /\ FramesOnce /\ DirtyKept /\ t # on_cpu
      /\ UNCHANGED <<kernel, user, pte, held, modified>>
      /\ on_cpu' = t /\ cr3' = Pagedir(t) /\ tlb' = NoEntries
      /\ proc' = [q \in Proc |-> IF q = on_cpu /\ proc[q].pc = "dying" THEN NoProc ELSE proc[q]]
  BY Zenon DEF Switch, TablesInv, tableVars, pagedir_activate
<1>2. NoProc \in Process /\ NoProc.pc = "none" /\ NoProc.pagedir = FALSE
  BY DEF NoProc, Process, ProcStages
<1>3. proc' \in [Proc -> Process]
  BY Zenon, <1>1, <1>2 DEF PagingTypes
<1>4. ASSUME NEW q \in Proc PROVE proc'[q] = proc[q] \/ (proc[q].pc = "dying" /\ proc'[q] = NoProc /\ q # t)
  BY Zenon, <1>1
<1>5. KernelExact'
  <2> SUFFICES ASSUME NEW q \in Proc
               PROVE  /\ NamePage(q) \in kernel' <=> proc'[q].pc \in {"start", "load", "failed"}
                      /\ Dir(q) \in kernel' <=> proc'[q].pagedir \/ proc'[q].pc \in {"forgot", "left"}
                      /\ \A u \in UPage : Table(q, u) \in kernel' => Dir(q) \in kernel'
                      /\ proc'[q].pc \in {"load", "user"} => proc'[q].pagedir
                      /\ proc'[q].pc \in {"none", "start", "forgot", "left", "dying"} => ~proc'[q].pagedir
    BY Zenon DEF KernelExact, Table, Dir, NamePage
  <2>1. CASE proc'[q] = proc[q]
    BY Zenon, <1>1, <2>1 DEF KernelExact
  <2>2. CASE proc[q].pc = "dying" /\ proc'[q] = NoProc
    BY Zenon, <1>1, <1>2, <2>2 DEF KernelExact
  <2> QED
    BY Zenon, <1>4, <2>1, <2>2
<1>6. tlb' \in [UPage -> PTE] /\ \A u \in UPage : ~tlb'[u].p
  BY Zenon, <1>1, AbsentEntry DEF NoEntries
<1>7. cr3' \in Proc \cup {"main"}
  BY Zenon, <1>1 DEF Pagedir
<1>8. PagingTypes' /\ BufferExact'
  BY Zenon, <1>1, <1>3, <1>6, <1>7 DEF PagingTypes, BufferExact
<1>9. TablesHold' /\ FramesOnce'
  BY SMTT(30), <1>1 DEF TablesHold, FramesOnce, FramesUsed, FramesApart, FramesUnheld, Table
<1>10. RightDir'
  <2>1. t \in Proc => proc'[t] = proc[t]
    BY Zenon, <1>4
  <2> QED
    BY Zenon, <1>1, <2>1 DEF RightDir, Pagedir
<1>11. DirtyKept'
  <2> SUFFICES ASSUME NEW q \in Proc
               PROVE  /\ proc'[q].pc # "user" => modified'[q] = {}
                      /\ \A v \in modified'[q] : pte'[q][v].d
    BY Zenon DEF DirtyKept
  <2> QED
    BY Zenon, <1>1, <1>4 DEF DirtyKept
<1> QED
  BY Zenon, <1>5, <1>8, <1>9, <1>10, <1>11 DEF TablesInv

\* Only the dirty bit of an entry changes.
LEMMA MarkPage ==
  ASSUME TablesInv, NEW t \in Proc, NEW u \in UPage, NEW e \in PTE, SetEntry(t, u, e),
         Table(t, u) \in kernel,
         e.p = pte[t][u].p, e.frame = pte[t][u].frame, e.w = pte[t][u].w,
         UNCHANGED <<kernel, user, proc, on_cpu, held>>
  PROVE  /\ pte' \in [Proc -> [UPage -> PTE]] /\ TablesHold' /\ KernelExact' /\ FramesOnce'
         /\ \A q \in Proc, v \in UPage : /\ pte'[q][v].p = pte[q][v].p
                                         /\ pte'[q][v].frame = pte[q][v].frame
                                         /\ pte'[q][v].w = pte[q][v].w
<1> USE PagingAssumption DEF TablesInv
<1>1. /\ pte' \in [Proc -> [UPage -> PTE]] /\ pte'[t][u] = e
      /\ \A q \in Proc, v \in UPage : q # t \/ v # u => pte'[q][v] = pte[q][v]
  BY Zenon, EntrySet
<1>2. ASSUME NEW q \in Proc, NEW v \in UPage
      PROVE  /\ pte'[q][v].p = pte[q][v].p
             /\ pte'[q][v].frame = pte[q][v].frame
             /\ pte'[q][v].w = pte[q][v].w
  <2>1. CASE q = t /\ v = u
    BY Zenon, <1>1, <2>1
  <2>2. CASE q # t \/ v # u
    BY Zenon, <1>1, <2>2
  <2> QED
    BY Zenon, <2>1, <2>2
<1>3. TablesHold'
  <2> SUFFICES ASSUME NEW q \in Proc, NEW v \in UPage, Table(q, v) \notin kernel'
               PROVE  pte'[q][v] = Absent
    BY Zenon DEF TablesHold, Table
  <2>1. (q # t \/ v # u) /\ Table(q, v) \notin kernel
    BY Zenon
  <2>2. pte'[q][v] = pte[q][v]
    BY <1>1, <2>1, Zenon
  <2> QED
    BY <2>1, <2>2, Zenon DEF TablesHold
<1>4. KernelExact'
  BY Zenon DEF KernelExact, Table, Dir, NamePage
<1>5. FramesOnce'
  <2>1. FramesOnce
    BY Zenon
  <2>2. \A g : g \in user' <=> g \in held' \/ \E q \in Proc, v \in UPage : pte'[q][v].p /\ pte'[q][v].frame = g
    <3> TAKE g
    <3>1. user' = user /\ held' = held
      BY Zenon
    <3>2. ASSUME NEW q \in Proc, NEW v \in UPage, pte'[q][v].p /\ pte'[q][v].frame = g PROVE g \in user
      <4>1. pte[q][v].p /\ pte[q][v].frame = g
        BY Zenon, <1>2, <3>2
      <4> QED
        BY Zenon, <2>1, <4>1 DEF FramesOnce, FramesUsed, FramesApart, FramesUnheld
    <3>3. ASSUME NEW q \in Proc, NEW v \in UPage, pte[q][v].p /\ pte[q][v].frame = g
          PROVE  pte'[q][v].p /\ pte'[q][v].frame = g
      BY Zenon, <1>2, <3>3
    <3> QED
      BY SMTT(30), <2>1, <3>1, <3>2, <3>3 DEF FramesOnce, FramesUsed, FramesApart, FramesUnheld
  <2>3. ASSUME NEW q \in Proc, NEW r \in Proc, NEW v \in UPage, NEW x \in UPage,
               pte'[q][v].p /\ pte'[r][x].p /\ pte'[q][v].frame = pte'[r][x].frame
        PROVE  q = r /\ v = x
    <3>1. pte[q][v].p /\ pte[r][x].p /\ pte[q][v].frame = pte[r][x].frame
      BY <1>2, <2>3, ZenonT(30)
    <3> QED
      BY SMTT(30), <2>1, <3>1 DEF FramesOnce, FramesUsed, FramesApart, FramesUnheld
  <2>4. ASSUME NEW q \in Proc, NEW v \in UPage, pte'[q][v].p PROVE pte'[q][v].frame \notin held'
    <3>1. pte[q][v].p /\ pte'[q][v].frame = pte[q][v].frame /\ held' = held
      BY Zenon, <1>2, <2>4
    <3> QED
      BY Zenon, <2>1, <3>1 DEF FramesOnce, FramesUsed, FramesApart, FramesUnheld
  <2>5. FramesUsed'
    BY Zenon, <2>2 DEF FramesUsed
  <2>6. FramesApart'
    BY Zenon, <2>3 DEF FramesApart
  <2>7. FramesUnheld'
    BY Zenon, <2>4 DEF FramesUnheld
  <2> QED
    BY Zenon, <2>5, <2>6, <2>7 DEF FramesOnce
<1> QED
  BY Zenon, <1>1, <1>2, <1>3, <1>4, <1>5

\* The bit is set or cleared in an entry.
LEMMA DirtyEntry ==
  ASSUME NEW e \in PTE, NEW b \in BOOLEAN, NEW g, g = [e EXCEPT !.d = b]
  PROVE  g \in PTE /\ g.p = e.p /\ g.frame = e.frame /\ g.w = e.w /\ g.d = b
<1>1. PICK a \in BOOLEAN, n \in Nat, c \in BOOLEAN, x \in BOOLEAN :
        e = [p |-> a, frame |-> n, w |-> c, d |-> x]
  BY Zenon DEF PTE
<1>2. g = [p |-> a, frame |-> n, w |-> c, d |-> b]
  BY Zenon, <1>1
<1>3. g \in PTE
  BY Zenon, <1>2 DEF PTE
<1>4. g.p = a /\ g.frame = n /\ g.w = c /\ g.d = b
  BY <1>2
<1>5. e.p = a /\ e.frame = n /\ e.w = c
  BY Zenon, <1>1
<1> QED
  BY Zenon, <1>3, <1>4, <1>5

\* The processor uses a page.
LEMMA TouchInv ==
  ASSUME TablesInv, NEW t \in Proc, NEW u \in UPage, NEW write \in BOOLEAN, Touch(t, u, write)
  PROVE  TablesInv'
<1> USE PagingAssumption
<1>1. /\ PagingTypes /\ TablesHold /\ KernelExact /\ BufferExact /\ DirtyKept /\ RightDir
      /\ on_cpu = t /\ proc[t].pc = "user"
      /\ UNCHANGED <<kernel, user, on_cpu, cr3, held>>
  BY Zenon DEF TablesInv, Touch, InCode
<1>2. cr3 = t /\ lookup_page(cr3, u) = pte[t][u]
  BY SMTT(30), <1>1, LookupIs DEF KernelExact, RightDir, Pagedir
<1>3. PICK e \in PTE : e = pte[t][u]
  BY <1>1 DEF PagingTypes
<1>4. e.d \in BOOLEAN /\ tlb[u].d \in BOOLEAN
  BY <1>1, <1>3, Zenon DEF PagingTypes, PTE
<1>5. PICK b \in BOOLEAN : b = (e.d \/ write)
  BY Zenon
<1>6. PICK g : g = [e EXCEPT !.d = b]
  BY Zenon
<1>7. PICK M : M = [modified EXCEPT ![t] = IF write THEN @ \cup {u} ELSE @]
  BY Zenon
<1>8. /\ M \in [Proc -> SUBSET UPage] /\ \A q \in Proc \ {t} : M[q] = modified[q]
      /\ \A v \in M[t] : v \in modified[t] \/ (v = u /\ write)
  BY Zenon, <1>1, <1>7 DEF PagingTypes
<1>9. CASE /\ tlb[u].p /\ (write => tlb[u].w /\ tlb[u].d)
           /\ UNCHANGED <<pte, tlb, proc>> /\ modified' = M
  <2>1. PagingTypes'
    BY Zenon, <1>1, <1>8, <1>9 DEF PagingTypes
  <2>2. TablesHold' /\ FramesOnce' /\ BufferExact'
    <3>1. TablesHold' /\ BufferExact'
      BY Zenon, <1>1, <1>9 DEF TablesHold, BufferExact, Table
    <3>2. FramesOnce'
      BY Zenon, <1>1, <1>9, FramesSame DEF TablesInv
    <3> QED
      BY Zenon, <3>1, <3>2
  <2>3. KernelExact'
    BY <1>1, <1>9, Zenon DEF KernelExact, Table, Dir, NamePage
  <2>4. RightDir'
    BY Zenon, <1>1, <1>9 DEF RightDir, Pagedir
  <2>5. write => pte[t][u].d
    BY Zenon, <1>1, <1>2, <1>9 DEF BufferExact
  <2>6. DirtyKept'
    BY <1>1, <1>8, <1>9, <2>5, Zenon DEF DirtyKept
  <2> QED
    BY Zenon, <2>1, <2>2, <2>3, <2>4, <2>6 DEF TablesInv
<1>10. CASE /\ e.p /\ SetEntry(t, u, g) /\ tlb' = [tlb EXCEPT ![u] = g]
            /\ UNCHANGED proc /\ modified' = M
  <2>1. g \in PTE /\ g.p = e.p /\ g.frame = e.frame /\ g.w = e.w /\ g.d = b
    BY Zenon, <1>6, DirtyEntry
  <2>2. Table(t, u) \in kernel
    BY Zenon, <1>1, <1>3, <1>10, AbsentEntry DEF TablesHold
  <2>3. /\ pte' \in [Proc -> [UPage -> PTE]] /\ TablesHold' /\ KernelExact' /\ FramesOnce'
        /\ \A q \in Proc, v \in UPage : /\ pte'[q][v].p = pte[q][v].p
                                        /\ pte'[q][v].frame = pte[q][v].frame
                                        /\ pte'[q][v].w = pte[q][v].w
    BY <1>1, <1>3, <1>10, <2>1, <2>2, MarkPage, Zenon
  <2>4. /\ pte'[t][u] = g
        /\ \A q \in Proc, v \in UPage : q # t \/ v # u => pte'[q][v] = pte[q][v]
    BY Zenon, <1>1, <1>10, <2>1, EntrySet
  <2>5. tlb' \in [UPage -> PTE] /\ tlb'[u] = g /\ \A v \in UPage \ {u} : tlb'[v] = tlb[v]
    BY Zenon, <1>1, <1>10, <2>1 DEF PagingTypes
  <2>6. PagingTypes'
    BY Zenon, <1>1, <1>8, <1>10, <2>3, <2>5 DEF PagingTypes
  <2>7. BufferExact'
    <3> SUFFICES ASSUME NEW v \in UPage, tlb'[v].p
                 PROVE  /\ pte'[t][v].p /\ pte'[t][v].frame = tlb'[v].frame
                        /\ pte'[t][v].w = tlb'[v].w /\ (tlb'[v].d => pte'[t][v].d)
      BY Zenon, <1>1, <1>2 DEF BufferExact
    <3>1. CASE v = u
      BY Zenon, <2>4, <2>5, <3>1
    <3>2. CASE v # u
      <4>1. pte'[t][v] = pte[t][v] /\ tlb'[v] = tlb[v]
        BY Zenon, <2>4, <2>5, <3>2
      <4> QED
        BY Zenon, <1>1, <1>2, <4>1 DEF BufferExact
    <3> QED
      BY Zenon, <3>1, <3>2
  <2>8. RightDir'
    BY Zenon, <1>1, <1>10 DEF RightDir, Pagedir
  <2>9. DirtyKept'
    <3> SUFFICES ASSUME NEW q \in Proc
                 PROVE  /\ proc'[q].pc # "user" => modified'[q] = {}
                        /\ \A v \in modified'[q] : pte'[q][v].d
      BY Zenon DEF DirtyKept
    <3>1. CASE q # t
      <4>1. modified'[q] = modified[q] /\ modified[q] \subseteq UPage /\ proc' = proc
        BY Zenon, <1>1, <1>8, <1>10, <3>1 DEF PagingTypes
      <4> QED
        BY <1>1, <2>4, <3>1, <4>1, Zenon DEF DirtyKept
    <3>2. CASE q = t
      <4>1. ASSUME NEW v \in modified'[t] PROVE pte'[t][v].d
        <5>1. v \in UPage /\ (v \in modified[t] \/ (v = u /\ write))
          BY Zenon, <1>8, <1>10, <4>1
        <5>2. CASE v = u
          <6>1. v \in modified[t] => e.d
            BY Zenon, <1>1, <1>3, <5>2 DEF DirtyKept
          <6> QED
            BY <1>5, <2>1, <2>4, <5>1, <5>2, <6>1, Zenon
        <5>3. CASE v # u
          BY Zenon, <1>1, <2>4, <5>1, <5>3 DEF DirtyKept
        <5> QED
          BY Zenon, <5>2, <5>3
      <4> QED
        BY Zenon, <1>1, <1>10, <3>2, <4>1
    <3> QED
      BY Zenon, <3>1, <3>2
  <2> QED
    BY Zenon, <2>3, <2>6, <2>7, <2>8, <2>9 DEF TablesInv
<1>11. CASE /\ proc' = [proc EXCEPT ![t].pc = "exit"] /\ modified' = [modified EXCEPT ![t] = {}]
            /\ UNCHANGED <<pte, tlb>>
  <2>1. UNCHANGED <<kernel, user, pte, on_cpu, cr3, tlb, held>>
    BY Zenon, <1>1, <1>11
  <2> QED
    BY <1>1, <1>11, <2>1, SyscallInv, Zenon
<1> QED
  BY <1>2, <1>3, <1>5, <1>6, <1>7, <1>9, <1>10, <1>11, Zenon DEF Touch

\* pagedir_set_dirty.
LEMMA SetDirtyInv ==
  ASSUME TablesInv, NEW t \in Proc, NEW u \in UPage, NEW dirty \in BOOLEAN, pagedir_set_dirty(t, u, dirty)
  PROVE  TablesInv'
<1> USE PagingAssumption
<1>1. /\ PagingTypes /\ TablesHold /\ KernelExact /\ BufferExact /\ DirtyKept /\ RightDir
      /\ proc[t].pc = "user" /\ Table(t, u) \in kernel
      /\ UNCHANGED <<kernel, user, proc, on_cpu, held>>
  BY Zenon DEF TablesInv, pagedir_set_dirty
<1>2. PICK e \in PTE : e = pte[t][u]
  BY SMTT(30), <1>1 DEF PagingTypes
<1>3. PICK g : g = [e EXCEPT !.d = dirty]
  BY Zenon
<1>4. g \in PTE /\ g.p = e.p /\ g.frame = e.frame /\ g.w = e.w /\ g.d = dirty
  BY Zenon, <1>3, DirtyEntry
<1>5. SetEntry(t, u, g)
  BY Zenon, <1>2, <1>3 DEF pagedir_set_dirty
<1>6. /\ pte' \in [Proc -> [UPage -> PTE]] /\ TablesHold' /\ KernelExact' /\ FramesOnce'
      /\ \A q \in Proc, v \in UPage : /\ pte'[q][v].p = pte[q][v].p
                                      /\ pte'[q][v].frame = pte[q][v].frame
                                      /\ pte'[q][v].w = pte[q][v].w
  BY Zenon, <1>1, <1>2, <1>4, <1>5, MarkPage
<1>7. /\ pte'[t][u] = g
      /\ \A q \in Proc, v \in UPage : q # t \/ v # u => pte'[q][v] = pte[q][v]
  BY SMTT(30), <1>1, <1>4, <1>5, EntrySet
<1>8. CASE dirty /\ UNCHANGED <<cr3, tlb, modified>>
  <2>1. \A q \in Proc, v \in UPage : pte[q][v].d => pte'[q][v].d
    BY <1>4, <1>7, <1>8, Zenon
  <2>2. PagingTypes'
    BY Zenon, <1>1, <1>6, <1>8 DEF PagingTypes
  <2>3. BufferExact'
    <3> SUFFICES ASSUME NEW v \in UPage, tlb[v].p
                 PROVE  /\ cr3 \in Proc
                        /\ pte'[cr3][v].p /\ pte'[cr3][v].frame = tlb[v].frame
                        /\ pte'[cr3][v].w = tlb[v].w /\ (tlb[v].d => pte'[cr3][v].d)
      BY <1>8, Zenon DEF BufferExact
    <3> QED
      BY <1>1, <1>6, <2>1, ZenonT(30) DEF BufferExact
  <2>4. RightDir'
    BY Zenon, <1>1, <1>8 DEF RightDir, Pagedir
  <2>5. DirtyKept'
    BY Zenon, <1>1, <1>8, <2>1 DEF DirtyKept, PagingTypes
  <2> QED
    BY Zenon, <1>6, <2>2, <2>3, <2>4, <2>5 DEF TablesInv
<1>9. CASE invalidate_pagedir(t) /\ modified' = [modified EXCEPT ![t] = @ \ {u}]
  <2>1. cr3' = cr3 /\ (tlb' = NoEntries \/ (cr3 # t /\ tlb' = tlb))
    BY Zenon, <1>9 DEF invalidate_pagedir, pagedir_activate
  <2>2. NoEntries \in [UPage -> PTE] /\ \A v \in UPage : ~NoEntries[v].p
    BY Zenon, AbsentEntry DEF NoEntries
  <2>3. /\ modified' \in [Proc -> SUBSET UPage] /\ modified'[t] = modified[t] \ {u}
        /\ \A q \in Proc \ {t} : modified'[q] = modified[q]
    BY Zenon, <1>1, <1>9 DEF PagingTypes
  <2>4. PagingTypes'
    BY Zenon, <1>1, <1>6, <2>1, <2>2, <2>3 DEF PagingTypes
  <2>5. BufferExact'
    <3> SUFFICES ASSUME NEW v \in UPage, tlb'[v].p
                 PROVE  /\ cr3 \in Proc
                        /\ pte'[cr3][v].p /\ pte'[cr3][v].frame = tlb'[v].frame
                        /\ pte'[cr3][v].w = tlb'[v].w /\ (tlb'[v].d => pte'[cr3][v].d)
      BY <2>1, Zenon DEF BufferExact
    <3>1. tlb' = tlb /\ cr3 \in Proc /\ cr3 # t
      BY Zenon, <1>1, <2>1, <2>2 DEF BufferExact
    <3>2. pte'[cr3][v] = pte[cr3][v]
      BY Zenon, <1>7, <3>1
    <3> QED
      BY Zenon, <1>1, <3>1, <3>2 DEF BufferExact
  <2>6. RightDir'
    BY Zenon, <1>1, <2>1 DEF RightDir, Pagedir
  <2>7. DirtyKept'
    <3> SUFFICES ASSUME NEW q \in Proc
                 PROVE  /\ proc'[q].pc # "user" => modified'[q] = {}
                        /\ \A v \in modified'[q] : pte'[q][v].d
      BY Zenon DEF DirtyKept
    <3>1. modified'[q] \subseteq modified[q] /\ modified[q] \subseteq UPage
      BY <1>1, <2>3, Zenon DEF PagingTypes
    <3>2. \A v \in modified'[q] : pte'[q][v] = pte[q][v]
      BY Zenon, <1>7, <2>3, <3>1
    <3> QED
      BY <1>1, <3>1, <3>2, Zenon DEF DirtyKept
  <2> QED
    BY Zenon, <1>6, <2>4, <2>5, <2>6, <2>7 DEF TablesInv
<1> QED
  BY <1>8, <1>9, Zenon DEF pagedir_set_dirty

\* An entry stops being present.
LEMMA ClearEntry ==
  ASSUME NEW e \in PTE, NEW g, g = [e EXCEPT !.p = FALSE]
  PROVE  g \in PTE /\ ~g.p /\ g.d = e.d
<1>1. PICK a \in BOOLEAN, n \in Nat, c \in BOOLEAN, x \in BOOLEAN :
        e = [p |-> a, frame |-> n, w |-> c, d |-> x]
  BY Zenon DEF PTE
<1>2. g = [p |-> FALSE, frame |-> n, w |-> c, d |-> x]
  BY <1>1, Zenon
<1>3. g \in PTE
  BY <1>2, Zenon DEF PTE
<1>4. g.p = FALSE /\ g.d = x
  BY <1>2
<1>5. e.d = x
  BY Zenon, <1>1
<1> QED
  BY Zenon, <1>3, <1>4, <1>5

\* pagedir_clear_page: the frame is its caller's.
LEMMA ClearPageInv ==
  ASSUME TablesInv, NEW t \in Proc, NEW u \in UPage, pagedir_clear_page(t, u)
  PROVE  TablesInv'
<1> USE PagingAssumption
<1>1. /\ PagingTypes /\ TablesHold /\ KernelExact /\ FramesOnce /\ BufferExact /\ DirtyKept /\ RightDir
      /\ proc[t].pc = "user"
      /\ UNCHANGED <<kernel, user, proc, on_cpu, modified>> /\ invalidate_pagedir(t)
  BY Zenon DEF TablesInv, pagedir_clear_page
<1>2. PICK e \in PTE : e = pte[t][u] /\ e = lookup_page(t, u)
  BY SMTT(30), <1>1, LookupIs DEF PagingTypes
<1>3. PICK g : g = [e EXCEPT !.p = FALSE]
  BY Zenon
<1>4. e.p /\ SetEntry(t, u, g) /\ held' = held \cup {e.frame}
  BY Zenon, <1>2, <1>3 DEF pagedir_clear_page
<1>5. g \in PTE /\ ~g.p /\ g.d = e.d
  BY Zenon, <1>3, ClearEntry
<1>6. /\ pte' \in [Proc -> [UPage -> PTE]] /\ pte'[t][u] = g
      /\ \A q \in Proc, v \in UPage : q # t \/ v # u => pte'[q][v] = pte[q][v]
  BY Zenon, <1>1, <1>4, <1>5, EntrySet
<1>7. \A q \in Proc, v \in UPage : pte'[q][v].p => (q # t \/ v # u) /\ pte'[q][v] = pte[q][v]
  BY Zenon, <1>5, <1>6
<1>8. TablesHold'
  <2> SUFFICES ASSUME NEW q \in Proc, NEW v \in UPage, Table(q, v) \notin kernel'
               PROVE  pte'[q][v] = Absent
    BY Zenon DEF TablesHold, Table
  <2>1. Table(q, v) \notin kernel /\ pte[q][v] = Absent
    BY Zenon, <1>1 DEF TablesHold
  <2>2. q # t \/ v # u
    BY <1>2, <1>4, <2>1, AbsentEntry, Zenon
  <2> QED
    BY Zenon, <1>6, <2>1, <2>2
<1>9. FramesOnce'
  <2>1. \A f : f \in user' <=> f \in held' \/ \E q \in Proc, v \in UPage : pte'[q][v].p /\ pte'[q][v].frame = f
    <3> TAKE f
    <3>1. ASSUME f \in user', f \notin held'
          PROVE  \E q \in Proc, v \in UPage : pte'[q][v].p /\ pte'[q][v].frame = f
      <4>1. PICK q \in Proc, v \in UPage : pte[q][v].p /\ pte[q][v].frame = f
        BY Zenon, <1>1, <1>4, <3>1 DEF FramesOnce, FramesUsed, FramesApart, FramesUnheld
      <4>2. q # t \/ v # u
        BY <1>2, <1>4, <3>1, <4>1, Zenon
      <4> QED
        BY Zenon, <1>6, <4>1, <4>2
    <3>2. ASSUME f \in held' PROVE f \in user'
      <4>1. pte[t][u].p /\ pte[t][u].frame = e.frame
        BY Zenon, <1>2, <1>4
      <4>2. e.frame \in user
        BY Zenon, <1>1, <4>1 DEF FramesOnce, FramesUsed, FramesApart, FramesUnheld
      <4> QED
        BY Zenon, <1>1, <1>4, <3>2, <4>2 DEF FramesOnce, FramesUsed, FramesApart, FramesUnheld
    <3>3. ASSUME NEW q \in Proc, NEW v \in UPage, pte'[q][v].p /\ pte'[q][v].frame = f PROVE f \in user'
      <4>1. pte[q][v].p /\ pte[q][v].frame = f
        BY Zenon, <1>7, <3>3
      <4> QED
        BY Zenon, <1>1, <4>1 DEF FramesOnce, FramesUsed, FramesApart, FramesUnheld
    <3> QED
      BY Zenon, <3>1, <3>2, <3>3
  <2>2. ASSUME NEW q \in Proc, NEW r \in Proc, NEW v \in UPage, NEW x \in UPage,
               pte'[q][v].p /\ pte'[r][x].p /\ pte'[q][v].frame = pte'[r][x].frame
        PROVE  q = r /\ v = x
    <3>1. pte'[q][v] = pte[q][v] /\ pte'[r][x] = pte[r][x]
      BY Zenon, <1>7, <2>2
    <3> QED
      BY SMTT(30), <1>1, <2>2, <3>1 DEF FramesOnce, FramesUsed, FramesApart, FramesUnheld
  <2>3. ASSUME NEW q \in Proc, NEW v \in UPage, pte'[q][v].p PROVE pte'[q][v].frame \notin held'
    <3>1. pte'[q][v] = pte[q][v] /\ (q # t \/ v # u)
      BY Zenon, <1>7, <2>3
    <3>2. pte[q][v].frame # e.frame
      <4>1. pte[t][u].p /\ pte[t][u].frame = e.frame
        BY Zenon, <1>2, <1>4
      <4>2. pte[q][v].p
        BY Zenon, <2>3, <3>1
      <4> QED
        BY SMTT(30), <1>1, <3>1, <4>1, <4>2 DEF FramesOnce, FramesUsed, FramesApart, FramesUnheld
    <3>3. pte[q][v].frame \notin held
      BY <1>1, <2>3, <3>1, Zenon DEF FramesOnce, FramesUsed, FramesApart, FramesUnheld
    <3> QED
      BY Zenon, <1>4, <3>1, <3>2, <3>3
  <2> QED
    BY Zenon, <2>1, <2>2, <2>3 DEF FramesOnce, FramesUsed, FramesApart, FramesUnheld
<1>10. cr3' = cr3 /\ (tlb' = NoEntries \/ (cr3 # t /\ tlb' = tlb))
  BY Zenon, <1>1 DEF invalidate_pagedir, pagedir_activate
<1>11. NoEntries \in [UPage -> PTE] /\ \A v \in UPage : ~NoEntries[v].p
  BY Zenon, AbsentEntry DEF NoEntries
<1>12. PagingTypes'
  BY Zenon, <1>1, <1>6, <1>10, <1>11 DEF PagingTypes
<1>13. BufferExact'
  <2> SUFFICES ASSUME NEW v \in UPage, tlb'[v].p
               PROVE  /\ cr3 \in Proc
                      /\ pte'[cr3][v].p /\ pte'[cr3][v].frame = tlb'[v].frame
                      /\ pte'[cr3][v].w = tlb'[v].w /\ (tlb'[v].d => pte'[cr3][v].d)
    BY Zenon, <1>10 DEF BufferExact
  <2>1. tlb' = tlb /\ cr3 \in Proc /\ cr3 # t
    BY Zenon, <1>1, <1>10, <1>11 DEF BufferExact
  <2>2. pte'[cr3][v] = pte[cr3][v]
    BY Zenon, <1>6, <2>1
  <2> QED
    BY Zenon, <1>1, <2>1, <2>2 DEF BufferExact
<1>14. RightDir' /\ KernelExact'
  <2>1. RightDir'
    BY Zenon, <1>1, <1>10 DEF RightDir, Pagedir
  <2>2. KernelExact'
    BY <1>1, Zenon DEF KernelExact, Table, Dir, NamePage
  <2> QED
    BY Zenon, <2>1, <2>2
<1>15. DirtyKept'
  <2> SUFFICES ASSUME NEW q \in Proc
               PROVE  /\ proc'[q].pc # "user" => modified'[q] = {}
                      /\ \A v \in modified'[q] : pte'[q][v].d
    BY Zenon DEF DirtyKept
  <2>1. modified'[q] = modified[q] /\ modified[q] \subseteq UPage
    BY Zenon, <1>1 DEF PagingTypes
  <2>2. \A v \in modified[q] : pte'[q][v].d = pte[q][v].d
    BY <1>2, <1>5, <1>6, <2>1, Zenon
  <2> QED
    BY Zenon, <1>1, <2>1, <2>2 DEF DirtyKept
<1> QED
  BY Zenon, <1>8, <1>9, <1>12, <1>13, <1>14, <1>15 DEF TablesInv

\* The caller gives a frame of a cleared page to a page, or back.
LEMMA UseHeldInv ==
  ASSUME TablesInv, NEW f \in held, UseHeld(f)
  PROVE  TablesInv'
<1> USE PagingAssumption
<1>1. /\ PagingTypes /\ TablesHold /\ KernelExact /\ FramesOnce /\ BufferExact /\ DirtyKept /\ RightDir
      /\ held' = held \ {f} /\ UNCHANGED <<proc, on_cpu, cr3, tlb>>
  BY Zenon DEF TablesInv, UseHeld, cpuVars
<1>2. f \in UserFrames /\ f \in user /\ \A q \in Proc, v \in UPage : pte[q][v].p => pte[q][v].frame # f
  <2>1. f \in user /\ f \in UserFrames
    BY <1>1, Zenon DEF FramesOnce, FramesUsed, FramesApart, FramesUnheld, PagingTypes
  <2>2. \A q \in Proc, v \in UPage : pte[q][v].p => pte[q][v].frame # f
    BY SMTT(30), <1>1 DEF FramesOnce, FramesUsed, FramesApart, FramesUnheld
  <2> QED
    BY Zenon, <2>1, <2>2
<1>3. ASSUME NEW t \in Proc, NEW u \in UPage, proc[t].pc = "user", ~lookup_page(t, u).p,
             pagedir_set_page(t, u, f, TRUE), modified' = [modified EXCEPT ![t] = @ \ {u}], UNCHANGED user
      PROVE  TablesInv'
  <2>1. Mappable(t, u, f)
    <3>1. ~pte[t][u].p
      BY Zenon, <1>1, <1>3, LookupIs
    <3> QED
      BY Zenon, <1>2, <3>1 DEF Mappable
  <2>2. PICK w \in BOOLEAN : w = TRUE
    BY Zenon
  <2>3. pagedir_set_page(t, u, f, w) /\ user' = user \cup {f} /\ UNCHANGED <<cr3, tlb>>
    BY <1>1, <1>2, <1>3, <2>2, Zenon
  <2>4. Mapped(t, u)
    BY <1>1, <1>2, <2>1, <2>3, MapPage, Zenon
  <2>5. /\ modified' \in [Proc -> SUBSET UPage] /\ modified'[t] = modified[t] \ {u}
        /\ \A q \in Proc \ {t} : modified'[q] = modified[q]
    BY Zenon, <1>1, <1>3 DEF PagingTypes
  <2>6. PagingTypes'
    BY Zenon, <1>1, <1>3, <2>4, <2>5 DEF PagingTypes, Mapped
  <2>7. KernelExact'
    <3> SUFFICES ASSUME NEW q \in Proc
                 PROVE  /\ NamePage(q) \in kernel' <=> proc[q].pc \in {"start", "load", "failed"}
                        /\ Dir(q) \in kernel' <=> proc[q].pagedir \/ proc[q].pc \in {"forgot", "left"}
                        /\ \A v \in UPage : Table(q, v) \in kernel' => Dir(q) \in kernel'
                        /\ proc[q].pc \in {"load", "user"} => proc[q].pagedir
                        /\ proc[q].pc \in {"none", "start", "forgot", "left", "dying"} => ~proc[q].pagedir
      BY <1>1, Zenon DEF KernelExact, Table, Dir, NamePage
    <3>1. CASE q = t
      BY Zenon, <1>1, <1>3, <2>4, <3>1 DEF KernelExact, Mapped
    <3>2. CASE q # t
      BY Zenon, <1>1, <2>4, <3>2 DEF KernelExact, Mapped
    <3> QED
      BY Zenon, <3>1, <3>2
  <2>8. RightDir'
    BY Zenon, <1>1 DEF RightDir, Pagedir
  <2>9. DirtyKept'
    <3> SUFFICES ASSUME NEW q \in Proc
                 PROVE  /\ proc'[q].pc # "user" => modified'[q] = {}
                        /\ \A v \in modified'[q] : pte'[q][v].d
      BY Zenon DEF DirtyKept
    <3>1. modified'[q] \subseteq modified[q] /\ modified[q] \subseteq UPage
      BY <1>1, <2>5, Zenon DEF PagingTypes
    <3>2. \A v \in modified'[q] : pte'[q][v] = pte[q][v]
      BY Zenon, <2>4, <2>5, <3>1 DEF Mapped
    <3> QED
      BY <1>1, <3>1, <3>2, Zenon DEF DirtyKept
  <2> QED
    BY Zenon, <2>4, <2>6, <2>7, <2>8, <2>9 DEF TablesInv, Mapped
<1>4. CASE user' = user \ {f} /\ UNCHANGED <<kernel, pte, modified>>
  <2>1. PagingTypes' /\ TablesHold' /\ BufferExact' /\ DirtyKept'
    BY <1>1, <1>4, Zenon DEF PagingTypes, TablesHold, BufferExact, DirtyKept, Table
  <2>2. KernelExact'
    BY <1>1, <1>4, Zenon DEF KernelExact, Table, Dir, NamePage
  <2>3. RightDir'
    BY Zenon, <1>1 DEF RightDir, Pagedir
  <2>4. FramesOnce'
    BY Zenon, <1>1, <1>4, FrameFreed
  <2> QED
    BY Zenon, <2>1, <2>2, <2>3, <2>4 DEF TablesInv
<1> QED
  BY <1>3, <1>4, Zenon DEF UseHeld, InCode

\* Nothing is in use, and the kernel runs.
LEMMA PagingInvInit == PagingInit => PagingInv
<1> SUFFICES ASSUME PagingInit PROVE PagingInv
  OBVIOUS
<1> USE PagingAssumption DEF PagingInit
<1>1. NoEntries \in [UPage -> PTE] /\ \A u \in UPage : NoEntries[u] = Absent
  BY Zenon, AbsentEntry DEF NoEntries
<1>2. NoProc \in Process /\ NoProc.pc = "none" /\ NoProc.pagedir = FALSE
  BY SMTT(30) DEF NoProc, Process, ProcStages
<1>3. PagingTypes
  BY Zenon, <1>1, <1>2 DEF PagingTypes
<1>4. TablesHold /\ BufferExact
  BY Zenon, <1>1, AbsentEntry DEF TablesHold, BufferExact
<1>5. \A t \in Proc, u \in UPage : ~pte[t][u].p
  BY Zenon, <1>1, AbsentEntry
<1>6. FramesOnce
  BY Zenon, <1>5 DEF FramesOnce, FramesUsed, FramesApart, FramesUnheld
<1>7. KernelExact /\ DirtyKept
  BY Zenon, <1>2 DEF KernelExact, DirtyKept
<1>8. RightDir
  BY Zenon DEF RightDir, Pagedir
<1>9. PagesInHand
  BY SMTT(30) DEF PagesInHand
<1> QED
  BY Zenon, <1>3, <1>4, <1>6, <1>7, <1>8, <1>9 DEF PagingInv, TablesInv

-----------------------------------------------------------------------------
LOCAL INSTANCE WellFoundedInduction

LowerFrame == {p \in Nat \X Nat : p[1] < p[2]}

\* palloc_get_page gives a frame that is free.
LEMMA FrameTaken ==
  ASSUME UserRoom
  PROVE  NewFrame \in UserFrames /\ NewFrame \notin user
<1> DEFINE S == UserFrames \ user
<1>1. S \subseteq Nat /\ S # {}
  BY PagingAssumption, Zenon DEF UserRoom
<1>2. IsWellFoundedOn(LowerFrame, Nat)
  BY Zenon, NatLessThanWellFounded DEF OpToRel, LowerFrame
<1> HIDE DEF S
<1>3. PICK m \in S : \A k \in S : <<k, m>> \notin LowerFrame
  BY <1>1, <1>2, WFMin, Zenon
<1>4. \A k \in S : ~(k < m) /\ k \in Nat
  BY <1>1, <1>3, Zenon DEF LowerFrame
<1>5. \A k \in S : m <= k
  BY <1>4
<1>6. Min(S) \in S
  BY Zenon, <1>5 DEF Min
<1> QED
  BY Zenon, <1>6 DEF NewFrame, S

\* So do the tables in the other steps.
LEMMA OtherInv ==
  ASSUME PagingInv, OtherStep
  PROVE  TablesInv'
<1>1. TablesInv
  BY Zenon DEF PagingInv
<1>2. ASSUME NEW t \in Proc,
             \/ process_execute(t) \/ CreateDir(t) \/ start_process(t)
             \/ process_exit(t) \/ syscall_handler(t)
      PROVE  TablesInv'
  <2>1. CASE process_execute(t) \/ CreateDir(t) \/ start_process(t)
    BY Zenon, <1>1, <2>1, ExecuteInv, CreateDirInv, StartInv
  <2>2. CASE process_exit(t)
    BY Zenon, <1>1, <2>2, ForgetInv, LeaveInv, DestroyInv DEF process_exit
  <2>3. CASE syscall_handler(t)
    BY <1>1, <2>3, SyscallInv, Zenon DEF syscall_handler, InCode, tableVars, cpuVars
  <2> QED
    BY Zenon, <1>2, <2>1, <2>2, <2>3
<1>3. ASSUME NEW t \in Proc, NEW u \in UPage,
             \/ pagedir_clear_page(t, u) \/ (\E write \in BOOLEAN : Touch(t, u, write))
             \/ (\E dirty \in BOOLEAN : pagedir_set_dirty(t, u, dirty))
      PROVE  TablesInv'
  BY Zenon, <1>1, <1>3, ClearPageInv, TouchInv, SetDirtyInv
<1>4. ASSUME NEW t \in Proc \cup {"main"}, Switch(t) PROVE TablesInv'
  BY Zenon, <1>1, <1>4, SwitchInv
<1>5. ASSUME NEW f \in held, UseHeld(f) PROVE TablesInv'
  BY Zenon, <1>1, <1>5, UseHeldInv
<1> QED
  BY Zenon, <1>2, <1>3, <1>4, <1>5 DEF OtherStep

\* Every step keeps it.
LEMMA PagingInvNext == PagingInv /\ [PagingNext]_pagingVars => PagingInv'
<1> SUFFICES ASSUME PagingInv, [PagingNext]_pagingVars PROVE PagingInv'
  OBVIOUS
<1>1. CASE UNCHANGED pagingVars
  <2>1. TablesInv'
    BY Zenon, <1>1, PagingSame DEF pagingVars, PagingInv
  <2>2. PagesInHand'
    BY Zenon, <1>1 DEF pagingVars, PagingInv, PagesInHand
  <2> QED
    BY Zenon, <2>1, <2>2 DEF PagingInv
<1>2. ASSUME NEW t \in Proc, GetPage(t) PROVE PagingInv'
  BY Zenon, <1>2, FrameTaken, GetPageInv
<1>3. ASSUME NEW t \in Proc, install_page(t) PROVE PagingInv'
  BY Zenon, <1>3, InstallInv, InstallHand DEF PagingInv
<1>4. CASE OtherStep /\ UNCHANGED kpage
  BY Zenon, <1>4, OtherInv, OtherHand DEF PagingInv
<1> QED
  BY Zenon, <1>1, <1>2, <1>3, <1>4 DEF PagingNext

\* No two pages of a process are mapped to a frame.
LEMMA FramesDiffer ==
  ASSUME PagingInv, NEW t \in Proc, NEW u \in Present(t), NEW v \in Present(t),
         lookup_page(t, u).frame = lookup_page(t, v).frame
  PROVE  u = v
<1>1. u \in UPage /\ v \in UPage /\ pte[t][u].p /\ pte[t][v].p
  BY Zenon, FramesAre DEF PagingInv, TablesInv
<1>2. lookup_page(t, u) = pte[t][u] /\ lookup_page(t, v) = pte[t][v]
  BY Zenon, <1>1, LookupIs DEF PagingInv, TablesInv
<1> QED
  BY SMTT(30), <1>1, <1>2 DEF PagingInv, TablesInv, FramesOnce, FramesUsed, FramesApart, FramesUnheld

\* It says what TlbCoherent and FramesExact say.
LEMMA PagingInvImplies == PagingInv => TlbCoherent /\ FramesExact
<1> SUFFICES ASSUME PagingInv PROVE TlbCoherent /\ FramesExact
  OBVIOUS
<1> USE PagingAssumption
<1>1. /\ PagingTypes /\ TablesHold /\ KernelExact /\ FramesOnce /\ BufferExact /\ DirtyKept /\ RightDir
      /\ PagesInHand
  BY Zenon DEF PagingInv, TablesInv
<1>2. \A t \in Proc, u \in UPage : lookup_page(t, u) = pte[t][u]
  BY Zenon, <1>1, LookupIs
<1>3. TlbCoherent
  <2>1. cr3 = Pagedir(on_cpu) \/ (cr3 = on_cpu /\ proc[on_cpu].pc = "forgot")
    BY Zenon, <1>1 DEF RightDir
  <2>2. ASSUME NEW u \in UPage, tlb[u].p
        PROVE  LET e == lookup_page(cr3, u)
               IN  e.p /\ e.frame = tlb[u].frame /\ e.w = tlb[u].w /\ (tlb[u].d => e.d)
    BY Zenon, <1>1, <1>2, <2>2 DEF BufferExact
  <2>3. ASSUME NEW t \in Proc, NEW u \in modified[t] PROVE lookup_page(t, u).d
    <3>1. u \in UPage
      BY Zenon, <1>1 DEF PagingTypes
    <3> QED
      BY SMTT(30), <1>1, <1>2, <3>1 DEF DirtyKept
  <2> QED
    BY Zenon, <2>1, <2>2, <2>3 DEF TlbCoherent
<1>4. \A t \in Proc : \A g : g \in Frames(t) <=> \E u \in UPage : pte[t][u].p /\ pte[t][u].frame = g
  BY Zenon, <1>1, FramesAre
<1>5. user = held \cup UNION {Frames(t) : t \in Proc}
  BY SMTT(30), <1>1, <1>4 DEF FramesOnce, FramesUsed, FramesApart, FramesUnheld
<1>6. \A t, q \in Proc : t # q => Frames(t) \cap Frames(q) = {}
  <2> SUFFICES ASSUME NEW t \in Proc, NEW q \in Proc, NEW g, g \in Frames(t), g \in Frames(q) PROVE t = q
    BY Zenon
  <2>1. PICK u \in UPage : pte[t][u].p /\ pte[t][u].frame = g
    BY Zenon, <1>4
  <2>2. PICK v \in UPage : pte[q][v].p /\ pte[q][v].frame = g
    BY Zenon, <1>4
  <2> QED
    BY Zenon, <1>1, <2>1, <2>2 DEF FramesOnce, FramesUsed, FramesApart, FramesUnheld
<1>7. ASSUME NEW t \in Proc PROVE Frames(t) \cap held = {}
  BY SMTT(30), <1>1, <1>4 DEF FramesOnce, FramesUsed, FramesApart, FramesUnheld
<1>8. ASSUME NEW t \in Proc, Dir(t) \notin kernel PROVE Tables(t) = {}
  BY Zenon, <1>1, <1>8 DEF KernelExact, Tables
<1>9. cr3 # "main" => Dir(cr3) \in kernel
  BY Zenon, <1>1 DEF RightDir, KernelExact, Pagedir
<1>10. FramesExact
  <2>1. ASSUME NEW t \in Proc
        PROVE  /\ NamePage(t) \in kernel <=> proc[t].pc \in {"start", "load", "failed"}
               /\ Dir(t) \in kernel <=> proc[t].pagedir \/ proc[t].pc \in {"forgot", "left"}
               /\ kpage[t] # 0 => kpage[t] \in held /\ proc[t].pc = "load"
               /\ \A q \in Proc : kpage[t] # 0 /\ kpage[t] = kpage[q] => t = q
    BY Zenon, <1>1 DEF KernelExact, PagesInHand
  <2>2. \A t \in Proc : \A u, v \in Present(t) : lookup_page(t, u).frame = lookup_page(t, v).frame => u = v
    BY Zenon, FramesDiffer
  <2> QED
    BY Zenon, <1>5, <1>6, <1>7, <1>8, <1>9, <2>1, <2>2 DEF FramesExact
<1> QED
  BY Zenon, <1>3, <1>10

PagingSpec == PagingInit /\ [][PagingNext]_pagingVars

\* pagedir.c, process.c, palloc.c: for any number of processes, pages and frames and
\* any list of pages to load, wherever processes are preempted, fail or are killed,
\* the translation buffer never contradicts the page tables, a page written is dirty,
\* and every page in use has one owner (TlbCoherent, FramesExact).
THEOREM PagingSafe == PagingSpec => [](TlbCoherent /\ FramesExact)
  BY PagingInvInit, PagingInvNext, PagingInvImplies, PTL DEF PagingSpec
=============================================================================
