------------------------------- MODULE Malloc -------------------------------
(***************************************************************************)
(* The block allocator, threads/malloc.c, over the page allocator.         *)
(* Threads allocate, resize and free blocks and pages in any order; one    *)
(* may free what another allocated.                                        *)
(***************************************************************************)
EXTENDS Palloc, Sequences, FiniteSets, Functions

CONSTANTS
  Desc,
  blocks_per_arena,
  BigSizes,     \* pages of the requests too big for any descriptor
  PageSizes     \* pages asked for directly, as thread_create does

ASSUME MallocAssumption ==
  /\ blocks_per_arena \in [Desc -> Nat \ {0}]
  /\ BigSizes \subseteq Nat \ {0} /\ PageSizes \subseteq Nat \ {0}
  /\ NULL \notin Desc

VARIABLES
  free_list, desc_lock, \* of each descriptor
  arena,        \* the header at the start of a page, NULL if there is none
  live          \* what callers own

mallocVars == <<free_list, desc_lock, arena, live>>
heapVars == <<used_map, pool_lock, call, mallocVars>>

MallocInit ==
  /\ PallocInit
  /\ free_list = [d \in Desc |-> <<>>]
  /\ desc_lock = [d \in Desc |-> NULL]
  /\ arena = [p \in Pages |-> NULL]
  /\ live = {}

\* What a caller owns: block idx of an arena, or cnt whole pages (idx is 0).
Owned(p, idx, cnt) == [page |-> p, idx |-> idx, cnt |-> cnt]

\* The blocks of a new arena, arena_to_block of each index.
Blocks(p, d) == [k \in 1 .. blocks_per_arena[d] |-> Owned(p, k, 1)]

LocksDesc(t, d) == desc_lock[d] = NULL /\ desc_lock' = [desc_lock EXCEPT ![d] = t]
UnlocksDesc(d) == desc_lock' = [desc_lock EXCEPT ![d] = NULL]
pagesSame == UNCHANGED <<used_map, pool_lock>>

-----------------------------------------------------------------------------
(* Calls. *)

\* malloc finds the descriptor, or asks for the pages of a big block.
malloc(t, c) ==
  /\ \/ \E d \in Desc : Goes(t, [c EXCEPT !.pc = "malloc", !.desc = d])
     \/ \E cnt \in BigSizes : Goes(t, GetPages(c, "kernel", cnt, "big"))
  /\ pagesSame /\ UNCHANGED mallocVars

\* free reads the arena of the block without a lock.  The header of a big block is
\* overwritten before the bits of its pages are cleared.
free(t, b) ==
  LET a == arena[b.page]
  IN  /\ live' = live \ {b}
      /\ \/ /\ a.desc # NULL
            /\ Goes(t, [NoCall EXCEPT !.pc = "free", !.desc = a.desc, !.block = b])
            /\ UNCHANGED arena
         \/ /\ a.desc = NULL
            /\ Goes(t, FreePages(NoCall, b.page, a.free_cnt, "idle"))
            /\ arena' = [arena EXCEPT ![b.page] = NULL]
      /\ pagesSame /\ UNCHANGED <<free_list, desc_lock>>

\* The blocks a caller may pass to free and realloc, and the pages it may give back.
FreeableBlocks == {b \in live : arena[b.page] # NULL /\ \A t \in Caller : call[t].old # b}
FreeablePages == {b \in live : arena[b.page] = NULL}

\* A thread outside the allocators calls one of their functions.
AllocCall(t) ==
  /\ call[t] = NoCall
  /\ \/ malloc(t, NoCall)
     \/ \E b \in FreeableBlocks : free(t, b)
     \/ \E b \in FreeableBlocks : malloc(t, [NoCall EXCEPT !.old = b])  \* realloc
     \/ /\ \E p \in Pools, cnt \in PageSizes : Goes(t, GetPages(NoCall, p, cnt, "page"))
        /\ pagesSame /\ UNCHANGED mallocVars
     \/ \E b \in FreeablePages :
          /\ live' = live \ {b}
          /\ Goes(t, FreePages(NoCall, b.page, b.cnt, "idle"))
          /\ pagesSame /\ UNCHANGED <<free_list, desc_lock, arena>>

-----------------------------------------------------------------------------
(* malloc *)

\* A successful malloc returns; realloc goes on to free the old block.
Succeeds(t) ==
  Goes(t, IF call[t].old = NULL THEN NoCall
          ELSE [NoCall EXCEPT !.pc = "moved", !.old = call[t].old])

AcquireToAllocate(t) ==
  LET c == call[t]
  IN  /\ c.pc = "malloc"
      /\ LocksDesc(t, c.desc)
      /\ Goes(t, IF free_list[c.desc] = <<>> THEN GetPages(c, "kernel", 1, "arena")
                 ELSE [c EXCEPT !.pc = "pop"])
      /\ pagesSame /\ UNCHANGED <<free_list, arena, live>>

\* The page of a new arena.  Without one malloc returns NULL, and realloc keeps
\* the old block.
NewArena(t) ==
  LET c == call[t]
  IN  /\ c.pc = "arena"
      /\ \/ /\ c.page = NULL
            /\ UnlocksDesc(c.desc)
            /\ Goes(t, NoCall)
            /\ UNCHANGED <<free_list, arena>>
         \/ /\ c.page # NULL
            /\ arena' = [arena EXCEPT ![c.page] =
                           [desc |-> c.desc, free_cnt |-> blocks_per_arena[c.desc]]]
            /\ free_list' = [free_list EXCEPT ![c.desc] = @ \o Blocks(c.page, c.desc)]
            /\ Goes(t, [c EXCEPT !.pc = "pop", !.page = NULL, !.cnt = 0])
            /\ UNCHANGED desc_lock
      /\ pagesSame /\ UNCHANGED live

Pop(t) ==
  LET d == call[t].desc
      b == Head(free_list[d])
  IN  /\ call[t].pc = "pop"
      /\ free_list' = [free_list EXCEPT ![d] = Tail(@)]
      /\ arena' = [arena EXCEPT ![b.page].free_cnt = @ - 1]
      /\ live' = live \cup {b}
      /\ UnlocksDesc(d)
      /\ Succeeds(t)
      /\ pagesSame

\* The pages of a big block, or of a direct caller, or none.
TakePages(t) ==
  LET c == call[t]
  IN  /\ c.pc \in {"big", "page"}
      /\ \/ c.page = NULL /\ Goes(t, NoCall) /\ UNCHANGED <<arena, live>>
         \/ /\ c.page # NULL
            /\ live' = live \cup {Owned(c.page, 0, c.cnt)}
            /\ arena' = IF c.pc = "page" THEN arena
                        ELSE [arena EXCEPT ![c.page] = [desc |-> NULL, free_cnt |-> c.cnt]]
            /\ Succeeds(t)
      /\ pagesSame /\ UNCHANGED <<free_list, desc_lock>>

\* realloc has copied the contents and frees the old block.
FreeOld(t) == call[t].pc = "moved" /\ free(t, call[t].old)

-----------------------------------------------------------------------------
(* free, from the lock on. *)

\* ++a->free_cnt >= d->blocks_per_arena.
Unused(a) == a.free_cnt + 1 >= blocks_per_arena[a.desc]

\* Variant of Listed: the blocks of an unused arena stay.
ListedStill(s, b, unused) == <<b>> \o s

\* The free list after free: the block goes to its front, and an arena that is now
\* entirely unused takes its blocks off it.
Listed(s, b, unused) ==
  IF unused THEN SelectSeq(s, LAMBDA x : x.page # b.page) ELSE <<b>> \o s

\* An arena in use: all of free's critical section.  An unused one: up to the call
\* of palloc_free_page, with the lock held.
FreeLocked(t) ==
  LET c == call[t]
      p == c.block.page
      unused == Unused(arena[p])
  IN  /\ c.pc = "free" /\ desc_lock[c.desc] = NULL
      /\ free_list' = [free_list EXCEPT ![c.desc] = Listed(@, c.block, unused)]
      /\ \/ /\ unused
            /\ LocksDesc(t, c.desc)
            /\ arena' = [arena EXCEPT ![p] = NULL]
            /\ Goes(t, FreePages([NoCall EXCEPT !.desc = c.desc], p, 1, "freed"))
         \/ /\ ~unused
            /\ arena' = [arena EXCEPT ![p].free_cnt = @ + 1]
            /\ Goes(t, NoCall)
            /\ UNCHANGED desc_lock
      /\ pagesSame /\ UNCHANGED live

ReleaseAfterFree(t) ==
  /\ call[t].pc = "freed"
  /\ UnlocksDesc(call[t].desc)
  /\ Goes(t, NoCall)
  /\ pagesSame /\ UNCHANGED <<free_list, arena, live>>

-----------------------------------------------------------------------------
Step(t) ==
  \/ AllocCall(t)
  \/ AcquireToAllocate(t) \/ NewArena(t) \/ Pop(t) \/ TakePages(t) \/ FreeOld(t)
  \/ FreeLocked(t) \/ ReleaseAfterFree(t)
  \/ PallocStep(t) /\ UNCHANGED mallocVars

MallocNext == \E t \in Caller : Step(t)

-----------------------------------------------------------------------------
\* Type invariant of both allocators.
HeapTypeOK ==
  /\ used_map \subseteq Pages
  /\ pool_lock \in [Pools -> Caller \cup {NULL}]
  /\ desc_lock \in [Desc -> Caller \cup {NULL}]
  /\ \A t \in Caller : call[t].page \in Pages \cup {kernel_pages + user_pages, NULL}
  /\ \A p \in Pages : arena[p] # NULL => arena[p].free_cnt \in Nat
  /\ \A b \in live : b.page \in Pages

PagesOf(b) == Group(b.page, b.cnt)
Arenas == {p \in Pages : arena[p] # NULL}

\* The pages a call of thread t has taken and not yet handed over, or is giving back.
InCall(t) ==
  IF call[t].pc \in {"arena", "big", "page", "clear"} /\ call[t].page # NULL
  THEN PagesOf(call[t]) ELSE {}

\* What two callers own never overlaps: the same block is not handed out twice,
\* and no page in use, by an owner or by a call, is handed out again, although
\* pages are given back without the lock while others scan the bitmap.
NoOverlap ==
  /\ \A b, c \in live :
       b # c => \/ PagesOf(b) \cap PagesOf(c) = {}
                \/ b.idx > 0 /\ c.idx > 0 /\ b.idx # c.idx
  /\ \A t \in Caller :
       /\ InCall(t) \cap Arenas = {}
       /\ \A b \in live : InCall(t) \cap PagesOf(b) = {}
       /\ \A u \in Caller \ {t} : InCall(t) \cap InCall(u) = {}

\* No page is lost, and none is given back twice (the ASSERT on bitmap_all in
\* palloc_free_multiple): a page is marked used exactly when a caller, an arena or
\* a call in progress has it.
PagesAccounted ==
  used_map = UNION {PagesOf(b) : b \in live} \cup Arenas \cup UNION {InCall(t) : t \in Caller}

\* While a descriptor's lock is free, its free list holds each free block of its
\* arenas once and no block in use, and free_cnt counts them: free gives an arena
\* back only when all its blocks are free.
FreeListExact ==
  \A d \in Desc : desc_lock[d] = NULL =>
    /\ IsInjective(free_list[d])
    /\ \A b \in Range(free_list[d]) :
         b \notin live /\ arena[b.page] # NULL /\ arena[b.page].desc = d
    /\ \A p \in Arenas : arena[p].desc = d =>
         arena[p].free_cnt = Cardinality({b \in Range(free_list[d]) : b.page = p})
=============================================================================
