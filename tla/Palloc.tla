------------------------------- MODULE Palloc -------------------------------
(***************************************************************************)
(* The page allocator, threads/palloc.c: two pools of pages, each with a   *)
(* bitmap of used pages (lib/kernel/bitmap.c) and a lock.  Pages are taken *)
(* under the lock, one position of the scan at a time, but given back      *)
(* without it, one bit at a time, by threads that run meanwhile.           *)
(***************************************************************************)
EXTENDS Integers, FiniteSets

CONSTANTS
  Caller,               \* the threads
  kernel_pages, user_pages,
  NULL

ASSUME PallocAssumption == kernel_pages \in Nat /\ user_pages \in Nat

VARIABLES
  used_map,     \* the pages whose bit is set
  pool_lock,    \* holder of each pool's lock
  call          \* what each thread is doing in the allocators

Pools == {"kernel", "user"}

\* The pages of a pool, without those init_pool gives to the bitmap, are numbered
\* in one row: no group of pages crosses from one pool to the other.
FirstOf(p) == IF p = "kernel" THEN 0 ELSE kernel_pages

LastOf(p) == IF p = "kernel" THEN kernel_pages - 1 ELSE kernel_pages + user_pages - 1

Pages == 0 .. kernel_pages + user_pages - 1
Group(first, cnt) == first .. first + cnt - 1

\* A thread outside the allocators.  In a call, pc is the point it is at and then
\* the one the page allocator returns to; page and cnt are the pages it looks at,
\* got or gives back; malloc uses desc, free block too, and old is the block that
\* realloc frees once it has another.
NoCall == [pc |-> "idle", then |-> "idle", pool |-> "kernel", page |-> NULL, cnt |-> 0,
         desc |-> NULL, block |-> NULL, old |-> NULL]

Goes(t, c) == call' = [call EXCEPT ![t] = c]

PallocInit ==
  /\ used_map = {}
  /\ pool_lock = [p \in Pools |-> NULL]
  /\ call = [t \in Caller |-> NoCall]

\* palloc_get_multiple is called in c, to return to point k.
GetPages(c, p, cnt, k) ==
  [c EXCEPT !.pc = "pool", !.then = k, !.pool = p, !.page = FirstOf(p), !.cnt = cnt]

\* Variant of FreePages: palloc_free_page is called for a group of pages.
FreeOnePage(c, first, cnt, k) ==
  [c EXCEPT !.pc = "clear", !.then = k, !.page = first, !.cnt = 1]

\* palloc_free_multiple is called in c, to return to point k.  It takes no lock.
FreePages(c, first, cnt, k) ==
  [c EXCEPT !.pc = "clear", !.then = k, !.page = first, !.cnt = cnt]

AcquirePool(t) ==
  /\ call[t].pc = "pool" /\ pool_lock[call[t].pool] = NULL
  /\ pool_lock' = [pool_lock EXCEPT ![call[t].pool] = t]
  /\ Goes(t, [call[t] EXCEPT !.pc = "scan"])
  /\ UNCHANGED used_map

\* Variant of AllFree: only the first bit is tested.
FirstFree(first, cnt) == first \notin used_map

\* !bitmap_contains (b, i, cnt, true).  Bits tested one after the other add
\* nothing: while the lock is held the others only clear bits.
AllFree(first, cnt) == Group(first, cnt) \cap used_map = {}

\* The lock is released and the pages, or NULL, are returned.
ReturnPages(t, pages) ==
  /\ pool_lock' = [pool_lock EXCEPT ![call[t].pool] = NULL]
  /\ Goes(t, [call[t] EXCEPT !.pc = call[t].then, !.then = "idle",
                             !.pool = "kernel", !.page = pages])

\* One round of the loop in bitmap_scan.
Scan(t) ==
  LET c == call[t]
  IN  /\ c.pc = "scan"
      /\ UNCHANGED used_map
      /\ \/ /\ c.page + c.cnt - 1 > LastOf(c.pool)
            /\ ReturnPages(t, NULL)
         \/ /\ c.page + c.cnt - 1 <= LastOf(c.pool)
            /\ Goes(t, IF AllFree(c.page, c.cnt) THEN [c EXCEPT !.pc = "flip"]
                       ELSE [c EXCEPT !.page = @ + 1])
            /\ UNCHANGED pool_lock

\* The second half of bitmap_scan_and_flip.
Flip(t) ==
  /\ call[t].pc = "flip"
  /\ used_map' = used_map \cup Group(call[t].page, call[t].cnt)
  /\ ReturnPages(t, call[t].page)

\* bitmap_set_multiple clears one bit.
Clear(t) ==
  LET c == call[t]
  IN  /\ c.pc = "clear"
      /\ used_map' = used_map \ {c.page}
      /\ Goes(t, IF c.cnt > 1 THEN [c EXCEPT !.page = @ + 1, !.cnt = @ - 1]
                 ELSE [c EXCEPT !.pc = c.then, !.then = "idle", !.page = NULL, !.cnt = 0])
      /\ UNCHANGED pool_lock

PallocStep(t) == AcquirePool(t) \/ Scan(t) \/ Flip(t) \/ Clear(t)
=============================================================================
