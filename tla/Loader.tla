------------------------------- MODULE Loader -------------------------------
(***************************************************************************)
(* The executable loader of process.c: load, validate_segment,             *)
(* load_segment and setup_stack, page by page, on a file whose headers may *)
(* say anything.  Addresses and sizes are words and wrap.  The bytes of    *)
(* the file are all different and none is zero.                            *)
(***************************************************************************)
EXTENDS Integers, Sequences, FiniteSets, Functions

CONSTANTS
  PGSIZE, PHYS_BASE, WordSize,   \* page size, end of user addresses, 2^32
  ImageLength,                   \* bytes in the file
  UserPages,                     \* pages in the user pool
  Executables                    \* files: [ehdr, phnum, phdrs]

ASSUME LoaderAssumption ==
  /\ PHYS_BASE % PGSIZE = 0 /\ WordSize % PGSIZE = 0 /\ PHYS_BASE < WordSize
  /\ ImageLength < WordSize

VARIABLES
  exe,          \* the file being loaded
  loader,       \* where load stands: pc, header index, and load_segment's variables
  space         \* pages mapped so far, by page number

loaderVars == <<exe, loader, space>>

NoExe == [ehdr |-> FALSE, phnum |-> 0, phdrs |-> <<>>]
Rest == [pc |-> "rest", i |-> 1, read_bytes |-> 0, zero_bytes |-> 0,
         upage |-> 0, pos |-> 0, writable |-> FALSE]

LoaderInit == exe = NoExe /\ loader = Rest /\ space = <<>>

W(n) == n % WordSize
PageOf(a) == a \div PGSIZE
pg_ofs(a) == a % PGSIZE
ROUND_UP(n) == W(((W(n + PGSIZE - 1)) \div PGSIZE) * PGSIZE)
is_user_vaddr(a) == a < PHYS_BASE
FileByte(k) == k + 1

PT_LOAD == 1
Refused == {2, 3, 5}            \* PT_DYNAMIC, PT_INTERP, PT_SHLIB

-----------------------------------------------------------------------------
\* Variant of validate_segment: a region may wrap around.
ValidateNoWrap(p) ==
  /\ pg_ofs(p.offset) = pg_ofs(p.vaddr)
  /\ p.offset <= ImageLength
  /\ p.memsz >= p.filesz
  /\ p.memsz # 0
  /\ is_user_vaddr(p.vaddr)
  /\ is_user_vaddr(W(p.vaddr + p.memsz))
  /\ p.vaddr >= PGSIZE

validate_segment(p) ==
  /\ pg_ofs(p.offset) = pg_ofs(p.vaddr)
  /\ p.offset <= ImageLength
  /\ p.memsz >= p.filesz
  /\ p.memsz # 0
  /\ is_user_vaddr(p.vaddr)
  /\ is_user_vaddr(W(p.vaddr + p.memsz))
  /\ W(p.vaddr + p.memsz) >= p.vaddr
  /\ p.vaddr >= PGSIZE

\* load: the file is opened and its header verified.
Open ==
  /\ loader.pc = "rest"
  /\ \E e \in Executables :
       /\ exe' = e
       /\ loader' = [Rest EXCEPT !.pc = IF e.ehdr THEN "headers" ELSE "failed"]
  /\ UNCHANGED space

Fail == loader' = [Rest EXCEPT !.pc = "failed", !.i = loader.i]

\* Bytes to read from the file and to zero, for a valid segment.
ReadBytes(p) == IF p.filesz > 0 THEN W(pg_ofs(p.vaddr) + p.filesz) ELSE 0
ZeroBytes(p) == W(ROUND_UP(pg_ofs(p.vaddr) + p.memsz) - ReadBytes(p))

\* One turn of load's loop over the program headers; load_segment starts here.
ReadHeader ==
  /\ loader.pc = "headers" /\ loader.i <= exe.phnum
  /\ IF loader.i > Len(exe.phdrs) THEN Fail
     ELSE LET p == exe.phdrs[loader.i]
          IN  \/ p.type \in Refused /\ Fail
              \/ /\ p.type \notin Refused \cup {PT_LOAD}
                 /\ loader' = [loader EXCEPT !.i = @ + 1]
              \/ p.type = PT_LOAD /\ ~validate_segment(p) /\ Fail
              \/ /\ p.type = PT_LOAD /\ validate_segment(p)
                 /\ loader' = [pc |-> "segment", i |-> loader.i + 1,
                               read_bytes |-> ReadBytes(p), zero_bytes |-> ZeroBytes(p),
                               upage |-> PageOf(p.vaddr), writable |-> p.writable,
                               pos |-> p.offset - pg_ofs(p.offset)]
  /\ UNCHANGED <<exe, space>>

\* install_page, with a page the user pool still has.
CanInstall(upage) == upage \notin DOMAIN space /\ Cardinality(DOMAIN space) < UserPages

PageRead(read_bytes) == IF read_bytes < PGSIZE THEN read_bytes ELSE PGSIZE

\* load_segment: one page, or its end.
SegmentPage ==
  LET page_read_bytes == PageRead(loader.read_bytes)
      page_zero_bytes == PGSIZE - page_read_bytes
      kpage == [k \in 1 .. PGSIZE |->
                  IF k <= page_read_bytes THEN FileByte(loader.pos + k - 1) ELSE 0]
  IN  /\ loader.pc = "segment" /\ (loader.read_bytes > 0 \/ loader.zero_bytes > 0)
      /\ \/ /\ loader.pos + page_read_bytes <= ImageLength \/ page_read_bytes = 0
            /\ CanInstall(loader.upage)
            /\ space' = [q \in DOMAIN space \cup {loader.upage} |->
                           IF q = loader.upage THEN [bytes |-> kpage, w |-> loader.writable]
                                               ELSE space[q]]
            /\ loader' = [loader EXCEPT !.read_bytes = W(@ - page_read_bytes),
                                        !.zero_bytes = W(@ - page_zero_bytes),
                                        !.upage = @ + 1,
                                        !.pos = @ + page_read_bytes]
         \/ /\ \/ loader.pos + page_read_bytes > ImageLength /\ page_read_bytes > 0
               \/ ~CanInstall(loader.upage)
            /\ Fail
            /\ UNCHANGED space
      /\ UNCHANGED exe

SegmentEnd ==
  /\ loader.pc = "segment" /\ loader.read_bytes = 0 /\ loader.zero_bytes = 0
  /\ loader' = [Rest EXCEPT !.pc = "headers", !.i = loader.i]
  /\ UNCHANGED <<exe, space>>

StackPage == PageOf(PHYS_BASE - PGSIZE)

setup_stack ==
  /\ loader.pc = "headers" /\ loader.i > exe.phnum
  /\ IF CanInstall(StackPage)
       THEN /\ space' = [q \in DOMAIN space \cup {StackPage} |->
                           IF q = StackPage
                             THEN [bytes |-> [k \in 1 .. PGSIZE |-> 0], w |-> TRUE]
                             ELSE space[q]]
            /\ loader' = [Rest EXCEPT !.pc = "loaded"]
       ELSE Fail /\ UNCHANGED space
  /\ UNCHANGED exe

LoaderNext ==
  \/ Open \/ ReadHeader \/ SegmentPage \/ SegmentEnd \/ setup_stack

-----------------------------------------------------------------------------
(* Properties *)

\* A segment that can be loaded, in plain arithmetic.
Loadable(p) ==
  /\ p.vaddr >= PGSIZE /\ p.memsz > 0 /\ p.filesz <= p.memsz
  /\ p.vaddr + p.memsz < PHYS_BASE
  /\ p.offset % PGSIZE = p.vaddr % PGSIZE
  /\ p.offset <= ImageLength /\ (p.filesz > 0 => p.offset + p.filesz <= ImageLength)

Segments == {k \in DOMAIN exe.phdrs : exe.phdrs[k].type = PT_LOAD}
PagesOf(p) == PageOf(p.vaddr) .. PageOf(p.vaddr + p.memsz - 1)

\* load (process.c): it succeeds exactly on files whose segments lie in user
\* memory above page 0, do not wrap, are wholly in the file and share no page with
\* each other or the stack, if the pages suffice; then each segment's bytes are
\* the file's followed by zeros, in pages with the segment's permission.  Load
\* never maps a page outside user memory, even when it fails, and load_segment's
\* assertion that it fills whole pages holds.
LoadExact ==
  LET all == 1 .. exe.phnum
      fits == /\ exe.ehdr /\ exe.phnum <= Len(exe.phdrs)
              /\ \A k \in all : exe.phdrs[k].type \notin Refused
              /\ \A k \in all \cap Segments :
                   Loadable(exe.phdrs[k]) /\ StackPage \notin PagesOf(exe.phdrs[k])
              /\ \A j, k \in all \cap Segments :
                   j # k => PagesOf(exe.phdrs[j]) \cap PagesOf(exe.phdrs[k]) = {}
      covered == {StackPage} \cup UNION {PagesOf(exe.phdrs[k]) : k \in all \cap Segments}
      byte(a) == space[PageOf(a)].bytes[pg_ofs(a) + 1]
  IN  /\ DOMAIN space \subseteq 1 .. StackPage
      /\ (loader.read_bytes + loader.zero_bytes) % PGSIZE = 0
      /\ loader.pc = "failed" => ~fits \/ Cardinality(covered) > UserPages
      /\ loader.pc = "loaded" =>
           /\ fits /\ DOMAIN space = covered
           /\ \A k \in all \cap Segments :
                LET p == exe.phdrs[k]
                IN  /\ \A n \in 0 .. p.memsz - 1 :
                         byte(p.vaddr + n) = IF n < p.filesz THEN FileByte(p.offset + n) ELSE 0
                    /\ \A q \in PagesOf(p) : space[q].w = p.writable
=============================================================================
