------------------------------ MODULE KBitmap ------------------------------
(***************************************************************************)
(* Bitmaps, lib/kernel/bitmap.c: an array of words that stands for an      *)
(* array of bits, and its copy in a file.  A word is the set of the        *)
(* positions of its 1 bits; the last one has bits that belong to nothing.  *)
(***************************************************************************)
EXTENDS Integers, FiniteSets

CONSTANTS
  ELEM_BITS,    \* bits of a word
  bit_cnt       \* bits of the bitmap

ASSUME BitmapAssumption == ELEM_BITS \in Nat \ {0} /\ bit_cnt \in Nat \ {0}

VARIABLES
  bits,         \* the words
  bitfile,      \* the words in the file
  ones, fileones        \* the bits that should be set, in memory and in the file
bitmapVars == <<bits, bitfile, ones, fileones>>

Bits == 0 .. bit_cnt - 1
elem_cnt == (bit_cnt + ELEM_BITS - 1) \div ELEM_BITS
Words == 0 .. elem_cnt - 1
Word == 0 .. ELEM_BITS - 1

elem_idx(i) == i \div ELEM_BITS
bit_mask(i) == {i % ELEM_BITS}

\* Variant of last_mask: the last bit of the bitmap is masked too.
LastMaskShort ==
  LET last_bits == bit_cnt % ELEM_BITS
  IN  IF last_bits # 0 THEN 0 .. last_bits - 2 ELSE Word

last_mask ==
  LET last_bits == bit_cnt % ELEM_BITS
  IN  IF last_bits # 0 THEN 0 .. last_bits - 1 ELSE Word

BitmapInit ==
  /\ bits = [w \in Words |-> {}] /\ bitfile = bits
  /\ ones = {} /\ fileones = {}

\* Where a group of cnt bits may start.
Ranges == {r \in (0 .. bit_cnt) \X (0 .. bit_cnt) : r[1] + r[2] <= bit_cnt}
Run(start, cnt) == start .. start + cnt - 1

-----------------------------------------------------------------------------
(* Single bits. *)

bitmap_mark(b, i) == [b EXCEPT ![elem_idx(i)] = @ \cup bit_mask(i)]
bitmap_reset(b, i) == [b EXCEPT ![elem_idx(i)] = @ \ bit_mask(i)]
bitmap_set(b, i, value) == IF value THEN bitmap_mark(b, i) ELSE bitmap_reset(b, i)
bitmap_test(b, i) == b[elem_idx(i)] \cap bit_mask(i) # {}

\* XOR with the mask.
bitmap_flip(b, i) ==
  [b EXCEPT ![elem_idx(i)] = (@ \ bit_mask(i)) \cup (bit_mask(i) \ @)]

-----------------------------------------------------------------------------
(* Groups of bits. *)

RECURSIVE bitmap_set_multiple(_, _, _, _)
bitmap_set_multiple(b, start, cnt, value) ==
  IF cnt = 0 THEN b
  ELSE bitmap_set_multiple(bitmap_set(b, start, value), start + 1, cnt - 1, value)

bitmap_set_all(b, value) == bitmap_set_multiple(b, 0, bit_cnt, value)

bitmap_count(b, start, cnt, value) ==
  Cardinality({i \in Run(start, cnt) : bitmap_test(b, i) = value})

bitmap_contains(b, start, cnt, value) ==
  \E i \in Run(start, cnt) : bitmap_test(b, i) = value

bitmap_any(b, start, cnt) == bitmap_contains(b, start, cnt, TRUE)
bitmap_none(b, start, cnt) == ~bitmap_contains(b, start, cnt, TRUE)
bitmap_all(b, start, cnt) == ~bitmap_contains(b, start, cnt, FALSE)

BITMAP_ERROR == -1

\* The last position bitmap_scan looks at.
LastStart(cnt) == bit_cnt - cnt

RECURSIVE ScanFrom(_, _, _, _)
ScanFrom(b, i, cnt, value) ==
  IF i > LastStart(cnt) THEN BITMAP_ERROR
  ELSE IF ~bitmap_contains(b, i, cnt, ~value) THEN i
  ELSE ScanFrom(b, i + 1, cnt, value)

bitmap_scan(b, start, cnt, value) ==
  IF cnt <= bit_cnt THEN ScanFrom(b, start, cnt, value) ELSE BITMAP_ERROR

-----------------------------------------------------------------------------
(* Calls. *)

\* Another bitmap, when the last one is done with (bitmap_destroy): bitmap_create and,
\* in a block of the caller's, bitmap_create_in_buf find anything in the words, and
\* clear only the bits of the bitmap.  A null pointer from bitmap_create changes nothing.
bitmap_create ==
  /\ \E junk \in [Words -> SUBSET Word] : bits' = bitmap_set_all(junk, FALSE)
  /\ ones' = {}
  /\ UNCHANGED <<bitfile, fileones>>

FlipCall == \E i \in Bits :
  /\ bits' = bitmap_flip(bits, i)
  /\ ones' = IF i \in ones THEN ones \ {i} ELSE ones \cup {i}
  /\ UNCHANGED <<bitfile, fileones>>

SetCall == \E r \in Ranges, value \in BOOLEAN :
  /\ bits' = bitmap_set_multiple(bits, r[1], r[2], value)
  /\ ones' = IF value THEN ones \cup Run(r[1], r[2]) ELSE ones \ Run(r[1], r[2])
  /\ UNCHANGED <<bitfile, fileones>>

\* The groups of cnt bits at or after start that all have the value.
Groups(start, cnt, value) ==
  {i \in start .. bit_cnt : i + cnt <= bit_cnt /\ \A k \in Run(i, cnt) : (k \in ones) = value}

FirstGroup(start, cnt, value) ==
  LET found == Groups(start, cnt, value)
  IN  IF found = {} THEN BITMAP_ERROR ELSE CHOOSE i \in found : \A j \in found : i <= j

bitmap_scan_and_flip == \E start, cnt \in 0 .. bit_cnt, value \in BOOLEAN :
  LET idx == bitmap_scan(bits, start, cnt, value)
      group == Run(FirstGroup(start, cnt, value), cnt)
  IN  /\ FirstGroup(start, cnt, value) # BITMAP_ERROR
      /\ bits' = IF idx # BITMAP_ERROR THEN bitmap_set_multiple(bits, idx, cnt, ~value) ELSE bits
      /\ ones' = IF value THEN ones \ group ELSE ones \cup group
      /\ UNCHANGED <<bitfile, fileones>>

\* A read that fails leaves the words from the k-th on as they were.
bitmap_read ==
  /\ \E k \in 0 .. elem_cnt :
       /\ bits' = [w \in Words |->
                     LET word == IF w < k THEN bitfile[w] ELSE bits[w]
                     IN  IF w = elem_cnt - 1 THEN word \cap last_mask ELSE word]
       /\ ones' = {i \in Bits : i \in IF i < k * ELEM_BITS THEN fileones ELSE ones}
  /\ UNCHANGED <<bitfile, fileones>>

\* One that fails does not write the words from the k-th on.
bitmap_write ==
  /\ \E k \in 0 .. elem_cnt :
       /\ bitfile' = [w \in Words |-> IF w < k THEN bits[w] ELSE bitfile[w]]
       /\ fileones' = {i \in Bits : i \in IF i < k * ELEM_BITS THEN ones ELSE fileones}
  /\ UNCHANGED <<bits, ones>>

BitmapNext ==
  \/ bitmap_create \/ FlipCall \/ SetCall \/ bitmap_scan_and_flip
  \/ bitmap_read \/ bitmap_write

BitmapSpec == BitmapInit /\ [][BitmapNext]_bitmapVars

-----------------------------------------------------------------------------
\* Whatever the words hold besides, every query answers as the set of bits does:
\* single bits, counts, any, none, all, and the first group of equal bits, up to
\* groups of no bits and groups that end at the last bit.
BitmapExact ==
  /\ \A i \in Bits : bitmap_test(bits, i) <=> i \in ones
  /\ \A r \in Ranges :
       LET run == Run(r[1], r[2])
       IN  /\ bitmap_count(bits, r[1], r[2], TRUE) = Cardinality(run \cap ones)
           /\ bitmap_any(bits, r[1], r[2]) <=> run \cap ones # {}
           /\ bitmap_none(bits, r[1], r[2]) <=> run \cap ones = {}
           /\ bitmap_all(bits, r[1], r[2]) <=> run \subseteq ones
  /\ \A start, cnt \in 0 .. bit_cnt, value \in BOOLEAN :
       bitmap_scan(bits, start, cnt, value) = FirstGroup(start, cnt, value)
=============================================================================
