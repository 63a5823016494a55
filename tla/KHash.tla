------------------------------- MODULE KHash -------------------------------
(***************************************************************************)
(* Hash tables, lib/kernel/hash.c.  Buckets are lists, here sequences; the *)
(* hash function and less are given by the elements.  A table grows and    *)
(* shrinks with its contents unless memory runs out.  Before hash_init     *)
(* and after hash_destroy it has no buckets and is not used.               *)
(***************************************************************************)
EXTENDS Integers, Sequences, FiniteSets, SequencesExt

CONSTANTS
  HashElem,     \* elements, positive integers
  HashKey,      \* what less compares
  HashOf,       \* the hash of a key
  BEST_ELEMS_PER_BUCKET,
  FEWEST_BUCKETS        \* 4 in the code

ASSUME HashAssumption ==
  /\ HashElem \subseteq Nat \ {0} /\ HashKey \in [HashElem -> Nat]
  /\ \A e \in HashElem : HashOf[HashKey[e]] \in Nat
  /\ BEST_ELEMS_PER_BUCKET \in Nat \ {0}
  /\ \E k \in 0 .. FEWEST_BUCKETS : FEWEST_BUCKETS = 2 ^ k

VARIABLES
  table,        \* buckets and elem_cnt
  members       \* the elements the table should hold
hashVars == <<table, members>>

NoElem == 0
Buckets(cnt) == [i \in 0 .. cnt - 1 |-> <<>>]
bucket_cnt(h) == Cardinality(DOMAIN h.buckets)
EmptyTable(cnt) == [buckets |-> Buckets(cnt), elem_cnt |-> 0]
Ready == bucket_cnt(table) > 0

HashInit == table = EmptyTable(0) /\ members = {}

\* hash (e) & (bucket_cnt - 1), for a bucket_cnt that is a power of 2.
find_bucket(h, e) == HashOf[HashKey[e]] % bucket_cnt(h)

find_elem(h, b, e) ==
  LET s == h.buckets[b]
      equal == {i \in DOMAIN s : HashKey[s[i]] = HashKey[e]}
  IN  IF equal = {} THEN NoElem ELSE s[CHOOSE i \in equal : \A j \in equal : i <= j]

hash_find(h, e) == find_elem(h, find_bucket(h, e), e)

insert_elem(h, b, e) ==
  [buckets |-> [h.buckets EXCEPT ![b] = <<e>> \o @], elem_cnt |-> h.elem_cnt + 1]

\* list_remove: e is taken off the bucket it is in.
remove_elem(h, e) ==
  [buckets |-> [b \in DOMAIN h.buckets |-> SelectSeq(h.buckets[b], LAMBDA x : x # e)],
   elem_cnt |-> h.elem_cnt - 1]

-----------------------------------------------------------------------------
\* turn_off_least_1bit until a power of 2 is left.
LargestPower(x) == CHOOSE p \in {2 ^ k : k \in 0 .. x} : p <= x /\ x < 2 * p

\* The number of buckets rehash wants.
BestBuckets(cnt) ==
  LET best == cnt \div BEST_ELEMS_PER_BUCKET
  IN  LargestPower(IF best < FEWEST_BUCKETS THEN FEWEST_BUCKETS ELSE best)

\* list_begin and list_next, NoElem for list_end.
FrontOf(bucket) == IF bucket = <<>> THEN NoElem ELSE bucket[1]
NextOf(bucket, e) ==
  FrontOf(SubSeq(bucket, SelectInSeq(bucket, LAMBDA x : x = e) + 1, Len(bucket)))

\* Variant of MoveFront: the next element is asked for when elem is in its new bucket.
MoveFrontLate(m) ==
  LET b == find_bucket(m.h, m.elem)
      h == [m.h EXCEPT !.buckets[b] = <<m.elem>> \o @]
  IN  [h |-> h, old |-> SelectSeq(m.old, LAMBDA x : x # m.elem), elem |-> NextOf(h.buckets[b], m.elem)]

\* One round of the inner loop: elem goes from its old bucket, m.old, to the front of its
\* bucket in the table with the new buckets, m.h, after its successor was read.
MoveFront(m) ==
  [h |-> [m.h EXCEPT !.buckets[find_bucket(m.h, m.elem)] = <<m.elem>> \o @],
   old |-> SelectSeq(m.old, LAMBDA x : x # m.elem),
   elem |-> NextOf(m.old, m.elem)]

RECURSIVE MoveBucket(_)
MoveBucket(m) == IF m.elem = NoElem THEN m.h ELSE MoveBucket(MoveFront(m))

RECURSIVE MoveFrom(_, _, _)
MoveFrom(old_buckets, i, h) ==
  IF i \notin DOMAIN old_buckets THEN h
  ELSE MoveFrom(old_buckets, i + 1,
         MoveBucket([h |-> h, old |-> old_buckets[i], elem |-> FrontOf(old_buckets[i])]))

\* The new buckets are installed, then filled.
Moved(h, cnt) == MoveFrom(h.buckets, 0, [h EXCEPT !.buckets = Buckets(cnt)])

\* The tables rehash may leave: without memory the old one.
rehash(h) ==
  LET cnt == BestBuckets(h.elem_cnt)
  IN  IF cnt = bucket_cnt(h) THEN {h} ELSE {h, Moved(h, cnt)}

-----------------------------------------------------------------------------
\* hash_init: without memory for the buckets it returns false.
hash_init ==
  /\ ~Ready
  /\ table' \in {table, EmptyTable(FEWEST_BUCKETS)}
  /\ UNCHANGED members

hash_insert(e) ==
  LET old == hash_find(table, e)
  IN  /\ Ready /\ e \notin members
      /\ table' \in rehash(IF old = NoElem THEN insert_elem(table, find_bucket(table, e), e)
                           ELSE table)
      /\ members' = IF old = NoElem THEN members \cup {e} ELSE members

hash_replace(e) ==
  LET old == hash_find(table, e)
  IN  /\ Ready /\ e \notin members
      /\ table' \in rehash(insert_elem(IF old = NoElem THEN table ELSE remove_elem(table, old),
                                       find_bucket(table, e), e))
      /\ members' = {x \in members : HashKey[x] # HashKey[e]} \cup {e}

hash_delete(e) ==
  LET found == hash_find(table, e)
  IN  /\ Ready
      /\ table' \in IF found = NoElem THEN {table} ELSE rehash(remove_elem(table, found))
      /\ members' = {x \in members : HashKey[x] # HashKey[e]}

\* hash_clear keeps the number of buckets.
hash_clear ==
  /\ Ready
  /\ table' = EmptyTable(bucket_cnt(table)) /\ members' = {}

hash_destroy == Ready /\ table' = EmptyTable(0) /\ members' = {}

HashNext ==
  \/ \E e \in HashElem : hash_insert(e) \/ hash_replace(e) \/ hash_delete(e)
  \/ hash_init \/ hash_clear \/ hash_destroy

HashSpec == HashInit /\ [][HashNext]_hashVars

-----------------------------------------------------------------------------
(* Iteration. *)

\* The elements ACTION is called for: of each bucket from front to back.
hash_apply(h) == FlattenSeq([i \in 1 .. bucket_cnt(h) |-> h.buckets[i - 1]])

RECURSIVE NextFrom(_, _, _)
\* hash_next: past position i of bucket b, the next element and where it is.
NextFrom(h, b, i) ==
  IF i < Len(h.buckets[b]) THEN [elem |-> h.buckets[b][i + 1], bucket |-> b, pos |-> i + 1]
  ELSE IF b + 1 >= bucket_cnt(h) THEN [elem |-> NoElem, bucket |-> b + 1, pos |-> 0]
  ELSE NextFrom(h, b + 1, 0)

RECURSIVE IterateFrom(_, _)
IterateFrom(h, it) ==
  IF it.elem = NoElem THEN <<>> ELSE <<it.elem>> \o IterateFrom(h, NextFrom(h, it.bucket, it.pos))

\* hash_first, then hash_next and hash_cur until it is NULL.
Iterate(h) == IterateFrom(h, NextFrom(h, 0, 0))

\* Whatever was inserted, replaced and deleted and whether or not the table could be
\* resized: hash_size is exact, every element is found by its key, an absent key is
\* not, and hash_next and hash_apply visit each element once.
HashExact == Ready =>
  /\ table.elem_cnt = Cardinality(members)
  /\ \A e \in HashElem :
       hash_find(table, e) = IF \E x \in members : HashKey[x] = HashKey[e]
                             THEN CHOOSE x \in members : HashKey[x] = HashKey[e] ELSE NoElem
  /\ Len(Iterate(table)) = Cardinality(members)
  /\ Range(Iterate(table)) = members
  /\ hash_apply(table) = Iterate(table)
=============================================================================
