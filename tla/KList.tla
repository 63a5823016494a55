------------------------------- MODULE KList -------------------------------
(***************************************************************************)
(* Doubly linked lists, lib/kernel/list.c, at the level of the pointers in *)
(* their elements.  Callers apply any of the operations to two lists that  *)
(* share a set of elements; next to the pointers, seq says what the lists  *)
(* should hold.  An element outside the lists keeps its old pointers.      *)
(***************************************************************************)
EXTENDS Integers, Sequences, SequencesExt

CONSTANTS
  Elem,         \* elements, positive integers
  Key           \* what less compares

ASSUME ListAssumption == Elem \subseteq Nat \ {0} /\ Key \in [Elem -> Nat]

VARIABLES
  links,        \* the memory: prev and next of every element, head and tail
  seq           \* the contents of the lists, by their promise
listVars == <<links, seq>>

Lists == {1, 2}
Null == 0
head(l) == -2 * l
tail(l) == -2 * l - 1
Node == Elem \cup {head(l) : l \in Lists} \cup {tail(l) : l \in Lists}

less(a, b) == Key[a] < Key[b]

list_init ==
  [x \in Node |->
     [prev |-> IF \E l \in Lists : x = tail(l) THEN x + 1 ELSE Null,
      next |-> IF \E l \in Lists : x = head(l) THEN x - 1 ELSE Null]]

ListInit == links = list_init /\ seq = [l \in Lists |-> <<>>]

-----------------------------------------------------------------------------
(* The operations.  m is the memory they start from. *)

list_begin(m, l) == m[head(l)].next
list_empty(m, l) == list_begin(m, l) = tail(l)

list_insert(m, before, e) ==
  LET p == m[before].prev
      linked == [m EXCEPT ![e] = [prev |-> p, next |-> before]]
  IN  [linked EXCEPT ![p].next = e, ![before].prev = e]

list_remove(m, e) ==
  [m EXCEPT ![m[e].prev].next = m[e].next, ![m[e].next].prev = m[e].prev]

\* Elements first up to last, exclusive, move in front of before.
list_splice(m, before, first, last) ==
  LET back  == m[last].prev
      gap   == [m EXCEPT ![m[first].prev].next = last, ![last].prev = m[first].prev]
      after == gap[before].prev
  IN  IF first = last THEN m
      ELSE [gap EXCEPT ![first].prev = after, ![back].next = before,
                       ![after].next = first, ![before].prev = back]

RECURSIVE SwapEach(_, _, _)
\* The loop of list_reverse from element e on.
SwapEach(m, e, l) ==
  IF e = tail(l) THEN m
  ELSE SwapEach([m EXCEPT ![e] = [prev |-> m[e].next, next |-> m[e].prev]], m[e].next, l)

\* Each element is turned round, then head and tail, then the ends.
list_reverse(m, l) ==
  LET turned == SwapEach(m, list_begin(m, l), l)
      front  == turned[tail(l)].prev
      back   == turned[head(l)].next
  IN  IF list_empty(m, l) THEN m
      ELSE [turned EXCEPT ![head(l)].next = front, ![tail(l)].prev = back,
                          ![front].prev = turned[back].next, ![back].next = turned[front].prev]

RECURSIVE find_end_of_run(_, _, _)
find_end_of_run(m, a, b) ==
  LET n == m[a].next
  IN  IF n # b /\ ~less(n, m[n].prev) THEN find_end_of_run(m, n, b) ELSE n

\* Variant of MergeHere: of two equal elements the later one comes first.
MergeEarly(a, b) == less(a, b)

\* The element at b stays behind the one at a.
MergeHere(a, b) == ~less(b, a)

RECURSIVE inplace_merge(_, _, _, _)
inplace_merge(m, a0, a1b0, b1) ==
  IF a0 = a1b0 \/ a1b0 = b1 THEN m
  ELSE IF MergeHere(a0, a1b0) THEN inplace_merge(m, m[a0].next, a1b0, b1)
  ELSE inplace_merge(list_splice(m, a0, a1b0, m[a1b0].next), a0, m[a1b0].next, b1)

RECURSIVE SortPass(_, _, _, _)
\* One pass of list_sort from run a0 on: the memory and the number of runs it leaves.
SortPass(m, l, a0, runs) ==
  IF a0 = tail(l) THEN <<m, runs>>
  ELSE LET a1b0 == find_end_of_run(m, a0, tail(l))
       IN  IF a1b0 = tail(l) THEN <<m, runs + 1>>
           ELSE LET b1 == find_end_of_run(m, a1b0, tail(l))
                IN  SortPass(inplace_merge(m, a0, a1b0, b1), l, b1, runs + 1)

RECURSIVE list_sort(_, _)
list_sort(m, l) ==
  LET pass == SortPass(m, l, list_begin(m, l), 0)
  IN  IF pass[2] > 1 THEN list_sort(pass[1], l) ELSE pass[1]

RECURSIVE Above(_, _, _, _)
\* The first element from x on that is greater than e, or the tail.
Above(m, l, x, e) ==
  IF x = tail(l) \/ less(e, x) THEN x ELSE Above(m, l, m[x].next, e)

list_insert_ordered(m, l, e) == list_insert(m, Above(m, l, list_begin(m, l), e), e)

RECURSIVE UniqueFrom(_, _, _, _)
\* The loop of list_unique, with e the last element that is kept.
UniqueFrom(m, l, dup, e) ==
  LET n == m[e].next
  IN  IF n = tail(l) THEN m
      ELSE IF ~less(e, n) /\ ~less(n, e)
           THEN UniqueFrom(list_insert(list_remove(m, n), tail(dup), n), l, dup, e)
           ELSE UniqueFrom(m, l, dup, n)

list_unique(m, l, dup) ==
  IF list_empty(m, l) THEN m ELSE UniqueFrom(m, l, dup, list_begin(m, l))

RECURSIVE Extreme(_, _, _, _, _)
Extreme(m, l, x, best, max) ==
  IF x = tail(l) THEN best
  ELSE Extreme(m, l, m[x].next,
               IF (IF max THEN less(best, x) ELSE less(x, best)) THEN x ELSE best, max)

list_max(m, l) == Extreme(m, l, list_begin(m, l), list_begin(m, l), TRUE)
list_min(m, l) == Extreme(m, l, list_begin(m, l), list_begin(m, l), FALSE)

-----------------------------------------------------------------------------
(* What the operations promise, on sequences. *)

Loose == Elem \ UNION {Range(seq[l]) : l \in Lists}
Has(l, e) == Contains(seq[l], e)
Place(l, x) == IF x = tail(l) THEN Len(seq[l]) + 1 ELSE CHOOSE i \in DOMAIN seq[l] : seq[l][i] = x
IsOrdered(s) == \A i \in 2 .. Len(s) : ~less(s[i], s[i - 1])

\* The stable order of s.
InOrder(s) ==
  LET by == SetToSortSeq(DOMAIN s,
              LAMBDA i, j : less(s[i], s[j]) \/ (~less(s[j], s[i]) /\ i < j))
  IN  [i \in DOMAIN s |-> s[by[i]]]

\* The elements of s that follow, or do not follow, an equal one.
Repeated(s, yes) ==
  LET by == SetToSortSeq({i \in DOMAIN s : yes <=> i > 1 /\ Key[s[i]] = Key[s[i - 1]]}, <)
  IN  [i \in DOMAIN by |-> s[by[i]]]

Gets(l, s) == seq' = [seq EXCEPT ![l] = s]

Insert(l, before, e) ==
  /\ links' = list_insert(links, before, e)
  /\ Gets(l, InsertAt(seq[l], Place(l, before), e))

\* list_insert, list_push_front and list_push_back.
InsertCall == \E l \in Lists, e \in Loose :
  \E before \in Range(seq[l]) \cup {list_begin(links, l), tail(l)} : Insert(l, before, e)

\* list_remove, list_pop_front and list_pop_back.
RemoveCall == \E l \in Lists : \E e \in Range(seq[l]) :
  links' = list_remove(links, e) /\ Gets(l, RemoveAt(seq[l], Place(l, e)))

\* A part of list l, up to its tail or an element, moves to list k, or within l.
SpliceCall == \E l, k \in Lists : \E i \in DOMAIN seq[l] : \E n \in 1 .. Len(seq[l]) - i + 1 :
  \E last \in {IF i + n > Len(seq[l]) THEN tail(l) ELSE seq[l][i + n]} :
  \E before \in (Range(seq[k]) \cup {tail(k)}) \ {seq[l][j] : j \in i .. i + n - 1} :
    LET part == SubSeq(seq[l], i, i + n - 1)
        rest == SubSeq(seq[l], 1, i - 1) \o SubSeq(seq[l], i + n, Len(seq[l]))
        p    == Place(k, before)
        into == IF k # l THEN seq[k] ELSE rest
        q    == IF k = l /\ p > i THEN p - n ELSE p
    IN  /\ links' = list_splice(links, before, seq[l][i], last)
        /\ seq' = [[seq EXCEPT ![l] = rest] EXCEPT
                     ![k] = SubSeq(into, 1, q - 1) \o part \o SubSeq(into, q, Len(into))]

ReverseCall == \E l \in Lists : links' = list_reverse(links, l) /\ Gets(l, Reverse(seq[l]))

SortCall == \E l \in Lists : links' = list_sort(links, l) /\ Gets(l, InOrder(seq[l]))

InsertOrderedCall == \E l \in Lists, e \in Loose :
  /\ IsOrdered(seq[l])
  /\ links' = list_insert_ordered(links, l, e)
  /\ Gets(l, InOrder(Append(seq[l], e)))

UniqueCall == \E l \in Lists : \E dup \in Lists \ {l} :
  /\ links' = list_unique(links, l, dup)
  /\ seq' = [[seq EXCEPT ![l] = Repeated(@, FALSE)] EXCEPT ![dup] = @ \o Repeated(seq[l], TRUE)]

ListNext ==
  \/ InsertCall \/ RemoveCall \/ SpliceCall \/ ReverseCall
  \/ SortCall \/ InsertOrderedCall \/ UniqueCall

ListSpec == ListInit /\ [][ListNext]_listVars

-----------------------------------------------------------------------------
RECURSIVE Walk(_, _, _, _)
\* The nodes from x on, in at most n steps, until one without successor.
Walk(x, step, n, m) ==
  IF n = 0 \/ x = Null THEN <<>> ELSE <<x>> \o Walk(m[x][step], step, n - 1, m)

\* Along next and along prev, each list holds what its operations promise, between
\* its head and its tail; sorting is stable, and list_max and list_min find the
\* first of the greatest and of the least elements.
ListsExact ==
  \A l \in Lists :
    LET nodes == <<head(l)>> \o seq[l] \o <<tail(l)>>
    IN  /\ Walk(head(l), "next", 2 + Len(nodes), links) = nodes
        /\ Walk(tail(l), "prev", 2 + Len(nodes), links) = Reverse(nodes)
        /\ seq[l] # <<>> =>
             LET first(K) == CHOOSE i \in DOMAIN seq[l] :
                               /\ K[seq[l][i]]
                               /\ \A j \in 1 .. i - 1 : ~K[seq[l][j]]
                 top == [e \in Elem |-> \A x \in Range(seq[l]) : ~less(e, x)]
                 low == [e \in Elem |-> \A x \in Range(seq[l]) : ~less(x, e)]
             IN  /\ list_max(links, l) = seq[l][first(top)]
                 /\ list_min(links, l) = seq[l][first(low)]
=============================================================================
