------------------------------ MODULE Stdlib -------------------------------
(***************************************************************************)
(* Algorithms of lib/stdlib.c: the heap sort, the binary search and atoi.  *)
(* An array, and a string, grows by one element at a time; in every state  *)
(* the algorithms are compared with what they promise.                     *)
(***************************************************************************)
EXTENDS Integers, Sequences, SequencesExt

CONSTANTS
  SortKeys,     \* what compare tells apart
  MaxArray,     \* elements of an array
  MaxString,    \* characters of a string
  IntBits       \* width of int

ASSUME StdlibAssumption ==
  SortKeys \subseteq Nat /\ MaxArray \in Nat /\ MaxString \in Nat /\ IntBits \in Nat \ {0}

VARIABLES array, str
stdlibVars == <<array, str>>

StdlibInit == array = <<>> /\ str = <<>>

-----------------------------------------------------------------------------
(* sort and binary_search *)

\* An element is its key and the place it was given at.
compare(a, b) == a.key - b.key

do_swap(a, i, j) == [a EXCEPT ![i] = a[j], ![j] = a[i]]

\* The index of the largest element among i and its children.
MaxOfThree(a, i, cnt) ==
  LET max == IF 2 * i <= cnt /\ compare(a[2 * i], a[i]) > 0 THEN 2 * i ELSE i
  IN  IF 2 * i + 1 <= cnt /\ compare(a[2 * i + 1], a[max]) > 0 THEN 2 * i + 1 ELSE max

RECURSIVE heapify(_, _, _)
heapify(a, i, cnt) ==
  LET max == MaxOfThree(a, i, cnt)
  IN  IF max = i THEN a ELSE heapify(do_swap(a, i, max), max, cnt)

RECURSIVE BuildHeap(_, _), SortHeap(_, _)
BuildHeap(a, i) == IF i = 0 THEN a ELSE BuildHeap(heapify(a, i, Len(a)), i - 1)
SortHeap(a, i) ==
  IF i <= 1 THEN a ELSE SortHeap(heapify(do_swap(a, 1, i), 1, i - 1), i - 1)

sort(a) == SortHeap(BuildHeap(a, Len(a) \div 2), Len(a))

RECURSIVE SearchIn(_, _, _, _)
\* Positions first to last, exclusive; 0 is the null pointer.
SearchIn(a, k, first, last) ==
  LET middle == first + (last - first) \div 2
      cmp == k - a[middle].key
  IN  IF first >= last THEN 0
      ELSE IF cmp < 0 THEN SearchIn(a, k, first, middle)
      ELSE IF cmp > 0 THEN SearchIn(a, k, middle + 1, last)
      ELSE middle

binary_search(a, k) == SearchIn(a, k, 1, Len(a) + 1)

-----------------------------------------------------------------------------
(* atoi *)

Digits == <<"0", "1", "2", "3", "4", "5", "6", "7", "8", "9">>
isdigit(c) == Contains(Digits, c)
DigitValue(c) == (CHOOSE i \in 1 .. 10 : Digits[i] = c) - 1

IntMin == -(2 ^ (IntBits - 1))
Wrap(x) == ((x - IntMin) % 2 ^ IntBits) + IntMin

RECURSIVE SkipSpace(_)
SkipSpace(s) == IF s # <<>> /\ Head(s) = " " THEN SkipSpace(Tail(s)) ELSE s

RECURSIVE ParseDigits(_, _)
\* The value is built up as a negative number, which has the larger range.
ParseDigits(s, value) ==
  IF s # <<>> /\ isdigit(Head(s))
  THEN ParseDigits(Tail(s), Wrap(value * 10 - DigitValue(Head(s)))) ELSE value

atoi(s0) ==
  LET s == SkipSpace(s0)
      signed == s # <<>> /\ Head(s) \in {"+", "-"}
      negative == signed /\ Head(s) = "-"
      value == ParseDigits(IF signed THEN Tail(s) ELSE s, 0)
  IN  IF negative THEN value ELSE Wrap(-value)

-----------------------------------------------------------------------------
StdlibNext ==
  \/ /\ Len(array) < MaxArray /\ str = <<>>
     /\ \E k \in SortKeys : array' = Append(array, [key |-> k, place |-> Len(array) + 1])
     /\ UNCHANGED str
  \/ /\ Len(str) < MaxString /\ array = <<>>
     /\ \E c \in {" ", "+", "-", "x", "1", "2", "8"} : str' = Append(str, c)
     /\ UNCHANGED array

\* The number a string stands for: digits after space and a sign, up to the first
\* character that is not a digit.
ValueOf(s) ==
  LET skipped == {i \in 0 .. Len(s) : \A j \in 1 .. i : s[j] = " "}
      at == CHOOSE i \in skipped : \A j \in skipped : j <= i
      sign == IF at < Len(s) /\ s[at + 1] \in {"+", "-"} THEN 1 ELSE 0
      start == at + sign
      ends == {i \in start .. Len(s) : \A j \in start + 1 .. i : isdigit(s[j])}
      end == CHOOSE i \in ends : \A j \in ends : j <= i
      abs == FoldLeft(LAMBDA v, c : 10 * v + DigitValue(c), 0, SubSeq(s, start + 1, end))
  IN  IF sign = 1 /\ s[start] = "-" THEN -abs ELSE abs

\* sort orders the array and keeps its elements, and binary_search then finds a key
\* exactly if it is there; atoi is exact for every number that an int can hold, the
\* least one included.
StdlibExact ==
  LET sorted == sort(array)
  IN  /\ \A i \in 2 .. Len(array) : compare(sorted[i - 1], sorted[i]) <= 0
      /\ Range(sorted) = Range(array) /\ Len(sorted) = Len(array)
      /\ \A k \in SortKeys :
           LET found == binary_search(sorted, k)
           IN  IF \E i \in DOMAIN array : array[i].key = k
               THEN found # 0 /\ sorted[found].key = k ELSE found = 0
      /\ ValueOf(str) \in IntMin .. -IntMin - 1 => atoi(str) = ValueOf(str)
=============================================================================
