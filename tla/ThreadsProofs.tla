--------------------------- MODULE ThreadsProofs ----------------------------
(***************************************************************************)
(* Proofs about thread.c and timer.c for any threads and any sleeps: the   *)
(* lists of the scheduler, and the sleepers.  They rest on facts about     *)
(* lists, proved by induction over their length.                           *)
(***************************************************************************)
EXTENDS Threads, TLAPS

-----------------------------------------------------------------------------
(* Induction over the natural numbers in a form the provers can apply: the   *)
(* property is given as the set of numbers that have it.  It rests on a      *)
(* theorem of the library, which the lemmas assume and the end of the module *)
(* proves: the provers are slow wherever the library is in scope.            *)

\* A non-empty set of natural numbers has a least element.
LeastInNat == \A S \in SUBSET Nat : S # {} => \E m \in S : \A k \in S : m <= k

\* Min is an element of the set it is taken of, and no element is smaller.
LEMMA MinIsLeast ==
  ASSUME LeastInNat, NEW S, S \subseteq Nat, S # {}
  PROVE  Min(S) \in S /\ \A k \in S : Min(S) <= k
  BY Zenon DEF LeastInNat, Min

\* Induction: a set that holds zero and the successors of its elements holds every
\* natural number.
LEMMA NatInduct ==
  ASSUME LeastInNat, NEW S, 0 \in S, \A n \in Nat : n \in S => n + 1 \in S
  PROVE  \A n \in Nat : n \in S
<1> SUFFICES ASSUME Nat \ S # {} PROVE FALSE
  OBVIOUS
<1>1. PICK m \in Nat \ S : \A k \in Nat \ S : m <= k
  BY Zenon DEF LeastInNat
<1>2. m - 1 \in Nat /\ m - 1 \in S
  BY <1>1
<1> QED
  BY <1>1, <1>2

-----------------------------------------------------------------------------
(* Lists *)

\* What the definition of Only computes, as a function.
Keeps(s, S, n, f) ==
  f = [k \in 0 .. n |-> IF k = 0 THEN <<>>
                        ELSE IF s[k] \in S THEN Append(f[k - 1], s[k]) ELSE f[k - 1]]

\* There is such a function for every prefix.
LEMMA KeepsExists ==
  ASSUME LeastInNat, NEW s, NEW S
  PROVE  \A n \in Nat : \E f : Keeps(s, S, n, f)
<1> DEFINE G == {n \in Nat : \E f : Keeps(s, S, n, f)}
<1>1. 0 \in G
  <2>1. Keeps(s, S, 0, [k \in 0 .. 0 |-> <<>>])
    BY DEF Keeps
  <2> QED
    BY Zenon, <2>1
<1>2. ASSUME NEW n \in Nat, n \in G PROVE n + 1 \in G
  <2>1. PICK f : Keeps(s, S, n, f)
    BY Zenon, <1>2
  <2> DEFINE g == [k \in 0 .. n + 1 |->
                     IF k <= n THEN f[k]
                     ELSE IF s[n + 1] \in S THEN Append(f[n], s[n + 1]) ELSE f[n]]
  <2>2. \A k \in 0 .. n + 1 :
          g[k] = IF k = 0 THEN <<>>
                 ELSE IF s[k] \in S THEN Append(g[k - 1], s[k]) ELSE g[k - 1]
    <3> TAKE k \in 0 .. n + 1
    <3>1. CASE k = 0
      BY <2>1, <3>1 DEF Keeps
    <3>2. CASE k # 0 /\ k <= n
      <4>1. g[k] = f[k] /\ g[k - 1] = f[k - 1]
        BY <3>2
      <4>2. f[k] = IF s[k] \in S THEN Append(f[k - 1], s[k]) ELSE f[k - 1]
        <5> DEFINE e == [j \in 0 .. n |-> IF j = 0 THEN <<>>
                           ELSE IF s[j] \in S THEN Append(f[j - 1], s[j]) ELSE f[j - 1]]
        <5>1. f = e
          BY Zenon, <2>1 DEF Keeps
        <5>2. e[k] = IF s[k] \in S THEN Append(f[k - 1], s[k]) ELSE f[k - 1]
          BY <3>2
        <5> HIDE DEF e
        <5> QED
          BY Zenon, <5>1, <5>2
      <4> QED
        BY Zenon, <3>2, <4>1, <4>2
    <3>3. CASE k = n + 1
      <4>1. g[k - 1] = f[n] /\ k # 0
        BY <3>3
      <4> QED
        BY <3>3, <4>1
    <3> QED
      BY <3>1, <3>2, <3>3
  <2>3. Keeps(s, S, n + 1, g)
    <3> DEFINE h == [k \in 0 .. n + 1 |->
                       IF k = 0 THEN <<>>
                       ELSE IF s[k] \in S THEN Append(g[k - 1], s[k]) ELSE g[k - 1]]
    <3>1. DOMAIN g = 0 .. n + 1 /\ DOMAIN h = 0 .. n + 1
      OBVIOUS
    <3>2. \A k \in 0 .. n + 1 : g[k] = h[k]
      BY Zenon, <2>2
    <3>3. g = [k \in 0 .. n + 1 |-> g[k]] /\ h = [k \in 0 .. n + 1 |-> h[k]]
      OBVIOUS
    <3> HIDE DEF g, h
    <3>4. g = h
      BY Zenon, <3>2, <3>3
    <3> QED
      BY Zenon, <3>4 DEF Keeps, h
  <2> QED
    BY <2>3
<1> HIDE DEF G
<1>3. \A n \in Nat : n \in G
  BY Zenon, <1>1, <1>2, NatInduct
<1> QED
  BY Zenon, <1>3 DEF G

\* Only is the last value of that function.
LEMMA OnlyKeeps ==
  ASSUME LeastInNat, NEW s, NEW S, Len(s) \in Nat
  PROVE  \E f : Keeps(s, S, Len(s), f) /\ Only(s, S) = f[Len(s)]
<1> DEFINE f == CHOOSE g : Keeps(s, S, Len(s), g)
<1>1. Keeps(s, S, Len(s), f)
  BY Zenon, KeepsExists
<1>2. Only(s, S) = f[Len(s)]
  BY Zenon DEF Only, Keeps
<1> QED
  BY Zenon, <1>1, <1>2

\* The elements of a list.
LEMMA RangeOf ==
  ASSUME NEW T, NEW s \in Seq(T)
  PROVE  /\ Range(s) \subseteq T
         /\ \A x : x \in Range(s) <=> \E k \in 1 .. Len(s) : s[k] = x
         /\ IsInjective(s) <=> \A j, k \in 1 .. Len(s) : s[j] = s[k] => j = k
         /\ Range(s) = {} <=> s = <<>>
<1>1. DOMAIN s = 1 .. Len(s) /\ Len(s) \in Nat
  OBVIOUS
<1>2. \A x : x \in Range(s) <=> \E k \in 1 .. Len(s) : s[k] = x
  BY Zenon, <1>1 DEF Range
<1>3. Range(s) = {} <=> s = <<>>
  <2>1. CASE s = <<>>
    BY <1>2, <2>1
  <2>2. CASE s # <<>>
    <3>1. 1 \in 1 .. Len(s)
      BY <2>2
    <3> QED
      BY Zenon, <1>2, <2>2, <3>1
  <2> QED
    BY Zenon, <2>1, <2>2
<1>4. \A k \in 1 .. Len(s) : s[k] \in T
  OBVIOUS
<1> QED
  BY Zenon, <1>1, <1>2, <1>3, <1>4 DEF IsInjective

\* One list after another.
LEMMA ConcatFacts ==
  ASSUME NEW T, NEW s \in Seq(T), NEW t \in Seq(T)
  PROVE  /\ s \o t \in Seq(T)
         /\ Range(s \o t) = Range(s) \cup Range(t)
         /\ IsInjective(s) /\ IsInjective(t) /\ Range(s) \cap Range(t) = {} => IsInjective(s \o t)
<1> DEFINE c == s \o t
<1>1. /\ c \in Seq(T) /\ Len(c) = Len(s) + Len(t) /\ Len(s) \in Nat /\ Len(t) \in Nat
      /\ \A k \in 1 .. Len(c) : c[k] = IF k <= Len(s) THEN s[k] ELSE t[k - Len(s)]
  OBVIOUS
<1> HIDE DEF c
<1>2. ASSUME NEW x PROVE x \in Range(c) <=> x \in Range(s) \cup Range(t)
  <2>1. ASSUME x \in Range(c) PROVE x \in Range(s) \cup Range(t)
    <3>1. PICK k \in 1 .. Len(c) : c[k] = x
      BY Zenon, <1>1, <2>1, RangeOf
    <3>2. CASE k <= Len(s)
      <4>1. k \in 1 .. Len(s) /\ s[k] = x
        BY <1>1, <3>1, <3>2
      <4> QED
        BY Zenon, <4>1, RangeOf
    <3>3. CASE ~(k <= Len(s))
      <4>1. k - Len(s) \in 1 .. Len(t) /\ t[k - Len(s)] = x
        BY <1>1, <3>1, <3>3
      <4> QED
        BY Zenon, <4>1, RangeOf
    <3> QED
      BY Zenon, <3>2, <3>3
  <2>2. ASSUME x \in Range(s) PROVE x \in Range(c)
    <3>1. PICK k \in 1 .. Len(s) : s[k] = x
      BY Zenon, <2>2, RangeOf
    <3>2. k \in 1 .. Len(c) /\ c[k] = x
      BY <1>1, <3>1
    <3> QED
      BY Zenon, <1>1, <3>2, RangeOf
  <2>3. ASSUME x \in Range(t) PROVE x \in Range(c)
    <3>1. PICK k \in 1 .. Len(t) : t[k] = x
      BY Zenon, <2>3, RangeOf
    <3>2. Len(s) + k \in 1 .. Len(c) /\ ~(Len(s) + k <= Len(s)) /\ (Len(s) + k) - Len(s) = k
      BY <1>1, <3>1
    <3>3. c[Len(s) + k] = x
      BY Zenon, <1>1, <3>1, <3>2
    <3> QED
      BY Zenon, <1>1, <3>2, <3>3, RangeOf
  <2> QED
    BY Zenon, <2>1, <2>2, <2>3
<1>3. ASSUME IsInjective(s), IsInjective(t), Range(s) \cap Range(t) = {}
      PROVE  IsInjective(c)
  <2>1. ASSUME NEW j \in 1 .. Len(c), NEW k \in 1 .. Len(c), c[j] = c[k] PROVE j = k
    <3>1. CASE j <= Len(s) /\ k <= Len(s)
      <4>1. j \in 1 .. Len(s) /\ k \in 1 .. Len(s) /\ s[j] = s[k]
        BY <1>1, <2>1, <3>1
      <4> QED
        BY Zenon, <1>3, <4>1, RangeOf
    <3>2. CASE ~(j <= Len(s)) /\ ~(k <= Len(s))
      <4>1. j - Len(s) \in 1 .. Len(t) /\ k - Len(s) \in 1 .. Len(t) /\ t[j - Len(s)] = t[k - Len(s)]
        BY SMTT(30), <1>1, <2>1, <3>2
      <4>2. j - Len(s) = k - Len(s)
        BY Zenon, <1>3, <4>1, RangeOf
      <4> QED
        BY <1>1, <4>2
    <3>3. CASE j <= Len(s) /\ ~(k <= Len(s))
      <4>1. j \in 1 .. Len(s) /\ k - Len(s) \in 1 .. Len(t) /\ s[j] = t[k - Len(s)]
        BY <1>1, <2>1, <3>3
      <4>2. s[j] \in Range(s) /\ t[k - Len(s)] \in Range(t)
        BY Zenon, <4>1, RangeOf
      <4> QED
        BY Zenon, <1>3, <4>1, <4>2
    <3>4. CASE ~(j <= Len(s)) /\ k <= Len(s)
      <4>1. k \in 1 .. Len(s) /\ j - Len(s) \in 1 .. Len(t)
        BY <1>1, <2>1, <3>4
      <4>2. s[k] = t[j - Len(s)]
        BY Zenon, <1>1, <2>1, <3>4
      <4>3. s[k] \in Range(s) /\ t[j - Len(s)] \in Range(t)
        BY Zenon, <4>1, RangeOf
      <4> QED
        BY Zenon, <1>3, <4>2, <4>3
    <3> QED
      BY Zenon, <3>1, <3>2, <3>3, <3>4
  <2> QED
    BY Zenon, <1>1, <2>1, RangeOf
<1> QED
  BY Zenon, <1>1, <1>2, <1>3 DEF c

\* One element put at the end of a list.
LEMMA AppendFacts ==
  ASSUME NEW T, NEW s \in Seq(T), NEW x \in T
  PROVE  /\ Append(s, x) \in Seq(T)
         /\ Range(Append(s, x)) = Range(s) \cup {x}
         /\ IsInjective(s) /\ x \notin Range(s) => IsInjective(Append(s, x))
<1> DEFINE c == Append(s, x)
<1>1. /\ c \in Seq(T) /\ Len(c) = Len(s) + 1 /\ Len(s) \in Nat
      /\ c[Len(s) + 1] = x
      /\ \A k \in 1 .. Len(s) : c[k] = s[k]
  OBVIOUS
<1> HIDE DEF c
<1>2. \A k \in 1 .. Len(c) : k \in 1 .. Len(s) \/ k = Len(s) + 1
  BY <1>1
<1>3. Len(s) + 1 \in 1 .. Len(c) /\ \A k \in 1 .. Len(s) : k \in 1 .. Len(c)
  BY <1>1
<1>4. ASSUME NEW y PROVE y \in Range(c) <=> y \in Range(s) \cup {x}
  <2>1. y \in Range(c) <=> \E k \in 1 .. Len(c) : c[k] = y
    BY Zenon, <1>1, RangeOf
  <2>2. y \in Range(s) <=> \E k \in 1 .. Len(s) : s[k] = y
    BY Zenon, RangeOf
  <2> QED
    BY <1>1, <1>2, <1>3, <2>1, <2>2, Zenon
<1>5. ASSUME IsInjective(s), x \notin Range(s) PROVE IsInjective(c)
  <2>1. \A j, k \in 1 .. Len(s) : s[j] = s[k] => j = k
    BY Zenon, <1>5, RangeOf
  <2>2. \A k \in 1 .. Len(s) : s[k] # x
    BY Zenon, <1>5, RangeOf
  <2>3. \A j, k \in 1 .. Len(c) : c[j] = c[k] => j = k
    BY <1>1, <1>2, <2>1, <2>2, Zenon
  <2> QED
    BY Zenon, <1>1, <2>3, RangeOf
<1> QED
  BY Zenon, <1>1, <1>4, <1>5 DEF c

\* The first element taken off a list.
LEMMA TailFacts ==
  ASSUME NEW T, NEW s \in Seq(T), s # <<>>
  PROVE  /\ Head(s) \in Range(s)
         /\ Tail(s) \in Seq(T)
         /\ Range(s) = Range(Tail(s)) \cup {Head(s)}
         /\ IsInjective(s) => IsInjective(Tail(s)) /\ Head(s) \notin Range(Tail(s))
<1> DEFINE t == Tail(s)
<1>1. /\ t \in Seq(T) /\ Len(t) = Len(s) - 1 /\ Len(s) \in Nat \ {0}
      /\ Head(s) = s[1]
      /\ \A k \in 1 .. Len(t) : t[k] = s[k + 1]
  OBVIOUS
<1> HIDE DEF t
<1>2. \A k \in 1 .. Len(s) : k = 1 \/ (k - 1 \in 1 .. Len(t) /\ t[k - 1] = s[k])
  <2>1. \A k \in 1 .. Len(s) : k = 1 \/ (k - 1 \in 1 .. Len(t) /\ (k - 1) + 1 = k)
    BY <1>1
  <2> QED
    BY Zenon, <1>1, <2>1
<1>3. 1 \in 1 .. Len(s) /\ \A k \in 1 .. Len(t) : k + 1 \in 1 .. Len(s) /\ k + 1 # 1
  BY <1>1
<1>4. ASSUME NEW y PROVE y \in Range(s) <=> y \in Range(t) \cup {Head(s)}
  <2>1. y \in Range(t) <=> \E k \in 1 .. Len(t) : t[k] = y
    BY Zenon, <1>1, RangeOf
  <2>2. y \in Range(s) <=> \E k \in 1 .. Len(s) : s[k] = y
    BY Zenon, RangeOf
  <2> QED
    BY <1>1, <1>2, <1>3, <2>1, <2>2, ZenonT(30)
<1>5. ASSUME IsInjective(s) PROVE IsInjective(t) /\ Head(s) \notin Range(t)
  <2>1. \A j, k \in 1 .. Len(s) : s[j] = s[k] => j = k
    BY Zenon, <1>5, RangeOf
  <2>2. \A k \in 1 .. Len(t) : t[k] # s[1]
    BY <1>1, <1>3, <2>1, ZenonT(30)
  <2>3. \A j, k \in 1 .. Len(t) : j + 1 = k + 1 => j = k
    BY <1>1
  <2>4. \A j, k \in 1 .. Len(t) : t[j] = t[k] => j = k
    BY <1>1, <1>3, <2>1, <2>3, ZenonT(30)
  <2>5. IsInjective(t)
    BY Zenon, <1>1, <2>4, RangeOf
  <2>6. Head(s) \notin Range(t)
    BY Zenon, <1>1, <2>2, RangeOf
  <2> QED
    BY Zenon, <2>5, <2>6
<1>6. Head(s) \in Range(s)
  BY Zenon, <1>4
<1> QED
  BY Zenon, <1>1, <1>4, <1>5, <1>6 DEF t

\* Filtering a list keeps its elements that pass, each as often as it was there.
LEMMA OnlyFacts ==
  ASSUME LeastInNat, NEW T, NEW s \in Seq(T), NEW S
  PROVE  /\ Only(s, S) \in Seq(T)
         /\ Range(Only(s, S)) = Range(s) \cap S
         /\ IsInjective(s) => IsInjective(Only(s, S))
<1>0. Len(s) \in Nat /\ \A k \in 1 .. Len(s) : s[k] \in T
  OBVIOUS
<1>1. PICK f : Keeps(s, S, Len(s), f) /\ Only(s, S) = f[Len(s)]
  BY Zenon, <1>0, OnlyKeeps
<1>2. /\ f[0] = <<>>
      /\ \A n \in 1 .. Len(s) : f[n] = IF s[n] \in S THEN Append(f[n - 1], s[n]) ELSE f[n - 1]
  <2> DEFINE e == [k \in 0 .. Len(s) |->
                     IF k = 0 THEN <<>>
                     ELSE IF s[k] \in S THEN Append(f[k - 1], s[k]) ELSE f[k - 1]]
  <2>1. f = e
    BY Zenon, <1>1 DEF Keeps
  <2>2. /\ e[0] = <<>>
        /\ \A n \in 1 .. Len(s) : e[n] = IF s[n] \in S THEN Append(f[n - 1], s[n]) ELSE f[n - 1]
    BY <1>0
  <2> HIDE DEF e
  <2> QED
    BY Zenon, <2>1, <2>2
<1> DEFINE Good(n) == /\ f[n] \in Seq(T)
                      /\ \A x : x \in Range(f[n]) <=> \E k \in 1 .. n : s[k] = x /\ x \in S
                      /\ IsInjective(s) => IsInjective(f[n])
           D == {n \in Nat : n <= Len(s) => Good(n)}
<1>3. 0 \in D
  <2>1. f[0] \in Seq(T) /\ Range(f[0]) = {} /\ IsInjective(f[0])
    <3>1. <<>> \in Seq(T) /\ Len(<<>>) = 0 /\ \A j, k \in 1 .. 0 : FALSE
      OBVIOUS
    <3>2. Range(<<>>) = {} /\ IsInjective(<<>>)
      BY Zenon, <3>1, RangeOf
    <3> QED
      BY Zenon, <1>2, <3>1, <3>2
  <2>2. \A k \in 1 .. 0 : FALSE
    OBVIOUS
  <2> QED
    BY Zenon, <2>1, <2>2
<1>4. ASSUME NEW n \in D PROVE n + 1 \in D
  <2>1. SUFFICES ASSUME n + 1 <= Len(s) PROVE Good(n + 1)
    OBVIOUS
  <2>2. n \in Nat /\ n <= Len(s) /\ n + 1 \in 1 .. Len(s) /\ (n + 1) - 1 = n
    BY <1>0, <2>1
  <2>3. Good(n)
    BY Zenon, <2>2
  <2>4. f[n + 1] = IF s[n + 1] \in S THEN Append(f[n], s[n + 1]) ELSE f[n]
    BY Zenon, <1>2, <2>2
  <2>5. \A k : k \in 1 .. n + 1 <=> k \in 1 .. n \/ k = n + 1
    BY <2>2
  <2>6. CASE s[n + 1] \notin S
    <3>1. f[n + 1] = f[n]
      BY Zenon, <2>4, <2>6
    <3>2. \A x : (\E k \in 1 .. n + 1 : s[k] = x /\ x \in S) <=> \E k \in 1 .. n : s[k] = x /\ x \in S
      BY <2>5, <2>6, Zenon
    <3> QED
      BY <2>3, <3>1, <3>2, Zenon
  <2>7. CASE s[n + 1] \in S
    <3>1. f[n + 1] = Append(f[n], s[n + 1]) /\ s[n + 1] \in T
      BY Zenon, <1>0, <2>2, <2>4, <2>7
    <3>2. f[n + 1] \in Seq(T) /\ Range(f[n + 1]) = Range(f[n]) \cup {s[n + 1]}
      BY SMTT(30), <2>3, <3>1, AppendFacts
    <3>3. \A x : x \in Range(f[n + 1]) <=> \E k \in 1 .. n + 1 : s[k] = x /\ x \in S
      BY <2>3, <2>5, <2>7, <3>2, Zenon
    <3>4. ASSUME IsInjective(s) PROVE IsInjective(f[n + 1])
      <4>1. s[n + 1] \notin Range(f[n])
        <5>1. \A j, k \in 1 .. Len(s) : s[j] = s[k] => j = k
          BY Zenon, <3>4, RangeOf
        <5>2. \A k \in 1 .. n : k \in 1 .. Len(s) /\ k # n + 1
          BY <1>0, <2>2
        <5>3. s[n + 1] \in Range(f[n]) => \E k \in 1 .. n : s[k] = s[n + 1]
          BY Zenon, <2>3
        <5> QED
          BY Zenon, <2>2, <5>1, <5>2, <5>3
      <4> QED
        BY SMTT(30), <2>3, <3>1, <3>4, <4>1, AppendFacts
    <3> QED
      BY Zenon, <3>2, <3>3, <3>4
  <2> QED
    BY Zenon, <2>6, <2>7
<1>5. Len(s) \in D
  <2> HIDE DEF D
  <2>1. \A n \in Nat : n \in D
    BY Zenon, <1>3, <1>4, NatInduct
  <2> QED
    BY Zenon, <1>0, <2>1
<1>6. Good(Len(s))
  BY <1>0, <1>5
<1> QED
  BY ZenonT(30), <1>1, <1>6, RangeOf

\* A list of one element.
LEMMA SingleFacts ==
  ASSUME NEW T, NEW x \in T
  PROVE  <<x>> \in Seq(T) /\ Range(<<x>>) = {x} /\ IsInjective(<<x>>)
<1>0. <<x>> \in Seq(T) /\ Len(<<x>>) = 1 /\ <<x>>[1] = x
  OBVIOUS
<1>1. PICK s : s = <<x>> /\ s \in Seq(T) /\ Len(s) = 1 /\ s[1] = x
  BY Zenon, <1>0
<1>2. \A k : k \in 1 .. 1 <=> k = 1
  OBVIOUS
<1>3. \A y : y \in Range(s) <=> y = x
  <2>1. \A y : y \in Range(s) <=> \E k \in 1 .. Len(s) : s[k] = y
    BY ZenonT(30), <1>1, RangeOf
  <2> QED
    BY <1>1, <1>2, <2>1, Zenon
<1>4. \A j, k \in 1 .. Len(s) : j = k
  BY <1>1
<1>5. IsInjective(s)
  BY ZenonT(30), <1>1, <1>4, RangeOf
<1> QED
  BY Zenon, <1>1, <1>3, <1>5

-----------------------------------------------------------------------------
(* What schedule and thread_yield do to the run queue, whoever calls them. *)

\* The states of the threads and the run queue agree.
QueueExact(st, q) ==
  /\ \A t \in Thread \ {Idle} : st[t] = "ready" <=> t \in Range(q)
  /\ Idle \notin Range(q)
  /\ IsInjective(q)

SchedTypes ==
  /\ status \in [Thread -> Statuses]
  /\ ready_list \in Seq(Thread)
  /\ current \in Thread

\* schedule, entered when nobody is in the running state, leaves the run queue
\* exact and one thread running: the first of the run queue, or the idle thread if
\* there is none.
LEMMA ScheduleExact ==
  ASSUME NEW st \in [Thread -> Statuses], NEW q \in Seq(Thread),
         QueueExact(st, q),
         \A t \in Thread : st[t] # "running",
         schedule(st, q)
  PROVE  /\ SchedTypes'
         /\ RunQueueExact'
         /\ \A t \in Thread : t # current' => status'[t] = st[t]
         /\ status'[current'] = "running"
         /\ current' # Idle => st[current'] = "ready"
         /\ current' = Idle => q = <<>> /\ ready_list' = <<>>
<1> USE SchedAssumption
<1> DEFINE next == IF q = <<>> THEN Idle ELSE Head(q)
<1>1. /\ current' = next /\ status' = [st EXCEPT ![next] = "running"]
      /\ ready_list' = IF q = <<>> THEN q ELSE Tail(q)
  BY Zenon DEF schedule
<1>2. next \in Thread /\ (q # <<>> => next \in Range(q))
  BY Zenon, TailFacts, RangeOf
<1>3. q # <<>> => next # Idle /\ st[next] = "ready"
  BY Zenon, <1>2 DEF QueueExact
<1>4. /\ ready_list' \in Seq(Thread) /\ IsInjective(ready_list')
      /\ \A t : t \in Range(ready_list') <=> t \in Range(q) /\ t # next
  <2>1. CASE q = <<>>
    <3>1. Range(q) = {}
      BY Zenon, <2>1, RangeOf
    <3> QED
      BY Zenon, <1>1, <2>1, <3>1 DEF QueueExact
  <2>2. CASE q # <<>>
    <3>1. /\ Tail(q) \in Seq(Thread) /\ IsInjective(Tail(q))
          /\ Range(q) = Range(Tail(q)) \cup {Head(q)} /\ Head(q) \notin Range(Tail(q))
      BY Zenon, <2>2, TailFacts DEF QueueExact
    <3> QED
      BY Zenon, <1>1, <2>2, <3>1
  <2> QED
    BY Zenon, <2>1, <2>2
<1> HIDE DEF next
<1>5. /\ status' \in [Thread -> Statuses] /\ status'[next] = "running"
      /\ \A t \in Thread : t # next => status'[t] = st[t]
  BY Zenon, <1>1, <1>2 DEF Statuses
<1>6. SchedTypes'
  BY Zenon, <1>1, <1>2, <1>4, <1>5 DEF SchedTypes
<1>7. RunQueueExact'
  <2>1. \A t \in Thread \ {Idle} : status'[t] = "ready" <=> t \in Range(ready_list')
    BY Zenon, <1>4, <1>5 DEF QueueExact
  <2>2. Idle \notin Range(ready_list')
    BY Zenon, <1>4 DEF QueueExact
  <2>3. \A t \in Thread : status'[t] = "running" <=> t = current'
    BY Zenon, <1>1, <1>5
  <2> QED
    BY Zenon, <1>4, <2>1, <2>2, <2>3 DEF RunQueueExact
<1>8. current' = Idle => q = <<>> /\ ready_list' = <<>>
  BY Zenon, <1>1, <1>3
<1>9. current' # Idle => st[current'] = "ready"
  BY Zenon, <1>1, <1>3 DEF next
<1> QED
  BY Zenon, <1>1, <1>5, <1>6, <1>7, <1>8, <1>9

\* The run queue and the states without the running thread, at entry of
\* thread_block, thread_exit and their like.
LEMMA LeavesExact ==
  ASSUME SchedTypes, RunQueueExact,
         NEW s \in {"none", "blocked", "dying"}, NEW st, st = [status EXCEPT ![current] = s]
  PROVE  /\ st \in [Thread -> Statuses]
         /\ QueueExact(st, ready_list)
         /\ \A t \in Thread : st[t] # "running"
         /\ st[current] = s
         /\ \A t \in Thread : t # current => st[t] = status[t]
<1>1. /\ st \in [Thread -> Statuses] /\ st[current] = s
      /\ \A t \in Thread : t # current => st[t] = status[t]
  BY Zenon DEF SchedTypes, Statuses
<1>2. \A t \in Thread : st[t] # "running"
  BY Zenon, <1>1 DEF RunQueueExact
<1>3. QueueExact(st, ready_list)
  <2>1. ASSUME NEW t \in Thread \ {Idle} PROVE st[t] = "ready" <=> t \in Range(ready_list)
    <3>1. CASE t = current
      BY Zenon, <1>1, <3>1 DEF RunQueueExact
    <3>2. CASE t # current
      BY Zenon, <1>1, <3>2 DEF RunQueueExact
    <3> QED
      BY Zenon, <3>1, <3>2
  <2> QED
    BY Zenon, <2>1 DEF QueueExact, RunQueueExact
<1> QED
  BY Zenon, <1>1, <1>2, <1>3

\* thread_unblock of threads that are blocked, none of them the idle thread.
LEMMA UnblocksExact ==
  ASSUME SchedTypes, RunQueueExact,
         NEW ts \in Seq(Thread), IsInjective(ts),
         \A t \in Range(ts) : status[t] = "blocked" /\ t # Idle,
         NEW st, st = Unblocked(ts), NEW q, q = ReadyAlso(ts)
  PROVE  /\ st \in [Thread -> Statuses] /\ q \in Seq(Thread)
         /\ QueueExact(st, q)
         /\ \A t \in Thread : st[t] = IF t \in Range(ts) THEN "ready" ELSE status[t]
         /\ \A t \in Thread : st[t] = "running" <=> t = current
<1>1. /\ st \in [Thread -> Statuses]
      /\ \A t \in Thread : st[t] = IF t \in Range(ts) THEN "ready" ELSE status[t]
  BY Zenon DEF Unblocked, SchedTypes, Statuses
<1>2. Range(ts) \subseteq Thread
  BY Zenon, RangeOf
<1>3. Range(ready_list) \cap Range(ts) = {}
  BY Zenon, <1>2 DEF RunQueueExact
<1>4. q \in Seq(Thread) /\ Range(q) = Range(ready_list) \cup Range(ts) /\ IsInjective(q)
  BY <1>3, ConcatFacts DEF ReadyAlso, RunQueueExact, SchedTypes
<1>5. QueueExact(st, q)
  BY Zenon, <1>1, <1>2, <1>4 DEF QueueExact, RunQueueExact
<1>6. \A t \in Thread : st[t] = "running" <=> t = current
  BY Zenon, <1>1, <1>2 DEF RunQueueExact
<1> QED
  BY Zenon, <1>1, <1>4, <1>5, <1>6

\* thread_yield: the running thread goes to the end of the run queue, unless it is
\* the idle thread, and the first one runs.
LEMMA YieldExact ==
  ASSUME SchedAssumption, current \in Thread,
         NEW st \in [Thread -> Statuses], NEW q \in Seq(Thread),
         QueueExact(st, q),
         \A t \in Thread : st[t] = "running" <=> t = current,
         YieldFrom(st, q)
  PROVE  /\ SchedTypes'
         /\ RunQueueExact'
         /\ \A t \in Thread : t # current => (status'[t] = st[t] \/ st[t] = "ready" \/ t = Idle)
         /\ \A t \in Thread : t \in {current, current'} => status'[t] \in {"ready", "running"}
         /\ current' = Idle => current = Idle /\ ready_list' = <<>>
         /\ \A t \in Thread : t # current' => status'[t] = IF t = current THEN "ready" ELSE st[t]
<1> DEFINE sy == [st EXCEPT ![current] = "ready"]
           qy == IF current # Idle THEN Append(q, current) ELSE q
<1>1. schedule(sy, qy)
  BY Zenon DEF YieldFrom, schedule
<1>2. /\ sy \in [Thread -> Statuses] /\ sy[current] = "ready"
      /\ \A t \in Thread : t # current => sy[t] = st[t]
  BY Zenon DEF Statuses
<1>3. current # Idle => current \notin Range(q)
  BY Zenon DEF QueueExact
<1>4. /\ qy \in Seq(Thread) /\ IsInjective(qy)
      /\ Range(qy) = Range(q) \cup (IF current # Idle THEN {current} ELSE {})
  BY Zenon, <1>3, AppendFacts DEF QueueExact
<1>5. current # Idle => qy # <<>>
  OBVIOUS
<1> HIDE DEF sy, qy
<1>6. QueueExact(sy, qy)
  <2>1. \A t \in Thread \ {Idle} : sy[t] = "ready" <=> t \in Range(qy)
    BY Zenon, <1>2, <1>4 DEF QueueExact
  <2> QED
    BY Zenon, <1>4, <2>1 DEF QueueExact
<1>7. \A t \in Thread : sy[t] # "running"
  BY Zenon, <1>2
<1>8. /\ SchedTypes'
      /\ RunQueueExact'
      /\ \A t \in Thread : t # current' => status'[t] = sy[t]
      /\ status'[current'] = "running"
      /\ current' # Idle => sy[current'] = "ready"
      /\ current' = Idle => qy = <<>> /\ ready_list' = <<>>
  BY Zenon, <1>1, <1>2, <1>4, <1>6, <1>7, ScheduleExact
<1> QED
  BY Zenon, <1>2, <1>5, <1>8

-----------------------------------------------------------------------------
(* Threads that are created, sleep and exit *)

\* What a thread can be doing.
Stage == {<<"run">>, <<"sleep">>} \cup ({"tid", "unblock"} \X Thread)

ThreadsTypes ==
  /\ SchedTypes
  /\ all_list \in Seq(Thread)
  /\ sleep_list \in Seq(Thread)
  /\ wakeup_tick \in [Thread -> Int] /\ start \in [Thread -> Int]
  /\ next_tick_to_wakeup \in Int
  /\ ticks \in 0 .. MaxTicks
  /\ pc \in [Thread -> Stage]

\* t is in thread_create and has not yet put the new thread u on the run queue.
Creates(t, u) == pc[t] = <<"tid", u>> \/ pc[t] = <<"unblock", u>>

\* A thread under construction is blocked, is nobody else's and does not sleep.
Newborns ==
  /\ \A t, u \in Thread : Creates(t, u) =>
       status[u] = "blocked" /\ u # Idle /\ u \notin Range(sleep_list)
  /\ \A t, v, u \in Thread : Creates(t, u) /\ Creates(v, u) => t = v

\* The idle thread makes no calls, and stays.
IdleIdles == pc[Idle] = <<"run">> /\ status[Idle] \notin {"none", "dying"}

\* Sleepers are blocked.
Sleepers ==
  /\ IsInjective(sleep_list)
  /\ \A t \in Range(sleep_list) : status[t] = "blocked" /\ t # Idle

\* Nobody asks to sleep to the end of time.
StartsBelow == \A t \in Thread : start[t] < INT64_MAX /\ wakeup_tick[t] < INT64_MAX

\* next_tick_to_wakeup is the least tick that a sleeper waits for.
TickLeast ==
  /\ sleep_list = <<>> => next_tick_to_wakeup = INT64_MAX
  /\ sleep_list # <<>> => \E t \in Range(sleep_list) : wakeup_tick[t] = next_tick_to_wakeup
  /\ \A t \in Range(sleep_list) : next_tick_to_wakeup <= wakeup_tick[t]
  /\ next_tick_to_wakeup <= INT64_MAX

\* all_list has every thread that exists, once.
AllListExact ==
  /\ IsInjective(all_list)
  /\ \A t \in Thread : t \in Range(all_list) <=> status[t] \notin {"none", "dying"}

ThreadsInv ==
  /\ ThreadsTypes /\ RunQueueExact /\ Newborns /\ IdleIdles /\ Sleepers
  /\ StartsBelow /\ TickLeast /\ NoIdleWhileReady /\ AllListExact

\* The stages differ from each other.
LEMMA Stages ==
  /\ <<"run">> \in Stage /\ <<"sleep">> \in Stage /\ <<"run">> # <<"sleep">>
  /\ \A u \in Thread : <<"tid", u>> \in Stage /\ <<"unblock", u>> \in Stage
  /\ \A u, v : /\ <<"run">> # <<"tid", u>> /\ <<"run">> # <<"unblock", u>>
               /\ <<"sleep">> # <<"tid", u>> /\ <<"sleep">> # <<"unblock", u>>
               /\ <<"tid", u>> # <<"unblock", v>>
               /\ <<"tid", u>> = <<"tid", v>> => u = v
               /\ <<"unblock", u>> = <<"unblock", v>> => u = v
<1>1. /\ <<"run">>[1] = "run" /\ <<"sleep">>[1] = "sleep"
      /\ \A u : <<"tid", u>>[1] = "tid" /\ <<"unblock", u>>[1] = "unblock"
  OBVIOUS
<1>2. \A u, v : /\ <<"tid", u>> = <<"tid", v>> => u = v
                /\ <<"unblock", u>> = <<"unblock", v>> => u = v
  OBVIOUS
<1>3. \A u \in Thread : <<"tid", u>> \in Stage /\ <<"unblock", u>> \in Stage
  BY Zenon DEF Stage
<1>4. <<"run">> \in Stage /\ <<"sleep">> \in Stage
  BY Zenon DEF Stage
<1>5. \A u, v : /\ <<"run">> # <<"tid", u>> /\ <<"run">> # <<"unblock", u>>
                /\ <<"sleep">> # <<"tid", u>> /\ <<"sleep">> # <<"unblock", u>>
                /\ <<"tid", u>> # <<"unblock", v>>
  <2> TAKE u, v
  <2>1. <<"tid", u>>[1] = "tid" /\ <<"unblock", u>>[1] = "unblock" /\ <<"unblock", v>>[1] = "unblock"
    BY Zenon, <1>1
  <2> QED
    BY Zenon, <1>1, <2>1
<1>6. <<"run">> # <<"sleep">>
  BY Zenon, <1>1
<1> QED
  BY Zenon, <1>2, <1>3, <1>4, <1>5, <1>6

\* What schedule keeps: blocked threads other than the idle one, and who exists.
LEMMA ScheduleKeeps ==
  ASSUME NEW st \in [Thread -> Statuses], NEW q \in Seq(Thread),
         QueueExact(st, q), \A t \in Thread : st[t] # "running",
         st[Idle] \notin {"none", "dying"},
         schedule(st, q)
  PROVE  /\ \A t \in Thread \ {Idle} : st[t] = "blocked" => status'[t] = "blocked"
         /\ \A t \in Thread : status'[t] \in {"none", "dying"} <=> st[t] \in {"none", "dying"}
<1>1. /\ \A t \in Thread : t # current' => status'[t] = st[t]
      /\ status'[current'] = "running"
      /\ current' # Idle => st[current'] = "ready"
  BY Zenon, ScheduleExact
<1>2. \A t \in Thread \ {Idle} : st[t] = "blocked" => status'[t] = "blocked"
  BY Zenon, <1>1
<1>3. \A t \in Thread : status'[t] \in {"none", "dying"} <=> st[t] \in {"none", "dying"}
  BY Zenon, <1>1
<1> QED
  BY Zenon, <1>2, <1>3

\* A step in which no thread starts or ends a call or a sleep, and no thread that is
\* blocked is made ready.
LEMMA NobodySleeps ==
  ASSUME ThreadsInv, UNCHANGED <<sleepVars, pc, start>>,
         \A t \in Thread \ {Idle} : status[t] = "blocked" => status'[t] = "blocked",
         status'[Idle] \notin {"none", "dying"}
  PROVE  Newborns' /\ IdleIdles' /\ Sleepers' /\ StartsBelow' /\ TickLeast'
<1>1. /\ sleep_list' = sleep_list /\ wakeup_tick' = wakeup_tick /\ pc' = pc /\ start' = start
      /\ next_tick_to_wakeup' = next_tick_to_wakeup
  BY Zenon DEF sleepVars
<1>2. Range(sleep_list) \subseteq Thread
  BY Zenon, RangeOf DEF ThreadsInv, ThreadsTypes
<1>3. Newborns'
  BY SMTT(30), <1>1 DEF ThreadsInv, Newborns, Creates
<1>4. IdleIdles'
  BY Zenon, <1>1 DEF ThreadsInv, IdleIdles
<1>5. Sleepers'
  BY Zenon, <1>1, <1>2 DEF ThreadsInv, Sleepers
<1>6. StartsBelow' /\ TickLeast'
  BY Zenon, <1>1 DEF ThreadsInv, StartsBelow, TickLeast
<1> QED
  BY Zenon, <1>3, <1>4, <1>5, <1>6

\* thread_exit keeps the invariant.
LEMMA ThreadExitInv ==
  ASSUME LeastInNat, ThreadsInv, thread_exit
  PROVE  ThreadsInv'
<1> USE SchedAssumption
<1>1. /\ current # Idle /\ pc[current] = <<"run">>
      /\ all_list' = Only(all_list, Thread \ {current})
      /\ schedule(Exited(current), ready_list)
      /\ UNCHANGED <<sleepVars, ticks, pc, start>>
  BY Zenon DEF thread_exit, Calls, localVars
<1>2. SchedTypes /\ RunQueueExact /\ current \in Thread
  BY Zenon DEF ThreadsInv, ThreadsTypes, SchedTypes
<1>3. PICK s \in {"none", "dying"} : s = IF current = Main THEN "dying" ELSE "none"
  OBVIOUS
<1>4. PICK st : st = [status EXCEPT ![current] = s]
  BY Zenon
<1>5. st = Exited(current)
  BY Zenon, <1>3, <1>4 DEF Exited
<1>6. schedule(st, ready_list)
  BY Zenon, <1>1, <1>5 DEF schedule
<1>7. PICK q : q = ready_list
  OBVIOUS
<1>8. /\ st \in [Thread -> Statuses] /\ QueueExact(st, q) /\ \A t \in Thread : st[t] # "running"
      /\ st[current] = s /\ \A t \in Thread : t # current => st[t] = status[t]
  BY ZenonT(30), <1>2, <1>3, <1>4, <1>7, LeavesExact
<1>9. st[Idle] \notin {"none", "dying"} /\ q \in Seq(Thread) /\ schedule(st, q)
  BY Zenon, <1>1, <1>2, <1>6, <1>7, <1>8 DEF ThreadsInv, IdleIdles, SchedTypes, schedule
<1>10. /\ SchedTypes' /\ RunQueueExact'
       /\ current' = Idle => ready_list' = <<>>
  BY Zenon, <1>8, <1>9, ScheduleExact
<1>11. /\ \A t \in Thread \ {Idle} : st[t] = "blocked" => status'[t] = "blocked"
       /\ \A t \in Thread : status'[t] \in {"none", "dying"} <=> st[t] \in {"none", "dying"}
  BY Zenon, <1>8, <1>9, ScheduleKeeps
<1>12. \A t \in Thread : status[t] = "blocked" => t # current
  BY Zenon, <1>2 DEF RunQueueExact
<1>13. /\ \A t \in Thread \ {Idle} : status[t] = "blocked" => status'[t] = "blocked"
       /\ status'[Idle] \notin {"none", "dying"}
  BY Zenon, <1>8, <1>9, <1>11, <1>12
<1>14. Newborns' /\ IdleIdles' /\ Sleepers' /\ StartsBelow' /\ TickLeast'
  BY Zenon, <1>1, <1>13, NobodySleeps
<1>15. /\ all_list' \in Seq(Thread) /\ IsInjective(all_list')
       /\ Range(all_list') = Range(all_list) \cap (Thread \ {current})
  BY Zenon, <1>1, OnlyFacts DEF ThreadsInv, ThreadsTypes, AllListExact
<1>16. AllListExact'
  BY Zenon, <1>2, <1>3, <1>8, <1>11, <1>15 DEF ThreadsInv, AllListExact
<1>17. ThreadsTypes'
  BY Zenon, <1>1, <1>10, <1>15 DEF ThreadsInv, ThreadsTypes, sleepVars
<1>18. NoIdleWhileReady'
  BY Zenon, <1>10 DEF NoIdleWhileReady
<1> QED
  BY Zenon, <1>10, <1>14, <1>16, <1>17, <1>18 DEF ThreadsInv

\* thread_yield keeps the invariant.
LEMMA ThreadYieldInv ==
  ASSUME ThreadsInv, thread_yield
  PROVE  ThreadsInv'
<1> USE SchedAssumption
<1>1. /\ current # Idle /\ YieldFrom(status, ready_list)
      /\ UNCHANGED <<threadVars, sleepVars, ticks, pc, start>>
  BY Zenon DEF thread_yield, Calls, localVars
<1>2. SchedTypes /\ RunQueueExact /\ current \in Thread
  BY Zenon DEF ThreadsInv, ThreadsTypes, SchedTypes
<1>3. PICK st, q : st = status /\ q = ready_list
  OBVIOUS
<1>4. /\ st \in [Thread -> Statuses] /\ q \in Seq(Thread)
      /\ QueueExact(st, q) /\ \A t \in Thread : st[t] = "running" <=> t = current
      /\ YieldFrom(st, q)
  BY Zenon, <1>1, <1>2, <1>3 DEF SchedTypes, QueueExact, RunQueueExact, YieldFrom, schedule
<1>5. /\ SchedTypes' /\ RunQueueExact'
      /\ \A t \in Thread : t # current => (status'[t] = st[t] \/ st[t] = "ready" \/ t = Idle)
      /\ \A t \in Thread : t \in {current, current'} => status'[t] \in {"ready", "running"}
      /\ current' = Idle => current = Idle
      /\ \A t \in Thread : t # current' => status'[t] = IF t = current THEN "ready" ELSE st[t]
  BY Zenon, <1>2, <1>4, YieldExact
<1>6. /\ \A t \in Thread \ {Idle} : status[t] = "blocked" => status'[t] = "blocked"
      /\ \A t \in Thread : status'[t] \in {"none", "dying"} <=> status[t] \in {"none", "dying"}
  BY SMTT(30), <1>2, <1>3, <1>4, <1>5 DEF RunQueueExact, ThreadsInv, IdleIdles
<1>7. Newborns' /\ IdleIdles' /\ Sleepers' /\ StartsBelow' /\ TickLeast'
  BY Zenon, <1>1, <1>6, NobodySleeps DEF ThreadsInv, IdleIdles
<1>8. AllListExact' /\ ThreadsTypes'
  BY Zenon, <1>1, <1>5, <1>6 DEF ThreadsInv, AllListExact, ThreadsTypes, sleepVars, threadVars
<1>9. NoIdleWhileReady'
  BY Zenon, <1>1, <1>5 DEF NoIdleWhileReady
<1> QED
  BY Zenon, <1>5, <1>7, <1>8, <1>9 DEF ThreadsInv

\* The idle thread's loop keeps the invariant.
LEMMA IdleInv ==
  ASSUME ThreadsInv, idle
  PROVE  ThreadsInv'
<1> USE SchedAssumption
<1>1. /\ current = Idle /\ schedule([status EXCEPT ![current] = "blocked"], ready_list)
      /\ UNCHANGED <<threadVars, sleepVars, ticks, pc, start>>
  BY Zenon DEF idle, thread_block
<1>2. SchedTypes /\ RunQueueExact /\ current \in Thread
  BY Zenon DEF ThreadsInv, ThreadsTypes, SchedTypes
<1>3. PICK st, q : st = [status EXCEPT ![current] = "blocked"] /\ q = ready_list
  BY Zenon
<1>4. /\ st \in [Thread -> Statuses] /\ QueueExact(st, q) /\ \A t \in Thread : st[t] # "running"
      /\ st[current] = "blocked" /\ \A t \in Thread : t # current => st[t] = status[t]
  <2>1. "blocked" \in {"none", "blocked", "dying"}
    OBVIOUS
  <2> QED
    BY ZenonT(30), <1>2, <1>3, <2>1, LeavesExact
<1>5. st[Idle] \notin {"none", "dying"} /\ q \in Seq(Thread) /\ schedule(st, q)
  BY Zenon, <1>1, <1>2, <1>3, <1>4 DEF SchedTypes, schedule
<1>6. /\ SchedTypes' /\ RunQueueExact'
      /\ current' = Idle => ready_list' = <<>>
  BY Zenon, <1>4, <1>5, ScheduleExact
<1>7. /\ \A t \in Thread \ {Idle} : st[t] = "blocked" => status'[t] = "blocked"
      /\ \A t \in Thread : status'[t] \in {"none", "dying"} <=> st[t] \in {"none", "dying"}
  BY Zenon, <1>4, <1>5, ScheduleKeeps
<1>8. /\ \A t \in Thread \ {Idle} : status[t] = "blocked" => status'[t] = "blocked"
      /\ \A t \in Thread : status'[t] \in {"none", "dying"} <=> status[t] \in {"none", "dying"}
  BY Zenon, <1>1, <1>2, <1>4, <1>7 DEF RunQueueExact
<1>9. Newborns' /\ IdleIdles' /\ Sleepers' /\ StartsBelow' /\ TickLeast'
  BY Zenon, <1>1, <1>8, NobodySleeps DEF ThreadsInv, IdleIdles
<1>10. AllListExact' /\ ThreadsTypes'
  BY Zenon, <1>1, <1>6, <1>8 DEF ThreadsInv, AllListExact, ThreadsTypes, sleepVars, threadVars
<1>11. NoIdleWhileReady'
  BY Zenon, <1>6 DEF NoIdleWhileReady
<1> QED
  BY Zenon, <1>6, <1>9, <1>10, <1>11 DEF ThreadsInv

\* timer_sleep keeps the invariant.
LEMMA TimerSleepInv ==
  ASSUME ThreadsInv, NEW d \in Durations, timer_sleep(d)
  PROVE  ThreadsInv'
<1> USE SchedAssumption, ThreadsAssumption
<1>1. /\ current # Idle /\ pc[current] = <<"run">> /\ current \in Thread
      /\ start' = [start EXCEPT ![current] = ticks + d]
      /\ pc' = [pc EXCEPT ![current] = <<"sleep">>]
      /\ UNCHANGED <<schedVars, threadVars, sleepVars, ticks, thread_ticks, halted>>
  BY Zenon DEF timer_sleep, Calls, ThreadsInv, ThreadsTypes, SchedTypes
<1>2. ticks + d \in Int /\ ticks + d < INT64_MAX
  BY DEF ThreadsInv, ThreadsTypes
<1>3. pc' \in [Thread -> Stage] /\ pc'[current] = <<"sleep">> /\ \A t \in Thread : t # current => pc'[t] = pc[t]
  BY Zenon, <1>1, Stages DEF ThreadsInv, ThreadsTypes
<1>4. \A t, u \in Thread : (pc'[t] = <<"tid", u>> \/ pc'[t] = <<"unblock", u>>) => Creates(t, u)
  BY Zenon, <1>3, Stages DEF Creates
<1>5. ThreadsTypes'
  BY Zenon, <1>1, <1>2, <1>3 DEF ThreadsInv, ThreadsTypes, SchedTypes, schedVars, threadVars, sleepVars
<1>6. Newborns'
  BY SMTT(30), <1>1, <1>4 DEF ThreadsInv, Newborns, Creates, schedVars, sleepVars
<1>7. IdleIdles'
  BY Zenon, <1>1, <1>3 DEF ThreadsInv, IdleIdles, schedVars
<1>8. StartsBelow'
  BY Zenon, <1>1, <1>2 DEF ThreadsInv, StartsBelow, ThreadsTypes, sleepVars
<1> QED
  BY Zenon, <1>1, <1>5, <1>6, <1>7, <1>8
  DEF ThreadsInv, Sleepers, TickLeast, RunQueueExact, NoIdleWhileReady, AllListExact, schedVars, threadVars,
      sleepVars

\* palloc_get_page and init_thread, at the start of thread_create, keep the invariant.
LEMMA InitThreadInv ==
  ASSUME ThreadsInv, NEW u \in Thread, InitThread(u)
  PROVE  ThreadsInv'
<1> USE SchedAssumption
<1>1. /\ current # Idle /\ pc[current] = <<"run">> /\ current \in Thread
      /\ status[u] = "none"
      /\ status' = [status EXCEPT ![u] = "blocked"]
      /\ all_list' = Append(all_list, u)
      /\ wakeup_tick' = [wakeup_tick EXCEPT ![u] = 0]
      /\ pc' = [pc EXCEPT ![current] = <<"tid", u>>, ![u] = <<"run">>]
      /\ UNCHANGED <<ready_list, current, sleep_list, next_tick_to_wakeup, ticks, halted, start>>
  BY Zenon DEF InitThread, Calls, ThreadsInv, ThreadsTypes, SchedTypes
<1>2. u # current /\ u # Idle /\ u \notin Range(sleep_list) /\ u \notin Range(ready_list)
  BY Zenon, <1>1 DEF ThreadsInv, RunQueueExact, Sleepers, IdleIdles
<1>3. /\ status' \in [Thread -> Statuses] /\ status'[u] = "blocked"
      /\ \A t \in Thread : t # u => status'[t] = status[t]
  BY Zenon, <1>1 DEF ThreadsInv, ThreadsTypes, SchedTypes, Statuses
<1>4. /\ pc' \in [Thread -> Stage] /\ pc'[current] = <<"tid", u>> /\ pc'[u] = <<"run">>
      /\ \A t \in Thread : t # current /\ t # u => pc'[t] = pc[t]
  BY Zenon, <1>1, <1>2, Stages DEF ThreadsInv, ThreadsTypes
<1>5. /\ all_list' \in Seq(Thread) /\ Range(all_list') = Range(all_list) \cup {u}
      /\ IsInjective(all_list')
  <2>1. u \notin Range(all_list)
    BY Zenon, <1>1 DEF ThreadsInv, AllListExact
  <2> QED
    BY SMTT(30), <1>1, <2>1, AppendFacts DEF ThreadsInv, AllListExact, ThreadsTypes
<1>6. /\ wakeup_tick' \in [Thread -> Int] /\ \A t \in Thread : t # u => wakeup_tick'[t] = wakeup_tick[t]
  BY SMTT(30), <1>1 DEF ThreadsInv, ThreadsTypes
<1>7. Range(sleep_list) \subseteq Thread
  BY Zenon, RangeOf DEF ThreadsInv, ThreadsTypes
<1>8. ThreadsTypes'
  BY Zenon, <1>1, <1>3, <1>4, <1>5, <1>6 DEF ThreadsInv, ThreadsTypes, SchedTypes
<1>9. RunQueueExact'
  BY Zenon, <1>1, <1>2, <1>3 DEF ThreadsInv, RunQueueExact
<1>10. Newborns'
  <2>1. \A t, v \in Thread :
          (pc'[t] = <<"tid", v>> \/ pc'[t] = <<"unblock", v>>) =>
             (t = current /\ v = u) \/ (t # current /\ v # u /\ Creates(t, v))
    <3> SUFFICES ASSUME NEW t \in Thread, NEW v \in Thread,
                        pc'[t] = <<"tid", v>> \/ pc'[t] = <<"unblock", v>>
                 PROVE  (t = current /\ v = u) \/ (t # current /\ v # u /\ Creates(t, v))
      BY Zenon
    <3>1. CASE t = current
      BY Zenon, <1>4, <3>1, Stages
    <3>2. CASE t = u
      BY Zenon, <1>4, <3>2, Stages
    <3>3. CASE t # current /\ t # u
      <4>1. Creates(t, v)
        BY Zenon, <1>4, <3>3 DEF Creates
      <4>2. v # u
        BY Zenon, <1>1, <4>1 DEF ThreadsInv, Newborns
      <4> QED
        BY Zenon, <3>3, <4>1, <4>2
    <3> QED
      BY Zenon, <3>1, <3>2, <3>3
  <2>2. \A t, v \in Thread : (pc'[t] = <<"tid", v>> \/ pc'[t] = <<"unblock", v>>) =>
          status'[v] = "blocked" /\ v # Idle /\ v \notin Range(sleep_list')
    BY ZenonT(30), <1>1, <1>2, <1>3, <2>1 DEF ThreadsInv, Newborns
  <2>3. \A t, w, v \in Thread :
          (pc'[t] = <<"tid", v>> \/ pc'[t] = <<"unblock", v>>)
            /\ (pc'[w] = <<"tid", v>> \/ pc'[w] = <<"unblock", v>>) => t = w
    BY Zenon, <2>1 DEF ThreadsInv, Newborns
  <2> QED
    BY Zenon, <2>2, <2>3 DEF Newborns, Creates
<1>11. IdleIdles'
  BY Zenon, <1>1, <1>2, <1>3, <1>4 DEF ThreadsInv, IdleIdles
<1>12. Sleepers'
  BY Zenon, <1>1, <1>2, <1>3, <1>7 DEF ThreadsInv, Sleepers
<1>13. StartsBelow' /\ NoIdleWhileReady'
  <2>1. \A t \in Thread : wakeup_tick'[t] < INT64_MAX
    BY SMTT(30), <1>1, ThreadsAssumption DEF ThreadsInv, ThreadsTypes, StartsBelow
  <2> QED
    BY Zenon, <1>1, <2>1 DEF ThreadsInv, StartsBelow, NoIdleWhileReady
<1>14. TickLeast'
  BY Zenon, <1>1, <1>2, <1>6, <1>7 DEF ThreadsInv, TickLeast
<1>15. AllListExact'
  BY Zenon, <1>1, <1>3, <1>5 DEF ThreadsInv, AllListExact
<1> QED
  BY Zenon, <1>8, <1>9, <1>10, <1>11, <1>12, <1>13, <1>14, <1>15 DEF ThreadsInv

\* allocate_tid keeps the invariant.
LEMMA AllocateTidInv ==
  ASSUME ThreadsInv, NEW u \in Thread, allocate_tid(u)
  PROVE  ThreadsInv'
<1> USE SchedAssumption
<1>1. /\ pc[current] = <<"tid", u>> /\ current \in Thread
      /\ pc' = [pc EXCEPT ![current] = <<"unblock", u>>]
      /\ UNCHANGED <<schedVars, all_list, sleepVars, ticks, thread_ticks, halted, start>>
  BY Zenon DEF allocate_tid, ThreadsInv, ThreadsTypes, SchedTypes
<1>2. /\ pc' \in [Thread -> Stage] /\ pc'[current] = <<"unblock", u>>
      /\ \A t \in Thread : t # current => pc'[t] = pc[t]
  BY Zenon, <1>1, Stages DEF ThreadsInv, ThreadsTypes
<1>3. \A t, v \in Thread : (pc'[t] = <<"tid", v>> \/ pc'[t] = <<"unblock", v>>) => Creates(t, v)
  BY Zenon, <1>1, <1>2, Stages DEF Creates
<1>4. current # Idle
  BY Zenon, <1>1, Stages DEF ThreadsInv, IdleIdles
<1>5. ThreadsTypes'
  BY Zenon, <1>1, <1>2 DEF ThreadsInv, ThreadsTypes, SchedTypes, schedVars, sleepVars
<1>6. Newborns'
  BY SMTT(30), <1>1, <1>3 DEF ThreadsInv, Newborns, Creates, schedVars, sleepVars
<1>7. IdleIdles'
  BY Zenon, <1>1, <1>2, <1>4 DEF ThreadsInv, IdleIdles, schedVars
<1> QED
  BY Zenon, <1>1, <1>5, <1>6, <1>7
  DEF ThreadsInv, Sleepers, StartsBelow, TickLeast, RunQueueExact, NoIdleWhileReady, AllListExact,
      schedVars, sleepVars

\* thread_unblock, at the end of thread_create, keeps the invariant.
LEMMA LaunchInv ==
  ASSUME ThreadsInv, NEW u \in Thread, Launch(u)
  PROVE  ThreadsInv'
<1> USE SchedAssumption
<1>1. /\ pc[current] = <<"unblock", u>> /\ current \in Thread
      /\ ready_list' = ReadyAlso(<<u>>) /\ status' = Unblocked(<<u>>)
      /\ pc' = [pc EXCEPT ![current] = <<"run">>]
      /\ UNCHANGED <<current, threadVars, sleepVars, ticks, halted, start>>
  BY Zenon DEF Launch, ThreadsInv, ThreadsTypes, SchedTypes
<1>2. SchedTypes /\ RunQueueExact
  BY Zenon DEF ThreadsInv, ThreadsTypes
<1>3. /\ pc' \in [Thread -> Stage] /\ pc'[current] = <<"run">>
      /\ \A t \in Thread : t # current => pc'[t] = pc[t]
  BY Zenon, <1>1, Stages DEF ThreadsInv, ThreadsTypes
<1>4. current # Idle /\ Creates(current, u)
  BY Zenon, <1>1, Stages DEF ThreadsInv, IdleIdles, Creates
<1>5. status[u] = "blocked" /\ u # Idle /\ u \notin Range(sleep_list)
  BY Zenon, <1>1, <1>4 DEF ThreadsInv, Newborns
<1>6. PICK ts : ts = <<u>> /\ ts \in Seq(Thread) /\ Range(ts) = {u} /\ IsInjective(ts)
  BY Zenon, SingleFacts
<1>7. PICK st, q : st = Unblocked(ts) /\ q = ReadyAlso(ts)
  OBVIOUS
<1>8. /\ st \in [Thread -> Statuses] /\ q \in Seq(Thread) /\ QueueExact(st, q)
      /\ \A t \in Thread : st[t] = IF t \in Range(ts) THEN "ready" ELSE status[t]
      /\ \A t \in Thread : st[t] = "running" <=> t = current
  <2>1. \A t \in Range(ts) : status[t] = "blocked" /\ t # Idle
    BY Zenon, <1>5, <1>6
  <2> QED
    BY ZenonT(30), <1>2, <1>6, <1>7, <2>1, UnblocksExact DEF Unblocked, ReadyAlso
<1>9. status' = st /\ ready_list' = q
  BY Zenon, <1>1, <1>6, <1>7
<1>10. \A t \in Thread : status'[t] = IF t = u THEN "ready" ELSE status[t]
  BY Zenon, <1>6, <1>8, <1>9
<1>11. Range(sleep_list) \subseteq Thread
  BY Zenon, RangeOf DEF ThreadsInv, ThreadsTypes
<1>12. \A t, v \in Thread : (pc'[t] = <<"tid", v>> \/ pc'[t] = <<"unblock", v>>) =>
          Creates(t, v) /\ v # u
  <2> SUFFICES ASSUME NEW t \in Thread, NEW v \in Thread,
                      pc'[t] = <<"tid", v>> \/ pc'[t] = <<"unblock", v>>
               PROVE  Creates(t, v) /\ v # u
    BY Zenon
  <2>1. t # current
    BY Zenon, <1>3, Stages
  <2>2. Creates(t, v)
    BY Zenon, <1>3, <2>1 DEF Creates
  <2> QED
    BY Zenon, <1>1, <1>4, <2>1, <2>2 DEF ThreadsInv, Newborns
<1>13. ThreadsTypes'
  BY Zenon, <1>1, <1>3, <1>8, <1>9 DEF ThreadsInv, ThreadsTypes, SchedTypes, threadVars, sleepVars
<1>14. RunQueueExact'
  BY Zenon, <1>1, <1>8, <1>9 DEF RunQueueExact, QueueExact
<1>15. Newborns'
  BY SMTT(30), <1>1, <1>10, <1>12 DEF ThreadsInv, Newborns, Creates, sleepVars
<1>16. IdleIdles'
  BY Zenon, <1>3, <1>4, <1>5, <1>10 DEF ThreadsInv, IdleIdles
<1>17. Sleepers'
  BY Zenon, <1>1, <1>5, <1>10, <1>11 DEF ThreadsInv, Sleepers, sleepVars
<1>18. StartsBelow' /\ TickLeast' /\ NoIdleWhileReady'
  BY Zenon, <1>1, <1>4 DEF ThreadsInv, StartsBelow, TickLeast, NoIdleWhileReady, sleepVars
<1>19. AllListExact'
  BY Zenon, <1>1, <1>5, <1>10 DEF ThreadsInv, AllListExact, threadVars
<1> QED
  BY Zenon, <1>13, <1>14, <1>15, <1>16, <1>17, <1>18, <1>19 DEF ThreadsInv

\* thread_sleep keeps the invariant.
LEMMA ThreadSleepInv ==
  ASSUME ThreadsInv, thread_sleep
  PROVE  ThreadsInv'
<1> USE SchedAssumption, ThreadsAssumption
<1>1. /\ pc[current] = <<"sleep">> /\ current \in Thread
      /\ wakeup_tick' = [wakeup_tick EXCEPT ![current] = start[current]]
      /\ next_tick_to_wakeup' = Least(next_tick_to_wakeup, start[current])
      /\ sleep_list' = Append(sleep_list, current)
      /\ schedule([status EXCEPT ![current] = "blocked"], ready_list)
      /\ pc' = [pc EXCEPT ![current] = <<"run">>]
      /\ UNCHANGED <<threadVars, ticks, halted, start>>
  BY Zenon DEF thread_sleep, thread_block, ThreadsInv, ThreadsTypes, SchedTypes
<1>2. SchedTypes /\ RunQueueExact
  BY Zenon DEF ThreadsInv, ThreadsTypes
<1>3. /\ pc' \in [Thread -> Stage] /\ pc'[current] = <<"run">>
      /\ \A t \in Thread : t # current => pc'[t] = pc[t]
  BY Zenon, <1>1, Stages DEF ThreadsInv, ThreadsTypes
<1>4. current # Idle
  BY Zenon, <1>1, Stages DEF ThreadsInv, IdleIdles
<1>5. PICK st, q : st = [status EXCEPT ![current] = "blocked"] /\ q = ready_list
  BY Zenon
<1>6. /\ st \in [Thread -> Statuses] /\ QueueExact(st, q) /\ \A t \in Thread : st[t] # "running"
      /\ st[current] = "blocked" /\ \A t \in Thread : t # current => st[t] = status[t]
  <2>1. "blocked" \in {"none", "blocked", "dying"}
    OBVIOUS
  <2> QED
    BY ZenonT(30), <1>2, <1>5, <2>1, LeavesExact
<1>7. st[Idle] \notin {"none", "dying"} /\ q \in Seq(Thread) /\ schedule(st, q)
  BY Zenon, <1>1, <1>2, <1>4, <1>5, <1>6 DEF SchedTypes, schedule, ThreadsInv, IdleIdles
<1>8. /\ SchedTypes' /\ RunQueueExact'
      /\ current' = Idle => ready_list' = <<>>
  BY Zenon, <1>6, <1>7, ScheduleExact
<1>9. /\ \A t \in Thread \ {Idle} : st[t] = "blocked" => status'[t] = "blocked"
      /\ \A t \in Thread : status'[t] \in {"none", "dying"} <=> st[t] \in {"none", "dying"}
  BY Zenon, <1>6, <1>7, ScheduleKeeps
<1>10. /\ \A t \in Thread \ {Idle} : status[t] = "blocked" => status'[t] = "blocked"
       /\ status'[current] = "blocked"
       /\ \A t \in Thread : status'[t] \in {"none", "dying"} <=> status[t] \in {"none", "dying"}
  BY Zenon, <1>1, <1>2, <1>4, <1>6, <1>9 DEF RunQueueExact
<1>11. Range(sleep_list) \subseteq Thread /\ sleep_list \in Seq(Thread)
  BY Zenon, RangeOf DEF ThreadsInv, ThreadsTypes
<1>12. status[current] = "running" /\ current \notin Range(sleep_list)
  BY Zenon, <1>1, <1>2 DEF ThreadsInv, Sleepers, RunQueueExact
<1>13. /\ sleep_list' \in Seq(Thread) /\ Range(sleep_list') = Range(sleep_list) \cup {current}
       /\ IsInjective(sleep_list')
  BY SMTT(30), <1>1, <1>11, <1>12, AppendFacts DEF ThreadsInv, Sleepers
<1>14. /\ wakeup_tick' \in [Thread -> Int] /\ wakeup_tick'[current] = start[current]
       /\ \A t \in Thread : t # current => wakeup_tick'[t] = wakeup_tick[t]
       /\ start[current] \in Int /\ start[current] < INT64_MAX
  BY Zenon, <1>1 DEF ThreadsInv, ThreadsTypes, StartsBelow
<1>15. \A t, v \in Thread : (pc'[t] = <<"tid", v>> \/ pc'[t] = <<"unblock", v>>) => Creates(t, v)
  BY Zenon, <1>3, Stages DEF Creates
<1>16. next_tick_to_wakeup \in Int /\ next_tick_to_wakeup <= INT64_MAX
  BY Zenon DEF ThreadsInv, ThreadsTypes, TickLeast
<1>17. /\ next_tick_to_wakeup' \in Int /\ next_tick_to_wakeup' <= start[current]
       /\ next_tick_to_wakeup' <= next_tick_to_wakeup
       /\ next_tick_to_wakeup' \in {start[current], next_tick_to_wakeup}
  BY SMTT(30), <1>1, <1>14, <1>16 DEF Least
<1>18. TickLeast'
  <2>1. sleep_list' # <<>>
    BY SMTT(30), <1>1, <1>11
  <2>2. \A t \in Range(sleep_list') : next_tick_to_wakeup' <= wakeup_tick'[t]
    <3> TAKE t \in Range(sleep_list')
    <3>1. CASE t = current
      BY Zenon, <1>14, <1>17, <3>1
    <3>2. CASE t # current
      <4>1. t \in Range(sleep_list) /\ t \in Thread
        BY Zenon, <1>11, <1>13, <3>2
      <4>2. next_tick_to_wakeup <= wakeup_tick[t] /\ wakeup_tick[t] \in Int /\ wakeup_tick'[t] = wakeup_tick[t]
        BY Zenon, <1>14, <3>2, <4>1 DEF ThreadsInv, TickLeast, ThreadsTypes
      <4> QED
        BY SMTT(30), <1>16, <1>17, <4>2
    <3> QED
      BY Zenon, <3>1, <3>2
  <2>3. \E t \in Range(sleep_list') : wakeup_tick'[t] = next_tick_to_wakeup'
    <3>1. CASE next_tick_to_wakeup' = start[current]
      BY Zenon, <1>13, <1>14, <3>1
    <3>2. CASE next_tick_to_wakeup' # start[current]
      <4>1. next_tick_to_wakeup' = next_tick_to_wakeup /\ next_tick_to_wakeup # INT64_MAX
        BY SMTT(30), <1>14, <1>16, <1>17, <3>2
      <4>2. PICK t \in Range(sleep_list) : wakeup_tick[t] = next_tick_to_wakeup
        BY Zenon, <4>1 DEF ThreadsInv, TickLeast
      <4>3. t # current /\ t \in Thread
        BY Zenon, <1>11, <1>12
      <4> QED
        BY Zenon, <1>13, <1>14, <4>1, <4>2, <4>3
    <3> QED
      BY Zenon, <3>1, <3>2
  <2>4. next_tick_to_wakeup' <= INT64_MAX
    BY <1>16, <1>17
  <2> QED
    BY Zenon, <2>1, <2>2, <2>3, <2>4 DEF TickLeast
<1>19. ThreadsTypes'
  BY Zenon, <1>1, <1>3, <1>8, <1>13, <1>14, <1>17 DEF ThreadsInv, ThreadsTypes, threadVars
<1>20. Newborns'
  <2>1. \A t, v \in Thread : Creates(t, v) => v # current
    BY Zenon, <1>12 DEF ThreadsInv, Newborns
  <2> QED
    BY SMTT(30), <1>10, <1>13, <1>15, <2>1 DEF ThreadsInv, Newborns, Creates
<1>21. IdleIdles'
  BY Zenon, <1>3, <1>4, <1>10 DEF ThreadsInv, IdleIdles
<1>22. Sleepers'
  BY Zenon, <1>4, <1>10, <1>11, <1>13 DEF ThreadsInv, Sleepers
<1>23. StartsBelow' /\ NoIdleWhileReady'
  BY SMTT(30), <1>1, <1>8 DEF ThreadsInv, StartsBelow, NoIdleWhileReady
<1>24. AllListExact'
  BY Zenon, <1>1, <1>10 DEF ThreadsInv, AllListExact, threadVars
<1> QED
  BY Zenon, <1>8, <1>18, <1>19, <1>20, <1>21, <1>22, <1>23, <1>24 DEF ThreadsInv

\* What thread_wakeup makes of the list of sleepers at tick now.
LEMMA WakeupSplits ==
  ASSUME LeastInNat, ThreadsInv, NEW now \in Nat
  PROVE  /\ Due(now) \in Seq(Thread) /\ IsInjective(Due(now))
         /\ Asleep(now) \in Seq(Thread) /\ IsInjective(Asleep(now))
         /\ \A t : t \in Range(Due(now)) <=> t \in Range(sleep_list) /\ wakeup_tick[t] <= now
         /\ \A t : t \in Range(Asleep(now)) <=> t \in Range(sleep_list) /\ wakeup_tick[t] > now
         /\ NextWakeup(Asleep(now)) \in Int /\ NextWakeup(Asleep(now)) <= INT64_MAX
         /\ Asleep(now) = <<>> => NextWakeup(Asleep(now)) = INT64_MAX
         /\ Asleep(now) # <<>> =>
              \E t \in Range(Asleep(now)) : wakeup_tick[t] = NextWakeup(Asleep(now))
         /\ \A t \in Range(Asleep(now)) : NextWakeup(Asleep(now)) <= wakeup_tick[t]
<1> DEFINE D == {t \in Thread : IsDue(t, now)}
           A == {t \in Thread : ~IsDue(t, now)}
<1>1. sleep_list \in Seq(Thread) /\ IsInjective(sleep_list) /\ wakeup_tick \in [Thread -> Int]
  BY Zenon DEF ThreadsInv, ThreadsTypes, Sleepers
<1>2. Range(sleep_list) \subseteq Thread
  BY Zenon, <1>1, RangeOf
<1>3. /\ Due(now) \in Seq(Thread) /\ IsInjective(Due(now)) /\ Range(Due(now)) = Range(sleep_list) \cap D
      /\ Asleep(now) \in Seq(Thread) /\ IsInjective(Asleep(now))
      /\ Range(Asleep(now)) = Range(sleep_list) \cap A
  <2> HIDE DEF D, A
  <2>1. Due(now) = Only(sleep_list, D) /\ Asleep(now) = Only(sleep_list, A)
    BY Zenon DEF Due, Asleep, D, A
  <2> QED
    BY SMTT(30), <1>1, <2>1, OnlyFacts
<1>4. /\ \A t : t \in Range(Due(now)) <=> t \in Range(sleep_list) /\ wakeup_tick[t] <= now
      /\ \A t : t \in Range(Asleep(now)) <=> t \in Range(sleep_list) /\ wakeup_tick[t] > now
  BY SMTT(30), <1>1, <1>2, <1>3 DEF IsDue
<1>5. PICK a : a = Asleep(now)
  OBVIOUS
<1>6. a \in Seq(Thread) /\ \A t \in Range(a) : wakeup_tick[t] \in Nat
  BY SMTT(30), <1>1, <1>2, <1>3, <1>4, <1>5
<1>7. CASE a = <<>>
  <2>1. NextWakeup(a) = INT64_MAX /\ Range(a) = {}
    BY Zenon, <1>6, <1>7, RangeOf DEF NextWakeup
  <2> QED
    BY SMTT(30), <1>3, <1>4, <1>5, <1>7, <2>1, ThreadsAssumption
<1>8. CASE a # <<>>
  <2> DEFINE W == {wakeup_tick[t] : t \in Range(a)}
  <2>0. Range(a) # {}
    <3>1. 1 \in 1 .. Len(a)
      BY <1>6, <1>8
    <3> QED
      BY SMTT(30), <1>6, <3>1, RangeOf
  <2>1. W \subseteq Nat /\ W # {}
    BY Zenon, <1>6, <2>0
  <2>2. NextWakeup(a) = Min(W)
    BY Zenon, <1>8 DEF NextWakeup
  <2>3. Min(W) \in W /\ \A k \in W : Min(W) <= k
    <3> HIDE DEF W
    <3> QED
      BY Zenon, <2>1, MinIsLeast
  <2>4. PICK t \in Range(a) : wakeup_tick[t] = NextWakeup(a)
    BY Zenon, <2>2, <2>3
  <2>5. NextWakeup(a) \in Nat /\ \A v \in Range(a) : NextWakeup(a) <= wakeup_tick[v]
    BY Zenon, <2>1, <2>2, <2>3
  <2>6. wakeup_tick[t] <= INT64_MAX
    BY SMTT(30), <1>2, <1>3, <1>5, <1>6, ThreadsAssumption DEF ThreadsInv, StartsBelow
  <2> QED
    BY SMTT(30), <1>3, <1>4, <1>5, <1>8, <2>4, <2>5, <2>6
<1> QED
  BY Zenon, <1>7, <1>8

\* timer_interrupt, with thread_tick and thread_wakeup, keeps the invariant.
LEMMA TimerInterruptInv ==
  ASSUME LeastInNat, ThreadsInv, timer_interrupt
  PROVE  ThreadsInv'
<1> USE SchedAssumption, ThreadsAssumption
<1>1. PICK now : now = ticks + 1 /\ now \in Nat /\ now <= MaxTicks
  BY SMTT(30) DEF timer_interrupt, ThreadsInv, ThreadsTypes
<1>2. PICK due : due = IF next_tick_to_wakeup <= now THEN Due(now) ELSE <<>>
  OBVIOUS
<1>3. /\ ticks' = now
      /\ IF next_tick_to_wakeup <= now
           THEN sleep_list' = Asleep(now) /\ next_tick_to_wakeup' = NextWakeup(Asleep(now))
           ELSE sleep_list' = sleep_list /\ next_tick_to_wakeup' = next_tick_to_wakeup
      /\ \/ YieldFrom(Unblocked(due), ReadyAlso(due))
         \/ status' = Unblocked(due) /\ ready_list' = ReadyAlso(due) /\ current' = current
      /\ halted' = (halted /\ current # Idle)
      /\ UNCHANGED <<threadVars, wakeup_tick, pc, start>>
  BY Zenon, <1>1, <1>2 DEF timer_interrupt, StaysHalted
<1>4. SchedTypes /\ RunQueueExact /\ current \in Thread
  BY Zenon DEF ThreadsInv, ThreadsTypes, SchedTypes
<1>5. /\ sleep_list \in Seq(Thread) /\ IsInjective(sleep_list) /\ wakeup_tick \in [Thread -> Int]
      /\ next_tick_to_wakeup \in Int /\ Range(sleep_list) \subseteq Thread
      /\ \A t \in Range(sleep_list) : status[t] = "blocked" /\ t # Idle
  BY Zenon, RangeOf DEF ThreadsInv, ThreadsTypes, Sleepers
<1>6. /\ due \in Seq(Thread) /\ IsInjective(due)
      /\ sleep_list' \in Seq(Thread) /\ IsInjective(sleep_list')
      /\ \A t : t \in Range(due) => t \in Range(sleep_list)
      /\ \A t : t \in Range(sleep_list') <=> t \in Range(sleep_list) /\ t \notin Range(due)
      /\ next_tick_to_wakeup' \in Int
      /\ TickLeast'
  <2>1. CASE next_tick_to_wakeup <= now
    <3>1. /\ due = Due(now) /\ sleep_list' = Asleep(now)
          /\ next_tick_to_wakeup' = NextWakeup(Asleep(now)) /\ wakeup_tick' = wakeup_tick
      BY Zenon, <1>2, <1>3, <2>1
    <3>2. /\ Due(now) \in Seq(Thread) /\ IsInjective(Due(now))
          /\ Asleep(now) \in Seq(Thread) /\ IsInjective(Asleep(now))
          /\ \A t : t \in Range(Due(now)) <=> t \in Range(sleep_list) /\ wakeup_tick[t] <= now
          /\ \A t : t \in Range(Asleep(now)) <=> t \in Range(sleep_list) /\ wakeup_tick[t] > now
          /\ NextWakeup(Asleep(now)) \in Int /\ NextWakeup(Asleep(now)) <= INT64_MAX
          /\ Asleep(now) = <<>> => NextWakeup(Asleep(now)) = INT64_MAX
          /\ Asleep(now) # <<>> =>
               \E t \in Range(Asleep(now)) : wakeup_tick[t] = NextWakeup(Asleep(now))
          /\ \A t \in Range(Asleep(now)) : NextWakeup(Asleep(now)) <= wakeup_tick[t]
      BY Zenon, <1>1, WakeupSplits
    <3>3. \A t \in Range(sleep_list) : ~(wakeup_tick[t] > now) <=> wakeup_tick[t] <= now
      BY SMTT(30), <1>1, <1>5
    <3>4. TickLeast'
      BY <3>1, <3>2, Zenon DEF TickLeast
    <3> QED
      BY <3>1, <3>2, <3>3, <3>4, Zenon
  <2>2. CASE ~(next_tick_to_wakeup <= now)
    <3>1. /\ due = <<>> /\ sleep_list' = sleep_list /\ next_tick_to_wakeup' = next_tick_to_wakeup
          /\ wakeup_tick' = wakeup_tick
      BY Zenon, <1>2, <1>3, <2>2
    <3>2. due \in Seq(Thread) /\ Range(due) = {} /\ IsInjective(due)
      <4>1. due \in Seq(Thread) /\ Len(due) = 0
        BY <3>1
      <4> QED
        BY ZenonT(30), <3>1, <4>1, RangeOf
    <3>3. TickLeast'
      BY Zenon, <3>1 DEF ThreadsInv, TickLeast
    <3> QED
      BY Zenon, <1>5, <3>1, <3>2, <3>3
  <2> QED
    BY Zenon, <2>1, <2>2
<1>7. PICK st, q : st = Unblocked(due) /\ q = ReadyAlso(due)
  OBVIOUS
<1>8. /\ st \in [Thread -> Statuses] /\ q \in Seq(Thread) /\ QueueExact(st, q)
      /\ \A t \in Thread : st[t] = IF t \in Range(due) THEN "ready" ELSE status[t]
      /\ \A t \in Thread : st[t] = "running" <=> t = current
  <2>1. \A t \in Range(due) : status[t] = "blocked" /\ t # Idle
    BY Zenon, <1>5, <1>6
  <2> QED
    BY ZenonT(30), <1>4, <1>6, <1>7, <2>1, UnblocksExact DEF Unblocked, ReadyAlso
<1>9. /\ SchedTypes' /\ RunQueueExact'
      /\ current' = Idle => current = Idle
      /\ \A t \in Thread \ {Idle} : status[t] = "blocked" /\ t \notin Range(due) => status'[t] = "blocked"
      /\ \A t \in Thread : status'[t] \in {"none", "dying"} <=> status[t] \in {"none", "dying"}
  <2>1. CASE YieldFrom(Unblocked(due), ReadyAlso(due))
    <3>1. YieldFrom(st, q)
      BY Zenon, <1>7, <2>1 DEF YieldFrom, schedule
    <3>2. /\ SchedTypes' /\ RunQueueExact'
          /\ \A t \in Thread : t # current => (status'[t] = st[t] \/ st[t] = "ready" \/ t = Idle)
          /\ \A t \in Thread : t \in {current, current'} => status'[t] \in {"ready", "running"}
          /\ current' = Idle => current = Idle
          /\ \A t \in Thread : t # current' => status'[t] = IF t = current THEN "ready" ELSE st[t]
      BY Zenon, <1>4, <1>8, <3>1, YieldExact
    <3>3. \A t \in Thread \ {Idle} : status[t] = "blocked" /\ t \notin Range(due) => status'[t] = "blocked"
      BY Zenon, <1>8, <3>2
    <3>4. \A t \in Thread : status'[t] \in {"none", "dying"} <=> st[t] \in {"none", "dying"}
      <4>1. st[Idle] \notin {"none", "dying"}
        BY Zenon, <1>8 DEF ThreadsInv, IdleIdles
      <4>2. st[current] = "running"
        BY Zenon, <1>4, <1>8
      <4> QED
        BY Zenon, <3>2, <4>1, <4>2
    <3>5. \A t \in Thread : st[t] \in {"none", "dying"} <=> status[t] \in {"none", "dying"}
      BY Zenon, <1>5, <1>6, <1>8
    <3> QED
      BY Zenon, <3>2, <3>3, <3>4, <3>5
  <2>2. CASE status' = Unblocked(due) /\ ready_list' = ReadyAlso(due) /\ current' = current
    <3>1. status' = st /\ ready_list' = q /\ current' = current
      BY Zenon, <1>7, <2>2
    <3>2. SchedTypes' /\ RunQueueExact'
      BY Zenon, <1>4, <1>8, <3>1 DEF SchedTypes, RunQueueExact, QueueExact
    <3>3. \A t \in Thread : st[t] \in {"none", "dying"} <=> status[t] \in {"none", "dying"}
      BY Zenon, <1>5, <1>6, <1>8
    <3> QED
      BY Zenon, <1>8, <3>1, <3>2, <3>3
  <2> QED
    BY Zenon, <1>3, <2>1, <2>2
<1>10. Newborns'
  <2>1. \A t, u \in Thread : Creates(t, u) => u \notin Range(due) /\ u \notin Range(sleep_list')
    BY Zenon, <1>6 DEF ThreadsInv, Newborns
  <2>2. \A t, u : Creates(t, u)' <=> Creates(t, u)
    BY Zenon, <1>3 DEF Creates
  <2>3. \A t, u \in Thread : Creates(t, u) => status'[u] = "blocked" /\ u # Idle
    BY Zenon, <1>9, <2>1 DEF ThreadsInv, Newborns
  <2>4. \A t, v, u \in Thread : Creates(t, u) /\ Creates(v, u) => t = v
    BY Zenon DEF ThreadsInv, Newborns
  <2> QED
    BY Zenon, <2>1, <2>2, <2>3, <2>4 DEF Newborns
<1>11. IdleIdles'
  BY Zenon, <1>3, <1>9 DEF ThreadsInv, IdleIdles
<1>12. Sleepers'
  BY Zenon, <1>5, <1>6, <1>9 DEF Sleepers
<1>13. StartsBelow' /\ AllListExact'
  BY Zenon, <1>3, <1>9 DEF ThreadsInv, StartsBelow, AllListExact, threadVars
<1>14. NoIdleWhileReady'
  BY Zenon, <1>3, <1>9 DEF NoIdleWhileReady
<1>15. ThreadsTypes'
  <2>1. UNCHANGED <<all_list, wakeup_tick, start, pc>> /\ ticks' \in 0 .. MaxTicks
    BY SMTT(30), <1>1, <1>3 DEF threadVars
  <2> QED
    BY Zenon, <1>6, <1>9, <2>1 DEF ThreadsInv, ThreadsTypes
<1> QED
  BY Zenon, <1>6, <1>9, <1>10, <1>11, <1>12, <1>13, <1>14, <1>15 DEF ThreadsInv

\* After thread_start the invariant holds.
LEMMA ThreadsInvInit ==
  ASSUME ThreadsInit
  PROVE  ThreadsInv
<1> USE SchedAssumption, ThreadsAssumption
<1>1. /\ status = [t \in Thread |-> IF t = Main THEN "running" ELSE IF t = Idle THEN "blocked" ELSE "none"]
      /\ ready_list = <<>> /\ current = Main /\ all_list = <<Main, Idle>> /\ sleep_list = <<>>
      /\ wakeup_tick = [t \in Thread |-> 0] /\ next_tick_to_wakeup = INT64_MAX
      /\ ticks = 0 /\ pc = [t \in Thread |-> <<"run">>] /\ start = [t \in Thread |-> 0]
  BY Zenon DEF ThreadsInit
<1>2. PICK e \in Seq(Thread) : e = <<>> /\ Range(e) = {} /\ IsInjective(e)
  <2>1. <<>> \in Seq(Thread) /\ Len(<<>>) = 0
    OBVIOUS
  <2> QED
    BY ZenonT(30), <2>1, RangeOf
<1>3. Range(ready_list) = {} /\ IsInjective(ready_list) /\ Range(sleep_list) = {} /\ IsInjective(sleep_list)
  BY Zenon, <1>1, <1>2
<1>4. /\ all_list \in Seq(Thread) /\ Range(all_list) = {Main, Idle} /\ IsInjective(all_list)
  <2>1. PICK m \in Seq(Thread) : m = <<Main>> /\ Range(m) = {Main} /\ IsInjective(m)
    BY Zenon, SingleFacts
  <2>2. all_list = Append(m, Idle)
    BY SMTT(30), <1>1, <2>1
  <2>3. Range(m) = {Main}
    BY Zenon, <2>1
  <2>4. Append(m, Idle) \in Seq(Thread) /\ Range(Append(m, Idle)) = Range(m) \cup {Idle}
    BY SMTT(30), AppendFacts
  <2>5. Append(m, Idle) \in Seq(Thread) /\ Range(Append(m, Idle)) = {Main} \cup {Idle}
    BY Zenon, <2>3, <2>4
  <2>6. IsInjective(Append(m, Idle))
    BY Zenon, <2>1, AppendFacts
  <2> QED
    BY Zenon, <2>2, <2>5, <2>6
<1>5. /\ status \in [Thread -> Statuses] /\ \A t \in Thread : status[t] # "ready"
      /\ \A t \in Thread : status[t] = "running" <=> t = Main
      /\ \A t \in Thread : status[t] \notin {"none", "dying"} <=> t \in {Main, Idle}
  BY Zenon, <1>1 DEF Statuses
<1>6. pc \in [Thread -> Stage] /\ \A t \in Thread : pc[t] = <<"run">>
  BY Zenon, <1>1, Stages
<1>7. ThreadsTypes
  BY SMTT(30), <1>1, <1>4, <1>5, <1>6 DEF ThreadsTypes, SchedTypes
<1>8. RunQueueExact
  BY Zenon, <1>1, <1>3, <1>5 DEF RunQueueExact
<1>9. Newborns /\ IdleIdles
  BY Zenon, <1>5, <1>6, Stages DEF Newborns, Creates, IdleIdles
<1>10. Sleepers /\ StartsBelow /\ TickLeast /\ NoIdleWhileReady
  BY SMTT(30), <1>1, <1>3 DEF Sleepers, StartsBelow, TickLeast, NoIdleWhileReady
<1>11. AllListExact
  BY Zenon, <1>4, <1>5 DEF AllListExact
<1> QED
  BY Zenon, <1>7, <1>8, <1>9, <1>10, <1>11 DEF ThreadsInv

\* Every step keeps the invariant.
LEMMA ThreadsStepKeeps ==
  ASSUME LeastInNat, ThreadsInv, [ThreadsNext]_threadsVars
  PROVE  ThreadsInv'
<1>1. CASE UNCHANGED threadsVars
  <2>1. /\ UNCHANGED <<status, ready_list, current, all_list, sleep_list, wakeup_tick>>
        /\ UNCHANGED <<next_tick_to_wakeup, ticks, halted, pc, start>>
    BY Zenon, <1>1 DEF threadsVars, schedVars, threadVars, sleepVars, localVars
  <2>2. ThreadsTypes'
    BY Zenon, <2>1 DEF ThreadsInv, ThreadsTypes, SchedTypes
  <2>3. RunQueueExact' /\ NoIdleWhileReady' /\ AllListExact'
    BY Zenon, <2>1 DEF ThreadsInv, RunQueueExact, NoIdleWhileReady, AllListExact
  <2>4. Newborns' /\ IdleIdles' /\ Sleepers' /\ StartsBelow' /\ TickLeast'
    BY Zenon, <2>1 DEF ThreadsInv, Newborns, Creates, IdleIdles, Sleepers, StartsBelow, TickLeast
  <2> QED
    BY Zenon, <2>2, <2>3, <2>4 DEF ThreadsInv
<1>2. CASE ThreadsNext
  BY <1>2, InitThreadInv, AllocateTidInv, LaunchInv, ThreadExitInv, ThreadYieldInv, TimerSleepInv,
     ThreadSleepInv, TimerInterruptInv, IdleInv, Zenon
  DEF ThreadsNext
<1> QED
  BY Zenon, <1>1, <1>2

\* The least number of a set of integers, once it is known that there is one.
LEMMA LeastOfInts ==
  ASSUME NEW S, S \subseteq Int, NEW m \in S, \A k \in S : m <= k
  PROVE  Min(S) = m
<1>1. PICK x \in S : x = Min(S) /\ \A k \in S : x <= k
  BY Zenon DEF Min
<1>2. x \in Int /\ m \in Int /\ x <= m /\ m <= x
  BY Zenon, <1>1
<1> QED
  BY <1>1, <1>2

\* The invariant has the properties of the model.
LEMMA ThreadsInvImplies ==
  ASSUME ThreadsInv
  PROVE  ElemExclusive /\ WakeupTickExact /\ NoIdleWhileReady
<1>1. ElemExclusive /\ NoIdleWhileReady
  BY Zenon DEF ThreadsInv, ElemExclusive, Sleepers
<1>2. CASE sleep_list = <<>>
  BY Zenon, <1>1, <1>2 DEF ThreadsInv, TickLeast, WakeupTickExact, NextWakeup
<1>3. CASE sleep_list # <<>>
  <2> DEFINE W == {wakeup_tick[t] : t \in Range(sleep_list)}
  <2>1. W \subseteq Int
    BY SMTT(30), RangeOf DEF ThreadsInv, ThreadsTypes
  <2>2. PICK m \in W : m = next_tick_to_wakeup
    BY Zenon, <1>3 DEF ThreadsInv, TickLeast
  <2>3. \A k \in W : m <= k
    BY Zenon, <2>2 DEF ThreadsInv, TickLeast
  <2>4. Min(W) = m
    <3> HIDE DEF W
    <3> QED
      BY Zenon, <2>1, <2>3, LeastOfInts
  <2>5. NextWakeup(sleep_list) = Min(W)
    BY Zenon, <1>3 DEF NextWakeup
  <2> QED
    BY Zenon, <1>1, <2>2, <2>4, <2>5 DEF WakeupTickExact
<1> QED
  BY Zenon, <1>2, <1>3

\* A step wakes the sleepers whose time has come, and no others.
LEMMA ThreadsStepWakes ==
  ASSUME LeastInNat, ThreadsInv, [ThreadsNext]_threadsVars
  PROVE  WakesOnTime \/ UNCHANGED threadsVars
<1> SUFFICES ASSUME ThreadsNext PROVE WakesOnTime
  OBVIOUS
<1>1. /\ sleep_list \in Seq(Thread) /\ wakeup_tick \in [Thread -> Int] /\ next_tick_to_wakeup \in Int
      /\ ticks \in Nat /\ Range(sleep_list) \subseteq Thread
  BY SMTT(30), RangeOf DEF ThreadsInv, ThreadsTypes
<1>2. CASE timer_interrupt
  <2>1. PICK now : now = ticks + 1 /\ now \in Nat
    BY <1>1
  <2>2. /\ ticks' = now
        /\ IF next_tick_to_wakeup <= now THEN sleep_list' = Asleep(now) ELSE sleep_list' = sleep_list
    BY Zenon, <1>2, <2>1 DEF timer_interrupt
  <2>3. \A t : t \in Range(Asleep(now)) <=> t \in Range(sleep_list) /\ wakeup_tick[t] > now
    BY Zenon, <2>1, WakeupSplits
  <2>4. \A t \in Range(sleep_list) : wakeup_tick[t] \in Int /\ next_tick_to_wakeup <= wakeup_tick[t]
    BY Zenon, <1>1 DEF ThreadsInv, TickLeast
  <2>5. CASE next_tick_to_wakeup <= now
    BY SMTT(30), <1>1, <2>1, <2>2, <2>3, <2>4, <2>5 DEF WakesOnTime
  <2>6. CASE ~(next_tick_to_wakeup <= now)
    <3>1. \A t \in Range(sleep_list) : wakeup_tick[t] > now
      BY SMTT(30), <1>1, <2>1, <2>4, <2>6
    <3> QED
      BY Zenon, <2>2, <2>6, <3>1 DEF WakesOnTime
  <2> QED
    BY Zenon, <2>5, <2>6
<1>3. CASE thread_sleep
  <2>1. sleep_list' = Append(sleep_list, current) /\ ticks' = ticks /\ current \in Thread
    BY Zenon, <1>3 DEF thread_sleep, ThreadsInv, ThreadsTypes, SchedTypes
  <2>2. Range(sleep_list') = Range(sleep_list) \cup {current}
    BY SMTT(30), <1>1, <2>1, AppendFacts
  <2> QED
    BY Zenon, <2>1, <2>2 DEF WakesOnTime
<1>4. CASE ~timer_interrupt /\ ~thread_sleep
  <2>1. sleep_list' = sleep_list /\ ticks' = ticks
    BY Zenon, <1>4
    DEF ThreadsNext, InitThread, allocate_tid, Launch, thread_exit, thread_yield, timer_sleep, idle, sleepVars
  <2> QED
    BY Zenon, <2>1 DEF WakesOnTime
<1> QED
  BY Zenon, <1>2, <1>3, <1>4

-----------------------------------------------------------------------------
LOCAL INSTANCE WellFoundedInduction

Below == {p \in Nat \X Nat : p[1] < p[2]}

\* Every non-empty set of natural numbers has a least element: the order of the
\* numbers is well founded.
LEMMA LeastInNatHolds == LeastInNat
<1> SUFFICES ASSUME NEW S \in SUBSET Nat, S # {}
             PROVE  \E m \in S : \A k \in S : m <= k
  BY Zenon DEF LeastInNat
<1>1. IsWellFoundedOn(Below, Nat)
  BY Zenon, NatLessThanWellFounded DEF OpToRel, Below
<1>2. PICK m \in S : \A k \in S : <<k, m>> \notin Below
  BY Zenon, <1>1, WFMin
<1>3. \A k \in S : ~(k < m)
  BY Zenon, <1>2 DEF Below
<1>4. \A k \in S : m <= k
  BY <1>3
<1> QED
  BY Zenon, <1>4

\* Every step keeps the invariant.
LEMMA ThreadsInvNext ==
  ASSUME ThreadsInv, [ThreadsNext]_threadsVars
  PROVE  ThreadsInv'
  BY Zenon, LeastInNatHolds, ThreadsStepKeeps

\* A step wakes the sleepers whose time has come, and no others.
LEMMA ThreadsWakeOnTime ==
  ASSUME ThreadsInv, [ThreadsNext]_threadsVars
  PROVE  WakesOnTime \/ UNCHANGED threadsVars
  BY Zenon, LeastInNatHolds, ThreadsStepWakes

ThreadsSpec == ThreadsInit /\ [][ThreadsNext]_threadsVars

\* thread.c: a thread is in one list at most, all_list has each thread once, the
\* cached wakeup tick is the earliest, and the processor is not halted while a thread
\* is ready: for any number of threads, any time slice and any durations of sleep.
THEOREM ThreadsSafe ==
  ThreadsSpec => [](ElemExclusive /\ AllListExact /\ WakeupTickExact /\ NoIdleWhileReady)
<1>1. ThreadsInit => ThreadsInv
  BY Zenon, ThreadsInvInit
<1>2. ThreadsInv /\ [ThreadsNext]_threadsVars => ThreadsInv'
  BY Zenon, ThreadsInvNext
<1>3. ThreadsInv => ElemExclusive /\ AllListExact /\ WakeupTickExact /\ NoIdleWhileReady
  BY Zenon, ThreadsInvImplies DEF ThreadsInv
<1> QED
  BY <1>1, <1>2, <1>3, PTL DEF ThreadsSpec

\* timer.c, thread.c: sleepers wake at the first tick at or after the one they asked
\* for, and not before.
THEOREM SleepersWakeOnTime == ThreadsSpec => WakeupOnTime
<1>1. ThreadsInit => ThreadsInv
  BY Zenon, ThreadsInvInit
<1>2. ThreadsInv /\ [ThreadsNext]_threadsVars => ThreadsInv'
  BY Zenon, ThreadsInvNext
<1>3. ThreadsInv /\ [ThreadsNext]_threadsVars => [WakesOnTime]_threadsVars
  BY Zenon, ThreadsWakeOnTime
<1> QED
  BY <1>1, <1>2, <1>3, PTL DEF ThreadsSpec, WakeupOnTime
=============================================================================
