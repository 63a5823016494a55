------------------------------ MODULE Strings ------------------------------
(***************************************************************************)
(* lib/string.c on a small memory: copying within it, searching and        *)
(* comparing, bounded copies, and a string cut into tokens by a sequence   *)
(* of calls of strtok_r.  A pointer is an index, and 0 ends a string.      *)
(***************************************************************************)
EXTENDS Integers, Sequences, SequencesExt, FiniteSetsExt

CONSTANTS
  MemSize,      \* bytes of memory; one more, which stays 0, ends the last string
  Letter,       \* the values of a byte, other than 0
  Delimiters    \* the sets of delimiters strtok_r is called with

VARIABLES
  mem,
  save_ptr,     \* of strtok_r; -1 before the first call
  token,        \* what the last call returned, as a sequence of letters
  expected_token, untouched     \* and should have returned; what is left of the string

stringVars == <<mem, save_ptr, token, expected_token, untouched>>

Address == 0 .. MemSize - 1
NoToken == <<>>         \* tokens are not empty
Nowhere == -1           \* a null pointer

StringsInit ==
  /\ mem = [p \in 0 .. MemSize |-> 0]
  /\ save_ptr = -1 /\ token = NoToken /\ expected_token = NoToken /\ untouched = <<>>

-----------------------------------------------------------------------------
(* The loops: from the first byte up, and from the last byte down. *)

RECURSIVE memcpy(_, _, _, _)
memcpy(m, dst, src, size) ==
  IF size = 0 THEN m ELSE memcpy([m EXCEPT ![dst] = m[src]], dst + 1, src + 1, size - 1)

RECURSIVE CopyDown(_, _, _, _)
CopyDown(m, dst, src, size) ==
  IF size = 0 THEN m
  ELSE CopyDown([m EXCEPT ![dst + size - 1] = m[src + size - 1]], dst, src, size - 1)

memmove(m, dst, src, size) ==
  IF dst < src THEN memcpy(m, dst, src, size) ELSE CopyDown(m, dst, src, size)

memset(m, dst, value, size) ==
  [p \in DOMAIN m |-> IF p \in dst .. dst + size - 1 THEN value ELSE m[p]]

RECURSIVE memcmp(_, _, _, _)
memcmp(m, a, b, size) ==
  IF size = 0 THEN 0
  ELSE IF m[a] # m[b] THEN (IF m[a] > m[b] THEN 1 ELSE -1)
  ELSE memcmp(m, a + 1, b + 1, size - 1)

RECURSIVE strcmp(_, _, _)
strcmp(m, a, b) ==
  IF m[a] # 0 /\ m[a] = m[b] THEN strcmp(m, a + 1, b + 1)
  ELSE IF m[a] < m[b] THEN -1 ELSE IF m[a] > m[b] THEN 1 ELSE 0

RECURSIVE strnlen(_, _, _)
strnlen(m, p, maxlen) == IF m[p] = 0 \/ maxlen = 0 THEN 0 ELSE 1 + strnlen(m, p + 1, maxlen - 1)

strlen(m, p) == strnlen(m, p, MemSize + 1)

RECURSIVE strchr(_, _, _)
strchr(m, p, c) ==
  IF m[p] = c THEN p ELSE IF m[p] = 0 THEN Nowhere ELSE strchr(m, p + 1, c)

strstr(m, haystack, needle) ==
  LET n == strlen(m, needle)
      found == {i \in 0 .. strlen(m, haystack) - n : memcmp(m, haystack + i, needle, n) = 0}
  IN  IF found = {} THEN Nowhere ELSE haystack + Min(found)

strlcpy(m, dst, src, size) ==
  LET n == Min({size - 1, strlen(m, src)})
  IN  IF size = 0 THEN m ELSE [memcpy(m, dst, src, n) EXCEPT ![dst + n] = 0]

strlcat(m, dst, src, size) ==
  LET at == strlen(m, dst)
      n  == Min({size - at - 1, strlen(m, src)})
  IN  IF size = 0 \/ at >= size THEN m ELSE [memcpy(m, dst + at, src, n) EXCEPT ![dst + at + n] = 0]

-----------------------------------------------------------------------------
(* Meaning: the string at p as a sequence. *)

String(m, p) == [k \in 1 .. Min({q \in p .. MemSize : m[q] = 0}) - p |-> m[p + k - 1]]
Cut(s, n) == SubSeq(s, 1, Min({n, Len(s)}))

\* The first token of s by its definition, and what follows it and its delimiter.
Skipped(s, d) == SelectSeq([k \in DOMAIN s |-> k], LAMBDA k : \E j \in 1 .. k : s[j] \notin d)
TokenOf(s, d) ==
  LET rest == SubSeq(s, Len(s) - Len(Skipped(s, d)) + 1, Len(s))
      ends == {k \in DOMAIN rest : rest[k] \in d} \cup {Len(rest) + 1}
  IN  [token |-> SubSeq(rest, 1, Min(ends) - 1), rest |-> SubSeq(rest, Min(ends) + 1, Len(rest))]

-----------------------------------------------------------------------------
\* Bytes are set one at a time, before the first call of strtok_r.
SetByte(p, value) ==
  /\ save_ptr = -1
  /\ \A q \in p .. MemSize : mem[q] = 0
  /\ mem' = memset(mem, p, value, 1)
  /\ UNCHANGED <<save_ptr, token, expected_token, untouched>>

\* The loops of strtok_r: skip delimiters, then everything else; strchr finds 0 in
\* any set of delimiters.
strtok_r(s, d) ==
  LET first == Min({p \in s .. MemSize : mem[p] \notin d})
      end   == Min({p \in first .. MemSize : mem[p] \in d \cup {0}})
  IN  IF mem[first] = 0
        THEN save_ptr' = first /\ token' = NoToken /\ UNCHANGED mem
        ELSE /\ token' = SubSeq(String(mem, first), 1, end - first)
             /\ mem' = [mem EXCEPT ![end] = 0]
             /\ save_ptr' = IF mem[end] # 0 THEN end + 1 ELSE end

\* A call with the string itself, then calls with a null pointer; the delimiters
\* may change from one to the next.
Tokenize(d) ==
  LET s == IF save_ptr = -1 THEN String(mem, 0) ELSE untouched
  IN  /\ strtok_r(IF save_ptr = -1 THEN 0 ELSE save_ptr, d)
      /\ expected_token' = TokenOf(s, d).token
      /\ untouched' = TokenOf(s, d).rest

StringsNext ==
  \/ \E p \in Address, value \in Letter : SetByte(p, value)
  \/ \E d \in Delimiters : Tokenize(d)

-----------------------------------------------------------------------------
Disjoint(p, n, q, k) == (p .. p + n - 1) \cap (q .. q + k - 1) = {}

\* string.c: memmove moves what was there before it began, however the blocks
\* overlap; searches find the first match; strlcpy and strlcat write the longest
\* prefix that fits with its 0 and nothing beyond size; the tokens of successive
\* calls of strtok_r are those of the string, and the rest is where the next call
\* looks for it.
StringsExact ==
  /\ token = expected_token
  /\ save_ptr # -1 => String(mem, save_ptr) = untouched
  /\ save_ptr = -1 =>
       \A p, q \in Address :
         /\ \A n \in 0 .. MemSize - Max({p, q}) :
              memmove(mem, p, q, n) =
                [r \in DOMAIN mem |-> IF r \in p .. p + n - 1 THEN mem[q + r - p] ELSE mem[r]]
         /\ strcmp(mem, p, q) = 0 <=> String(mem, p) = String(mem, q)
         /\ strcmp(mem, p, q) = -strcmp(mem, q, p)
         /\ \A c \in Letter \cup {0} : strchr(mem, p, c) =
              LET at == {r \in p .. p + Len(String(mem, p)) : mem[r] = c}
              IN  IF at = {} THEN Nowhere ELSE Min(at)
         /\ strstr(mem, p, q) =
              LET at == {r \in p .. MemSize : IsPrefix(String(mem, q), String(mem, r))
                                               /\ r <= p + Len(String(mem, p))}
              IN  IF at = {} THEN Nowhere ELSE Min(at)
         /\ \A size \in 1 .. MemSize - p :
              Disjoint(p, size, q, Len(String(mem, q)) + 1) =>
                LET copy == strlcpy(mem, p, q, size)
                    cat  == strlcat(mem, p, q, size)
                IN  /\ String(copy, p) = Cut(String(mem, q), size - 1)
                    /\ \A r \in DOMAIN mem \ (p .. p + size - 1) : copy[r] = mem[r] /\ cat[r] = mem[r]
                    /\ Len(String(mem, p)) < size =>
                         String(cat, p) = Cut(String(mem, p) \o String(mem, q), size - 1)
=============================================================================
