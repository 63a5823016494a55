------------------------------- MODULE Lists -------------------------------
(***************************************************************************)
(* Removal from a list, as the loops over lib/kernel/list.h do it in the   *)
(* thread and timer code: one element after another, from the first to the *)
(* last.                                                                   *)
(***************************************************************************)
EXTENDS Integers, Sequences

\* The elements of s that are in S, in their order: what is left of a list when
\* the others are removed from it.
Only(s, S) ==
  LET kept[n \in 0 .. Len(s)] ==
        IF n = 0 THEN <<>>
        ELSE IF s[n] \in S THEN Append(kept[n - 1], s[n]) ELSE kept[n - 1]
  IN  kept[Len(s)]
=============================================================================
