------------------------------- MODULE Arith -------------------------------
(***************************************************************************)
(* Division of double words, lib/arithmetic.c, for words of HalfBits bits  *)
(* (32 in the code), and the size computed by calloc.  Signed numbers are  *)
(* in two's complement.  The dividend is any double word; the property is  *)
(* about all divisors.                                                     *)
(***************************************************************************)
EXTENDS Integers

CONSTANT HalfBits       \* a power of 2

ASSUME ArithAssumption == \E k \in 1 .. HalfBits : HalfBits = 2 ^ k

VARIABLE dividend

B == 2 ^ HalfBits       \* b in the code
BB == B * B
Trap == -1              \* the divide error

ArithInit == dividend = 0
ArithNext == dividend = 0 /\ dividend' \in 1 .. BB - 1

\* The DIVL instruction traps when the quotient does not fit in a word.
divl(n, d) == IF n \div B >= d THEN Trap ELSE n \div d

RECURSIVE NlzStep(_, _)
\* The tests of nlz for a shift by s, then s / 2, ... 1.
NlzStep(x, s) ==
  LET clear == x <= 2 ^ (HalfBits - s) - 1
  IN  (IF clear THEN s ELSE 0)
      + (IF s = 1 THEN 0 ELSE NlzStep(IF clear THEN (x * 2 ^ s) % B ELSE x, s \div 2))

nlz(x) == NlzStep(x, HalfBits \div 2)

\* The quotient is one too large or exact.
Corrected(n, d, q) == IF (n - (q - 1) * d) % BB < d THEN q - 1 ELSE q

udiv64(n, d) ==
  IF d \div B = 0
  THEN LET q0 == divl(B * ((n \div B) % d) + (n % B), d)
       IN  IF q0 = Trap THEN Trap ELSE (q0 + B * ((n \div B) \div d)) % BB
  ELSE IF n < d THEN 0
  ELSE LET s == nlz(d \div B)
           q == divl(n \div 2, ((d * 2 ^ s) % BB) \div B)
       IN  IF q = Trap THEN Trap ELSE Corrected(n, d, q \div 2 ^ (HalfBits - 1 - s))

\* The result is cut to a word.
umod64(n, d) == ((n - d * udiv64(n, d)) % BB) % B

\* The number a double word stands for, and the double word of a number.
Signed(x) == IF x >= BB \div 2 THEN x - BB ELSE x
Unsigned(x) == x % BB

\* Magnitude, quotient of magnitudes, sign.
sdiv64(n, d) ==
  LET Abs(x) == IF Signed(x) >= 0 THEN x ELSE Unsigned(-x)
      q == udiv64(Abs(n), Abs(d))
  IN  IF (Signed(n) < 0) = (Signed(d) < 0) THEN q ELSE Unsigned(-q)

\* Cut to a word, then extended with its sign.
smod64(n, d) ==
  LET r == Unsigned(n - d * sdiv64(n, d)) % B
  IN  IF r >= B \div 2 THEN Unsigned(r - B) ELSE r

\* The size that calloc asks malloc for, of a elements of b bytes; none when the
\* product, cut to a word, is less than a factor.
Declined == -2
calloc_size(a, b) ==
  LET size == (a * b) % B
  IN  IF size < a \/ size < b THEN Declined ELSE size

-----------------------------------------------------------------------------
\* Division that rounds toward zero.
Toward0(n, d) ==
  LET abs == (IF n < 0 THEN -n ELSE n) \div (IF d < 0 THEN -d ELSE d)
  IN  IF (n < 0) = (d < 0) THEN abs ELSE -abs

\* The division never traps and is exact for all double words, with and without
\* sign, the least one divided by -1 wrapping round; the remainders are exact
\* whenever they fit in the word that umod64 and smod64 return.
DivisionExact ==
  \A d \in 1 .. BB - 1 :
    LET n == dividend
        r == Signed(n) - Signed(d) * Toward0(Signed(n), Signed(d))
    IN  /\ udiv64(n, d) = n \div d
        /\ n % d < B => umod64(n, d) = n % d
        /\ sdiv64(n, d) = Unsigned(Toward0(Signed(n), Signed(d)))
        /\ r \in -(B \div 2) .. B \div 2 - 1 => smod64(n, d) = Unsigned(r)

\* calloc: every product that fits in a word is what malloc is asked for, and of the
\* products that do not fit, those of two half words, at least, are refused.  The
\* halves of the double word are the factors.
CallocSizeExact ==
  LET a == dividend \div B
      b == dividend % B
      half == 2 ^ (HalfBits \div 2)
  IN  /\ a * b \in 1 .. B - 1 => calloc_size(a, b) = a * b
      /\ a * b >= B /\ a <= half /\ b <= half => calloc_size(a, b) = Declined
=============================================================================
