-------------------------------- MODULE SinglePrecision --------------------------------
(***************************************************************************)
(* What becomes of whole numbers and of their quotients in a variable of   *)
(* type float: a number has 24 bits from the first that is set, and is     *)
(* the nearest such one, of two the even one.  Indices have 64 bits and a  *)
(* sign.                                                                   *)
(***************************************************************************)
EXTENDS Integers

Significand == 24
IndexBits == 63

Pow2[e \in 0 .. IndexBits] == IF e = 0 THEN 1 ELSE 2 * Pow2[e - 1]
\* Whole numbers below this one are kept as they are.
ExactBelow == Pow2[Significand]

CeilDiv(a, b) == (a + b - 1) \div b
Nearest(a, b) ==
  LET q == a \div b
      r == a % b
  IN IF 2 * r > b \/ (2 * r = b /\ q % 2 = 1) THEN q + 1 ELSE q
FirstBit(n) == CHOOSE e \in 0 .. IndexBits - 1 : Pow2[e] <= n /\ n < Pow2[e + 1]

\* The quotient of a by b, which is at least 1, as a float; and that rounded up.
CeilOfQuotient(a, b) ==
  LET e == FirstBit(a \div b)
  IN IF e < Significand
     THEN LET parts == Pow2[Significand - 1 - e] IN CeilDiv(Nearest(a * parts, b), parts)
     ELSE LET unit == Pow2[e - Significand + 1] IN unit * Nearest(a, b * unit)
ToFloat(n) == IF n < ExactBelow THEN n ELSE CeilOfQuotient(n, 1)
=============================================================================
