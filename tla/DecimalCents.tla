--------------------------- MODULE DecimalCents ----------------------------
(***************************************************************************)
(* Decimal amounts as integers, and their rounding.                        *)
(***************************************************************************)
EXTENDS Integers

\* ROUND_HALF_EVEN of x / unit, as Decimal.quantize and the format :.2f do.
HalfEven(x, unit) ==
  LET q == x \div unit
      r == 2 * (x % unit)
  IN  IF r < unit \/ (r = unit /\ q % 2 = 0) THEN q ELSE q + 1
=============================================================================
