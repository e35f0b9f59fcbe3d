-------------------------------- MODULE Usdc --------------------------------
(***************************************************************************)
(* Amounts of tokens as people read and type them                          *)
(* (packages/shared/src/format.ts).  A numeral is given by what its digits *)
(* say: those before the point make the number `whole' (0 if there are     *)
(* none), those after it, `places' many, make the number `frac'.           *)
(***************************************************************************)
EXTENDS Naturals

USDC_DECIMALS == 6

\* Bound on the digits that are typed after the point.
MaxPlaces == 9

\* A power of ten.
Ten(k) ==
  IF k = 0 THEN 1
  ELSE <<10, 100, 1000, 10000, 100000, 1000000, 10000000, 100000000, 1000000000>>[k]

Numeral ==
  {n \in [whole : Nat, frac : Nat, places : 0..MaxPlaces] : n.frac < Ten(n.places)}

\* Mutant of parseUsdc: the digits after the point are not padded.
parseUsdcUnpadded(n) ==
  n.whole * Ten(USDC_DECIMALS)
    + IF n.places > USDC_DECIMALS THEN n.frac \div Ten(n.places - USDC_DECIMALS) ELSE n.frac

\* The first six digits after the point, with zeros in place of those that are
\* not there; the others are dropped.
parseUsdc(n) ==
  n.whole * Ten(USDC_DECIMALS)
    + IF n.places > USDC_DECIMALS
        THEN n.frac \div Ten(n.places - USDC_DECIMALS)
        ELSE n.frac * Ten(USDC_DECIMALS - n.places)

\* How many of the six digits after the point may be left, without the others
\* (zeros) being missed.
Enough(v) == {k \in 0..USDC_DECIMALS : v % Ten(USDC_DECIMALS - k) = 0}

\* All digits before the point, and those after it but for zeros at the end.
formatUsdc(v) ==
  LET places == CHOOSE k \in Enough(v) : \A j \in Enough(v) : k <= j IN
  [whole |-> v \div Ten(USDC_DECIMALS),
   frac |-> (v % Ten(USDC_DECIMALS)) \div Ten(USDC_DECIMALS - places),
   places |-> places]

\* What is typed, in base units, rounded down.
BaseUnits(n) ==
  ((n.whole * Ten(n.places) + n.frac) * Ten(USDC_DECIMALS)) \div Ten(n.places)
=============================================================================
