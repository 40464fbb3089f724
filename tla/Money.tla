-------------------------------- MODULE Money --------------------------------
(***************************************************************************)
(* Integer money arithmetic: src/src/shared/money/convert.ts.              *)
(* Amounts are integers of minor units; a rate is an integer scaled by     *)
(* RateScale (10^10 in the code, any positive integer here), so that every *)
(* conversion is exact up to the single rounding of RoundHalfUp.           *)
(***************************************************************************)
EXTENDS Integers

CONSTANT RateScale   \* RATE_SCALE, the denominator of a scaled rate

ASSUME RateScaleAssumption == RateScale \in Nat \ {0}

Magnitude(n) == IF n < 0 THEN -n ELSE n

(***************************************************************************)
(* BigInt division truncates towards zero, unlike \div; the remainder is   *)
(* taken on magnitudes, and a half rounds away from zero.                  *)
(***************************************************************************)
RoundHalfUp(numerator, denominator) ==
  LET quotient  == Magnitude(numerator) \div denominator
      remainder == Magnitude(numerator) % denominator
      magnitude == IF 2 * remainder >= denominator THEN quotient + 1 ELSE quotient
  IN  IF numerator < 0 THEN -magnitude ELSE magnitude

Convert(amount, rate) == RoundHalfUp(amount * rate, RateScale)

(* The conversion outcome 'roundsToZero': something became nothing.        *)
RoundsToZero(amount, rate) == amount # 0 /\ Convert(amount, rate) = 0
=============================================================================
