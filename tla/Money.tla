------------------------------- MODULE Money -------------------------------
(***************************************************************************)
(* Integer money (internal/platform/money): centavos and basis points, one *)
(* rounding rule (half up, away from zero for losses).  Intermediate       *)
(* products that the code guards with big.Int are exact here, and so are    *)
(* the int64 ones, whose overflow starts at amounts of 4.6e14 centavos.    *)
(***************************************************************************)
EXTENDS Integers, Sequences, FiniteSets, Functions

Whole == 10000                     \* 100 % in basis points

\* num / den to the nearest integer, halves up, for num >= 0 and den > 0.
HalfUp(num, den) == (2 * num + den) \div (2 * den)

\* part / whole in basis points; a whole of nothing has no shares.
ShareBps(part, whole) ==
  IF whole <= 0 THEN 0
  ELSE IF part < 0 THEN -HalfUp(-part * Whole, whole)
  ELSE HalfUp(part * Whole, whole)

\* The amount that a share of so many basis points makes.
ApplyBps(amount, bps) ==
  IF amount <= 0 \/ bps <= 0 THEN 0 ELSE HalfUp(amount * bps, Whole)

\* Simple interest over a year of 365 days.
AccrueSimpleInterest(principal, rateBps, elapsedDays) ==
  IF principal <= 0 \/ rateBps <= 0 \/ elapsedDays <= 0 THEN 0
  ELSE HalfUp(principal * rateBps * elapsedDays, Whole * 365)

\* Shares of Whole in proportion to the weights: each is rounded down, and what
\* is left over goes one by one to the largest remainders, the first of equals.
AllocateBps(weights) ==
  LET I         == DOMAIN weights
      weight    == [i \in I |-> IF weights[i] > 0 THEN weights[i] ELSE 0]
      total     == SumFunction(weight)
      share     == [i \in I |-> (weight[i] * Whole) \div total]
      remainder == [i \in I |-> (weight[i] * Whole) % total]
      leftover  == Whole - SumFunction(share)
      Before(i) == {j \in I : \/ remainder[j] > remainder[i]
                              \/ remainder[j] = remainder[i] /\ j < i}
  IN  [i \in I |-> IF total = 0 THEN 0
                   ELSE share[i] + (IF Cardinality(Before(i)) < leftover
                                    THEN 1 ELSE 0)]

\* The mean of values under weights that make up Whole.
WeightedMeanBps(values, weightsBps) ==
  LET I   == DOMAIN values \cap DOMAIN weightsBps
      sum == SumFunction([i \in I |-> values[i] * weightsBps[i]])
  IN  IF sum <= 0 THEN 0 ELSE HalfUp(sum, Whole)

Clamp(v, lo, hi) == IF v < lo THEN lo ELSE IF v > hi THEN hi ELSE v
=============================================================================
