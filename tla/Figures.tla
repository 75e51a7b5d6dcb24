------------------------------ MODULE Figures ------------------------------
(***************************************************************************)
(* What the API computes from rows it has read: the dashboard, the health  *)
(* score, the projections and the split of a contribution.  Holdings are   *)
(* sets of rows; quotes and macro readings are functions whose domains are *)
(* the tickers and indicators that have one.                               *)
(*                                                                         *)
(*   FII row    [id, ticker, quantity, averagePrice]                       *)
(*   fixed row  [id, invested, rate, indexer, daily, created]              *)
(*   quote      [price, dividend, sector]                                  *)
(***************************************************************************)
EXTENDS Integers, Sequences, FiniteSets, Functions, Money

CONSTANT Unset                     \* no investor profile

Risks == {"conservative", "moderate", "aggressive"}
Classes == {"fii", "fixed_income"}

SumOver(f) == SumFunction(f)       \* of the values of a function or a sequence
Largest(S) == CHOOSE x \in S : \A y \in S : x >= y
Bigger(a, b) == IF a > b THEN a ELSE b

-----------------------------------------------------------------------------
(* Holdings *)

\* The rate a fixed-income row earns now; its raw rate if the reading is missing.
ResolveEffectiveRate(row, macro) ==
  CASE row.indexer = "cdi_percentual" /\ "cdi" \in DOMAIN macro ->
         ApplyBps(macro["cdi"], row.rate)
    [] row.indexer = "ipca_spread" /\ "ipca" \in DOMAIN macro ->
         row.rate + macro["ipca"]
    [] OTHER -> row.rate

Cost(row) == row.averagePrice * row.quantity

\* A FII without a quote stands at its cost, in the sector "other".
Worth(row, quotes) ==
  IF row.ticker \in DOMAIN quotes
  THEN quotes[row.ticker].price * row.quantity ELSE Cost(row)
SectorOf(row, quotes) ==
  IF row.ticker \in DOMAIN quotes THEN quotes[row.ticker].sector ELSE "other"
Dividend(row, quotes) ==
  IF row.ticker \in DOMAIN quotes
  THEN quotes[row.ticker].dividend * row.quantity ELSE 0

Accrued(row, macro, today) ==
  AccrueSimpleInterest(row.invested, ResolveEffectiveRate(row, macro),
                       Bigger(0, today - row.created))

-----------------------------------------------------------------------------
(* Dashboard *)

\* Faulty variant of SectorsOf: what has no quote is in no sector.
SectorsOfQuoted(fii, quotes) ==
  LET quoted == {row \in fii : row.ticker \in DOMAIN quotes}
  IN  [s \in {SectorOf(row, quotes) : row \in quoted} |->
         SumOver([row \in {x \in quoted : SectorOf(x, quotes) = s} |-> Worth(row, quotes)])]

SectorsOf(fii, quotes) ==
  [s \in {SectorOf(row, quotes) : row \in fii} |->
     SumOver([row \in {x \in fii : SectorOf(x, quotes) = s} |-> Worth(row, quotes)])]

\* The classes the program names but does not hold (stocks, ETFs) are left out.
Dashboard(fii, fixed, macro, quotes, today) ==
  LET invested == SumOver([row \in fii |-> Cost(row)])
                  + SumOver([row \in fixed |-> row.invested])
      inFII    == SumOver([row \in fii |-> Worth(row, quotes)])
      inFixed  == SumOver([row \in fixed |->
                            row.invested + Accrued(row, macro, today)])
      current  == inFII + inFixed
      sectors  == SectorsOf(fii, quotes)
  IN  [invested    |-> invested,
       current     |-> current,
       income      |-> SumOver([row \in fii |-> Dividend(row, quotes)]),
       growth      |-> current - invested,
       growthBps   |-> ShareBps(current - invested, invested),
       value       |-> [c \in Classes |-> IF c = "fii" THEN inFII ELSE inFixed],
       share       |-> [c \in Classes |->
                          ShareBps(IF c = "fii" THEN inFII ELSE inFixed, current)],
       sectorValue |-> sectors,
       sectorShare |-> [s \in DOMAIN sectors |-> ShareBps(sectors[s], inFII)],
       stale       |-> {row.ticker : row \in fii} \ DOMAIN quotes]

-----------------------------------------------------------------------------
(* Health score *)

\* Faulty variant of LiquidValue: the amounts invested, not their part of today's value.
LiquidValueInvested(inFII, inFixed, fixed) ==
  inFII + SumOver([row \in {x \in fixed : x.daily} |-> row.invested])

\* What is invested at daily liquidity, as a part of today's fixed income.
LiquidValue(inFII, inFixed, fixed) ==
  LET invested == SumOver([row \in fixed |-> row.invested])
      daily    == SumOver([row \in {x \in fixed : x.daily} |-> row.invested])
  IN  inFII + (IF invested > 0
               THEN ApplyBps(inFixed, ShareBps(daily, invested)) ELSE 0)

\* What the score is computed from: the dashboard and what is read after it.
HealthInputs(dash, fii, fixed, profile, selic) ==
  [current     |-> dash.current,
   inFII       |-> dash.value["fii"],
   inFixed     |-> dash.value["fixed_income"],
   liquid      |-> LiquidValue(dash.value["fii"], dash.value["fixed_income"], fixed),
   holdings    |-> Cardinality(fii) + Cardinality(fixed),
   sectors     |-> Cardinality(DOMAIN dash.sectorValue),
   worstClass  |-> Largest({0} \cup {dash.share[c] : c \in Classes}),
   worstSector |-> Largest({0} \cup
                     {dash.sectorShare[s] : s \in DOMAIN dash.sectorShare}),
   risk        |-> profile,
   selic       |-> selic]         \* 0 without a reading

BaseFIIShareBps(risk) == CASE risk = "conservative" -> 3000
                           [] risk = "aggressive"   -> 7000
                           [] OTHER                 -> 5000

\* Above a policy rate of 10 % the target leans to fixed income, by 10 points at most.
TargetFIIShareBps(risk, selic) ==
  BaseFIIShareBps(risk) - Clamp((selic - 1000) \div 2, 0, 1000)

FIIShareBps(in) == ShareBps(in.inFII, in.inFII + in.inFixed)
Worst(in) == Bigger(in.worstClass, in.worstSector)
Points(bps) == Clamp(100 - bps \div 100, 0, 100)

Diversification(in) == Clamp(Clamp(in.holdings * 12, 0, 60)
                             + Clamp(in.sectors * 13, 0, 40), 0, 100)
Concentration(in) == Points(Worst(in))
Liquidity(in) == Clamp(ShareBps(in.liquid, in.current) \div 100, 0, 100)
GoalAlignment(in) ==
  LET off == FIIShareBps(in) - TargetFIIShareBps(in.risk, in.selic)
  IN  Points(Bigger(off, -off))
RiskExposure(in) ==
  Points(Bigger(0, FIIShareBps(in) - BaseFIIShareBps(in.risk))
         + Bigger(0, Worst(in) - 5000) \div 2)

DefaultWeightBps == <<2500, 2500, 1500, 2000, 1500>>

\* An empty portfolio scores nothing; without a profile its two factors are left
\* out and the others weigh more.
HealthScore(in) ==
  IF in.current <= 0
  THEN [score |-> 0, factors |-> <<0, 0, 0, 0, 0>>, weights |-> DefaultWeightBps]
  ELSE LET measured == <<Diversification(in), Concentration(in), Liquidity(in)>>
           factors  == IF in.risk = Unset THEN measured
                       ELSE measured \o <<GoalAlignment(in), RiskExposure(in)>>
           weights  == AllocateBps(SubSeq(DefaultWeightBps, 1, Len(factors)))
       IN  [score   |-> WeightedMeanBps(factors, weights),
            factors |-> factors, weights |-> weights]

-----------------------------------------------------------------------------
(* Projections *)

SpreadBps == 200
Scenarios == <<"pessimistic", "base", "optimistic">>
YieldAdjBps(sc) == CASE sc = "pessimistic" -> -SpreadBps
                     [] sc = "optimistic"  -> SpreadBps
                     [] OTHER              -> 0

\* Faulty variant of MonthlyFromAnnual: the division truncates.
MonthlyTruncated(annual) == IF annual <= 0 THEN 0 ELSE annual \div 12

MonthlyFromAnnual(annual) == IF annual <= 0 THEN 0 ELSE HalfUp(annual, 12)

\* The value after each month, with its yield reinvested, seen at the years' ends.
ProjectNetWorth(current, contribution, years, yieldBps) ==
  LET value[m \in 0..12 * years] ==
        IF m = 0 THEN current
        ELSE LET before == value[m - 1]
             IN  before + ApplyBps(before, yieldBps \div 12) + contribution
  IN  [y \in 0..years |-> value[12 * y]]

FixedIncomeAnnual(fixed, macro) ==
  SumOver([row \in fixed |-> ApplyBps(row.invested, ResolveEffectiveRate(row, macro))])

Projections(dash, fixed, macro, contribution, years) ==
  LET annual    == dash.income * 12 + FixedIncomeAnnual(fixed, macro)
      yield     == ShareBps(annual, dash.current)
      delta     == ApplyBps(dash.current, SpreadBps)
      Income(i) == Bigger(0, annual + (delta * YieldAdjBps(Scenarios[i])) \div SpreadBps)
      Yield(i)  == Bigger(0, yield + YieldAdjBps(Scenarios[i]))
  IN  [annual   |-> [i \in 1..3 |-> Income(i)],
       monthly  |-> [i \in 1..3 |-> MonthlyFromAnnual(Income(i))],
       netWorth |-> [i \in 1..3 |->
                      ProjectNetWorth(dash.current, contribution, years, Yield(i))]]

-----------------------------------------------------------------------------
(* Split of a contribution *)

SplitClasses == <<"fii", "fixed_income">>
TargetShares(risk) == LET fii == BaseFIIShareBps(risk) IN <<fii, Whole - fii>>

\* Faulty variant of AllocationFromFacts: the facts hold the shares in another type.
AllocationNotFound(dash, c) == 0

\* The value of a class as the facts tell it: its share of the total.
AllocationFromFacts(dash, c) ==
  IF dash.value[c] > 0 THEN ApplyBps(dash.current, dash.share[c]) ELSE 0

\* New money goes where the portfolio will be under its target.  An area with no
\* share is not shown; here its amount is 0.
Split(dash, risk, contribution) ==
  LET target  == [i \in 1..2 |-> ApplyBps(dash.current + contribution,
                                          TargetShares(risk)[i])]
      gap     == [i \in 1..2 |->
                    Bigger(0, target[i] - AllocationFromFacts(dash, SplitClasses[i]))]
      weights == IF \E i \in 1..2 : gap[i] > 0 THEN gap ELSE TargetShares(risk)
      shares  == AllocateBps(weights)
  IN  [shares  |-> shares,
       amounts |-> [i \in 1..2 |-> ApplyBps(contribution, shares[i])]]
=============================================================================
