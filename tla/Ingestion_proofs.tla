-------------------------- MODULE Ingestion_proofs --------------------------
(***************************************************************************)
(* Theorems about Ingestion, for any number of processes, tickers and      *)
(* indicators, and about Providers, the call its quotes come from, for any *)
(* tables, charts and texts.                                               *)
(***************************************************************************)
EXTENDS Ingestion, Providers, Money_proofs

\* Where the series of AllIndicators are, and what may be counted.
LEMMA Indicators ==
  /\ Len(AllIndicators) \in Nat
  /\ DOMAIN AllIndicators = 1..Len(AllIndicators)
  /\ \A i \in 1..Len(AllIndicators) : AllIndicators[i] \in Indicator
  /\ \A x \in Indicator : \E i \in 1..Len(AllIndicators) : x = AllIndicators[i]
<1>1. AllIndicators \in Seq(Indicator)
  BY IndicatorAssumption DEF Indicator
<1>2. Len(AllIndicators) \in Nat /\ DOMAIN AllIndicators = 1..Len(AllIndicators)
  BY <1>1
<1> QED
  BY <1>2 DEF Indicator

LEMMA TickersCounted ==
  ASSUME NEW S \in SUBSET Ticker
  PROVE  /\ IsFiniteSet(S)
         /\ Cardinality(S) \in Nat
         /\ Cardinality(S) = 0 <=> S = {}
  BY SourcesAssumption, FS_Subset, FS_CardinalityType, FS_EmptySet

\* Counting an item leaves every Summary a Summary.
LEMMA SummaryCounts ==
  ASSUME sum \in [Process -> Summary], NEW p \in Process, NEW n \in Nat
  PROVE  /\ [sum EXCEPT ![p].fiiOK = @ + n] \in [Process -> Summary]
         /\ [sum EXCEPT ![p].fiiFailed = @ + n] \in [Process -> Summary]
         /\ [sum EXCEPT ![p].macroOK = @ + n] \in [Process -> Summary]
         /\ [sum EXCEPT ![p].macroFailed = @ + n] \in [Process -> Summary]
         /\ [sum EXCEPT ![p] = NoItems] \in [Process -> Summary]
<1>1. sum[p] \in Summary
  OBVIOUS
<1>2. /\ [sum[p] EXCEPT !.fiiOK = @ + n] \in Summary
      /\ [sum[p] EXCEPT !.fiiFailed = @ + n] \in Summary
      /\ [sum[p] EXCEPT !.macroOK = @ + n] \in Summary
      /\ [sum[p] EXCEPT !.macroFailed = @ + n] \in Summary
      /\ NoItems \in Summary
  BY <1>1 DEF Summary, NoItems
<1> QED
  BY <1>2

\* The effect of FetchFII when the provider has the tickers in found.
Answered(p, found) ==
    /\ \E fields \in [found -> SUBSET Optional] :
        batch' = [batch EXCEPT ![p] =
            {[ticker |-> t, fetchedAt |-> clock, fields |-> fields[t]] : t \in found}]
    /\ missed' = [missed EXCEPT ![p] = asked[p] \ found]

\* Every column and local variable of a pass stays in its range, and no stamp or
\* reference date is ahead of the clock.
LEMMA TypeStep ==
  ASSUME TypeOK, IndicatorsAccounted, [Next]_vars
  PROVE  TypeOK'
<1> USE Indicators, ClockAssumption, SourcesAssumption
    DEF TypeOK, PassState, env, tables, locals
<1>1. CASE Tick
  BY <1>1 DEF Tick
<1>2. CASE ChangeHoldings
  BY <1>2 DEF ChangeHoldings
<1>3. CASE Publish
  BY <1>3 DEF Publish
<1>4. ASSUME NEW p \in Process, StartRun(p) PROVE TypeOK'
  BY <1>4 DEF StartRun
<1>5. ASSUME NEW p \in Process, ResolveTickers(p) PROVE TypeOK'
  BY <1>5 DEF ResolveTickers
<1>6. ASSUME NEW p \in Process, FetchFII(p) PROVE TypeOK'
  <2>1. PICK found \in SUBSET asked[p] : Answered(p, found)
    BY <1>6, Zenon DEF FetchFII, Answered
  <2>0. PICK fields \in [found -> SUBSET Optional] :
          batch' = [batch EXCEPT ![p] = {[ticker |-> t, fetchedAt |-> clock,
                                          fields |-> fields[t]] : t \in found}]
    BY <2>1 DEF Answered
  <2>2. {[ticker |-> t, fetchedAt |-> clock, fields |-> fields[t]] : t \in found}
          \in SUBSET Quote
    BY DEF Quote
  <2>3. batch' \in [Process -> SUBSET Quote]
    BY <2>0, <2>2
  <2>4. missed' \in [Process -> SUBSET Ticker]
    BY <2>1 DEF Answered
  <2> QED
    BY <1>6, <2>3, <2>4 DEF FetchFII
<1>7. ASSUME NEW p \in Process, FetchFIIFails(p) PROVE TypeOK'
  <2>1. Cardinality(asked[p]) \in Nat
    BY TickersCounted
  <2> QED
    BY <1>7, <2>1, SummaryCounts DEF FetchFIIFails
<1>8. ASSUME NEW p \in Process, UpsertFII(p) PROVE TypeOK'
  <2>1. sum' \in [Process -> Summary]
    BY <1>8, SummaryCounts, 1 \in Nat DEF UpsertFII
  <2> QED
    BY <1>8, <2>1 DEF UpsertFII, Quote
<1>9. ASSUME NEW p \in Process, UpsertFIIFails(p) PROVE TypeOK'
  <2>1. sum' \in [Process -> Summary]
    BY <1>9, SummaryCounts, 1 \in Nat DEF UpsertFIIFails
  <2> QED
    BY <1>9, <2>1 DEF UpsertFIIFails
<1>10. ASSUME NEW p \in Process, EndFII(p) PROVE TypeOK'
  BY <1>10 DEF EndFII
<1>11. ASSUME NEW p \in Process, FetchMacro(p) PROVE TypeOK'
  BY <1>11 DEF FetchMacro
<1>12. ASSUME NEW p \in Process, UpsertMacro(p) PROVE TypeOK'
  <2>1. sum' \in [Process -> Summary]
    BY <1>12, SummaryCounts, 1 \in Nat DEF UpsertMacro
  <2> QED
    BY <1>12, <2>1 DEF UpsertMacro, IndicatorsAccounted
<1>13. ASSUME NEW p \in Process, MacroFails(p) PROVE TypeOK'
  <2>1. sum' \in [Process -> Summary]
    BY <1>13, SummaryCounts, 1 \in Nat DEF MacroFails
  <2> QED
    BY <1>13, <2>1 DEF MacroFails
<1>14. ASSUME NEW p \in Process, Finish(p) \/ Crash(p) PROVE TypeOK'
  <2>1. EndPass(p)
    BY <1>14 DEF Finish, Crash
  <2>2. sum' \in [Process -> Summary]
    BY <2>1, SummaryCounts, 1 \in Nat DEF EndPass
  <2> QED
    BY <2>1, <2>2 DEF EndPass
<1>15. CASE UNCHANGED vars
  BY <1>15 DEF vars
<1> QED
  BY <1>1, <1>2, <1>3, <1>4, <1>5, <1>6, <1>7, <1>8, <1>9, <1>10, <1>11, <1>12,
     <1>13, <1>14, <1>15 DEF Next, Step

---------------------------------------------------------------------------
\* The provider's answer has one quote per ticker.
LEMMA BatchSize ==
  ASSUME NEW found \in SUBSET Ticker, NEW fields \in [found -> SUBSET Optional],
         NEW B, B = {[ticker |-> t, fetchedAt |-> clock, fields |-> fields[t]] : t \in found}
  PROVE  IsFiniteSet(B) /\ Cardinality(B) = Cardinality(found)
<1> DEFINE quote == [t \in found |->
                        [ticker |-> t, fetchedAt |-> clock, fields |-> fields[t]]]
<1>1. quote \in Bijection(found, B)
  <2>1. quote \in [found -> B] /\ \A q \in B : \E t \in found : quote[t] = q
    OBVIOUS
  <2>2. \A t, u \in found : quote[t] = quote[u] => t = u
    <3> SUFFICES ASSUME NEW t \in found, NEW u \in found, quote[t] = quote[u]
                 PROVE  t = u
      OBVIOUS
    <3>1. quote[t].ticker = t /\ quote[u].ticker = u
      OBVIOUS
    <3> QED
      BY <3>1
  <2> QED
    BY <2>1, <2>2 DEF Bijection, Injection, Surjection, IsInjective
<1>2. IsFiniteSet(found)
  BY TickersCounted
<1> QED
  BY <1>1, <1>2, FS_Bijection DEF ExistsBijection

\* What the answer leaves out and what it holds make up what was asked for.
LEMMA AnswerSplitsAsked ==
  ASSUME NEW S \in SUBSET Ticker, NEW found \in SUBSET S
  PROVE  Cardinality(S \ found) + Cardinality(found) = Cardinality(S)
<1>1. S \cap found = found
  OBVIOUS
<1>2. Cardinality(S \ found) = Cardinality(S) - Cardinality(found)
  BY <1>1, TickersCounted, FS_Difference
<1> QED
  BY <1>2, TickersCounted

LEMMA FiniteBatchesStep ==
  ASSUME TypeOK, FiniteBatches, [Next]_vars
  PROVE  FiniteBatches'
<1> SUFFICES ASSUME NEW s \in Process PROVE IsFiniteSet(batch'[s])
  BY DEF FiniteBatches
<1>0. IsFiniteSet(batch[s])
  BY DEF FiniteBatches
<1>1. CASE batch' = batch
  BY <1>0, <1>1
<1>2. ASSUME NEW p \in Process, FetchFII(p) PROVE IsFiniteSet(batch'[s])
  <2>1. PICK found \in SUBSET asked[p] : Answered(p, found)
    BY <1>2, Zenon DEF FetchFII, Answered
  <2>2. PICK fields \in [found -> SUBSET Optional] :
          batch' = [batch EXCEPT ![p] = {[ticker |-> t, fetchedAt |-> clock,
                                          fields |-> fields[t]] : t \in found}]
    BY <2>1 DEF Answered
  <2>3. found \in SUBSET Ticker
    BY DEF TypeOK
  <2>4. IsFiniteSet({[ticker |-> t, fetchedAt |-> clock, fields |-> fields[t]]
                        : t \in found})
    BY <2>3, BatchSize
  <2> QED
    BY <1>0, <2>2, <2>4 DEF TypeOK
<1>3. ASSUME NEW p \in Process, UpsertFII(p) \/ UpsertFIIFails(p)
      PROVE  IsFiniteSet(batch'[s])
  <2>1. PICK q \in batch[p] : batch' = [batch EXCEPT ![p] = @ \ {q}]
    BY <1>3 DEF UpsertFII, UpsertFIIFails
  <2>2. IsFiniteSet(batch[s] \ {q})
    BY <1>0, FS_RemoveElement
  <2> QED
    BY <1>0, <2>1, <2>2 DEF TypeOK
<1>4. ASSUME NEW p \in Process, Finish(p) \/ Crash(p) PROVE IsFiniteSet(batch'[s])
  BY <1>0, <1>4, FS_EmptySet DEF Finish, Crash, EndPass, TypeOK
<1> QED
  BY <1>1, <1>2, <1>3, <1>4 DEF Next, Step, vars, locals, Tick, ChangeHoldings, Publish,
     StartRun, ResolveTickers, FetchFIIFails, EndFII, FetchMacro, UpsertMacro, MacroFails

LEMMA NothingYetStep ==
  ASSUME TypeOK, NothingYet, [Next]_vars
  PROVE  NothingYet'
<1> USE DEF TypeOK, NothingYet, env, tables, locals
<1>1. CASE Tick \/ ChangeHoldings \/ Publish
  BY <1>1 DEF Tick, ChangeHoldings, Publish
<1>2. ASSUME NEW p \in Process, StartRun(p) PROVE NothingYet'
  BY <1>2 DEF StartRun
<1>3. ASSUME NEW p \in Process, ResolveTickers(p) PROVE NothingYet'
  BY <1>3 DEF ResolveTickers
<1>4. ASSUME NEW p \in Process, FetchFII(p) PROVE NothingYet'
  <2>1. /\ pc' = [pc EXCEPT ![p] = "upsertFII"]
        /\ UNCHANGED <<asked, next, sum>>
        /\ \A r \in Process \ {p} : missed'[r] = missed[r] /\ batch'[r] = batch[r]
    BY <1>4 DEF FetchFII
  <2> QED
    BY <2>1
<1>5. ASSUME NEW p \in Process, FetchFIIFails(p) PROVE NothingYet'
  BY <1>5 DEF FetchFIIFails
<1>6. ASSUME NEW p \in Process, UpsertFII(p) \/ UpsertFIIFails(p) PROVE NothingYet'
  BY <1>6 DEF UpsertFII, UpsertFIIFails
<1>7. ASSUME NEW p \in Process, EndFII(p) \/ FetchMacro(p) PROVE NothingYet'
  BY <1>7 DEF EndFII, FetchMacro
<1>8. ASSUME NEW p \in Process, UpsertMacro(p) \/ MacroFails(p) PROVE NothingYet'
  <2>1. /\ pc' = [pc EXCEPT ![p] = "macro"]
        /\ UNCHANGED <<asked, missed, batch>>
        /\ \A r \in Process \ {p} : next'[r] = next[r] /\ sum'[r] = sum[r]
    BY <1>8 DEF UpsertMacro, MacroFails
  <2> QED
    BY <2>1
<1>9. ASSUME NEW p \in Process, Finish(p) \/ Crash(p) PROVE NothingYet'
  <2>1. EndPass(p)
    BY <1>9 DEF Finish, Crash
  <2>2. /\ pc' = [pc EXCEPT ![p] = "waiting"]
        /\ missed'[p] = {} /\ batch'[p] = {} /\ next'[p] = 1 /\ sum'[p] = NoItems
    BY <2>1 DEF EndPass
  <2>3. \A r \in Process \ {p} :
          /\ missed'[r] = missed[r] /\ batch'[r] = batch[r] /\ next'[r] = next[r]
          /\ sum'[r] = sum[r] /\ asked'[r] = asked[r]
    BY <2>1 DEF EndPass
  <2> QED
    BY <2>2, <2>3
<1>10. CASE UNCHANGED vars
  BY <1>10 DEF vars
<1> QED
  BY <1>1, <1>2, <1>3, <1>4, <1>5, <1>6, <1>7, <1>8, <1>9, <1>10 DEF Next, Step

\* The pass of p counts i, j, k and l more items of the four kinds.
Counted(p, i, j, k, l) ==
    /\ sum'[p].fiiOK = sum[p].fiiOK + i
    /\ sum'[p].fiiFailed = sum[p].fiiFailed + j
    /\ sum'[p].macroOK = sum[p].macroOK + k
    /\ sum'[p].macroFailed = sum[p].macroFailed + l
    /\ \A r \in Process \ {p} : sum'[r] = sum[r]

\* Counting one kind of item leaves the other counters alone.
LEMMA CountReads ==
  ASSUME sum \in [Process -> Summary], NEW p \in Process, NEW n \in Nat
  PROVE  /\ sum' = [sum EXCEPT ![p].fiiOK = @ + n] => Counted(p, n, 0, 0, 0)
         /\ sum' = [sum EXCEPT ![p].fiiFailed = @ + n] => Counted(p, 0, n, 0, 0)
         /\ sum' = [sum EXCEPT ![p].macroOK = @ + n] => Counted(p, 0, 0, n, 0)
         /\ sum' = [sum EXCEPT ![p].macroFailed = @ + n] => Counted(p, 0, 0, 0, n)
         /\ sum' = sum => Counted(p, 0, 0, 0, 0)
<1>1. /\ sum[p] \in Summary
      /\ sum[p].fiiOK \in Nat /\ sum[p].fiiFailed \in Nat
      /\ sum[p].macroOK \in Nat /\ sum[p].macroFailed \in Nat
  BY DEF Summary
<1>2. sum' = [sum EXCEPT ![p].fiiOK = @ + n] => Counted(p, n, 0, 0, 0)
  BY <1>1 DEF Counted, Summary
<1>3. sum' = [sum EXCEPT ![p].fiiFailed = @ + n] => Counted(p, 0, n, 0, 0)
  BY <1>1 DEF Counted, Summary
<1>4. sum' = [sum EXCEPT ![p].macroOK = @ + n] => Counted(p, 0, 0, n, 0)
  BY <1>1 DEF Counted, Summary
<1>5. sum' = [sum EXCEPT ![p].macroFailed = @ + n] => Counted(p, 0, 0, 0, n)
  BY <1>1 DEF Counted, Summary
<1>6. sum' = sum => Counted(p, 0, 0, 0, 0)
  BY <1>1 DEF Counted
<1> QED
  BY <1>2, <1>3, <1>4, <1>5, <1>6

LEMMA IndicatorsAccountedStep ==
  ASSUME TypeOK, IndicatorsAccounted, [Next]_vars
  PROVE  IndicatorsAccounted'
<1>0. /\ \A p \in Process : /\ sum[p].fiiOK \in Nat /\ sum[p].fiiFailed \in Nat
                            /\ sum[p].macroOK \in Nat /\ sum[p].macroFailed \in Nat
                            /\ next[p] \in Nat /\ observed[p] \in Nat
      /\ Len(AllIndicators) \in Nat
      /\ sum \in [Process -> Summary] /\ pc \in [Process -> PassState]
      /\ next \in [Process -> Nat] /\ observed \in [Process -> Nat]
  BY Indicators DEF TypeOK, Summary
<1> USE DEF IndicatorsAccounted, env, tables, locals
<1>1. CASE Tick \/ ChangeHoldings \/ Publish
  BY <1>1 DEF Tick, ChangeHoldings, Publish
<1>2. ASSUME NEW p \in Process, StartRun(p) \/ ResolveTickers(p) \/ EndFII(p)
      PROVE  IndicatorsAccounted'
  BY <1>0, <1>2 DEF StartRun, ResolveTickers, EndFII
<1>3. ASSUME NEW p \in Process, FetchFII(p) PROVE IndicatorsAccounted'
  BY <1>0, <1>3 DEF FetchFII
<1>4. ASSUME NEW p \in Process, FetchFIIFails(p) PROVE IndicatorsAccounted'
  <2>1. Cardinality(asked[p]) \in Nat
    BY TickersCounted DEF TypeOK
  <2>2. Counted(p, 0, Cardinality(asked[p]), 0, 0)
    BY <1>4, <1>0, <2>1, CountReads DEF FetchFIIFails
  <2>5. /\ sum'[p].macroOK = sum[p].macroOK
        /\ sum'[p].macroFailed = sum[p].macroFailed
    BY <1>0, <2>2 DEF Counted
  <2>6. \A r \in Process \ {p} : sum'[r] = sum[r]
    BY <2>2 DEF Counted
  <2>3. \A r \in Process : /\ sum'[r].macroOK = sum[r].macroOK
                           /\ sum'[r].macroFailed = sum[r].macroFailed
    BY <2>5, <2>6
  <2>4. pc' = [pc EXCEPT ![p] = "macro"] /\ next' = next /\ observed' = observed
    BY <1>4 DEF FetchFIIFails
  <2> QED
    BY <1>0, <2>3, <2>4
<1>5. ASSUME NEW p \in Process, UpsertFII(p) \/ UpsertFIIFails(p)
      PROVE  IndicatorsAccounted'
  <2>1. Counted(p, 1, 0, 0, 0) \/ Counted(p, 0, 1, 0, 0)
    <3>1. CASE UpsertFII(p)
      BY <3>1, <1>0, CountReads, 1 \in Nat DEF UpsertFII
    <3>2. CASE UpsertFIIFails(p)
      BY <3>2, <1>0, CountReads, 1 \in Nat DEF UpsertFIIFails
    <3> QED
      BY <1>5, <3>1, <3>2
  <2>2. \A r \in Process : /\ sum'[r].macroOK = sum[r].macroOK
                           /\ sum'[r].macroFailed = sum[r].macroFailed
    <3>1. sum[p].macroOK + 0 = sum[p].macroOK /\ sum[p].macroFailed + 0 = sum[p].macroFailed
      BY <1>0
    <3> QED
      BY <2>1, <3>1 DEF Counted
  <2>3. pc' = pc /\ next' = next /\ observed' = observed
    BY <1>5 DEF UpsertFII, UpsertFIIFails
  <2> QED
    BY <1>0, <2>2, <2>3
<1>6. ASSUME NEW p \in Process, FetchMacro(p) PROVE IndicatorsAccounted'
  BY <1>0, <1>6 DEF FetchMacro, TypeOK, Indicator
<1>7. ASSUME NEW p \in Process, UpsertMacro(p) PROVE IndicatorsAccounted'
  <2>1. Counted(p, 0, 0, 1, 0)
    BY <1>7, <1>0, CountReads, 1 \in Nat DEF UpsertMacro
  <2>2. /\ next' = [next EXCEPT ![p] = next[p] + 1]
        /\ pc' = [pc EXCEPT ![p] = "macro"]
        /\ observed' = observed
    BY <1>7 DEF UpsertMacro
  <2>3. sum'[p].macroOK + sum'[p].macroFailed + 1 = next'[p]
    <3>1. sum'[p].macroOK + sum'[p].macroFailed
              = (sum[p].macroOK + sum[p].macroFailed) + 1
      BY <1>0, <2>1 DEF Counted
    <3>2. next'[p] = next[p] + 1
      BY <1>0, <2>2
    <3> QED
      BY <1>0, <3>1, <3>2
  <2> QED
    BY <1>0, <2>1, <2>2, <2>3 DEF Counted
<1>8. ASSUME NEW p \in Process, MacroFails(p) PROVE IndicatorsAccounted'
  <2>1. Counted(p, 0, 0, 0, 1)
    BY <1>8, <1>0, CountReads, 1 \in Nat DEF MacroFails
  <2>2. /\ next' = [next EXCEPT ![p] = next[p] + 1]
        /\ pc' = [pc EXCEPT ![p] = "macro"]
        /\ observed' = observed
    BY <1>8 DEF MacroFails
  <2>3. sum'[p].macroOK + sum'[p].macroFailed + 1 = next'[p]
    <3>1. sum'[p].macroOK + sum'[p].macroFailed
              = (sum[p].macroOK + sum[p].macroFailed) + 1
      <4>1. /\ sum'[p].macroOK = sum[p].macroOK
            /\ sum'[p].macroFailed = sum[p].macroFailed + 1
        BY <1>0, <2>1 DEF Counted
      <4> QED
        BY <1>0, <4>1
    <3>2. next'[p] = next[p] + 1
      BY <1>0, <2>2
    <3> QED
      BY <1>0, <3>1, <3>2
  <2> QED
    BY <1>0, <2>1, <2>2, <2>3 DEF Counted
<1>9. ASSUME NEW p \in Process, Finish(p) \/ Crash(p) PROVE IndicatorsAccounted'
  <2>1. EndPass(p)
    BY <1>9 DEF Finish, Crash
  <2>2. sum'[p].macroOK = 0 /\ sum'[p].macroFailed = 0 /\ next'[p] = 1
    BY <1>0, <2>1 DEF EndPass, NoItems
  <2> QED
    BY <1>0, <2>1, <2>2 DEF EndPass
<1>10. CASE UNCHANGED vars
  BY <1>10 DEF vars
<1> QED
  BY <1>1, <1>2, <1>3, <1>4, <1>5, <1>6, <1>7, <1>8, <1>9, <1>10 DEF Next, Step

\* What the pass of s holds.
PassOf(s) == <<pc[s], asked[s], missed[s], batch[s], next[s], sum[s]>>

\* A pass does not touch another's local variables.
LEMMA OthersKept ==
  ASSUME TypeOK, NEW p \in Process, StartRun(p) \/ Step(p) \/ Crash(p),
         NEW s \in Process \ {p}
  PROVE  PassOf(s)' = PassOf(s)
<1> SUFFICES /\ pc'[s] = pc[s] /\ asked'[s] = asked[s] /\ missed'[s] = missed[s]
             /\ batch'[s] = batch[s] /\ next'[s] = next[s] /\ sum'[s] = sum[s]
  BY DEF PassOf
<1> USE DEF TypeOK, env, tables, locals
<1>1. CASE StartRun(p)
  BY <1>1 DEF StartRun
<1>2. CASE ResolveTickers(p)
  BY <1>2 DEF ResolveTickers
<1>3. CASE FetchFII(p)
  BY <1>3 DEF FetchFII
<1>4. CASE FetchFIIFails(p)
  BY <1>4 DEF FetchFIIFails
<1>5. CASE UpsertFII(p)
  BY <1>5 DEF UpsertFII
<1>6. CASE UpsertFIIFails(p)
  BY <1>6 DEF UpsertFIIFails
<1>7. CASE EndFII(p)
  BY <1>7 DEF EndFII
<1>8. CASE FetchMacro(p)
  BY <1>8 DEF FetchMacro
<1>9. CASE UpsertMacro(p)
  BY <1>9 DEF UpsertMacro
<1>10. CASE MacroFails(p)
  BY <1>10 DEF MacroFails
<1>11. CASE Finish(p) \/ Crash(p)
  BY <1>11 DEF Finish, Crash, EndPass
<1> QED
  BY <1>1, <1>2, <1>3, <1>4, <1>5, <1>6, <1>7, <1>8, <1>9, <1>10, <1>11 DEF Step

\* What TickersAccounted says of one pass.
TickersOf(p) ==
    pc[p] \in {"upsertFII", "macro", "upsertMacro"} =>
        /\ sum[p].fiiOK + sum[p].fiiFailed + Cardinality(missed[p])
                + Cardinality(batch[p]) = Cardinality(asked[p])
        /\ pc[p] # "upsertFII" => batch[p] = {}
        /\ pc[p] = "upsertFII" => next[p] = 1

LEMMA TickersAccountedStep ==
  ASSUME TypeOK, FiniteBatches, NothingYet, TickersAccounted, [Next]_vars
  PROVE  TickersAccounted'
<1>0. /\ \A p \in Process : /\ sum[p].fiiOK \in Nat /\ sum[p].fiiFailed \in Nat
                            /\ IsFiniteSet(batch[p])
                            /\ Cardinality(asked[p]) \in Nat
                            /\ Cardinality(missed[p]) \in Nat
                            /\ Cardinality(batch[p]) \in Nat
                            /\ TickersOf(p)
      /\ sum \in [Process -> Summary] /\ pc \in [Process -> PassState]
  BY TickersCounted, FS_CardinalityType
     DEF TypeOK, Summary, FiniteBatches, TickersAccounted, TickersOf
<1>1. ASSUME NEW s \in Process, PassOf(s)' = PassOf(s) PROVE TickersOf(s)'
  <2>1. /\ pc'[s] = pc[s] /\ asked'[s] = asked[s] /\ missed'[s] = missed[s]
        /\ batch'[s] = batch[s] /\ next'[s] = next[s] /\ sum'[s] = sum[s]
    BY <1>1 DEF PassOf
  <2> QED
    BY <1>0, <2>1 DEF TickersOf
<1>2. ASSUME NEW p \in Process, StartRun(p) \/ ResolveTickers(p) PROVE TickersOf(p)'
  <2>1. CASE StartRun(p)
    BY <1>0, <2>1 DEF StartRun, TickersOf
  <2>2. CASE ResolveTickers(p)
    <3>1. pc[p] = "resolve" /\ pc'[p] \in {"macro", "fetchFII"} /\ sum'[p] = NoItems
          /\ missed'[p] = {} /\ batch'[p] = {} /\ (pc'[p] = "macro" => asked'[p] = {})
      BY <1>0, <2>2 DEF ResolveTickers, NothingYet, TypeOK
    <3> QED
      BY <3>1, FS_EmptySet DEF TickersOf, NoItems
  <2> QED
    BY <1>2, <2>1, <2>2
<1>3. ASSUME NEW p \in Process, FetchFII(p) PROVE TickersOf(p)'
  <2>1. PICK found \in SUBSET asked[p] : Answered(p, found)
    BY <1>3, Zenon DEF FetchFII, Answered
  <2>2. PICK fields \in [found -> SUBSET Optional] :
          batch' = [batch EXCEPT ![p] = {[ticker |-> t, fetchedAt |-> clock,
                                          fields |-> fields[t]] : t \in found}]
    BY <2>1 DEF Answered
  <2>3. batch'[p] = {[ticker |-> t, fetchedAt |-> clock, fields |-> fields[t]]
                        : t \in found}
    BY <2>2 DEF TypeOK
  <2>4. found \in SUBSET Ticker /\ asked[p] \in SUBSET Ticker
    BY DEF TypeOK
  <2>5. Cardinality(batch'[p]) = Cardinality(found)
    BY <2>3, <2>4, BatchSize
  <2>6. missed'[p] = asked[p] \ found
    BY <2>1 DEF Answered, TypeOK
  <2>7. /\ pc[p] = "fetchFII" /\ pc'[p] = "upsertFII" /\ sum'[p] = NoItems
        /\ next'[p] = 1 /\ asked'[p] = asked[p]
    BY <1>3 DEF FetchFII, NothingYet, TypeOK
  <2>8. Cardinality(found) \in Nat /\ Cardinality(missed'[p]) \in Nat
    BY <2>4, <2>6, TickersCounted
  <2>9. Cardinality(missed'[p]) + Cardinality(batch'[p]) = Cardinality(asked'[p])
    BY <2>4, <2>5, <2>6, <2>7, AnswerSplitsAsked
  <2>10. sum'[p].fiiOK = 0 /\ sum'[p].fiiFailed = 0
    BY <2>7 DEF NoItems
  <2> QED
    BY <2>5, <2>7, <2>8, <2>9, <2>10 DEF TickersOf
<1>4. ASSUME NEW p \in Process, FetchFIIFails(p) PROVE TickersOf(p)'
  <2>1. /\ pc[p] = "fetchFII" /\ sum[p] = NoItems /\ missed'[p] = {} /\ batch'[p] = {}
        /\ asked'[p] = asked[p] /\ pc'[p] = "macro"
    BY <1>4 DEF FetchFIIFails, NothingYet, TypeOK, locals
  <2>2. Counted(p, 0, Cardinality(asked[p]), 0, 0)
    BY <1>0, <1>4, CountReads DEF FetchFIIFails
  <2>3. sum'[p].fiiOK = 0 /\ sum'[p].fiiFailed = Cardinality(asked[p])
    BY <1>0, <2>1, <2>2 DEF Counted, NoItems
  <2> QED
    BY <1>0, <2>1, <2>3, FS_EmptySet DEF TickersOf
<1>5. ASSUME NEW p \in Process, UpsertFII(p) \/ UpsertFIIFails(p) PROVE TickersOf(p)'
  <2>1. PICK q \in batch[p] : batch' = [batch EXCEPT ![p] = @ \ {q}]
    BY <1>5 DEF UpsertFII, UpsertFIIFails
  <2>2. batch'[p] = batch[p] \ {q}
    BY <2>1 DEF TypeOK
  <2>3. Cardinality(batch'[p]) = Cardinality(batch[p]) - 1
    BY <1>0, <2>1, <2>2, FS_RemoveElement
  <2>4. /\ pc[p] = "upsertFII" /\ pc' = pc /\ asked' = asked /\ missed' = missed
        /\ next' = next
    BY <1>5 DEF UpsertFII, UpsertFIIFails
  <2>5. sum'[p].fiiOK + sum'[p].fiiFailed = sum[p].fiiOK + sum[p].fiiFailed + 1
    <3>1. CASE UpsertFII(p)
      <4>1. Counted(p, 1, 0, 0, 0)
        BY <3>1, <1>0, CountReads, 1 \in Nat DEF UpsertFII
      <4> QED
        BY <1>0, <4>1 DEF Counted
    <3>2. CASE UpsertFIIFails(p)
      <4>1. Counted(p, 0, 1, 0, 0)
        BY <3>2, <1>0, CountReads, 1 \in Nat DEF UpsertFIIFails
      <4>2. sum'[p].fiiOK = sum[p].fiiOK /\ sum'[p].fiiFailed = sum[p].fiiFailed + 1
        BY <1>0, <4>1 DEF Counted
      <4> QED
        BY <1>0, <4>2
    <3> QED
      BY <1>5, <3>1, <3>2
  <2>6. (sum[p].fiiOK + sum[p].fiiFailed) + Cardinality(missed[p])
            + Cardinality(batch[p]) = Cardinality(asked[p])
    BY <1>0, <2>4 DEF TickersOf
  <2>7. (sum'[p].fiiOK + sum'[p].fiiFailed) + Cardinality(missed'[p])
            + Cardinality(batch'[p]) = Cardinality(asked'[p])
    BY <1>0, <2>3, <2>4, <2>5, <2>6
  <2> QED
    BY <1>0, <2>4, <2>7 DEF TickersOf
<1>6. ASSUME NEW p \in Process, EndFII(p) \/ FetchMacro(p) PROVE TickersOf(p)'
  BY <1>0, <1>6 DEF EndFII, FetchMacro, TickersOf, locals
<1>7. ASSUME NEW p \in Process, UpsertMacro(p) \/ MacroFails(p) PROVE TickersOf(p)'
  <2>1. /\ pc[p] \in {"macro", "upsertMacro"} /\ pc'[p] = "macro"
        /\ asked' = asked /\ missed' = missed /\ batch' = batch
    BY <1>0, <1>7 DEF UpsertMacro, MacroFails
  <2>2. sum'[p].fiiOK = sum[p].fiiOK /\ sum'[p].fiiFailed = sum[p].fiiFailed
    <3>1. Counted(p, 0, 0, 1, 0) \/ Counted(p, 0, 0, 0, 1)
      BY <1>7, <1>0, CountReads, 1 \in Nat, Zenon DEF UpsertMacro, MacroFails
    <3>2. sum[p].fiiOK + 0 = sum[p].fiiOK /\ sum[p].fiiFailed + 0 = sum[p].fiiFailed
      BY <1>0
    <3> QED
      BY <3>1, <3>2 DEF Counted
  <2> QED
    BY <1>0, <2>1, <2>2 DEF TickersOf
<1>8. ASSUME NEW p \in Process, Finish(p) \/ Crash(p) PROVE TickersOf(p)'
  BY <1>0, <1>8 DEF Finish, Crash, EndPass, TickersOf
<1>9. ASSUME NEW s \in Process, Tick \/ ChangeHoldings \/ Publish \/ UNCHANGED vars
      PROVE  TickersOf(s)'
  <2>1. PassOf(s)' = PassOf(s)
    BY <1>9 DEF Tick, ChangeHoldings, Publish, vars, locals, PassOf
  <2> QED
    BY <1>1, <2>1
<1>10. \A s \in Process : TickersOf(s)'
  <2>1. ASSUME NEW p \in Process, StartRun(p) \/ Step(p) \/ Crash(p)
        PROVE  TickersOf(p)'
    BY <1>2, <1>3, <1>4, <1>5, <1>6, <1>7, <1>8, <2>1 DEF Step
  <2>2. ASSUME NEW p \in Process, StartRun(p) \/ Step(p) \/ Crash(p),
               NEW s \in Process
        PROVE  TickersOf(s)'
    BY <1>1, <2>1, <2>2, OthersKept
  <2> QED
    BY <1>9, <2>2 DEF Next
<1> QED
  BY <1>10 DEF TickersAccounted, TickersOf

---------------------------------------------------------------------------
\* No step deletes a row.
LEMMA RowsGrow ==
  ASSUME TypeOK, [Next]_vars
  PROVE  /\ \A t \in Ticker : quotes[t] # NoQuote => quotes'[t] # NoQuote
         /\ \A i \in Indicator : series[i] \subseteq series'[i]
<1>1. quotes' = quotes \/ \E p \in Process : UpsertFII(p)
  BY DEF Next, Step, vars, tables, Tick, ChangeHoldings, Publish, StartRun,
    ResolveTickers,
     FetchFII, FetchFIIFails, UpsertFIIFails, EndFII, FetchMacro, UpsertMacro, MacroFails,
     Finish, Crash, EndPass
<1>2. ASSUME NEW p \in Process, UpsertFII(p)
      PROVE  \A t \in Ticker : quotes[t] # NoQuote => quotes'[t] # NoQuote
  BY <1>2, QuoteAssumption DEF UpsertFII, TypeOK
<1>3. series' = series \/ \E p \in Process : UpsertMacro(p)
  BY DEF Next, Step, vars, tables, Tick, ChangeHoldings, Publish, StartRun,
    ResolveTickers,
     FetchFII, FetchFIIFails, UpsertFII, UpsertFIIFails, EndFII, FetchMacro, MacroFails,
     Finish, Crash, EndPass
<1>4. ASSUME NEW p \in Process, UpsertMacro(p)
      PROVE  \A i \in Indicator : series[i] \subseteq series'[i]
  BY <1>4 DEF UpsertMacro, TypeOK
<1> QED
  BY <1>1, <1>2, <1>3, <1>4

\* What StoredSoFar says of one pass.
QuotesOf(p) ==
    pc[p] \in {"upsertFII", "macro", "upsertMacro"} /\ sum[p].fiiFailed = 0 =>
        \A t \in asked[p] \ missed[p] :
            quotes[t] # NoQuote \/ \E q \in batch[p] : q.ticker = t

SeriesOf(p) ==
    sum[p].macroFailed = 0 =>
        \A i \in 1..(next[p] - 1) : series[AllIndicators[i]] # {}

LEMMA QuotesStep ==
  ASSUME TypeOK, NothingYet, \A p \in Process : QuotesOf(p), [Next]_vars
  PROVE  \A p \in Process : QuotesOf(p)'
<1>0. /\ \A p \in Process : /\ sum[p].fiiOK \in Nat /\ sum[p].fiiFailed \in Nat
                            /\ Cardinality(asked[p]) \in Nat
                            /\ asked[p] \subseteq Ticker
                            /\ QuotesOf(p)
      /\ sum \in [Process -> Summary] /\ pc \in [Process -> PassState]
      /\ batch \in [Process -> SUBSET Quote]
  BY TickersCounted DEF TypeOK, Summary
<1>1. ASSUME NEW s \in Process, asked'[s] = asked[s], missed'[s] = missed[s],
             batch'[s] = batch[s], sum'[s].fiiFailed = sum[s].fiiFailed,
             pc'[s] \in {"upsertFII", "macro", "upsertMacro"}
                => pc[s] \in {"upsertFII", "macro", "upsertMacro"}
      PROVE  QuotesOf(s)'
  <2> SUFFICES ASSUME pc[s] \in {"upsertFII", "macro", "upsertMacro"},
                      sum[s].fiiFailed = 0, NEW t \in asked[s] \ missed[s]
               PROVE  quotes'[t] # NoQuote \/ \E q \in batch[s] : q.ticker = t
    BY <1>1 DEF QuotesOf
  <2>1. quotes[t] # NoQuote \/ \E q \in batch[s] : q.ticker = t
    BY <1>0 DEF QuotesOf
  <2> QED
    BY <1>0, <2>1, RowsGrow
<1>2. ASSUME NEW s \in Process, PassOf(s)' = PassOf(s) PROVE QuotesOf(s)'
  <2>1. /\ pc'[s] = pc[s] /\ asked'[s] = asked[s] /\ missed'[s] = missed[s]
        /\ batch'[s] = batch[s] /\ sum'[s] = sum[s]
    BY <1>2 DEF PassOf
  <2> QED
    BY <1>1, <2>1
<1>3. ASSUME NEW p \in Process, StartRun(p) PROVE QuotesOf(p)'
  BY <1>0, <1>3 DEF StartRun, QuotesOf
<1>4. ASSUME NEW p \in Process, ResolveTickers(p) PROVE QuotesOf(p)'
  <2>1. pc'[p] \in {"macro", "fetchFII"} /\ (pc'[p] = "macro" => asked'[p] = {})
    BY <1>0, <1>4 DEF ResolveTickers, TypeOK
  <2> QED
    BY <2>1 DEF QuotesOf
<1>5. ASSUME NEW p \in Process, FetchFII(p) PROVE QuotesOf(p)'
  <2>1. PICK found \in SUBSET asked[p] : Answered(p, found)
    BY <1>5, Zenon DEF FetchFII, Answered
  <2>2. PICK fields \in [found -> SUBSET Optional] :
          batch' = [batch EXCEPT ![p] = {[ticker |-> t, fetchedAt |-> clock,
                                          fields |-> fields[t]] : t \in found}]
    BY <2>1 DEF Answered
  <2>3. \A t \in found : \E q \in batch'[p] : q.ticker = t
    <3> SUFFICES ASSUME NEW t \in found PROVE \E q \in batch'[p] : q.ticker = t
      OBVIOUS
    <3>1. [ticker |-> t, fetchedAt |-> clock, fields |-> fields[t]] \in batch'[p]
      BY <1>0, <2>2
    <3> QED
      BY <3>1
  <2>4. missed'[p] = asked[p] \ found /\ asked'[p] = asked[p]
    BY <1>5, <2>1 DEF FetchFII, Answered, TypeOK
  <2> QED
    BY <2>3, <2>4 DEF QuotesOf
<1>6. ASSUME NEW p \in Process, FetchFIIFails(p) PROVE QuotesOf(p)'
  <2>1. sum[p].fiiFailed = 0 /\ asked[p] # {} /\ asked[p] \in SUBSET Ticker
    BY <1>6 DEF FetchFIIFails, NothingYet, NoItems, TypeOK
  <2>2. Cardinality(asked[p]) # 0
    BY <2>1, TickersCounted
  <2>3. Counted(p, 0, Cardinality(asked[p]), 0, 0)
    BY <1>0, <1>6, CountReads DEF FetchFIIFails
  <2>4. sum'[p].fiiFailed # 0
    BY <1>0, <2>1, <2>2, <2>3 DEF Counted
  <2> QED
    BY <2>4 DEF QuotesOf
<1>7. ASSUME NEW p \in Process, UpsertFII(p) PROVE QuotesOf(p)'
  <2>1. PICK q \in batch[p] : /\ quotes' = [quotes EXCEPT ![q.ticker] = q]
                             /\ batch' = [batch EXCEPT ![p] = @ \ {q}]
    BY <1>7 DEF UpsertFII
  <2>2. q \in Quote /\ q.ticker \in Ticker
    BY <1>0 DEF Quote
  <2>3. quotes'[q.ticker] # NoQuote /\ batch'[p] = batch[p] \ {q}
    BY <2>1, <2>2, QuoteAssumption DEF TypeOK
  <2>4. Counted(p, 1, 0, 0, 0)
    BY <1>7, <1>0, CountReads, 1 \in Nat DEF UpsertFII
  <2>5. sum'[p].fiiFailed = sum[p].fiiFailed
    BY <1>0, <2>4 DEF Counted
  <2>6. pc[p] = "upsertFII" /\ asked' = asked /\ missed' = missed
    BY <1>7 DEF UpsertFII
  <2>7. ASSUME sum[p].fiiFailed = 0, NEW t \in asked[p] \ missed[p]
        PROVE  quotes'[t] # NoQuote \/ \E r \in batch'[p] : r.ticker = t
    <3>1. quotes[t] # NoQuote \/ \E r \in batch[p] : r.ticker = t
      BY <1>0, <2>6, <2>7 DEF QuotesOf
    <3>2. t \in Ticker
      BY <1>0
    <3> QED
      BY <2>3, <3>1, <3>2, RowsGrow
  <2> QED
    BY <2>5, <2>6, <2>7 DEF QuotesOf
<1>8. ASSUME NEW p \in Process, UpsertFIIFails(p) PROVE QuotesOf(p)'
  <2>1. Counted(p, 0, 1, 0, 0)
    BY <1>8, <1>0, CountReads, 1 \in Nat DEF UpsertFIIFails
  <2>2. sum'[p].fiiFailed # 0
    BY <1>0, <2>1 DEF Counted
  <2> QED
    BY <2>2 DEF QuotesOf
<1>9. ASSUME NEW p \in Process, EndFII(p) \/ FetchMacro(p) PROVE QuotesOf(p)'
  <2>1. /\ pc[p] \in {"upsertFII", "macro"}
        /\ asked' = asked /\ missed' = missed /\ batch' = batch /\ sum' = sum
    BY <1>9 DEF EndFII, FetchMacro, locals
  <2> QED
    BY <1>1, <2>1
<1>10. ASSUME NEW p \in Process, UpsertMacro(p) \/ MacroFails(p) PROVE QuotesOf(p)'
  <2>1. Counted(p, 0, 0, 1, 0) \/ Counted(p, 0, 0, 0, 1)
    BY <1>10, <1>0, CountReads, 1 \in Nat, Zenon DEF UpsertMacro, MacroFails
  <2>2. sum[p].fiiFailed + 0 = sum[p].fiiFailed
    BY <1>0
  <2>3. sum'[p].fiiFailed = sum[p].fiiFailed
    BY <2>1, <2>2 DEF Counted
  <2>4. pc[p] \in {"macro", "upsertMacro"} /\ asked' = asked /\ missed' = missed
        /\ batch' = batch
    BY <1>10 DEF UpsertMacro, MacroFails
  <2> QED
    BY <1>1, <2>3, <2>4
<1>11. ASSUME NEW p \in Process, Finish(p) \/ Crash(p) PROVE QuotesOf(p)'
  BY <1>0, <1>11 DEF Finish, Crash, EndPass, QuotesOf
<1>12. ASSUME NEW s \in Process, Tick \/ ChangeHoldings \/ Publish \/ UNCHANGED vars
       PROVE  QuotesOf(s)'
  <2>1. PassOf(s)' = PassOf(s)
    BY <1>12 DEF Tick, ChangeHoldings, Publish, vars, locals, PassOf
  <2> QED
    BY <1>2, <2>1
<1>13. ASSUME NEW p \in Process, StartRun(p) \/ Step(p) \/ Crash(p)
       PROVE  QuotesOf(p)'
  BY <1>3, <1>4, <1>5, <1>6, <1>7, <1>8, <1>9, <1>10, <1>11, <1>13 DEF Step
<1>14. ASSUME NEW p \in Process, StartRun(p) \/ Step(p) \/ Crash(p), NEW s \in Process
       PROVE  QuotesOf(s)'
  BY <1>2, <1>13, <1>14, OthersKept
<1> QED
  BY <1>12, <1>14 DEF Next

LEMMA SeriesStep ==
  ASSUME TypeOK, IndicatorsAccounted, \A p \in Process : SeriesOf(p), [Next]_vars
  PROVE  \A p \in Process : SeriesOf(p)'
<1>0. /\ \A p \in Process : /\ sum[p].macroOK \in Nat /\ sum[p].macroFailed \in Nat
                            /\ next[p] \in 1..(Len(AllIndicators) + 1)
                            /\ SeriesOf(p)
      /\ sum \in [Process -> Summary] /\ next \in [Process -> Nat]
  BY Indicators DEF TypeOK, Summary
<1>1. ASSUME NEW p \in Process, NEW i \in 1..Len(AllIndicators),
             series[AllIndicators[i]] # {}
      PROVE  series'[AllIndicators[i]] # {}
  BY <1>1, Indicators, RowsGrow
<1>2. ASSUME NEW s \in Process, next'[s] = next[s],
             sum'[s].macroFailed = sum[s].macroFailed
      PROVE  SeriesOf(s)'
  <2> SUFFICES ASSUME sum[s].macroFailed = 0, NEW i \in 1..(next[s] - 1)
               PROVE  series'[AllIndicators[i]] # {}
    BY <1>2 DEF SeriesOf
  <2>1. series[AllIndicators[i]] # {}
    BY <1>0 DEF SeriesOf
  <2>2. i \in 1..Len(AllIndicators)
    BY <1>0, Indicators
  <2> QED
    BY <1>1, <2>1, <2>2
<1>3. ASSUME NEW s \in Process, PassOf(s)' = PassOf(s) PROVE SeriesOf(s)'
  <2>1. next'[s] = next[s] /\ sum'[s] = sum[s]
    BY <1>3 DEF PassOf
  <2> QED
    BY <1>2, <2>1
<1>4. ASSUME NEW p \in Process,
             StartRun(p) \/ ResolveTickers(p) \/ FetchFII(p) \/ EndFII(p) \/ FetchMacro(p)
      PROVE  SeriesOf(p)'
  <2>1. next' = next /\ sum' = sum
    BY <1>4 DEF StartRun, ResolveTickers, FetchFII, EndFII, FetchMacro, locals
  <2> QED
    BY <1>2, <2>1
<1>5. ASSUME NEW p \in Process, FetchFIIFails(p) \/ UpsertFII(p) \/ UpsertFIIFails(p)
      PROVE  SeriesOf(p)'
  <2>1. Cardinality(asked[p]) \in Nat
    BY TickersCounted DEF TypeOK
  <2>2. \/ Counted(p, 0, Cardinality(asked[p]), 0, 0)
        \/ Counted(p, 1, 0, 0, 0)
        \/ Counted(p, 0, 1, 0, 0)
    <3>1. CASE FetchFIIFails(p)
      BY <1>0, <2>1, <3>1, CountReads DEF FetchFIIFails
    <3>2. CASE UpsertFII(p)
      BY <1>0, <3>2, CountReads, 1 \in Nat DEF UpsertFII
    <3>3. CASE UpsertFIIFails(p)
      BY <1>0, <3>3, CountReads, 1 \in Nat DEF UpsertFIIFails
    <3> QED
      BY <1>5, <3>1, <3>2, <3>3
  <2>3. sum[p].macroFailed + 0 = sum[p].macroFailed
    BY <1>0
  <2>4. sum'[p].macroFailed = sum[p].macroFailed /\ next' = next
    BY <1>5, <2>2, <2>3 DEF Counted, FetchFIIFails, UpsertFII, UpsertFIIFails, locals
  <2> QED
    BY <1>2, <2>4
<1>6. ASSUME NEW p \in Process, UpsertMacro(p) PROVE SeriesOf(p)'
  <2>1. Counted(p, 0, 0, 1, 0)
    BY <1>6, <1>0, CountReads, 1 \in Nat DEF UpsertMacro
  <2>2. sum'[p].macroFailed = sum[p].macroFailed
    BY <1>0, <2>1 DEF Counted
  <2>3. next'[p] = next[p] + 1
    BY <1>0, <1>6 DEF UpsertMacro
  <2>4. next[p] \in 1..Len(AllIndicators)
    BY <1>6 DEF UpsertMacro, IndicatorsAccounted, TypeOK
  <2>5. series'[AllIndicators[next[p]]] # {}
    BY <1>6, <2>4, Indicators DEF UpsertMacro, TypeOK
  <2> SUFFICES ASSUME sum[p].macroFailed = 0, NEW i \in 1..next[p]
               PROVE  series'[AllIndicators[i]] # {}
    BY <1>0, <2>2, <2>3 DEF SeriesOf
  <2>6. CASE i = next[p]
    BY <2>5, <2>6
  <2>7. CASE i # next[p]
    <3>1. i \in 1..(next[p] - 1) /\ i \in 1..Len(AllIndicators)
      BY <2>4, <2>7, Indicators
    <3>2. series[AllIndicators[i]] # {}
      BY <1>0, <3>1 DEF SeriesOf
    <3> QED
      BY <1>1, <3>1, <3>2
  <2> QED
    BY <2>6, <2>7
<1>7. ASSUME NEW p \in Process, MacroFails(p) PROVE SeriesOf(p)'
  <2>1. Counted(p, 0, 0, 0, 1)
    BY <1>7, <1>0, CountReads, 1 \in Nat DEF MacroFails
  <2>2. sum'[p].macroFailed # 0
    BY <1>0, <2>1 DEF Counted
  <2> QED
    BY <2>2 DEF SeriesOf
<1>8. ASSUME NEW p \in Process, Finish(p) \/ Crash(p) PROVE SeriesOf(p)'
  <2>1. next'[p] = 1
    BY <1>0, <1>8 DEF Finish, Crash, EndPass
  <2> QED
    BY <2>1 DEF SeriesOf
<1>9. ASSUME NEW s \in Process, Tick \/ ChangeHoldings \/ Publish \/ UNCHANGED vars
      PROVE  SeriesOf(s)'
  <2>1. PassOf(s)' = PassOf(s)
    BY <1>9 DEF Tick, ChangeHoldings, Publish, vars, locals, PassOf
  <2> QED
    BY <1>3, <2>1
<1>10. ASSUME NEW p \in Process, StartRun(p) \/ Step(p) \/ Crash(p)
       PROVE  SeriesOf(p)'
  BY <1>4, <1>5, <1>6, <1>7, <1>8, <1>10 DEF Step
<1>11. ASSUME NEW p \in Process, StartRun(p) \/ Step(p) \/ Crash(p), NEW s \in Process
       PROVE  SeriesOf(s)'
  BY <1>3, <1>10, <1>11, OthersKept
<1> QED
  BY <1>9, <1>11 DEF Next

---------------------------------------------------------------------------
\* The accounting of RunOnce is inductive: it holds at every point of every pass,
\* however passes overlap and wherever one dies.
THEOREM IndInvCorrect == Spec => []IndInv
<1>1. Init => IndInv
  <2> SUFFICES ASSUME Init PROVE IndInv
    OBVIOUS
  <2>1. TypeOK
    BY ClockAssumption, Indicators DEF Init, TypeOK, PassState, Summary, NoItems
  <2>2. FiniteBatches
    BY FS_EmptySet DEF Init, FiniteBatches
  <2>3. NothingYet /\ TickersAccounted /\ IndicatorsAccounted
    BY DEF Init, NothingYet, TickersAccounted, IndicatorsAccounted, NoItems
  <2>4. StoredSoFar
    BY DEF Init, StoredSoFar
  <2> QED
    BY <2>1, <2>2, <2>3, <2>4 DEF IndInv
<1>2. IndInv /\ [Next]_vars => IndInv'
  <2> SUFFICES ASSUME IndInv, [Next]_vars PROVE IndInv'
    OBVIOUS
  <2> USE DEF IndInv
  <2>1. TypeOK' /\ FiniteBatches' /\ NothingYet'
    BY TypeStep, FiniteBatchesStep, NothingYetStep
  <2>2. TickersAccounted' /\ IndicatorsAccounted'
    BY TickersAccountedStep, IndicatorsAccountedStep
  <2>3. \A p \in Process : QuotesOf(p) /\ SeriesOf(p)
    BY DEF StoredSoFar, QuotesOf, SeriesOf
  <2>4. \A p \in Process : QuotesOf(p)' /\ SeriesOf(p)'
    BY <2>3, QuotesStep, SeriesStep
  <2>5. StoredSoFar'
    BY <2>4 DEF StoredSoFar, QuotesOf, SeriesOf
  <2> QED
    BY <2>1, <2>2, <2>5
<1> QED
  BY <1>1, <1>2, PTL DEF Spec

\* Every column and local variable keeps its type.
THEOREM TypeCorrect == Spec => []TypeOK
<1>1. IndInv => TypeOK
  BY DEF IndInv
<1> QED
  BY <1>1, IndInvCorrect, PTL

\* The Summary of a completed pass counts each answered ticker and each indicator
\* exactly once.
THEOREM ItemsAccountedCorrect == Spec => []ItemsAccounted
<1>1. IndInv => ItemsAccounted
  <2> SUFFICES ASSUME IndInv, NEW p \in Process, Completed(p)
               PROVE  /\ sum[p].fiiOK + sum[p].fiiFailed + Cardinality(missed[p])
                              = Cardinality(asked[p])
                      /\ sum[p].macroOK + sum[p].macroFailed = Len(AllIndicators)
    BY DEF ItemsAccounted
  <2>1. /\ sum[p].fiiOK \in Nat /\ sum[p].fiiFailed \in Nat
        /\ sum[p].macroOK \in Nat /\ sum[p].macroFailed \in Nat
        /\ Cardinality(missed[p]) \in Nat
    BY TickersCounted DEF IndInv, TypeOK, Summary
  <2>2. /\ sum[p].fiiOK + sum[p].fiiFailed + Cardinality(missed[p])
                + Cardinality(batch[p]) = Cardinality(asked[p])
        /\ batch[p] = {}
    BY DEF Completed, IndInv, TickersAccounted
  <2>3. sum[p].fiiOK + sum[p].fiiFailed + Cardinality(missed[p]) = Cardinality(asked[p])
    BY <2>1, <2>2, FS_EmptySet
  <2>4. /\ next[p] = Len(AllIndicators) + 1
        /\ sum[p].macroOK + sum[p].macroFailed + 1 = next[p]
    BY Indicators DEF Completed, IndInv, TypeOK, IndicatorsAccounted
  <2>5. Len(AllIndicators) \in Nat
    BY Indicators
  <2>6. sum[p].macroOK + sum[p].macroFailed = Len(AllIndicators)
    <3> DEFINE o == sum[p].macroOK  f == sum[p].macroFailed
               l == Len(AllIndicators)
    <3>1. o \in Nat /\ f \in Nat /\ l \in Nat /\ o + f + 1 = l + 1
      BY <2>1, <2>4, <2>5
    <3> HIDE DEF o, f, l
    <3>2. o + f = l
      BY <3>1
    <3> QED
      BY <3>2 DEF o, f, l
  <2> QED
    BY <2>3, <2>6
<1> QED
  BY <1>1, IndInvCorrect, PTL

\* A pass whose outcome is "success" has stored what its sources returned.
THEOREM SuccessCorrect == Spec => []SuccessIsStored
<1>1. IndInv => SuccessIsStored
  <2> SUFFICES ASSUME IndInv, NEW p \in Process, Completed(p),
                      Outcome(sum[p]) = "success"
               PROVE  /\ \A t \in asked[p] \ missed[p] : quotes[t] # NoQuote
                      /\ \A i \in Indicator : series[i] # {}
    BY DEF SuccessIsStored
  <2>1. sum[p].fiiFailed \in Nat /\ sum[p].macroFailed \in Nat
    BY DEF IndInv, TypeOK, Summary
  <2>2. sum[p].fiiFailed + sum[p].macroFailed = 0
    BY DEF Outcome
  <2>3. sum[p].fiiFailed = 0 /\ sum[p].macroFailed = 0
    BY <2>1, <2>2
  <2>4. batch[p] = {} /\ pc[p] = "macro"
    BY DEF Completed, IndInv, TickersAccounted
  <2>5. \A t \in asked[p] \ missed[p] : quotes[t] # NoQuote
    BY <2>3, <2>4 DEF IndInv, StoredSoFar
  <2>6. next[p] - 1 = Len(AllIndicators)
    BY Indicators DEF Completed, IndInv, TypeOK
  <2>7. \A i \in 1..Len(AllIndicators) : series[AllIndicators[i]] # {}
    BY <2>3, <2>6 DEF IndInv, StoredSoFar
  <2> QED
    BY <2>5, <2>7, Indicators
<1> QED
  BY <1>1, IndInvCorrect, PTL

---------------------------------------------------------------------------
\* A set of numbers that is bounded and not empty has a newest one, so that Latest's
\* CHOOSE chooses it.
LEMMA NewestDate ==
  ASSUME NEW c \in Nat, NEW S \in SUBSET (1..c), S # {}
  PROVE  \E d \in S : \A e \in S : e <= d
<1> DEFINE Bounds == {n \in Nat : \A e \in S : e <= n}
<1>1. c \in Bounds
  OBVIOUS
<1>2. PICK d \in Bounds : \A n \in Bounds : d <= n
  BY <1>1, LeastNumber
<1>3. d \in S
  <2> SUFFICES ASSUME d \notin S PROVE FALSE
    OBVIOUS
  <2>1. \A e \in S : e <= d - 1
    BY <1>2
  <2>2. PICK e \in S : TRUE
    OBVIOUS
  <2>3. d - 1 \in Nat
    BY <2>1, <2>2
  <2> QED
    BY <1>2, <2>1, <2>3
<1> QED
  BY <1>2, <1>3

\* What a reader of one series is given.
NewestOf(S) == IF S = {} THEN 0 ELSE CHOOSE d \in S : \A e \in S : e <= d

LEMMA NewestOfRow ==
  ASSUME NEW c \in Nat, NEW S \in SUBSET (1..c)
  PROVE  /\ NewestOf(S) \in Nat
         /\ S = {} => NewestOf(S) = 0
         /\ S # {} => NewestOf(S) \in S
         /\ \A e \in S : e <= NewestOf(S)
<1>1. CASE S = {}
  BY <1>1 DEF NewestOf
<1>2. CASE S # {}
  <2> DEFINE newest == CHOOSE d \in S : \A e \in S : e <= d
  <2>1. \E d \in S : \A e \in S : e <= d
    BY <1>2, NewestDate
  <2>2. newest \in S /\ \A e \in S : e <= newest
    BY <2>1
  <2>3. NewestOf(S) = newest
    BY <1>2 DEF NewestOf
  <2> HIDE DEF newest
  <2> QED
    BY <1>2, <2>2, <2>3
<1> QED
  BY <1>1, <1>2

\* A series that keeps its rows keeps a newest one at least as new.
LEMMA NewestGrows ==
  ASSUME NEW c \in Nat, NEW d \in Nat,
         NEW S \in SUBSET (1..c), NEW T \in SUBSET (1..d), S \subseteq T
  PROVE  NewestOf(T) >= NewestOf(S)
<1>1. CASE S = {}
  BY <1>1, NewestOfRow
<1>2. CASE S # {}
  BY <1>2, NewestOfRow
<1> QED
  BY <1>1, <1>2

\* With any number of passes at work, in any number of processes, and whenever
\* one dies, the date GetLatestMacroIndicator serves for a series never goes back:
\* a late upsert adds an older row and the newest one stays.
THEOREM LatestMacroCorrect == Spec => LatestMacroNeverRegresses
<1>1. TypeOK /\ TypeOK' /\ [Next]_vars
        => [\A i \in Indicator : Latest(i)' >= Latest(i)]_vars
  <2> SUFFICES ASSUME TypeOK, TypeOK', [Next]_vars, NEW i \in Indicator
               PROVE  Latest(i)' >= Latest(i)
    OBVIOUS
  <2>1. clock \in Nat /\ clock' \in Nat
    BY ClockAssumption DEF TypeOK
  <2>2. series[i] \in SUBSET (1..clock) /\ series'[i] \in SUBSET (1..clock')
    BY DEF TypeOK
  <2>3. series[i] \subseteq series'[i]
    BY RowsGrow
  <2>4. Latest(i) = NewestOf(series[i]) /\ Latest(i)' = NewestOf(series'[i])
    BY DEF Latest, NewestOf
  <2> QED
    BY <2>1, <2>2, <2>3, <2>4, NewestGrows
<1> QED
  BY <1>1, TypeCorrect, PTL DEF Spec, LatestMacroNeverRegresses

-----------------------------------------------------------------------------
(***************************************************************************)
(* What the pass is given: one call of the composite FII provider.         *)
(***************************************************************************)

\* A text is parsed to what it denotes.
LEMMA Parsed ==
  ASSUME NEW s, IsSequence(s), NEW scale \in Nat
  PROVE  DecimalToMinor(s, scale) = Denoted(s, scale)
BY DecimalToMinorDenotes, Zenon DEF IsSequence

\* A text without its percent sign is one.
LEMMA Stripped ==
  ASSUME NEW s, IsSequence(s)
  PROVE  IsSequence(StripPercent(s))
<1>1. CASE s # << >> /\ Last(s) = "%"
  <2> DEFINE f == SubSeq(s, 1, Len(s) - 1)
             S == ToSet(s)
  <2>1. StripPercent(s) = f
    BY <1>1 DEF StripPercent, Front
  <2>2. s \in Seq(S) /\ Len(s) \in Nat \ {0}
    BY <1>1 DEF IsSequence
  <2> HIDE DEF S
  <2>3. f \in Seq(S) /\ Len(f) = Len(s) - 1
    <3> DEFINE m == Len(s) - 1
    <3>1. m \in Nat /\ m <= Len(s) /\ s \in Seq(S)
      BY <2>2
    <3> HIDE DEF m
    <3>2. SubSeq(s, 1, m) \in Seq(S) /\ Len(SubSeq(s, 1, m)) = m
      BY <3>1
    <3> QED
      BY <3>2 DEF m
  <2> HIDE DEF f
  <2>4. DOMAIN f = 1..Len(f)
    BY <2>3
  <2>5. \A i \in 1..Len(f) : f[i] \in ToSet(f)
    BY <2>4 DEF ToSet
  <2>6. f \in Seq(ToSet(f))
    <3> DEFINE F == ToSet(f)
    <3> HIDE DEF F
    <3>1. f \in [1..Len(f) -> F] /\ Len(f) \in Nat
      BY <2>2, <2>3, <2>4, <2>5 DEF F
    <3>2. f \in Seq(F)
      BY <3>1
    <3> QED
      BY <3>2 DEF F
  <2> QED
    BY <2>1, <2>6 DEF IsSequence
<1>2. CASE ~(s # << >> /\ Last(s) = "%")
  BY <1>2 DEF StripPercent
<1> QED
  BY <1>1, <1>2

\* What the sites may have.
Sites ==
  /\ askedFor \in SUBSET Fund /\ table \in Tables /\ chart \in [Fund -> Charts]

\* A quote of these figures and of this last dividend.
QuoteOf(figures, last) ==
  [price |-> figures[1], yield |-> figures[2], pvp |-> figures[3],
   dividend |-> last[1], paid |-> last[2]]

\* A row is usable, and has its figures, as it denotes them.
LEMMA RowsParsed ==
  ASSUME Sites, NEW i \in DOMAIN table
  PROVE  /\ table[i] \in ToSet(table)
         /\ Usable(table[i])
              <=> table[i].ticker \in askedFor /\ Denoted(table[i].price, 2) # Invalid
         /\ RowToQuote(table[i]) = QuoteOf(Figures(table[i]), NothingPaid)
<1> DEFINE row == table[i]
<1>1. row \in ToSet(table)
  BY DEF ToSet
<1>2. IsSequence(row.price) /\ IsSequence(row.yield) /\ IsSequence(row.pvp)
  BY <1>1, ProvidersAssumption DEF Sites
<1> HIDE DEF row
<1>3. /\ DecimalToMinor(row.price, 2) = Denoted(row.price, 2)
      /\ DecimalToMinor(row.pvp, 4) = Denoted(row.pvp, 4)
      /\ DecimalToMinor(StripPercent(row.yield), 2)
           = Denoted(StripPercent(row.yield), 2)
  BY <1>2, Parsed, Stripped
<1>4. Usable(row) <=> row.ticker \in askedFor /\ Denoted(row.price, 2) # Invalid
  BY <1>3 DEF Usable
<1>5. RowToQuote(row) = QuoteOf(Figures(row), NothingPaid)
  BY <1>3 DEF RowToQuote, QuoteOf, Figures, NothingPaid
<1> QED
  BY <1>1, <1>4, <1>5 DEF row

\* The last row of a ticker.
LEMMA LastRow ==
  ASSUME Sites, NEW A \in SUBSET DOMAIN table, A # {}
  PROVE  Max(A) \in A
<1>1. table \in Seq(ToSet(table))
  BY ProvidersAssumption DEF Sites, IsSequence
<1>2. DOMAIN table = 1..Len(table) /\ Len(table) \in Nat
  <2> DEFINE S == ToSet(table)
  <2> HIDE DEF S
  <2>1. table \in Seq(S)
    BY <1>1 DEF S
  <2> QED
    BY <2>1
<1>3. IsFiniteSet(A) /\ A \in SUBSET Int
  <2>1. IsFiniteSet(1..Len(table))
    BY <1>2, FS_Interval
  <2> QED
    BY <1>2, <2>1, FS_Subset
<1> QED
  BY <1>3, MaxOf

\* The last dividends a ticker may have when its chart has been tried.
Lasts(t) ==
  IF t \in failed \/ Newest(t) = {} THEN {NothingPaid}
  ELSE {LastPaid(d) : d \in Newest(t)}
\* It has not, or not to its end.
Ahead(t) == t \in todo \/ (stage = "latest" /\ t = current)

\* Every quote is one of the table's, with what its chart has come to.
Quoted ==
  /\ answer = [t \in {t \in askedFor : Priced(t) # {}} |-> answer[t]]
  /\ \A t \in DOMAIN answer :
       \E row \in Priced(t), last \in IF Ahead(t) THEN {NothingPaid} ELSE Lasts(t) :
         answer[t] = QuoteOf(Figures(row), last)
  /\ todo \subseteq DOMAIN answer \ failed

\* What the walk over a chart has come to: the newest of the distributions it is past.
Walked ==
  /\ current \in DOMAIN answer \ (todo \cup failed)
  /\ left \subseteq chart[current]
  /\ IF left = chart[current] THEN latest = NoDistribution
     ELSE latest \in chart[current] /\ \A e \in chart[current] \ left : e.date <= latest.date

QuotesInv ==
  /\ Sites
  /\ stage \in {"fundamentals", "failed"} => failed = {}
  /\ stage \in {"dividends", "latest", "done"} => Quoted
  /\ stage = "latest" => Walked
  /\ stage = "done" => todo = {}

LEMMA QuotesInvInit == CallInit => QuotesInv
BY DEF CallInit, QuotesInv, Sites

\* Once the call returns nothing is ahead.
LEMMA QuotesInvDone == QuotesInv => QuotesAsPublished
<1> SUFFICES ASSUME QuotesInv, stage = "done"
             PROVE  QuotesAsPublished
  BY DEF QuotesAsPublished
<1>1. Quoted /\ todo = {}
  BY DEF QuotesInv
<1>2. DOMAIN answer = {t \in askedFor : Priced(t) # {}}
  BY <1>1 DEF Quoted
<1>3. ASSUME NEW t \in DOMAIN answer
      PROVE  /\ <<answer[t].price, answer[t].yield, answer[t].pvp>>
                  \in {Figures(row) : row \in Priced(t)}
             /\ <<answer[t].dividend, answer[t].paid>> \in Lasts(t)
  <2>1. ~Ahead(t)
    BY <1>1 DEF Ahead
  <2>2. PICK row \in Priced(t), last \in Lasts(t) :
          answer[t] = QuoteOf(Figures(row), last)
    BY <1>1, <1>3, <2>1 DEF Quoted
  <2>3. \E a, b, c : Figures(row) = <<a, b, c>>
    BY DEF Figures
  <2>4. \E a, b : last = <<a, b>>
    <3>1. \A d : \E a, b : LastPaid(d) = <<a, b>>
      BY DEF LastPaid, NothingPaid
    <3>2. \E a, b : NothingPaid = <<a, b>>
      BY DEF NothingPaid
    <3>3. last = NothingPaid \/ \E d : last = LastPaid(d)
      BY DEF Lasts
    <3> QED
      BY <3>1, <3>2, <3>3
  <2>5. /\ <<answer[t].price, answer[t].yield, answer[t].pvp>> = Figures(row)
        /\ <<answer[t].dividend, answer[t].paid>> = last
    BY <2>2, <2>3, <2>4 DEF QuoteOf
  <2> QED
    BY <2>5
<1> QED
  BY <1>2, <1>3 DEF QuotesAsPublished, Lasts

\* What the sites publish stays while the sites do.
LEMMA SitesKept ==
  ASSUME QuotesInv, UNCHANGED sites
  PROVE  /\ Sites'
         /\ askedFor' = askedFor /\ table' = table /\ chart' = chart
         /\ \A t : Priced(t)' = Priced(t)
         /\ \A t : Newest(t)' = Newest(t)
<1>1. askedFor' = askedFor /\ table' = table /\ chart' = chart
  BY DEF sites
<1> QED
  BY <1>1 DEF QuotesInv, Sites, Priced, Newest

LEMMA ReadTableStep ==
  ASSUME QuotesInv, ReadTable
  PROVE  QuotesInv'
<1> DEFINE usable == {i \in DOMAIN table : Usable(table[i])}
           Rows(t) == {i \in usable : table[i].ticker = t}
           RowOf(t) == table[Max(Rows(t))]
           found == {table[i].ticker : i \in usable}
           wanted == {t \in askedFor : Priced(t) # {}}
<1>1. /\ stage = "fundamentals" /\ stage' = "dividends" /\ failed' = failed /\ failed = {}
      /\ todo' = DOMAIN answer' /\ UNCHANGED sites
      /\ answer' = [t \in found |-> RowToQuote(RowOf(t))]
  BY DEF ReadTable, QuotesInv
<1>2. Sites
  BY DEF QuotesInv
<1>3. ASSUME NEW i \in DOMAIN table
      PROVE  /\ i \in usable <=> /\ table[i].ticker \in askedFor
                                 /\ table[i] \in Priced(table[i].ticker)
             /\ RowToQuote(table[i]) = QuoteOf(Figures(table[i]), NothingPaid)
  BY <1>2, <1>3, RowsParsed DEF Priced
<1>4. found = wanted
  <2>1. ASSUME NEW t \in found PROVE t \in wanted
    <3>1. PICK i \in usable : t = table[i].ticker
      OBVIOUS
    <3>2. i \in DOMAIN table
      OBVIOUS
    <3> HIDE DEF usable
    <3> QED
      BY <1>3, <3>1, <3>2
  <2>2. ASSUME NEW t \in wanted PROVE t \in found
    <3>1. PICK row \in Priced(t) : TRUE
      OBVIOUS
    <3>2. row.ticker = t /\ row \in ToSet(table)
      BY <3>1 DEF Priced
    <3>3. PICK i \in DOMAIN table : table[i] = row
      BY <3>2 DEF ToSet
    <3>4. i \in usable
      BY <1>3, <3>1, <3>2, <3>3
    <3> QED
      BY <3>2, <3>3, <3>4
  <2> QED
    BY <2>1, <2>2
<1>5. ASSUME NEW t \in found
      PROVE  \E row \in Priced(t) :
               RowToQuote(RowOf(t)) = QuoteOf(Figures(row), NothingPaid)
  <2>1. Rows(t) \in SUBSET DOMAIN table /\ Rows(t) # {}
    BY <1>5
  <2>2. Max(Rows(t)) \in Rows(t)
    BY <1>2, <2>1, LastRow
  <2> QED
    BY <1>3, <2>2
<1> HIDE DEF usable, RowOf, found, wanted
<1>6. DOMAIN answer' = wanted /\ answer' = [t \in wanted |-> answer'[t]]
  BY <1>1, <1>4
<1>7. /\ Sites' /\ askedFor' = askedFor /\ \A t : Priced(t)' = Priced(t)
  BY <1>1, SitesKept
<1>8. wanted = {t \in askedFor' : Priced(t)' # {}}
  BY <1>7 DEF wanted
<1>9. ASSUME NEW t \in DOMAIN answer'
      PROVE  \E row \in Priced(t)' : answer'[t] = QuoteOf(Figures(row), NothingPaid)
  BY <1>1, <1>4, <1>5, <1>6, <1>7
<1>10. Quoted'
  <2>1. \A t \in DOMAIN answer' : Ahead(t)'
    BY <1>1 DEF Ahead
  <2>2. answer' = [t \in {t \in askedFor' : Priced(t)' # {}} |-> answer'[t]]
    BY <1>6, <1>8
  <2>3. todo' \subseteq DOMAIN answer' \ failed'
    BY <1>1
  <2>4. \A t \in DOMAIN answer' :
          \E row \in Priced(t)',
             last \in IF Ahead(t)' THEN {NothingPaid} ELSE Lasts(t)' :
            answer'[t] = QuoteOf(Figures(row), last)
    BY <1>9, <2>1
  <2> QED
    BY <2>2, <2>3, <2>4 DEF Quoted
<1> QED
  BY <1>1, <1>7, <1>10 DEF QuotesInv

\* What stays quoted: nothing changes of the answer, and what is ahead of a ticker
\* that is neither tried nor tried in vain.
LEMMA QuotedKept ==
  ASSUME QuotesInv, Quoted, UNCHANGED <<sites, answer>>,
         \A t \in DOMAIN answer : Ahead(t)' <=> Ahead(t),
         failed' = failed, todo' \subseteq todo
  PROVE  Quoted'
<1>1. /\ askedFor' = askedFor /\ \A t : Priced(t)' = Priced(t)
      /\ \A t : Newest(t)' = Newest(t)
  BY SitesKept
<1>2. \A t : Lasts(t)' = Lasts(t)
  BY <1>1 DEF Lasts
<1> QED
  BY <1>1, <1>2 DEF Quoted

LEMMA ReadChartStep ==
  ASSUME QuotesInv, NEW t \in Fund, ReadChart(t)
  PROVE  QuotesInv'
<1>1. /\ stage = "dividends" /\ stage' = "latest" /\ t \in todo /\ todo' = todo \ {t}
      /\ current' = t /\ left' = chart[t] /\ latest' = NoDistribution
      /\ UNCHANGED sites /\ answer' = answer /\ failed' = failed
  BY DEF ReadChart
<1>2. Quoted
  BY <1>1 DEF QuotesInv
<1>3. \A u \in DOMAIN answer : Ahead(u)' <=> Ahead(u)
  BY <1>1 DEF Ahead
<1>4. Quoted'
  BY <1>1, <1>2, <1>3, QuotedKept
<1>5. Walked'
  <2>1. chart' = chart
    BY <1>1, SitesKept
  <2>2. NoDistribution' = NoDistribution
    BY DEF NoDistribution
  <2> QED
    BY <1>1, <1>2, <2>1, <2>2 DEF Walked, Quoted
<1> QED
  BY <1>1, <1>4, <1>5, SitesKept DEF QuotesInv

LEMMA ChartFailsStep ==
  ASSUME QuotesInv, NEW t \in Fund, ChartFails(t)
  PROVE  QuotesInv'
<1>1. /\ stage = "dividends" /\ stage' = stage /\ t \in todo /\ todo' = todo \ {t}
      /\ failed' = failed \cup {t}
      /\ UNCHANGED sites /\ answer' = answer
  BY DEF ChartFails, lookup
<1>2. Quoted
  BY <1>1 DEF QuotesInv
<1>3. /\ Sites' /\ askedFor' = askedFor /\ \A u : Priced(u)' = Priced(u)
      /\ \A u : Newest(u)' = Newest(u)
  BY <1>1, SitesKept
<1>4. Lasts(t)' = {NothingPaid} /\ Ahead(t) /\ ~Ahead(t)'
  BY <1>1 DEF Lasts, Ahead
<1>5. \A u : u # t => Lasts(u)' = Lasts(u) /\ (Ahead(u)' <=> Ahead(u))
  BY <1>1, <1>3 DEF Lasts, Ahead
<1>6. ASSUME NEW u \in DOMAIN answer'
      PROVE  \E row \in Priced(u)',
                last \in IF Ahead(u)' THEN {NothingPaid} ELSE Lasts(u)' :
               answer'[u] = QuoteOf(Figures(row), last)
  <2>1. PICK row \in Priced(u), last \in IF Ahead(u) THEN {NothingPaid} ELSE Lasts(u) :
          answer[u] = QuoteOf(Figures(row), last)
    BY <1>1, <1>2 DEF Quoted
  <2>2. last \in IF Ahead(u)' THEN {NothingPaid} ELSE Lasts(u)'
    BY <1>4, <1>5, <2>1
  <2> QED
    BY <1>1, <1>3, <2>1, <2>2
<1>7. Quoted'
  BY <1>1, <1>2, <1>3, <1>6 DEF Quoted
<1> QED
  BY <1>1, <1>3, <1>7 DEF QuotesInv

LEMMA WalkOverStep ==
  ASSUME QuotesInv, NEW d \in left, WalkOver(d)
  PROVE  QuotesInv'
<1>1. /\ stage = "latest" /\ stage' = stage /\ left' = left \ {d}
      /\ latest' = IF d.date >= latest.date THEN d ELSE latest
      /\ UNCHANGED sites /\ answer' = answer /\ todo' = todo /\ current' = current
      /\ failed' = failed
  BY DEF WalkOver
<1>2. Quoted /\ Walked
  BY <1>1 DEF QuotesInv
<1>3. chart' = chart /\ Sites'
  BY <1>1, SitesKept
<1>4. \A u \in DOMAIN answer : Ahead(u)' <=> Ahead(u)
  BY <1>1 DEF Ahead
<1>5. Quoted'
  BY <1>1, <1>2, <1>4, QuotedKept
<1>6. d \in chart[current] /\ \A e \in chart[current] : e.date \in Nat
  <2>1. current \in Fund
    BY <1>2 DEF Walked, Quoted, QuotesInv, Sites
  <2>2. chart[current] \in Charts
    BY <2>1 DEF QuotesInv, Sites
  <2> QED
    BY <1>2, <2>2, ProvidersAssumption DEF Walked
<1>7. latest' \in chart[current] /\ \A e \in chart[current] \ left' : e.date <= latest'.date
  <2>1. CASE left = chart[current]
    <3>1. latest.date = 0
      BY <1>2, <2>1 DEF Walked, NoDistribution
    <3>2. latest' = d
      BY <1>1, <1>6, <3>1
    <3>3. \A e \in chart[current] \ left' : e = d
      BY <1>1, <2>1
    <3> QED
      BY <1>6, <3>2, <3>3
  <2>2. CASE left # chart[current]
    <3>1. latest \in chart[current] /\ \A e \in chart[current] \ left : e.date <= latest.date
      BY <1>2, <2>2 DEF Walked
    <3>2. \A e \in chart[current] \ left' : e = d \/ e \in chart[current] \ left
      BY <1>1
    <3>3. latest' \in chart[current] /\ latest'.date >= latest.date /\ latest'.date >= d.date
      BY <1>1, <1>6, <3>1
    <3> QED
      BY <1>6, <3>1, <3>2, <3>3
  <2> QED
    BY <2>1, <2>2
<1>8. left' # chart[current]
  BY <1>1, <1>6
<1>9. Walked'
  BY <1>1, <1>2, <1>3, <1>7, <1>8 DEF Walked
<1> QED
  BY <1>1, <1>3, <1>5, <1>9 DEF QuotesInv

\* An empty amount denotes nothing.
LEMMA EmptyAmount == DecimalToMinor(<< >>, 2) = Invalid
<1>1. IsSequence(<< >>)
  BY DEF IsSequence
<1>2. DigitsAt(<< >>) = {}
  BY DEF DigitsAt, At
<1>3. ~IsNumber(<< >>)
  BY <1>2 DEF IsNumber
<1>4. Denoted(<< >>, 2) = Invalid
  BY <1>3 DEF Denoted
<1> QED
  BY <1>1, <1>4, Parsed

\* What the walk over a chart ends with is what its newest distribution pays.
LEMMA Paid ==
  ASSUME QuotesInv, Quoted, Walked, left = {}
  PROVE  LET cents == OrZero(DecimalToMinor(latest.amount, 2))
         IN  (IF cents > 0 THEN <<cents, Day(latest.date)>> ELSE NothingPaid)
               \in Lasts(current)
<1> DEFINE cents == OrZero(DecimalToMinor(latest.amount, 2))
           last == IF cents > 0 THEN <<cents, Day(latest.date)>> ELSE NothingPaid
<1>1. current \notin failed /\ current \in Fund
  BY DEF Walked, Quoted, QuotesInv, Sites
<1>2. CASE chart[current] = {}
  <2>1. latest = NoDistribution
    BY <1>2 DEF Walked
  <2>2. latest.amount = << >>
    BY <2>1 DEF NoDistribution
  <2>3. cents = 0
    BY <2>2, EmptyAmount DEF OrZero
  <2>4. last = NothingPaid
    BY <2>3
  <2>5. Newest(current) = {}
    BY <1>2 DEF Newest
  <2> QED
    BY <2>4, <2>5 DEF Lasts
<1>3. CASE chart[current] # {}
  <2>1. latest \in Newest(current)
    BY <1>3 DEF Walked, Newest
  <2>2. IsSequence(latest.amount)
    <3>1. chart[current] \in Charts
      BY <1>1 DEF QuotesInv, Sites
    <3> QED
      BY <2>1, <3>1, ProvidersAssumption DEF Newest
  <2>3. DecimalToMinor(latest.amount, 2) = Denoted(latest.amount, 2)
    BY <2>2, Parsed
  <2>4. last = LastPaid(latest)
    BY <2>3 DEF LastPaid
  <2> HIDE DEF last
  <2>5. last \in Lasts(current)
    BY <1>1, <2>1, <2>4 DEF Lasts
  <2> QED
    BY <2>5 DEF last
<1> QED
  BY <1>2, <1>3

\* A quote with a last dividend.
Paying(q, amount, day) == [[q EXCEPT !.dividend = amount] EXCEPT !.paid = day]

LEMMA Repaid ==
  ASSUME NEW q, NEW figures, NEW last, q = QuoteOf(figures, last), NEW amount, NEW day
  PROVE  Paying(q, amount, day) = QuoteOf(figures, <<amount, day>>)
<1> DEFINE a == figures[1]
           b == figures[2]
           c == figures[3]
           e == last[1]
           g == last[2]
           r == [q EXCEPT !.dividend = amount]
<1>1. q = [price |-> a, yield |-> b, pvp |-> c, dividend |-> e, paid |-> g]
  BY DEF QuoteOf
<1>2. QuoteOf(figures, <<amount, day>>)
        = [price |-> a, yield |-> b, pvp |-> c, dividend |-> amount, paid |-> day]
  BY DEF QuoteOf
<1> HIDE DEF a, b, c, e, g
<1>3. r = [price |-> a, yield |-> b, pvp |-> c, dividend |-> amount, paid |-> g]
  BY <1>1
<1> HIDE DEF r
<1>4. [r EXCEPT !.paid = day]
        = [price |-> a, yield |-> b, pvp |-> c, dividend |-> amount, paid |-> day]
  BY <1>3
<1>5. [r EXCEPT !.paid = day] = QuoteOf(figures, <<amount, day>>)
  BY <1>2, <1>4
<1> QED
  BY <1>5 DEF r, Paying

LEMMA EnrichStep ==
  ASSUME QuotesInv, Enrich
  PROVE  QuotesInv'
<1> DEFINE cents == OrZero(DecimalToMinor(latest.amount, 2))
           day == Day(latest.date)
           last == IF cents > 0 THEN <<cents, day>> ELSE NothingPaid
<1>1. /\ stage = "latest" /\ stage' = "dividends" /\ left = {}
      /\ UNCHANGED sites /\ todo' = todo /\ failed' = failed
      /\ current' = current
      /\ answer' = IF cents > 0
                   THEN [answer EXCEPT ![current].dividend = cents, ![current].paid = day]
                   ELSE answer
  BY DEF Enrich, lookup
<1>2. Quoted /\ Walked
  BY <1>1 DEF QuotesInv
<1>3. /\ Sites' /\ askedFor' = askedFor /\ \A u : Priced(u)' = Priced(u)
      /\ \A u : Newest(u)' = Newest(u)
  BY <1>1, SitesKept
<1>4. last \in Lasts(current)
  BY <1>1, <1>2, Paid
<1>5. current \in DOMAIN answer /\ current \notin todo /\ current \notin failed
  BY <1>2 DEF Walked
<1>6. PICK row \in Priced(current) :
        answer[current] = QuoteOf(Figures(row), NothingPaid)
  BY <1>1, <1>2, <1>5 DEF Quoted, Ahead
<1> HIDE DEF cents, day
<1>7. /\ answer' = [u \in DOMAIN answer |-> answer'[u]] /\ DOMAIN answer' = DOMAIN answer
      /\ \A u \in DOMAIN answer : u # current => answer'[u] = answer[u]
      /\ answer'[current] = QuoteOf(Figures(row), last)
  <2>1. CASE cents > 0
    <3>1. answer' = [answer EXCEPT ![current] = Paying(answer[current], cents, day)]
      BY <1>1, <1>2, <1>5, <2>1 DEF Quoted, Paying
    <3>2. Paying(answer[current], cents, day) = QuoteOf(Figures(row), <<cents, day>>)
      BY <1>6, Repaid
    <3>3. last = <<cents, day>>
      BY <2>1
    <3> HIDE DEF last
    <3> QED
      BY Zenon, <1>2, <1>5, <3>1, <3>2, <3>3 DEF Quoted
  <2>2. CASE ~(cents > 0)
    BY <1>1, <1>2, <1>6, <2>2 DEF Quoted
  <2> QED
    BY <2>1, <2>2
<1> HIDE DEF last
<1>8. \A u : Lasts(u)' = Lasts(u)
  BY <1>1, <1>3 DEF Lasts
<1>9. \A u : IF u = current THEN ~Ahead(u)' ELSE Ahead(u)' <=> Ahead(u)
  BY <1>1, <1>5 DEF Ahead
<1>10. ASSUME NEW u \in DOMAIN answer'
      PROVE  \E r \in Priced(u)',
                l \in IF Ahead(u)' THEN {NothingPaid} ELSE Lasts(u)' :
               answer'[u] = QuoteOf(Figures(r), l)
  <2>1. CASE u = current
    BY <1>3, <1>4, <1>6, <1>7, <1>8, <1>9, <2>1
  <2>2. CASE u # current
    <3>1. PICK r \in Priced(u), l \in IF Ahead(u) THEN {NothingPaid} ELSE Lasts(u) :
            answer[u] = QuoteOf(Figures(r), l)
      BY <1>2, <1>7, <2>2 DEF Quoted
    <3> QED
      BY <1>3, <1>7, <1>8, <1>9, <2>2, <3>1
  <2> QED
    BY <2>1, <2>2
<1>11. Quoted'
  <2>1. answer' = [u \in {u \in askedFor' : Priced(u)' # {}} |-> answer'[u]]
    BY <1>2, <1>3, <1>7 DEF Quoted
  <2>2. todo' \subseteq DOMAIN answer' \ failed'
    BY <1>1, <1>2, <1>7 DEF Quoted
  <2> QED
    BY <1>10, <2>1, <2>2 DEF Quoted
<1> QED
  BY <1>1, <1>3, <1>11 DEF QuotesInv

\* The steps keep the invariant.
LEMMA QuotesInvStep ==
  ASSUME QuotesInv, [CallNext]_callVars
  PROVE  QuotesInv'
<1>1. CASE TableFails
  BY <1>1, SitesKept DEF TableFails, QuotesInv
<1>2. CASE Return
  <2>1. /\ stage = "dividends" /\ todo = {} /\ stage' = "done" /\ todo' = todo
        /\ UNCHANGED <<sites, answer>> /\ failed' = failed
    BY <1>2 DEF Return
  <2>2. Quoted /\ \A t \in DOMAIN answer : Ahead(t)' <=> Ahead(t)
    BY <2>1 DEF QuotesInv, Ahead
  <2>3. Quoted'
    BY <2>1, <2>2, QuotedKept
  <2> QED
    BY <2>1, <2>3, SitesKept DEF QuotesInv
<1>3. CASE UNCHANGED callVars
  <2>1. /\ UNCHANGED <<sites, answer>> /\ stage' = stage /\ todo' = todo /\ failed' = failed
        /\ current' = current /\ left' = left /\ latest' = latest
    BY <1>3 DEF callVars, lookup
  <2>2. \A t : Ahead(t)' <=> Ahead(t)
    BY <2>1 DEF Ahead
  <2>3. Quoted => Quoted'
    BY <2>1, <2>2, QuotedKept
  <2>4. Walked => Walked'
    BY <2>1, SitesKept DEF Walked, NoDistribution
  <2> QED
    BY <2>1, <2>3, <2>4, SitesKept DEF QuotesInv
<1> QED
  BY <1>1, <1>2, <1>3, ReadTableStep, EnrichStep, ReadChartStep, ChartFailsStep, WalkOverStep
     DEF CallNext

\* The code behaviour: Composite's FetchFIIQuotes over Fundamentus and Yahoo, for tables
\* of any length, texts of any characters and length, and charts of any size.  When the
\* call returns, the tickers it has are those asked for with a readable price, each with
\* the figures that one of its own rows denotes and with its own latest dividend, or none.
THEOREM QuotesCorrect == CallSpec => []QuotesAsPublished
<1>1. QuotesInv /\ [CallNext]_callVars => QuotesInv'
  BY QuotesInvStep
<1> QED
  BY <1>1, QuotesInvInit, QuotesInvDone, PTL DEF CallSpec
=============================================================================
