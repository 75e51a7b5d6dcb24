----------------------------- MODULE Ingestion -----------------------------
(***************************************************************************)
(* Market-data ingestion: Worker.RunOnce, its ticker sources and its       *)
(* upserts (internal/marketdata/ingest, fii, fundamentus, bcb, postgres).  *)
(*                                                                         *)
(* A process runs passes one after the other: an API replica does so from  *)
(* its in-process scheduler, cron does so by starting cmd/ingest again.    *)
(* Several processes may overlap; they share the two tables only.  Every   *)
(* provider request and every statement is one action.                     *)
(*                                                                         *)
(* Time stands for content: a quote is what the provider showed when it    *)
(* was fetched, a macro observation is what the series held on its date.   *)
(***************************************************************************)
EXTENDS Naturals, FiniteSets, Sequences

CONSTANTS
    Process,        \* processes that run ingestion passes
    Ticker,
    Watchlist,      \* MARKETDATA_WATCHLIST, parsed at startup
    AllIndicators,  \* the macro series, in the order a pass refreshes them
    Optional,       \* quote fields that may be missing from a fetched quote
    NoQuote,        \* no row of fii_quotes for the ticker
    MaxClock        \* bound on the wall clock, for model checking only

ASSUME SourcesAssumption == IsFiniteSet(Ticker) /\ Watchlist \subseteq Ticker
ASSUME IndicatorAssumption ==
    /\ AllIndicators \in Seq({AllIndicators[i] : i \in DOMAIN AllIndicators})
    /\ \A i, j \in DOMAIN AllIndicators :
          AllIndicators[i] = AllIndicators[j] => i = j
ASSUME ClockAssumption == MaxClock \in Nat \ {0}

VARIABLES
    clock,
    held,       \* the tickers of fii_holdings, over all users
    published,  \* the last reference date of each series, 0 before the first
    quotes,     \* fii_quotes: the snapshot of each ticker
    series,     \* macro_indicators: the stored reference dates of each series
    pc,         \* where each process's pass has got to
    asked,      \* the resolved tickers of the pass
    heldRead,   \* whether the pass could read the holdings
    missed,     \* the tickers the provider's answer left out
    batch,      \* the fetched quotes the pass has still to upsert
    next,       \* the index in AllIndicators the pass is at
    observed,   \* the reference date it fetched for it
    sum         \* the pass's Summary

env == <<clock, held, published>>
tables == <<quotes, series>>
locals == <<asked, heldRead, missed, batch, next, observed>>
vars == <<env, tables, pc, locals, sum>>

---------------------------------------------------------------------------
Indicator == {AllIndicators[i] : i \in DOMAIN AllIndicators}

Quote == [ticker : Ticker, fetchedAt : Nat, fields : SUBSET Optional]

ASSUME QuoteAssumption == NoQuote \notin Quote

Summary == [fiiOK : Nat, fiiFailed : Nat, macroOK : Nat, macroFailed : Nat]

NoItems == [fiiOK |-> 0, fiiFailed |-> 0, macroOK |-> 0, macroFailed |-> 0]

\* Summary.outcome.
Outcome(s) ==
    IF s.fiiFailed + s.macroFailed = 0 THEN "success"
    ELSE IF s.fiiOK + s.macroOK = 0 THEN "error" ELSE "partial"

\* GetLatestMacroIndicator: the newest reference date, 0 for ErrMacroNotFound.
Latest(ind) ==
    IF series[ind] = {} THEN 0
    ELSE CHOOSE d \in series[ind] : \A e \in series[ind] : e <= d

---------------------------------------------------------------------------
Init ==
    /\ clock = 1
    /\ held = {}
    /\ published = [i \in Indicator |-> 0]
    /\ quotes = [t \in Ticker |-> NoQuote]
    /\ series = [i \in Indicator |-> {}]
    /\ pc = [p \in Process |-> "waiting"]
    /\ asked = [p \in Process |-> {}]
    /\ heldRead = [p \in Process |-> TRUE]
    /\ missed = [p \in Process |-> {}]
    /\ batch = [p \in Process |-> {}]
    /\ next = [p \in Process |-> 1]
    /\ observed = [p \in Process |-> 0]
    /\ sum = [p \in Process |-> NoItems]

\* The world: time passes, users add and remove holdings, series publish.
Tick ==
    /\ clock < MaxClock
    /\ clock' = clock + 1
    /\ UNCHANGED <<held, published, tables, pc, locals, sum>>

ChangeHoldings ==
    /\ \E t \in Ticker :
        held' = IF t \in held THEN held \ {t} ELSE held \union {t}
    /\ UNCHANGED <<clock, published, tables, pc, locals, sum>>

Publish ==
    /\ \E i \in Indicator :
        /\ published[i] < clock
        /\ published' = [published EXCEPT ![i] = clock]
    /\ UNCHANGED <<clock, held, tables, pc, locals, sum>>

\* The scheduler's first pass or tick, or cron starting cmd/ingest.
StartRun(p) ==
    /\ pc[p] = "waiting"
    /\ pc' = [pc EXCEPT ![p] = "resolve"]
    /\ UNCHANGED <<env, tables, locals, sum>>

\* Faulty variant of ResolveTickers: the watchlist alone is asked for.
ResolveWatchlist(p) ==
    /\ pc[p] = "resolve"
    /\ heldRead' = [heldRead EXCEPT ![p] = TRUE]
    /\ asked' = [asked EXCEPT ![p] = Watchlist]
    /\ pc' = [pc EXCEPT ![p] = IF Watchlist = {} THEN "macro" ELSE "fetchFII"]
    /\ UNCHANGED <<env, tables, missed, batch, next, observed, sum>>

\* unionSource.Tickers over the holdings and the watchlist, which never fails:
\* without the holdings the pass goes on with the watchlist alone.
ResolveTickers(p) ==
    /\ pc[p] = "resolve"
    /\ \E ok \in BOOLEAN :
        /\ heldRead' = [heldRead EXCEPT ![p] = ok]
        /\ asked' = [asked EXCEPT ![p] = IF ok THEN held \union Watchlist
                                               ELSE Watchlist]
    /\ pc' = [pc EXCEPT ![p] = IF asked'[p] = {} THEN "macro" ELSE "fetchFII"]
    /\ UNCHANGED <<env, tables, missed, batch, next, observed, sum>>

\* One table request: a ticker may be missing, and so may any optional field of
\* a quote.  The fundamentals stamp the whole answer with one clock reading.
FetchFII(p) ==
    /\ pc[p] = "fetchFII"
    /\ \E found \in SUBSET asked[p] : \E fields \in [found -> SUBSET Optional] :
        /\ batch' = [batch EXCEPT ![p] =
                {[ticker |-> t, fetchedAt |-> clock, fields |-> fields[t]] : t \in found}]
        /\ missed' = [missed EXCEPT ![p] = asked[p] \ found]
    /\ pc' = [pc EXCEPT ![p] = "upsertFII"]
    /\ UNCHANGED <<env, tables, asked, heldRead, next, observed, sum>>

\* ErrProviderUnavailable for the whole batch: every ticker counts as failed.
FetchFIIFails(p) ==
    /\ pc[p] = "fetchFII"
    /\ sum' = [sum EXCEPT ![p].fiiFailed = @ + Cardinality(asked[p])]
    /\ pc' = [pc EXCEPT ![p] = "macro"]
    /\ UNCHANGED <<env, tables, locals>>

\* UpsertFIIQuote sets every column from the fetched quote, in map order.
UpsertFII(p) ==
    /\ pc[p] = "upsertFII"
    /\ \E q \in batch[p] :
        /\ quotes' = [quotes EXCEPT ![q.ticker] = q]
        /\ batch' = [batch EXCEPT ![p] = @ \ {q}]
    /\ sum' = [sum EXCEPT ![p].fiiOK = @ + 1]
    /\ UNCHANGED <<env, series, pc, asked, heldRead, missed, next, observed>>

\* Faulty variant of UpsertFIIFails: no continue, so the quote also counts as stored.
UpsertFIIFallsThrough(p) ==
    /\ pc[p] = "upsertFII"
    /\ \E q \in batch[p] : batch' = [batch EXCEPT ![p] = @ \ {q}]
    /\ sum' = [sum EXCEPT ![p].fiiFailed = @ + 1, ![p].fiiOK = @ + 1]
    /\ UNCHANGED <<env, tables, pc, asked, heldRead, missed, next, observed>>

\* Faulty variant of UpsertFIIFails: the failure is counted as a success.
UpsertFIIUnnoticed(p) ==
    /\ pc[p] = "upsertFII"
    /\ \E q \in batch[p] : batch' = [batch EXCEPT ![p] = @ \ {q}]
    /\ sum' = [sum EXCEPT ![p].fiiOK = @ + 1]
    /\ UNCHANGED <<env, tables, pc, asked, heldRead, missed, next, observed>>

\* A failed upsert is counted and passed over; the row keeps its last-known-good.
UpsertFIIFails(p) ==
    /\ pc[p] = "upsertFII"
    /\ \E q \in batch[p] : batch' = [batch EXCEPT ![p] = @ \ {q}]
    /\ sum' = [sum EXCEPT ![p].fiiFailed = @ + 1]
    /\ UNCHANGED <<env, tables, pc, asked, heldRead, missed, next, observed>>

EndFII(p) ==
    /\ pc[p] = "upsertFII"
    /\ batch[p] = {}
    /\ pc' = [pc EXCEPT ![p] = "macro"]
    /\ UNCHANGED <<env, tables, locals, sum>>

\* The last observation of the next series, if its source has one.
FetchMacro(p) ==
    /\ pc[p] = "macro"
    /\ next[p] <= Len(AllIndicators)
    /\ published[AllIndicators[next[p]]] > 0
    /\ observed' = [observed EXCEPT ![p] = published[AllIndicators[next[p]]]]
    /\ pc' = [pc EXCEPT ![p] = "upsertMacro"]
    /\ UNCHANGED <<env, tables, asked, heldRead, missed, batch, next, sum>>

\* Faulty variant of UpsertMacro: one row per indicator.
UpsertMacroByIndicator(p) ==
    /\ pc[p] = "upsertMacro"
    /\ series' = [series EXCEPT ![AllIndicators[next[p]]] = {observed[p]}]
    /\ sum' = [sum EXCEPT ![p].macroOK = @ + 1]
    /\ next' = [next EXCEPT ![p] = @ + 1]
    /\ pc' = [pc EXCEPT ![p] = "macro"]
    /\ UNCHANGED <<env, quotes, asked, heldRead, missed, batch, observed>>

\* Faulty variant of UpsertMacro: the loop advances twice.
UpsertMacroSkipsOne(p) ==
    /\ pc[p] = "upsertMacro"
    /\ series' = [series EXCEPT ![AllIndicators[next[p]]] = @ \union {observed[p]}]
    /\ sum' = [sum EXCEPT ![p].macroOK = @ + 1]
    /\ next' = [next EXCEPT ![p] = @ + 2]
    /\ pc' = [pc EXCEPT ![p] = "macro"]
    /\ UNCHANGED <<env, quotes, asked, heldRead, missed, batch, observed>>

\* UpsertMacroIndicator: one row per (indicator, reference_date).
UpsertMacro(p) ==
    /\ pc[p] = "upsertMacro"
    /\ series' = [series EXCEPT ![AllIndicators[next[p]]] = @ \union {observed[p]}]
    /\ sum' = [sum EXCEPT ![p].macroOK = @ + 1]
    /\ next' = [next EXCEPT ![p] = @ + 1]
    /\ pc' = [pc EXCEPT ![p] = "macro"]
    /\ UNCHANGED <<env, quotes, asked, heldRead, missed, batch, observed>>

\* Faulty variant of MacroFails: the indicator is tried again until it is stored.
MacroFailsRetried(p) ==
    /\ pc[p] \in {"macro", "upsertMacro"}
    /\ next[p] <= Len(AllIndicators)
    /\ pc' = [pc EXCEPT ![p] = "macro"]
    /\ UNCHANGED <<env, tables, locals, sum>>

\* The source is unavailable or has no such series, or the upsert fails.
MacroFails(p) ==
    /\ pc[p] \in {"macro", "upsertMacro"}
    /\ next[p] <= Len(AllIndicators)
    /\ sum' = [sum EXCEPT ![p].macroFailed = @ + 1]
    /\ next' = [next EXCEPT ![p] = @ + 1]
    /\ pc' = [pc EXCEPT ![p] = "macro"]
    /\ UNCHANGED <<env, tables, asked, heldRead, missed, batch, observed>>

\* A pass leaves nothing behind but the rows it stored.
EndPass(p) ==
    /\ pc' = [pc EXCEPT ![p] = "waiting"]
    /\ asked' = [asked EXCEPT ![p] = {}]
    /\ heldRead' = [heldRead EXCEPT ![p] = TRUE]
    /\ missed' = [missed EXCEPT ![p] = {}]
    /\ batch' = [batch EXCEPT ![p] = {}]
    /\ next' = [next EXCEPT ![p] = 1]
    /\ observed' = [observed EXCEPT ![p] = 0]
    /\ sum' = [sum EXCEPT ![p] = NoItems]
    /\ UNCHANGED <<env, tables>>

\* RunOnce returns its Summary.
Finish(p) ==
    /\ pc[p] = "macro"
    /\ next[p] > Len(AllIndicators)
    /\ EndPass(p)

\* The process dies in mid-pass and is started again.
Crash(p) ==
    /\ pc[p] # "waiting"
    /\ EndPass(p)

\* What RunOnce does next, whether or not the calls it makes succeed.
Step(p) ==
    \/ ResolveTickers(p)
    \/ FetchFII(p)
    \/ FetchFIIFails(p)
    \/ UpsertFII(p)
    \/ UpsertFIIFails(p)
    \/ EndFII(p)
    \/ FetchMacro(p)
    \/ UpsertMacro(p)
    \/ MacroFails(p)
    \/ Finish(p)

Next ==
    \/ Tick
    \/ ChangeHoldings
    \/ Publish
    \/ \E p \in Process : StartRun(p) \/ Step(p) \/ Crash(p)

Spec == Init /\ [][Next]_vars

\* ingestFII and ingestMacro never wait: every call they make returns, if only with
\* an error.  The scheduler's timer or cron starts a pass again.
FairSpec ==
    /\ Spec
    /\ \A p \in Process : WF_vars(Step(p)) /\ WF_vars(StartRun(p))

\* No outage lasts for ever: what is tried again and again succeeds at last.
ResolveReadsHoldings(p) == ResolveTickers(p) /\ heldRead'[p]
FetchFIIFinds(p, t) == FetchFII(p) /\ \E q \in batch'[p] : q.ticker = t
UpsertFIIStores(p, t) ==
    UpsertFII(p) /\ \E q \in batch[p] : q.ticker = t /\ q \notin batch'[p]

RecoveringSpec ==
    /\ FairSpec
    /\ \A p \in Process :
        /\ SF_vars(ResolveReadsHoldings(p))
        /\ \A t \in Ticker :
            SF_vars(FetchFIIFinds(p, t)) /\ SF_vars(UpsertFIIStores(p, t))

---------------------------------------------------------------------------
\* A pass that is about to return its Summary.
Completed(p) == pc[p] = "macro" /\ next[p] > Len(AllIndicators)

PassState ==
    {"waiting", "resolve", "fetchFII", "upsertFII", "macro", "upsertMacro"}

\* Every variable keeps its type, and no time or date is ahead of the clock.
TypeOK ==
    /\ clock \in 1..MaxClock
    /\ held \subseteq Ticker
    /\ published \in [Indicator -> 0..clock]
    /\ quotes \in [Ticker -> Quote \union {NoQuote}]
    /\ series \in [Indicator -> SUBSET (1..clock)]
    /\ pc \in [Process -> PassState]
    /\ asked \in [Process -> SUBSET Ticker]
    /\ heldRead \in [Process -> BOOLEAN]
    /\ missed \in [Process -> SUBSET Ticker]
    /\ batch \in [Process -> SUBSET Quote]
    /\ next \in [Process -> 1..(Len(AllIndicators) + 1)]
    /\ observed \in [Process -> 0..clock]
    /\ sum \in [Process -> Summary]

\* What RunOnce's Summary claims is what happened: each resolved ticker that the
\* provider answered for, and each indicator, is counted once, as stored or as
\* failed, whichever of the calls failed (worker.go ingestFII, ingestMacro).
ItemsAccounted ==
    \A p \in Process : Completed(p) =>
        /\ sum[p].fiiOK + sum[p].fiiFailed + Cardinality(missed[p])
                = Cardinality(asked[p])
        /\ sum[p].macroOK + sum[p].macroFailed = Len(AllIndicators)

\* A pass reported as a "success" (Summary.outcome) left a quote for every ticker
\* the provider answered for and an observation for every indicator.
SuccessIsStored ==
    \A p \in Process : Completed(p) /\ Outcome(sum[p]) = "success" =>
        /\ \A t \in asked[p] \ missed[p] : quotes[t] # NoQuote
        /\ \A i \in Indicator : series[i] # {}

\* SPEC-006:126, SPEC-006:346: runs may overlap without harm to the data.  No pass
\* replaces a quote by one fetched earlier: fii_quotes.fetched_at, the freshness
\* of the row, never goes back (UpsertFIIQuote).
FetchedAtNeverRegresses ==
    [][\A t \in Ticker : quotes[t] # NoQuote =>
            quotes'[t] # NoQuote /\ quotes'[t].fetchedAt >= quotes[t].fetchedAt]_vars

\* GetLatestMacroIndicator never goes back to an older reference date, however late
\* a slow pass stores what it fetched: observations are rows of their own.
LatestMacroNeverRegresses ==
    [][\A i \in Indicator : Latest(i)' >= Latest(i)]_vars

\* A pass always comes to its end: RunOnce passes over a failing item and never
\* tries it again within the pass.
RunsComplete ==
    \A p \in Process : pc[p] # "waiting" ~> pc[p] = "waiting"

\* A ticker that users go on holding gets a quote, even without a watchlist entry
\* and however often passes fail or die half-way (holdingsSource, unionSource).
HeldTickersGetQuote ==
    \A t \in Ticker : <>[](t \in held) => <>(quotes[t] # NoQuote)

---------------------------------------------------------------------------
(***************************************************************************)
(* The invariant that carries the proofs.                                  *)
(***************************************************************************)

\* Before the provider answers, nothing is counted, missing or left to store.
NothingYet ==
    \A p \in Process : pc[p] \in {"waiting", "resolve", "fetchFII"} =>
        /\ missed[p] = {} /\ batch[p] = {} /\ next[p] = 1 /\ sum[p] = NoItems
        /\ pc[p] = "fetchFII" => asked[p] # {}

\* Afterwards each ticker is missing, counted or in the batch.
TickersAccounted ==
    \A p \in Process : pc[p] \in {"upsertFII", "macro", "upsertMacro"} =>
        /\ sum[p].fiiOK + sum[p].fiiFailed + Cardinality(missed[p])
                + Cardinality(batch[p]) = Cardinality(asked[p])
        /\ pc[p] # "upsertFII" => batch[p] = {}
        /\ pc[p] = "upsertFII" => next[p] = 1

\* The indicators before the next one are counted.
IndicatorsAccounted ==
    \A p \in Process :
        /\ sum[p].macroOK + sum[p].macroFailed + 1 = next[p]
        /\ pc[p] = "upsertMacro" => next[p] <= Len(AllIndicators) /\ observed[p] > 0

\* What was answered for and has not failed is stored or still in the batch.
StoredSoFar ==
    \A p \in Process :
        /\ pc[p] \in {"upsertFII", "macro", "upsertMacro"} /\ sum[p].fiiFailed = 0 =>
            \A t \in asked[p] \ missed[p] :
                quotes[t] # NoQuote \/ \E q \in batch[p] : q.ticker = t
        /\ sum[p].macroFailed = 0 =>
            \A i \in 1..(next[p] - 1) : series[AllIndicators[i]] # {}

FiniteBatches == \A p \in Process : IsFiniteSet(batch[p])

IndInv ==
    /\ TypeOK
    /\ FiniteBatches
    /\ NothingYet
    /\ TickersAccounted
    /\ IndicatorsAccounted
    /\ StoredSoFar
=============================================================================
