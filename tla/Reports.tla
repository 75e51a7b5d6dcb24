------------------------------ MODULE Reports ------------------------------
(***************************************************************************)
(* One request for a report (GET /dashboard, /health-score, /projections,  *)
(* or the figures of a rebalancing) against tables that change under it.   *)
(* A report is put together from several SELECTs outside any transaction:  *)
(* two for the holdings, one per macro reading and per ticker, and for the *)
(* score and the projections the holdings once more.  Each statement is a  *)
(* step, and between two of them the user's other requests change rows,    *)
(* ingestion stores quotes and readings, and the day ends.                 *)
(***************************************************************************)
EXTENDS Figures

CONSTANTS
  FIIRows, FixedRows,     \* the rows the user may have at some time
  QuoteOf,                \* what may be stored as the quote of a ticker
  ReadingOf,              \* and as the latest reading of "cdi", "ipca", "selic"
  Profiles,               \* risk profiles, and Unset
  Contribution, Years,    \* what the request asks about
  None, Failed,           \* no report yet; a report that could not be made
  FirstDay, LastDay,      \* bound of time
  MaxChanges              \* bound of the changes of the tables

Tickers == DOMAIN QuoteOf
Indicators == DOMAIN ReadingOf
Kinds == {"dashboard", "score", "projections", "rebalance"}

Indexers == {"prefixado", "cdi_percentual", "ipca_spread"}

\* Holdings and quotes are never negative; a reading may be (a month of deflation).
ASSUME ReportsAssumption ==
  /\ IsFiniteSet(FIIRows) /\ IsFiniteSet(FixedRows)
  /\ \A row \in FIIRows : /\ row.ticker \in Tickers
                          /\ row.quantity \in Nat \ {0}
                          /\ row.averagePrice \in Nat
  /\ FixedRows \subseteq [id : {row.id : row \in FixedRows}, invested : Nat \ {0},
                         rate : Nat, indexer : Indexers, daily : BOOLEAN,
                         created : 0..FirstDay]
  /\ \A t \in Tickers : \A quote \in QuoteOf[t] : quote.price \in Nat
                                                /\ quote.dividend \in Nat
  /\ \A i \in Indicators : ReadingOf[i] \subseteq Int
  /\ Profiles \subseteq Risks \cup {Unset}
  /\ Contribution \in Nat \ {0} /\ Years \in 1..40
  /\ None # Failed
  /\ FirstDay \in Nat /\ LastDay \in Nat /\ FirstDay <= LastDay /\ MaxChanges \in Nat

VARIABLES
  fii, fixed,             \* rows of fii_holdings and fixed_income_holdings
  quotes, macro,          \* fii_quotes, and the latest macro_indicators
  profile,                \* investor_profiles
  today,
  kind,                   \* what was asked for
  pc,                     \* the statement the request is at
  got,                    \* what it has read
  dash,                   \* the dashboard, once it is computed
  report,                 \* the answer
  changes, quiet          \* history: changes so far; none since the request began
tables == <<fii, fixed, quotes, macro, profile, today>>
request == <<kind, pc, got, dash, report>>
vars == <<tables, request, changes, quiet>>

-----------------------------------------------------------------------------
(* Tables *)

Keyed(rows) == \A x, y \in rows : x.id = y.id => x = y
Partial(Of) == UNION {{f \in [D -> UNION {Of[x] : x \in D}] :
                         \A x \in D : f[x] \in Of[x]} : D \in SUBSET DOMAIN Of}
With(f, x, v) == [y \in DOMAIN f \cup {x} |-> IF y = x THEN v ELSE f[y]]
Without(f, D) == [x \in DOMAIN f \ D |-> f[x]]

\* History: unread are the stored readings the last listing of the holdings failed
\* to read, and boardUnread those the dashboard was computed without.
Nothing == [fii |-> {}, fixed |-> {}, macro |-> << >>, quotes |-> << >>,
            asked |-> {}, unread |-> {}, boardUnread |-> {}, computed |-> FALSE,
            profile |-> Unset, selic |-> 0]

Init ==
  /\ fii \in {rows \in SUBSET FIIRows : Keyed(rows)}
  /\ fixed \in {rows \in SUBSET FixedRows : Keyed(rows)}
  /\ quotes \in Partial(QuoteOf)
  /\ macro \in Partial(ReadingOf)
  /\ profile \in Profiles
  /\ today = FirstDay
  /\ kind \in Kinds /\ pc = "begin"
  /\ got = Nothing /\ dash = None /\ report = None
  /\ changes = 0 /\ quiet = TRUE

\* A change of the tables by someone else; writes that change nothing are left out.
Changed == /\ tables' # tables
           /\ changes < MaxChanges /\ changes' = changes + 1
           /\ quiet' = FALSE
           /\ UNCHANGED request

\* Faulty variant of SaveFII: an update inserts a second row of the same id.
SaveFIIInserted(row) ==
  /\ fii' = fii \cup {row}
  /\ UNCHANGED <<fixed, quotes, macro, profile, today>> /\ Changed

SaveFII(row) ==                    \* create, or update the row of this id
  /\ fii' = {x \in fii : x.id # row.id} \cup {row}
  /\ UNCHANGED <<fixed, quotes, macro, profile, today>> /\ Changed
DeleteFII(row) ==
  /\ fii' = fii \ {row}
  /\ UNCHANGED <<fixed, quotes, macro, profile, today>> /\ Changed
CreatedOf(row) ==                  \* an update keeps the day of creation
  IF \E x \in fixed : x.id = row.id
  THEN (CHOOSE x \in fixed : x.id = row.id).created ELSE today
SaveFixed(row) ==
  /\ fixed' = {x \in fixed : x.id # row.id} \cup {[row EXCEPT !.created = CreatedOf(row)]}
  /\ UNCHANGED <<fii, quotes, macro, profile, today>> /\ Changed
DeleteFixed(row) ==
  /\ fixed' = fixed \ {row}
  /\ UNCHANGED <<fii, quotes, macro, profile, today>> /\ Changed
StoreQuote(t, quote) ==
  /\ quotes' = With(quotes, t, quote)
  /\ UNCHANGED <<fii, fixed, macro, profile, today>> /\ Changed
StoreReading(i, value) ==
  /\ macro' = With(macro, i, value)
  /\ UNCHANGED <<fii, fixed, quotes, profile, today>> /\ Changed
SetProfile(risk) ==                \* there is no way back to Unset
  /\ risk # Unset /\ profile' = risk
  /\ UNCHANGED <<fii, fixed, quotes, macro, today>> /\ Changed
NextDay ==
  /\ today < LastDay /\ today' = today + 1
  /\ UNCHANGED <<fii, fixed, quotes, macro, profile>> /\ Changed

-----------------------------------------------------------------------------
(* The request *)

\* ListHoldings is fii, fixed, cdi, ipca.  GetDashboard is a first ListHoldings and
\* the quotes; the score and the projections then list the holdings again.
After(statement) ==
  CASE statement = "fii"     -> "fixed"
    [] statement = "fixed"   -> "cdi"
    [] statement = "cdi"     -> "ipca"
    [] statement = "ipca"    -> IF ~got.computed THEN "quotes"
                                ELSE IF kind = "score" THEN "profile" ELSE "done"
    [] statement = "quotes"  -> CASE kind = "dashboard" -> "done"
                                  [] kind = "rebalance" -> "profile"
                                  [] OTHER              -> "fii"
    [] statement = "profile" -> "selic"
    [] statement = "selic"   -> "done"

Goes(statement) == pc = statement /\ pc' = After(statement)
Read(result) == /\ got' = result
                /\ UNCHANGED <<tables, kind, dash, report, changes, quiet>>

Begin ==
  /\ pc = "begin" /\ pc' = "fii" /\ quiet' = TRUE
  /\ UNCHANGED <<tables, kind, got, dash, report, changes>>

ReadFII ==
  Goes("fii") /\ Read([got EXCEPT !.fii = fii, !.macro = << >>, !.unread = {}])
ReadFixed == Goes("fixed") /\ Read([got EXCEPT !.fixed = fixed])

\* latestMacro: a missing reading is left out, and so is one whose read fails.
ReadMacro(i) ==
  Goes(i) /\ Read(IF i \in DOMAIN macro
                THEN [got EXCEPT !.macro = With(got.macro, i, macro[i])] ELSE got)

\* Faulty variant of ReadMacroFails: the reading stands at 0 instead of missing.
ReadMacroFailsAsZero(i) ==
  Goes(i) /\ Read([got EXCEPT !.macro = With(got.macro, i, 0),
                              !.unread = @ \cup ({i} \cap DOMAIN macro)])

ReadMacroFails(i) ==
  Goes(i) /\ Read([got EXCEPT !.unread = @ \cup ({i} \cap DOMAIN macro)])

\* One read per distinct ticker held; a ticker without a quote is left out.
Held == {row.ticker : row \in got.fii}

\* Faulty variant of ReadQuote: the loop breaks at the first ticker without a quote.
ReadQuoteToFirstMissing(t) ==
  /\ pc = "quotes" /\ t \in Held \ got.asked
  /\ got' = IF t \in DOMAIN quotes
            THEN [got EXCEPT !.asked = @ \cup {t},
                             !.quotes = With(got.quotes, t, quotes[t])]
            ELSE [got EXCEPT !.asked = Held]
  /\ UNCHANGED <<tables, kind, pc, dash, report, changes, quiet>>

ReadQuote(t) ==
  /\ pc = "quotes" /\ t \in Held \ got.asked
  /\ got' = [got EXCEPT !.asked = @ \cup {t},
                         !.quotes = IF t \in DOMAIN quotes
                                    THEN With(got.quotes, t, quotes[t]) ELSE @]
  /\ UNCHANGED <<tables, kind, pc, dash, report, changes, quiet>>

\* With the quotes read, the dashboard is computed as of now.
Compute ==
  /\ Goes("quotes") /\ Held \subseteq got.asked
  /\ dash' = Dashboard(got.fii, got.fixed, got.macro, got.quotes, today)
  /\ got' = [got EXCEPT !.computed = TRUE, !.boardUnread = got.unread]
  /\ UNCHANGED <<tables, kind, report, changes, quiet>>

ReadProfile == Goes("profile") /\ Read([got EXCEPT !.profile = profile])
Selic == IF "selic" \in DOMAIN macro THEN macro["selic"] ELSE 0
ReadSelic == Goes("selic") /\ Read([got EXCEPT !.selic = Selic])

\* Any other read that fails ends the request without a report.
Fail == /\ pc \in {"fii", "fixed", "quotes", "profile", "selic"}
        /\ pc = "quotes" => ~(Held \subseteq got.asked)
        /\ pc' = "done" /\ report' = Failed
        /\ UNCHANGED <<tables, kind, got, dash, changes, quiet>>

Answer ==
  /\ pc = "done" /\ report = None
  /\ report' = CASE kind = "dashboard"   -> dash
                 [] kind = "score"       ->
                      HealthScore(HealthInputs(dash, got.fii, got.fixed,
                                               got.profile, got.selic))
                 [] kind = "projections" ->
                      Projections(dash, got.fixed, got.macro, Contribution, Years)
                 [] kind = "rebalance"   -> Split(dash, got.profile, Contribution)
  /\ UNCHANGED <<tables, kind, pc, got, dash, changes, quiet>>

Next ==
  \/ \E row \in FIIRows : SaveFII(row)
  \/ \E row \in fii : DeleteFII(row)
  \/ \E row \in FixedRows : SaveFixed(row)
  \/ \E row \in fixed : DeleteFixed(row)
  \/ \E t \in Tickers : \E quote \in QuoteOf[t] : StoreQuote(t, quote)
  \/ \E i \in Indicators : \E value \in ReadingOf[i] : StoreReading(i, value)
  \/ \E risk \in Profiles : SetProfile(risk)
  \/ NextDay
  \/ Begin \/ ReadFII \/ ReadFixed
  \/ \E i \in {"cdi", "ipca"} : ReadMacro(i) \/ ReadMacroFails(i)
  \/ \E t \in Tickers : ReadQuote(t)
  \/ Compute \/ ReadProfile \/ ReadSelic
  \/ Answer \/ Fail
Spec == Init /\ [][Next]_vars

-----------------------------------------------------------------------------
(* Properties *)

Done(k) == kind = k /\ report \notin {None, Failed}
Near(a, b, slack) == a - b \in -slack..slack

\* The tables hold one row per id and known values, the request has read no more
\* than what exists, and time and changes stay within their bounds.
TypeOK ==
  /\ fii \subseteq FIIRows /\ Keyed(fii) /\ Keyed(fixed)
  /\ \A x \in fixed : /\ x.created \in 0..today
                     /\ \E row \in FixedRows : x = [row EXCEPT !.created = x.created]
  /\ quotes \in Partial(QuoteOf) /\ macro \in Partial(ReadingOf)
  /\ profile \in Profiles /\ today \in FirstDay..LastDay
  /\ kind \in Kinds /\ got.asked \subseteq Tickers
  /\ DOMAIN got.macro \subseteq {"cdi", "ipca"}
  /\ pc \in {"begin", "fii", "fixed", "cdi", "ipca", "quotes", "profile", "selic", "done"}
  /\ changes \in 0..MaxChanges /\ quiet \in BOOLEAN

\* The code behaviour: GetDashboard, buildInputs, Project and buildFacts gather
\* their inputs statement by statement, and latestMacro passes over a reading it
\* cannot read.  If nothing changes meanwhile, the report is the function of the
\* tables it promises to be, whichever reads of the readings fail: each failure
\* costs that listing that reading and no more, as if it had never been stored.
QuietReportsExact ==
  LET known == Without(macro, got.boardUnread)
      board == Dashboard(fii, fixed, known, quotes, today)
  IN  quiet =>
        /\ got.computed => dash = board
        /\ Done("score") =>
             report = HealthScore(HealthInputs(board, fii, fixed, profile, Selic))
        /\ Done("projections") =>
             report = Projections(board, fixed, Without(macro, got.unread),
                                  Contribution, Years)
        /\ Done("rebalance") => report = Split(board, profile, Contribution)

\* The code behaviour: Compute's breakdowns reconcile with its totals, whatever
\* mixture of rows and quotes was read: classes and sectors add up, shares are
\* off 100 % by their rounding only, and what has no quote neither grows nor pays.
DashboardReconciles ==
  got.computed =>
    /\ dash.current = dash.value["fii"] + dash.value["fixed_income"]
    /\ SumOver(dash.sectorValue) = dash.value["fii"]
    /\ dash.current = dash.invested + dash.growth
    /\ dash.current > 0 =>
         Near(dash.share["fii"] + dash.share["fixed_income"], Whole, 1)
    /\ dash.value["fii"] > 0 =>
         Near(SumOver(dash.sectorShare), Whole,
              Cardinality(DOMAIN dash.sectorShare))
    /\ (kind = "dashboard" /\ Held # {} /\ dash.stale = Held) =>
         /\ dash.income = 0
         /\ dash.value["fii"] = SumOver([row \in got.fii |-> Cost(row)])
         /\ DOMAIN dash.sectorValue = {"other"}

\* The code behaviour: the score is a mean of its factors under weights that make
\* up 100 %, with a profile or without, also when the holdings read after the
\* dashboard are not those it was computed from.
ScoreWithinFactors ==
  Done("score") =>
    /\ report.score \in 0..100
    /\ SumOver(report.weights) = Whole
    /\ \E i, j \in DOMAIN report.factors :
         report.factors[i] <= report.score /\ report.score <= report.factors[j]
    /\ dash.current > 0 => LiquidValue(dash.value["fii"], dash.value["fixed_income"],
                                       got.fixed) \in dash.value["fii"]..dash.current

\* The code behaviour: Compute of the projections.  The pessimistic scenario never
\* beats the base one nor the base one the optimistic one, in income or in any
\* year's worth; contributions and reinvested income never lower the worth; and
\* twelve months' income is the year's, up to rounding.
ScenariosOrdered ==
  Done("projections") =>
    /\ \A i \in 1..3 : /\ report.annual[i] >= 0
                       /\ Near(12 * report.monthly[i], report.annual[i], 6)
                       /\ \A y \in 1..Years : report.netWorth[i][y]
                            >= report.netWorth[i][y - 1] + 12 * Contribution
    /\ \A i \in 1..2 : /\ report.annual[i] <= report.annual[i + 1]
                       /\ \A y \in 0..Years :
                            report.netWorth[i][y] <= report.netWorth[i + 1][y]

\* The code behaviour: Split.  The whole contribution is given out, and it brings
\* no class further over its target: a class that gets money ends at its target
\* at most (the slack is what basis points of the total and of the contribution
\* cannot tell apart).
SplitSteersToTarget ==
  Done("rebalance") =>
    LET after == dash.current + Contribution
        slack == after \div Whole + 2
    IN  /\ SumOver(report.shares) = Whole
        /\ Near(SumOver(report.amounts), Contribution, 1)
        /\ \A i \in 1..2 : report.amounts[i] > 0 =>
             dash.value[SplitClasses[i]] + report.amounts[i]
               <= ApplyBps(after, TargetShares(got.profile)[i]) + slack
=============================================================================
