--------------------------- MODULE Reports_proofs ---------------------------
(***************************************************************************)
(* A report gathered statement by statement is, if nothing changes         *)
(* meanwhile, the function of the tables it promises to be.  Whatever      *)
(* changes, every dashboard, score, projection and split is sound for the  *)
(* rows, quotes and readings it was made from.                             *)
(***************************************************************************)
EXTENDS Reports, Money_proofs, SequenceTheorems

Only(f, D) == [x \in D \cap DOMAIN f |-> f[x]]

-----------------------------------------------------------------------------
(* The figures depend on the quotes of the tickers held and on two readings. *)

LEMMA RatesDependOnTwo ==
  ASSUME NEW row, NEW M
  PROVE  ResolveEffectiveRate(row, Only(M, {"cdi", "ipca"}))
           = ResolveEffectiveRate(row, M)
<1> DEFINE N == Only(M, {"cdi", "ipca"})
<1>1. /\ "cdi" \in DOMAIN N <=> "cdi" \in DOMAIN M
      /\ "ipca" \in DOMAIN N <=> "ipca" \in DOMAIN M
      /\ "cdi" \in DOMAIN M => N["cdi"] = M["cdi"]
      /\ "ipca" \in DOMAIN M => N["ipca"] = M["ipca"]
  BY DEF Only
<1> HIDE DEF N
<1>2. ResolveEffectiveRate(row, N) = ResolveEffectiveRate(row, M)
  BY <1>1 DEF ResolveEffectiveRate
<1> QED  BY <1>2 DEF N

LEMMA RowsDependOnHeld ==
  ASSUME NEW row, NEW Q, NEW D, row.ticker \in D
  PROVE  /\ row.ticker \in DOMAIN Only(Q, D) <=> row.ticker \in DOMAIN Q
         /\ Worth(row, Only(Q, D)) = Worth(row, Q)
         /\ SectorOf(row, Only(Q, D)) = SectorOf(row, Q)
         /\ Dividend(row, Only(Q, D)) = Dividend(row, Q)
<1>1. /\ row.ticker \in DOMAIN Only(Q, D) <=> row.ticker \in DOMAIN Q
      /\ row.ticker \in DOMAIN Q => Only(Q, D)[row.ticker] = Q[row.ticker]
  BY DEF Only
<1> QED  BY <1>1 DEF Worth, SectorOf, Dividend

LEMMA AnnualDependsOnTwo ==
  ASSUME NEW X, NEW M
  PROVE  FixedIncomeAnnual(X, Only(M, {"cdi", "ipca"})) = FixedIncomeAnnual(X, M)
BY RatesDependOnTwo DEF FixedIncomeAnnual

LEMMA DashboardDependsOnHeld ==
  ASSUME NEW F, NEW X, NEW M, NEW Q, NEW D, NEW day,
         \A row \in F : row.ticker \in D
  PROVE  Dashboard(F, X, Only(M, {"cdi", "ipca"}), Only(Q, D), day)
           = Dashboard(F, X, M, Q, day)
<1> DEFINE N == Only(M, {"cdi", "ipca"})
           P == Only(Q, D)
<1>1. [row \in X |-> row.invested + Accrued(row, N, day)]
        = [row \in X |-> row.invested + Accrued(row, M, day)]
  BY RatesDependOnTwo DEF Accrued
<1>2. \A row \in F : /\ row.ticker \in DOMAIN P <=> row.ticker \in DOMAIN Q
                     /\ Worth(row, P) = Worth(row, Q)
                     /\ SectorOf(row, P) = SectorOf(row, Q)
                     /\ Dividend(row, P) = Dividend(row, Q)
  BY RowsDependOnHeld
<1> HIDE DEF N, P
<1>3. [row \in F |-> Worth(row, P)] = [row \in F |-> Worth(row, Q)]
  BY <1>2
<1>4. [row \in F |-> Dividend(row, P)] = [row \in F |-> Dividend(row, Q)]
  BY <1>2
<1>5. {row.ticker : row \in F} \ DOMAIN P = {row.ticker : row \in F} \ DOMAIN Q
  BY <1>2
<1>6. SectorsOf(F, P) = SectorsOf(F, Q)
  <2>1. {SectorOf(row, P) : row \in F} = {SectorOf(row, Q) : row \in F}
    BY <1>2
  <2>2. ASSUME NEW s
        PROVE  [row \in {x \in F : SectorOf(x, P) = s} |-> Worth(row, P)]
                 = [row \in {x \in F : SectorOf(x, Q) = s} |-> Worth(row, Q)]
    <3>1. {x \in F : SectorOf(x, P) = s} = {x \in F : SectorOf(x, Q) = s}
      BY <1>2
    <3> QED  BY <1>2, <3>1
  <2> QED  BY <2>1, <2>2 DEF SectorsOf
<1>7. Dashboard(F, X, N, P, day) = Dashboard(F, X, M, Q, day)
  BY <1>1, <1>3, <1>4, <1>5, <1>6, Zenon DEF Dashboard
<1> QED  BY <1>7 DEF N, P

-----------------------------------------------------------------------------
(* The invariant: what the request has read by each of its statements.       *)

IsGot == got = [fii |-> got.fii, fixed |-> got.fixed, macro |-> got.macro,
                quotes |-> got.quotes, asked |-> got.asked, unread |-> got.unread,
                boardUnread |-> got.boardUnread, computed |-> got.computed,
                profile |-> got.profile, selic |-> got.selic]

\* Where a request of each kind can be, before and after its dashboard.
OnItsWay ==
  /\ kind \in Kinds /\ got.computed \in BOOLEAN
  /\ pc \in {"begin", "fii", "fixed", "cdi", "ipca", "quotes", "profile", "selic", "done"}
  /\ pc = "begin" => got = Nothing
  /\ pc = "quotes" => ~got.computed
  /\ pc \in {"fii", "fixed", "cdi", "ipca"} /\ got.computed =>
       kind \in {"score", "projections"}
  /\ pc \in {"profile", "selic"} => got.computed /\ kind \in {"score", "rebalance"}
  /\ pc = "done" /\ report # Failed => got.computed
  /\ report # None => pc = "done"

\* The holdings read so far are those of the tables, and so are the readings but
\* for those whose read has failed.
HoldingsRead ==
  (quiet /\ report # Failed) =>
    /\ pc \in {"fixed", "cdi", "ipca", "quotes", "profile", "selic", "done"} =>
         got.fii = fii
    /\ pc \in {"cdi", "ipca", "quotes", "profile", "selic", "done"} =>
         got.fixed = fixed
    /\ pc \in {"fixed", "cdi"} => got.macro = << >> /\ got.unread = {}
    /\ pc = "ipca" => /\ got.macro = Only(macro, {"cdi"} \ got.unread)
                      /\ got.unread \subseteq {"cdi"}
    /\ pc \in {"quotes", "profile", "selic", "done"} =>
         got.macro = Only(macro, {"cdi", "ipca"} \ got.unread)

QuotesRead == (quiet /\ report # Failed) => got.quotes = Only(quotes, got.asked)

ProfileRead ==
  (quiet /\ report # Failed /\ kind \in {"score", "rebalance"}) =>
    /\ pc \in {"selic", "done"} => got.profile = profile
    /\ pc = "done" => got.selic = Selic

IndInv == /\ IsGot /\ OnItsWay /\ HoldingsRead /\ QuotesRead /\ ProfileRead
          /\ QuietReportsExact

-----------------------------------------------------------------------------

\* What is read of the tables without some readings is all but those readings.
LEMMA OnlyWithout ==
  ASSUME NEW f, NEW D, NEW S
  PROVE  Only(Without(f, S), D) = Only(f, D \ S)
BY DEF Only, Without

LEMMA OnlyNothing == ASSUME NEW f PROVE Only(f, {}) = << >>
BY DEF Only

LEMMA WithReading ==
  ASSUME NEW f, NEW D, NEW x, x \in DOMAIN f
  PROVE  With(Only(f, D), x, f[x]) = Only(f, D \cup {x})
BY DEF With, Only

LEMMA WithoutReading ==
  ASSUME NEW f, NEW D, NEW x, x \notin DOMAIN f
  PROVE  Only(f, D) = Only(f, D \cup {x})
<1>1. D \cap DOMAIN f = (D \cup {x}) \cap DOMAIN f
  OBVIOUS
<1> QED  BY <1>1 DEF Only

\* Only what is stored of the readings asked for makes a difference.
LEMMA OnlyStored ==
  ASSUME NEW f, NEW D, NEW E, D \cap DOMAIN f = E \cap DOMAIN f
  PROVE  Only(f, D) = Only(f, E)
BY DEF Only

LEMMA InitIndInv == Init => IndInv
<1> SUFFICES ASSUME Init PROVE IndInv
  OBVIOUS
<1>1. got = Nothing /\ pc = "begin" /\ report = None /\ kind \in Kinds
  BY DEF Init
<1>2. IsGot /\ OnItsWay
  BY <1>1 DEF IsGot, OnItsWay, Nothing
<1>3. HoldingsRead /\ ProfileRead
  BY <1>1 DEF HoldingsRead, ProfileRead
<1>4. QuotesRead
  BY <1>1, OnlyNothing DEF QuotesRead, Nothing
<1>5. QuietReportsExact
  BY <1>1 DEF QuietReportsExact, Done, Nothing
<1> QED  BY <1>2, <1>3, <1>4, <1>5 DEF IndInv

\* A change of the tables ends what the invariant says of them.
LEMMA ChangedIndInv == ASSUME IndInv, Changed PROVE IndInv'
<1>1. quiet' = FALSE /\ UNCHANGED request
  BY DEF Changed
<1>2. IsGot' /\ OnItsWay'
  BY <1>1 DEF IndInv, IsGot, OnItsWay, request
<1>3. HoldingsRead' /\ QuotesRead' /\ ProfileRead' /\ QuietReportsExact'
  BY <1>1 DEF HoldingsRead, QuotesRead, ProfileRead, QuietReportsExact
<1> QED  BY <1>2, <1>3 DEF IndInv

LEMMA StutterIndInv == ASSUME IndInv, UNCHANGED vars PROVE IndInv'
BY DEF IndInv, IsGot, OnItsWay, HoldingsRead, QuotesRead, ProfileRead,
       QuietReportsExact, Done, Selic, vars, tables, request

-----------------------------------------------------------------------------
(* Steps of the request *)

LEMMA BeginIndInv == ASSUME IndInv, Begin PROVE IndInv'
<1>1. got = Nothing /\ report = None
  BY DEF IndInv, OnItsWay, Begin
<1>2. pc' = "fii" /\ got' = got /\ report' = report /\ kind' = kind /\ quotes' = quotes
  BY DEF Begin, tables
<1>3. IsGot' /\ OnItsWay'
  BY <1>1, <1>2 DEF IndInv, IsGot, OnItsWay, Nothing
<1>4. HoldingsRead' /\ ProfileRead'
  BY <1>2 DEF HoldingsRead, ProfileRead
<1>5. QuotesRead'
  BY <1>1, <1>2, OnlyNothing DEF QuotesRead, Nothing
<1>6. QuietReportsExact'
  BY <1>1, <1>2 DEF QuietReportsExact, Done, Nothing
<1> QED  BY <1>3, <1>4, <1>5, <1>6 DEF IndInv

\* A statement that only reads leaves the tables, the dashboard and the missing
\* report as they are.
LEMMA ReadKeepsReport ==
  ASSUME IndInv, NEW s, Goes(s), UNCHANGED <<tables, kind, dash, report, changes, quiet>>,
         s # "done", s # "begin", got'.computed = got.computed,
         got'.boardUnread = got.boardUnread
  PROVE  /\ QuietReportsExact' /\ report' = None
         /\ fii' = fii /\ fixed' = fixed /\ quotes' = quotes /\ macro' = macro
         /\ profile' = profile /\ kind' = kind /\ quiet' = quiet
<1>1. report = None /\ report' = None
  BY DEF IndInv, OnItsWay, Goes
<1>2. UNCHANGED <<fii, fixed, quotes, macro, profile, today, dash, kind, quiet>>
  BY DEF tables
<1>3. QuietReportsExact'
  BY <1>1, <1>2 DEF IndInv, QuietReportsExact, Done
<1> QED  BY <1>1, <1>2, <1>3

LEMMA ReadFIIIndInv == ASSUME IndInv, ReadFII PROVE IndInv'
<1>1. /\ Goes("fii") /\ pc' = "fixed"
      /\ got' = [got EXCEPT !.fii = fii, !.macro = << >>, !.unread = {}]
      /\ UNCHANGED <<tables, kind, dash, report, changes, quiet>>
  BY DEF ReadFII, Goes, After, Read
<1>2. IsGot' /\ got'.fii = fii /\ got'.macro = << >> /\ got'.fixed = got.fixed
      /\ got'.quotes = got.quotes /\ got'.asked = got.asked
      /\ got'.unread = {} /\ got'.boardUnread = got.boardUnread
      /\ got'.computed = got.computed
  BY <1>1 DEF IndInv, IsGot
<1>4. /\ QuietReportsExact' /\ report' = None
      /\ fii' = fii /\ fixed' = fixed /\ quotes' = quotes /\ macro' = macro
      /\ profile' = profile /\ kind' = kind /\ quiet' = quiet
  BY <1>1, <1>2, ReadKeepsReport
<1>5. OnItsWay'
  BY <1>1, <1>2, <1>4 DEF IndInv, OnItsWay, Goes
<1>6. HoldingsRead' /\ ProfileRead'
  BY <1>1, <1>2, <1>4 DEF HoldingsRead, ProfileRead
<1>7. QuotesRead'
  BY <1>1, <1>2, <1>4 DEF IndInv, QuotesRead
<1> QED  BY <1>2, <1>4, <1>5, <1>6, <1>7 DEF IndInv

LEMMA ReadFixedIndInv == ASSUME IndInv, ReadFixed PROVE IndInv'
<1>1. /\ Goes("fixed") /\ pc' = "cdi" /\ got' = [got EXCEPT !.fixed = fixed]
      /\ UNCHANGED <<tables, kind, dash, report, changes, quiet>>
  BY DEF ReadFixed, Goes, After, Read
<1>2. IsGot' /\ got'.fii = got.fii /\ got'.macro = got.macro /\ got'.fixed = fixed
      /\ got'.quotes = got.quotes /\ got'.asked = got.asked
      /\ got'.unread = got.unread /\ got'.boardUnread = got.boardUnread
      /\ got'.computed = got.computed
  BY <1>1 DEF IndInv, IsGot
<1>4. /\ QuietReportsExact' /\ report' = None
      /\ fii' = fii /\ fixed' = fixed /\ quotes' = quotes /\ macro' = macro
      /\ profile' = profile /\ kind' = kind /\ quiet' = quiet
  BY <1>1, <1>2, ReadKeepsReport
<1>5. OnItsWay'
  BY <1>1, <1>2, <1>4 DEF IndInv, OnItsWay, Goes
<1>7. HoldingsRead' /\ ProfileRead'
  BY <1>1, <1>2, <1>4 DEF IndInv, HoldingsRead, ProfileRead, Goes
<1>8. QuotesRead'
  BY <1>1, <1>2, <1>4 DEF IndInv, QuotesRead
<1> QED  BY <1>2, <1>4, <1>5, <1>7, <1>8 DEF IndInv

LEMMA ReadMacroIndInv ==
  ASSUME IndInv, NEW i \in {"cdi", "ipca"}, ReadMacro(i)
  PROVE  IndInv'
<1> DEFINE m == IF i \in DOMAIN macro THEN With(got.macro, i, macro[i]) ELSE got.macro
<1>1. /\ Goes(i) /\ got' = [got EXCEPT !.macro = m]
      /\ UNCHANGED <<tables, kind, dash, report, changes, quiet>>
  BY DEF ReadMacro, Read, IndInv, IsGot
<1>2. /\ i = "cdi" => pc = "cdi" /\ pc' = "ipca"
      /\ i = "ipca" => pc = "ipca" /\ pc' = After("ipca")
  BY <1>1 DEF Goes, After
<1>3. After("ipca") = IF ~got.computed THEN "quotes"
                      ELSE IF kind = "score" THEN "profile" ELSE "done"
  BY DEF After
<1>4. /\ quiet => (i = "cdi" => m = Only(macro, {"cdi"} \ got.unread))
      /\ quiet => (i = "ipca" => m = Only(macro, {"cdi", "ipca"} \ got.unread))
  <2>1. report # Failed
    BY <1>2, ReportsAssumption DEF IndInv, OnItsWay
  <2>2. CASE i = "cdi"
    <3>1. quiet => got.macro = Only(macro, {}) /\ got.unread = {}
      BY <1>2, <2>1, <2>2, OnlyNothing DEF IndInv, HoldingsRead
    <3>2. {} \cup {"cdi"} = {"cdi"} \ {}
      OBVIOUS
    <3> QED  BY <2>2, <3>1, <3>2, WithReading, WithoutReading
  <2>3. CASE i = "ipca"
    <3>1. quiet => got.macro = Only(macro, {"cdi"} \ got.unread)
      BY <1>2, <2>1, <2>3 DEF IndInv, HoldingsRead
    <3>2. quiet => "ipca" \notin got.unread
      BY <1>2, <2>1, <2>3 DEF IndInv, HoldingsRead
    <3>3. quiet => ({"cdi"} \ got.unread) \cup {"ipca"} = {"cdi", "ipca"} \ got.unread
      BY <3>2
    <3> QED  BY <2>3, <3>1, <3>3, WithReading, WithoutReading
  <2> QED  BY <2>2, <2>3
<1> HIDE DEF m
<1>5. IsGot' /\ got'.fii = got.fii /\ got'.macro = m /\ got'.fixed = got.fixed
      /\ got'.quotes = got.quotes /\ got'.asked = got.asked
      /\ got'.unread = got.unread /\ got'.boardUnread = got.boardUnread
      /\ got'.computed = got.computed
  BY <1>1 DEF IndInv, IsGot
<1>7. /\ QuietReportsExact' /\ report' = None
      /\ fii' = fii /\ fixed' = fixed /\ quotes' = quotes /\ macro' = macro
      /\ profile' = profile /\ kind' = kind /\ quiet' = quiet
  BY <1>1, <1>2, <1>5, ReadKeepsReport
<1>8. OnItsWay'
  BY <1>2, <1>3, <1>5, <1>7, ReportsAssumption DEF IndInv, OnItsWay, Kinds
<1>9. HoldingsRead'
  BY <1>1, <1>2, <1>3, <1>4, <1>5, <1>7 DEF IndInv, HoldingsRead
<1>10. QuotesRead'
  BY <1>1, <1>5, <1>7 DEF IndInv, QuotesRead
<1>11. ProfileRead'
  BY <1>2, <1>3, <1>5, <1>7 DEF IndInv, OnItsWay, ProfileRead
<1> QED  BY <1>5, <1>7, <1>8, <1>9, <1>10, <1>11 DEF IndInv

\* A reading that could not be read is missing from what was read; one that is not
\* stored is missing from both.
LEMMA ReadMacroFailsIndInv ==
  ASSUME IndInv, NEW i \in {"cdi", "ipca"}, ReadMacroFails(i)
  PROVE  IndInv'
<1> DEFINE u == got.unread \cup ({i} \cap DOMAIN macro)
<1>1. /\ Goes(i) /\ got' = [got EXCEPT !.unread = u]
      /\ UNCHANGED <<tables, kind, dash, report, changes, quiet>>
  BY DEF ReadMacroFails, Read, IndInv, IsGot
<1>2. /\ i = "cdi" => pc = "cdi" /\ pc' = "ipca"
      /\ i = "ipca" => pc = "ipca" /\ pc' = After("ipca")
  BY <1>1 DEF Goes, After
<1>3. After("ipca") = IF ~got.computed THEN "quotes"
                      ELSE IF kind = "score" THEN "profile" ELSE "done"
  BY DEF After
<1>4. /\ quiet => (i = "cdi" => got.macro = Only(macro, {"cdi"} \ u))
      /\ quiet => (i = "ipca" => got.macro = Only(macro, {"cdi", "ipca"} \ u))
  <2>1. report # Failed
    BY <1>2, ReportsAssumption DEF IndInv, OnItsWay
  <2>2. CASE i = "cdi"
    <3>1. quiet => got.macro = Only(macro, {}) /\ got.unread = {}
      BY <1>2, <2>1, <2>2, OnlyNothing DEF IndInv, HoldingsRead
    <3>2. quiet => ({"cdi"} \ u) \cap DOMAIN macro = {} \cap DOMAIN macro
      BY <2>2, <3>1
    <3> QED  BY <2>2, <3>1, <3>2, OnlyStored
  <2>3. CASE i = "ipca"
    <3>1. quiet => got.macro = Only(macro, {"cdi"} \ got.unread)
      BY <1>2, <2>1, <2>3 DEF IndInv, HoldingsRead
    <3>2. ({"cdi", "ipca"} \ u) \cap DOMAIN macro = ({"cdi"} \ got.unread) \cap DOMAIN macro
      BY <2>3
    <3> QED  BY <2>3, <3>1, <3>2, OnlyStored
  <2> QED  BY <2>2, <2>3
<1>5. u \subseteq got.unread \cup {i}
  OBVIOUS
<1> HIDE DEF u
<1>6. IsGot' /\ got'.fii = got.fii /\ got'.macro = got.macro /\ got'.fixed = got.fixed
      /\ got'.quotes = got.quotes /\ got'.asked = got.asked
      /\ got'.unread = u /\ got'.boardUnread = got.boardUnread
      /\ got'.computed = got.computed
  BY <1>1 DEF IndInv, IsGot
<1>7. /\ QuietReportsExact' /\ report' = None
      /\ fii' = fii /\ fixed' = fixed /\ quotes' = quotes /\ macro' = macro
      /\ profile' = profile /\ kind' = kind /\ quiet' = quiet
  BY <1>1, <1>2, <1>6, ReadKeepsReport
<1>8. OnItsWay'
  BY <1>2, <1>3, <1>6, <1>7, ReportsAssumption DEF IndInv, OnItsWay, Kinds
<1>9. HoldingsRead'
  BY <1>1, <1>2, <1>3, <1>4, <1>5, <1>6, <1>7 DEF IndInv, HoldingsRead
<1>10. QuotesRead'
  BY <1>1, <1>6, <1>7 DEF IndInv, QuotesRead
<1>11. ProfileRead'
  BY <1>2, <1>3, <1>6, <1>7 DEF IndInv, OnItsWay, ProfileRead
<1> QED  BY <1>6, <1>7, <1>8, <1>9, <1>10, <1>11 DEF IndInv

LEMMA ReadQuoteIndInv ==
  ASSUME IndInv, NEW t, ReadQuote(t)
  PROVE  IndInv'
<1> DEFINE q == IF t \in DOMAIN quotes THEN With(got.quotes, t, quotes[t]) ELSE got.quotes
<1>1. /\ pc = "quotes" /\ pc' = pc
      /\ got' = [got EXCEPT !.asked = got.asked \cup {t}, !.quotes = q]
      /\ UNCHANGED <<tables, kind, dash, report, changes, quiet>>
  BY DEF ReadQuote, IndInv, IsGot
<1>2. UNCHANGED <<fii, fixed, quotes, macro, profile, today, kind, report, dash, quiet>>
  BY <1>1 DEF tables
<1>3. quiet => q = Only(quotes, got.asked \cup {t})
  <2>1. report # Failed
    BY <1>1, ReportsAssumption DEF IndInv, OnItsWay
  <2>2. quiet => got.quotes = Only(quotes, got.asked)
    BY <2>1 DEF IndInv, QuotesRead
  <2> QED  BY <2>2, WithReading, WithoutReading
<1> HIDE DEF q
<1>4. IsGot' /\ got'.fii = got.fii /\ got'.macro = got.macro /\ got'.fixed = got.fixed
      /\ got'.quotes = q /\ got'.asked = got.asked \cup {t}
      /\ got'.unread = got.unread /\ got'.boardUnread = got.boardUnread
      /\ got'.computed = got.computed
  BY <1>1 DEF IndInv, IsGot
<1>6. OnItsWay'
  BY <1>1, <1>2, <1>4 DEF IndInv, OnItsWay
<1>7. HoldingsRead' /\ QuotesRead'
  BY <1>1, <1>2, <1>3, <1>4 DEF IndInv, HoldingsRead, QuotesRead
<1>8. ProfileRead'
  BY <1>1 DEF ProfileRead
<1>9. QuietReportsExact'
  BY <1>1, <1>2, <1>4 DEF IndInv, OnItsWay, QuietReportsExact, Done
<1> QED  BY <1>4, <1>6, <1>7, <1>8, <1>9 DEF IndInv

LEMMA ComputeIndInv == ASSUME IndInv, Compute PROVE IndInv'
<1>1. /\ pc = "quotes" /\ pc' = After("quotes") /\ Held \subseteq got.asked
      /\ dash' = Dashboard(got.fii, got.fixed, got.macro, got.quotes, today)
      /\ got' = [got EXCEPT !.computed = TRUE, !.boardUnread = got.unread]
      /\ UNCHANGED <<fii, fixed, quotes, macro, profile, today, kind, report, quiet>>
  BY DEF Compute, Goes, tables
<1>2. After("quotes") = CASE kind = "dashboard" -> "done"
                          [] kind = "rebalance" -> "profile"
                          [] OTHER              -> "fii"
  BY DEF After
<1>3. report = None /\ report # Failed
  BY <1>1, ReportsAssumption DEF IndInv, OnItsWay
<1>4. IsGot' /\ got'.fii = got.fii /\ got'.macro = got.macro /\ got'.fixed = got.fixed
      /\ got'.quotes = got.quotes /\ got'.asked = got.asked
      /\ got'.unread = got.unread /\ got'.boardUnread = got.unread
      /\ got'.computed = TRUE
  BY <1>1 DEF IndInv, IsGot
<1>6. \/ kind = "dashboard" /\ pc' = "done"
      \/ kind = "rebalance" /\ pc' = "profile"
      \/ kind \in {"score", "projections"} /\ pc' = "fii"
  BY <1>1, <1>2 DEF IndInv, OnItsWay, Kinds
<1>7. OnItsWay'
  BY <1>1, <1>3, <1>4, <1>6 DEF IndInv, OnItsWay
<1>8. HoldingsRead' /\ QuotesRead'
  BY <1>1, <1>3, <1>4, <1>6 DEF IndInv, HoldingsRead, QuotesRead
<1>9. ProfileRead'
  BY <1>1, <1>6 DEF ProfileRead
<1>10. quiet => dash' = Dashboard(fii, fixed, Without(macro, got.unread), quotes, today)
  <2> DEFINE known == Without(macro, got.unread)
  <2>1. SUFFICES ASSUME quiet PROVE dash' = Dashboard(fii, fixed, known, quotes, today)
    OBVIOUS
  <2>2. /\ got.fii = fii /\ got.fixed = fixed
        /\ got.macro = Only(macro, {"cdi", "ipca"} \ got.unread)
        /\ got.quotes = Only(quotes, got.asked)
    BY <1>1, <1>3, <2>1 DEF IndInv, HoldingsRead, QuotesRead
  <2>3. got.macro = Only(known, {"cdi", "ipca"})
    BY <2>2, OnlyWithout
  <2>4. \A row \in fii : row.ticker \in got.asked
    BY <1>1, <2>2 DEF Held
  <2> HIDE DEF known
  <2> QED  BY <1>1, <2>2, <2>3, <2>4, DashboardDependsOnHeld
<1>11. QuietReportsExact'
  BY <1>1, <1>3, <1>4, <1>10 DEF QuietReportsExact, Done
<1> QED  BY <1>4, <1>7, <1>8, <1>9, <1>11 DEF IndInv

LEMMA ReadProfileIndInv == ASSUME IndInv, ReadProfile PROVE IndInv'
<1>1. /\ Goes("profile") /\ pc' = "selic" /\ got' = [got EXCEPT !.profile = profile]
      /\ UNCHANGED <<tables, kind, dash, report, changes, quiet>>
  BY DEF ReadProfile, Goes, After, Read
<1>2. IsGot' /\ got'.fii = got.fii /\ got'.macro = got.macro /\ got'.fixed = got.fixed
      /\ got'.quotes = got.quotes /\ got'.asked = got.asked /\ got'.profile = profile
      /\ got'.unread = got.unread /\ got'.boardUnread = got.boardUnread
      /\ got'.computed = got.computed
  BY <1>1 DEF IndInv, IsGot
<1>4. /\ QuietReportsExact' /\ report' = None
      /\ fii' = fii /\ fixed' = fixed /\ quotes' = quotes /\ macro' = macro
      /\ profile' = profile /\ kind' = kind /\ quiet' = quiet
  BY <1>1, <1>2, ReadKeepsReport
<1>5. OnItsWay'
  BY <1>1, <1>2, <1>4 DEF IndInv, OnItsWay, Goes
<1>6. HoldingsRead' /\ QuotesRead'
  BY <1>1, <1>2, <1>4 DEF IndInv, HoldingsRead, QuotesRead, Goes
<1>7. ProfileRead'
  BY <1>1, <1>2, <1>4 DEF ProfileRead
<1> QED  BY <1>2, <1>4, <1>5, <1>6, <1>7 DEF IndInv

LEMMA ReadSelicIndInv == ASSUME IndInv, ReadSelic PROVE IndInv'
<1>1. /\ Goes("selic") /\ pc' = "done" /\ got' = [got EXCEPT !.selic = Selic]
      /\ UNCHANGED <<tables, kind, dash, report, changes, quiet>>
  BY DEF ReadSelic, Goes, After, Read
<1>2. IsGot' /\ got'.fii = got.fii /\ got'.macro = got.macro /\ got'.fixed = got.fixed
      /\ got'.quotes = got.quotes /\ got'.asked = got.asked /\ got'.profile = got.profile
      /\ got'.selic = Selic
      /\ got'.unread = got.unread /\ got'.boardUnread = got.boardUnread
      /\ got'.computed = got.computed
  BY <1>1 DEF IndInv, IsGot
<1>4. /\ QuietReportsExact' /\ report' = None
      /\ fii' = fii /\ fixed' = fixed /\ quotes' = quotes /\ macro' = macro
      /\ profile' = profile /\ kind' = kind /\ quiet' = quiet
  BY <1>1, <1>2, ReadKeepsReport
<1>5. OnItsWay'
  BY <1>1, <1>2, <1>4 DEF IndInv, OnItsWay, Goes
<1>6. HoldingsRead' /\ QuotesRead'
  BY <1>1, <1>2, <1>4 DEF IndInv, HoldingsRead, QuotesRead, Goes
<1>7. ProfileRead'
  BY <1>1, <1>2, <1>4 DEF IndInv, ProfileRead, Goes, Selic
<1> QED  BY <1>2, <1>4, <1>5, <1>6, <1>7 DEF IndInv

LEMMA FailIndInv == ASSUME IndInv, Fail PROVE IndInv'
<1>1. /\ pc' = "done" /\ report' = Failed /\ got' = got /\ report = None
      /\ UNCHANGED <<fii, fixed, quotes, macro, profile, today, kind, dash, quiet>>
      /\ pc # "begin"
  BY DEF Fail, tables, IndInv, OnItsWay
<1>2. IsGot' /\ OnItsWay'
  BY <1>1 DEF IndInv, IsGot, OnItsWay
<1>3. HoldingsRead' /\ QuotesRead' /\ ProfileRead'
  BY <1>1 DEF HoldingsRead, QuotesRead, ProfileRead
<1>4. QuietReportsExact'
  BY <1>1 DEF IndInv, QuietReportsExact, Done
<1> QED  BY <1>2, <1>3, <1>4 DEF IndInv

LEMMA AnswerIndInv == ASSUME IndInv, Answer PROVE IndInv'
<1>1. /\ pc = "done" /\ report = None /\ report # Failed
      /\ UNCHANGED <<fii, fixed, quotes, macro, profile, today>>
      /\ UNCHANGED <<kind, pc, got, dash, quiet>>
  BY ReportsAssumption DEF Answer, tables
<1>2. got.computed
  BY <1>1 DEF IndInv, OnItsWay
<1>3. IsGot' /\ OnItsWay'
  BY <1>1, <1>2 DEF IndInv, IsGot, OnItsWay
<1>4. HoldingsRead' /\ QuotesRead' /\ ProfileRead'
  BY <1>1 DEF IndInv, HoldingsRead, QuotesRead, ProfileRead, Selic
<1>5. QuietReportsExact'
  <2> DEFINE board == Dashboard(fii, fixed, Without(macro, got.boardUnread), quotes, today)
             known == Without(macro, got.unread)
  <2>1. SUFFICES ASSUME quiet
                 PROVE  /\ dash = board
                        /\ kind = "score" => report' =
                             HealthScore(HealthInputs(board, fii, fixed, profile, Selic))
                        /\ kind = "projections" => report' =
                             Projections(board, fixed, known, Contribution, Years)
                        /\ kind = "rebalance" => report' =
                             Split(board, profile, Contribution)
    BY <1>1 DEF QuietReportsExact, Done, Selic
  <2>2. dash = board
    BY <1>2, <2>1 DEF IndInv, QuietReportsExact
  <2> HIDE DEF board
  <2>3. /\ got.fii = fii /\ got.fixed = fixed
        /\ got.macro = Only(known, {"cdi", "ipca"})
    BY <1>1, <2>1, OnlyWithout DEF IndInv, HoldingsRead
  <2> HIDE DEF known
  <2>4. kind \in {"score", "rebalance"} => got.profile = profile /\ got.selic = Selic
    BY <1>1, <2>1 DEF IndInv, ProfileRead
  <2>5. CASE kind = "score"
    <3>1. report' = HealthScore(HealthInputs(dash, got.fii, got.fixed,
                                             got.profile, got.selic))
      BY <2>5 DEF Answer
    <3> QED  BY <2>2, <2>3, <2>4, <2>5, <3>1
  <2>6. CASE kind = "projections"
    <3>1. report' = Projections(dash, got.fixed, got.macro, Contribution, Years)
      BY <2>6 DEF Answer
    <3>2. Projections(dash, fixed, Only(known, {"cdi", "ipca"}), Contribution, Years)
            = Projections(dash, fixed, known, Contribution, Years)
      BY AnnualDependsOnTwo, Zenon DEF Projections
    <3> QED  BY <2>2, <2>3, <2>6, <3>1, <3>2
  <2>7. CASE kind = "rebalance"
    <3>1. report' = Split(dash, got.profile, Contribution)
      BY <2>7 DEF Answer
    <3> QED  BY <2>2, <2>4, <2>7, <3>1
  <2> QED  BY <2>2, <2>5, <2>6, <2>7
<1> QED  BY <1>3, <1>4, <1>5 DEF IndInv

-----------------------------------------------------------------------------

LEMMA NextIndInv == ASSUME IndInv, [Next]_vars PROVE IndInv'
<1>1. CASE Changed
  BY <1>1, ChangedIndInv
<1>2. CASE \E i \in {"cdi", "ipca"} : ReadMacro(i) \/ ReadMacroFails(i)
  BY <1>2, ReadMacroIndInv, ReadMacroFailsIndInv
<1>3. CASE \E t \in Tickers : ReadQuote(t)
  BY <1>3, ReadQuoteIndInv
<1>4. CASE Begin \/ ReadFII \/ ReadFixed \/ Compute \/ ReadProfile \/ ReadSelic
  BY <1>4, BeginIndInv, ReadFIIIndInv, ReadFixedIndInv, ComputeIndInv,
     ReadProfileIndInv, ReadSelicIndInv
<1>5. CASE Answer \/ Fail
  BY <1>5, AnswerIndInv, FailIndInv
<1>6. CASE UNCHANGED vars
  BY <1>6, StutterIndInv
<1>7. ASSUME \/ \E row \in FIIRows : SaveFII(row)
             \/ \E row \in fii : DeleteFII(row)
             \/ \E row \in FixedRows : SaveFixed(row)
             \/ \E row \in fixed : DeleteFixed(row)
             \/ \E t \in Tickers : \E quote \in QuoteOf[t] : StoreQuote(t, quote)
             \/ \E i \in Indicators : \E value \in ReadingOf[i] : StoreReading(i, value)
             \/ \E risk \in Profiles : SetProfile(risk)
             \/ NextDay
      PROVE  Changed
  BY <1>7 DEF SaveFII, DeleteFII, SaveFixed, DeleteFixed, StoreQuote, StoreReading,
              SetProfile, NextDay
<1> QED  BY <1>1, <1>2, <1>3, <1>4, <1>5, <1>6, <1>7 DEF Next

(* The code behaviour: GetDashboard, buildInputs, Project and buildFacts, which   *)
(* read statement by statement and the holdings twice.  For every portfolio and  *)
(* all contents of the tables, a report of a request during which nothing changes *)
(* is the function of the tables it promises to be, without the readings whose   *)
(* reads failed.                                                                 *)
THEOREM QuietReportsCorrect == Spec => []QuietReportsExact
<1>1. Init => IndInv
  BY InitIndInv
<1>2. IndInv /\ [Next]_vars => IndInv'
  BY NextIndInv
<1>3. IndInv => QuietReportsExact
  BY DEF IndInv
<1> QED  BY <1>1, <1>2, <1>3, PTL DEF Spec

-----------------------------------------------------------------------------
(* What a request has read is of the types the tables have, and its dashboard is *)
(* computed from what it read.                                                   *)

\* Partial, which is built from all its domains, says this of a function.
LEMMA PartialIs ==
  ASSUME NEW Of, NEW f
  PROVE  f \in Partial(Of) <=> /\ f = [x \in DOMAIN f |-> f[x]]
                               /\ DOMAIN f \subseteq DOMAIN Of
                               /\ \A x \in DOMAIN f : f[x] \in Of[x]
<1>1. ASSUME f \in Partial(Of)
      PROVE  /\ f = [x \in DOMAIN f |-> f[x]]
             /\ DOMAIN f \subseteq DOMAIN Of
             /\ \A x \in DOMAIN f : f[x] \in Of[x]
  BY <1>1 DEF Partial
<1>2. ASSUME f = [x \in DOMAIN f |-> f[x]], DOMAIN f \subseteq DOMAIN Of,
             \A x \in DOMAIN f : f[x] \in Of[x]
      PROVE  f \in Partial(Of)
  <2> DEFINE D == DOMAIN f
             All == {g \in [D -> UNION {Of[x] : x \in D}] : \A x \in D : g[x] \in Of[x]}
  <2>1. \A x \in D : f[x] \in UNION {Of[y] : y \in D}
    BY <1>2
  <2>2. f \in [D -> UNION {Of[x] : x \in D}]
    BY <1>2, <2>1
  <2>3. f \in All
    BY <1>2, <2>2
  <2>4. D \in SUBSET DOMAIN Of
    BY <1>2
  <2> QED
    BY <2>3, <2>4 DEF Partial
<1> QED
  BY <1>1, <1>2

LEMMA WithPartial ==
  ASSUME NEW Of, NEW f \in Partial(Of), NEW x \in DOMAIN Of, NEW v \in Of[x]
  PROVE  With(f, x, v) \in Partial(Of)
<1> DEFINE g == With(f, x, v)
<1>1. /\ g = [y \in DOMAIN g |-> g[y]]
      /\ DOMAIN g = DOMAIN f \cup {x}
      /\ \A y \in DOMAIN g : g[y] = IF y = x THEN v ELSE f[y]
  BY DEF With
<1>2. /\ DOMAIN f \subseteq DOMAIN Of
      /\ \A y \in DOMAIN f : f[y] \in Of[y]
  BY PartialIs
<1> HIDE DEF g
<1>3. DOMAIN g \subseteq DOMAIN Of /\ \A y \in DOMAIN g : g[y] \in Of[y]
  BY <1>1, <1>2
<1>4. g \in Partial(Of)
  BY <1>1, <1>3, PartialIs
<1> QED
  BY <1>4 DEF g

\* The fixed-income rows that may be in the table, with their day of creation.
FixedKnown == {[row EXCEPT !.created = d] : row \in FixedRows, d \in 0..LastDay}

TablesKnown ==
  /\ fii \subseteq FIIRows /\ Keyed(fii)
  /\ fixed \subseteq FixedKnown /\ Keyed(fixed)
  /\ \A x \in fixed : x.created \in 0..today
  /\ quotes \in Partial(QuoteOf) /\ macro \in Partial(ReadingOf)
  /\ profile \in Profiles /\ today \in FirstDay..LastDay

\* What a request has read stays of the type of what the tables held then, also
\* when they hold something else now.
GotKnown ==
  /\ got.fii \subseteq FIIRows /\ got.fixed \subseteq FixedKnown
  /\ DOMAIN got.macro \subseteq {"cdi", "ipca"}
  /\ \A i \in DOMAIN got.macro : got.macro[i] \in Int
  /\ got.quotes \in Partial(QuoteOf)
  /\ got.asked \subseteq Tickers /\ DOMAIN got.quotes \subseteq got.asked
  /\ got.selic \in Int

CountsKnown == changes \in 0..MaxChanges /\ quiet \in BOOLEAN

LEMMA KnownFixed ==
  ASSUME NEW row \in FixedRows, NEW d \in 0..LastDay
  PROVE  LET x == [row EXCEPT !.created = d]
         IN  /\ x \in FixedKnown /\ x.created = d /\ x.id = row.id
             /\ x.invested = row.invested /\ x.rate = row.rate
             /\ x.indexer = row.indexer /\ x.daily = row.daily
             /\ x = [row EXCEPT !.created = x.created]
             /\ row = [row EXCEPT !.created = row.created]
<1> DEFINE x == [row EXCEPT !.created = d]
<1>1. row = [id |-> row.id, invested |-> row.invested, rate |-> row.rate,
             indexer |-> row.indexer, daily |-> row.daily, created |-> row.created]
  BY ReportsAssumption
<1>2. x = [id |-> row.id, invested |-> row.invested, rate |-> row.rate,
           indexer |-> row.indexer, daily |-> row.daily, created |-> d]
  BY <1>1
<1>3. x \in FixedKnown
  BY DEF FixedKnown
<1> QED
  BY <1>1, <1>2, <1>3

LEMMA KnownIsTyped ==
  ASSUME TablesKnown, GotKnown, CountsKnown, OnItsWay
  PROVE  TypeOK
<1>1. ASSUME NEW x \in fixed
      PROVE  \E row \in FixedRows : x = [row EXCEPT !.created = x.created]
  <2>1. PICK row \in FixedRows, d \in 0..LastDay : x = [row EXCEPT !.created = d]
    BY DEF TablesKnown, FixedKnown
  <2> QED
    BY <2>1, KnownFixed
<1> QED
  BY <1>1 DEF TablesKnown, GotKnown, CountsKnown, OnItsWay, TypeOK

LEMMA InitKnown == ASSUME Init PROVE TablesKnown /\ GotKnown /\ CountsKnown
<1>1. fii \subseteq FIIRows /\ Keyed(fii) /\ fixed \subseteq FixedRows /\ Keyed(fixed)
      /\ quotes \in Partial(QuoteOf) /\ macro \in Partial(ReadingOf)
      /\ profile \in Profiles /\ today = FirstDay /\ today \in FirstDay..LastDay
  BY ReportsAssumption DEF Init
<1>2. \A x \in FixedRows : x \in FixedKnown /\ x.created \in 0..FirstDay
  <2> TAKE x \in FixedRows
  <2>1. x.created \in 0..LastDay /\ x.created \in 0..FirstDay
    <3>1. x.created \in 0..FirstDay
      BY ReportsAssumption
    <3>2. FirstDay \in Nat /\ LastDay \in Nat /\ FirstDay <= LastDay
      BY ReportsAssumption
    <3> QED
      BY <3>1, <3>2
  <2>2. x = [x EXCEPT !.created = x.created]
    BY <2>1, KnownFixed
  <2> QED
    BY <2>1, <2>2 DEF FixedKnown
<1>3. TablesKnown
  BY <1>1, <1>2 DEF TablesKnown
<1>4. GotKnown
  <2>1. << >> \in Partial(QuoteOf)
    <3> DEFINE none == [x \in {} |-> x]
    <3>1. none = << >>
      OBVIOUS
    <3>2. DOMAIN none = {} /\ none = [x \in DOMAIN none |-> none[x]]
      OBVIOUS
    <3> HIDE DEF none
    <3>3. none \in Partial(QuoteOf)
      BY <3>2, PartialIs
    <3> QED
      BY <3>1, <3>3
  <2>2. got = Nothing
    BY DEF Init
  <2> QED
    BY <2>1, <2>2 DEF GotKnown, Nothing
<1>5. CountsKnown
  BY ReportsAssumption DEF Init, CountsKnown
<1> QED
  BY <1>3, <1>4, <1>5

LEMMA ChangeKnown ==
  ASSUME TablesKnown,
         \/ \E row \in FIIRows : SaveFII(row)
         \/ \E row \in fii : DeleteFII(row)
         \/ \E row \in FixedRows : SaveFixed(row)
         \/ \E row \in fixed : DeleteFixed(row)
         \/ \E t \in Tickers : \E quote \in QuoteOf[t] : StoreQuote(t, quote)
         \/ \E i \in Indicators : \E value \in ReadingOf[i] : StoreReading(i, value)
         \/ \E risk \in Profiles : SetProfile(risk)
         \/ NextDay
  PROVE  TablesKnown'
<1>1. ASSUME NEW row \in FIIRows, SaveFII(row) PROVE TablesKnown'
  BY <1>1 DEF TablesKnown, SaveFII, Keyed
<1>2. ASSUME NEW row \in fii, DeleteFII(row) PROVE TablesKnown'
  BY <1>2 DEF TablesKnown, DeleteFII, Keyed
<1>3. ASSUME NEW row \in FixedRows, SaveFixed(row) PROVE TablesKnown'
  <2> DEFINE d == CreatedOf(row)
             new == [row EXCEPT !.created = d]
             kept == {x \in fixed : x.id # row.id}
  <2>1. today \in 0..LastDay /\ today \in 0..today /\ LastDay \in Nat
    BY ReportsAssumption DEF TablesKnown
  <2>2. d \in 0..today /\ d \in 0..LastDay
    <3>1. CASE \E x \in fixed : x.id = row.id
      <4> DEFINE old == CHOOSE x \in fixed : x.id = row.id
      <4>1. old \in fixed /\ d = old.created
        <5>1. old \in fixed
          BY <3>1
        <5>2. d = old.created
          BY <3>1 DEF CreatedOf
        <5> QED
          BY <5>1, <5>2
      <4> HIDE DEF old
      <4>2. d \in 0..today
        BY <4>1 DEF TablesKnown
      <4> QED
        BY <2>1, <4>2
    <3>2. CASE ~ \E x \in fixed : x.id = row.id
      BY <2>1, <3>2 DEF CreatedOf
    <3> QED
      BY <3>1, <3>2
  <2> HIDE DEF d
  <2>3. new \in FixedKnown /\ new.created = d /\ new.id = row.id
    BY <2>2, KnownFixed
  <2>4. /\ fixed' = kept \cup {new}
        /\ UNCHANGED <<fii, quotes, macro, profile, today>>
    BY <1>3 DEF SaveFixed, d
  <2> HIDE DEF new
  <2>5. fixed' \subseteq FixedKnown /\ Keyed(fixed')
    BY <2>3, <2>4 DEF TablesKnown, Keyed
  <2>6. \A x \in fixed' : x.created \in 0..today'
    BY <2>2, <2>3, <2>4 DEF TablesKnown
  <2> QED
    BY <2>4, <2>5, <2>6 DEF TablesKnown
<1>4. ASSUME NEW row \in fixed, DeleteFixed(row) PROVE TablesKnown'
  BY <1>4 DEF TablesKnown, DeleteFixed, Keyed
<1>5. ASSUME NEW t \in Tickers, NEW quote \in QuoteOf[t], StoreQuote(t, quote)
      PROVE  TablesKnown'
  <2>1. With(quotes, t, quote) \in Partial(QuoteOf)
    BY WithPartial DEF TablesKnown, Tickers
  <2> QED
    BY <1>5, <2>1 DEF TablesKnown, StoreQuote
<1>6. ASSUME NEW i \in Indicators, NEW value \in ReadingOf[i], StoreReading(i, value)
      PROVE  TablesKnown'
  <2>1. With(macro, i, value) \in Partial(ReadingOf)
    BY WithPartial DEF TablesKnown, Indicators
  <2> QED
    BY <1>6, <2>1 DEF TablesKnown, StoreReading
<1>7. ASSUME NEW risk \in Profiles, SetProfile(risk) PROVE TablesKnown'
  BY <1>7 DEF TablesKnown, SetProfile
<1>8. CASE NextDay
  <2>1. today' \in FirstDay..LastDay /\ \A d \in 0..today : d \in 0..today'
    BY <1>8, ReportsAssumption DEF TablesKnown, NextDay
  <2> QED
    BY <1>8, <2>1 DEF TablesKnown, NextDay
<1> QED
  BY <1>1, <1>2, <1>3, <1>4, <1>5, <1>6, <1>7, <1>8

\* What a dashboard was computed from, as far as later reads leave it known.
ComputedOf(F, X, M, Q, day) ==
  /\ dash = Dashboard(F, X, M, Q, day)
  /\ F \subseteq FIIRows /\ X \subseteq FixedKnown /\ Q \in Partial(QuoteOf)
  /\ \A i \in DOMAIN M : M[i] \in Int
  /\ day \in FirstDay..LastDay
  /\ kind = "dashboard" => F = got.fii /\ Q = got.quotes

ComputedKnown == got.computed => \E F, X, M, Q, day : ComputedOf(F, X, M, Q, day)

\* An answer is the function of what the request holds.
ReportKnown ==
  /\ Done("score") => report = HealthScore(HealthInputs(dash, got.fii, got.fixed,
                                                        got.profile, got.selic))
  /\ Done("projections") =>
       report = Projections(dash, got.fixed, got.macro, Contribution, Years)
  /\ Done("rebalance") => report = Split(dash, got.profile, Contribution)

\* A read after the dashboard changes neither it nor, for its own report, what it
\* was computed from.
LEMMA ReadKeepsComputed ==
  ASSUME IndInv, ComputedKnown, ReportKnown, NEW s, Goes(s),
         UNCHANGED <<tables, kind, dash, report, changes, quiet>>,
         s # "done", s # "begin", got'.computed = got.computed,
         got.computed /\ kind = "dashboard" => got'.fii = got.fii /\ got'.quotes = got.quotes
  PROVE  ComputedKnown' /\ ReportKnown'
<1>1. report' = None
  BY DEF IndInv, OnItsWay, Goes
<1>2. ReportKnown'
  BY <1>1 DEF ReportKnown, Done
<1>3. ASSUME NEW F, NEW X, NEW M, NEW Q, NEW day, got.computed, ComputedOf(F, X, M, Q, day)
      PROVE  ComputedOf(F, X, M, Q, day)'
  BY <1>3 DEF ComputedOf
<1>4. ComputedKnown'
  BY <1>3 DEF ComputedKnown
<1> QED
  BY <1>2, <1>4

Known == TablesKnown /\ GotKnown /\ CountsKnown /\ ComputedKnown /\ ReportKnown

LEMMA SameTables ==
  ASSUME TablesKnown, CountsKnown, UNCHANGED <<tables, changes, quiet>>
  PROVE  TablesKnown' /\ CountsKnown'
BY DEF TablesKnown, CountsKnown, tables

LEMMA ReadsKnown ==
  ASSUME IndInv, Known,
         \/ ReadFII \/ ReadFixed \/ ReadProfile \/ ReadSelic
         \/ \E i \in {"cdi", "ipca"} : ReadMacro(i) \/ ReadMacroFails(i)
  PROVE  Known'
<1> USE DEF Known
<1>1. CASE ReadFII
  <2>1. /\ Goes("fii")
        /\ got' = [got EXCEPT !.fii = fii, !.macro = << >>, !.unread = {}]
        /\ UNCHANGED <<tables, kind, dash, report, changes, quiet>>
    BY <1>1 DEF ReadFII, Read
  <2>2. /\ got'.fii = fii /\ got'.fixed = got.fixed /\ got'.macro = << >>
        /\ got'.quotes = got.quotes /\ got'.asked = got.asked
        /\ got'.computed = got.computed /\ got'.selic = got.selic
    BY <2>1 DEF IndInv, IsGot
  <2>3. GotKnown'
    BY <2>2 DEF GotKnown, TablesKnown
  <2>4. got.computed => kind # "dashboard"
    BY <2>1 DEF IndInv, OnItsWay, Goes
  <2> QED
    BY <2>1, <2>2, <2>3, <2>4, SameTables, ReadKeepsComputed
<1>2. CASE ReadFixed
  <2>1. /\ Goes("fixed") /\ got' = [got EXCEPT !.fixed = fixed]
        /\ UNCHANGED <<tables, kind, dash, report, changes, quiet>>
    BY <1>2 DEF ReadFixed, Read
  <2>2. /\ got'.fii = got.fii /\ got'.fixed = fixed /\ got'.macro = got.macro
        /\ got'.quotes = got.quotes /\ got'.asked = got.asked
        /\ got'.computed = got.computed /\ got'.selic = got.selic
    BY <2>1 DEF IndInv, IsGot
  <2>3. GotKnown'
    BY <2>2 DEF GotKnown, TablesKnown
  <2> QED
    BY <2>1, <2>2, <2>3, SameTables, ReadKeepsComputed
<1>3. ASSUME NEW i \in {"cdi", "ipca"}, ReadMacro(i) PROVE Known'
  <2> DEFINE m == IF i \in DOMAIN macro THEN With(got.macro, i, macro[i]) ELSE got.macro
  <2>1. /\ Goes(i) /\ got' = [got EXCEPT !.macro = m]
        /\ UNCHANGED <<tables, kind, dash, report, changes, quiet>>
    BY <1>3 DEF ReadMacro, Read, IndInv, IsGot
  <2>2. DOMAIN m \subseteq {"cdi", "ipca"} /\ \A j \in DOMAIN m : m[j] \in Int
    <3>1. CASE i \in DOMAIN macro
      <4>1. macro[i] \in ReadingOf[i] /\ i \in Indicators
        BY <3>1, PartialIs DEF TablesKnown, Indicators
      <4>2. macro[i] \in Int
        BY <4>1, ReportsAssumption
      <4> QED
        BY <3>1, <4>2 DEF With, GotKnown
    <3> QED
      BY <3>1 DEF GotKnown
  <2> HIDE DEF m
  <2>3. /\ got'.fii = got.fii /\ got'.fixed = got.fixed /\ got'.macro = m
        /\ got'.quotes = got.quotes /\ got'.asked = got.asked
        /\ got'.computed = got.computed /\ got'.selic = got.selic
    BY <2>1 DEF IndInv, IsGot
  <2>4. GotKnown'
    BY <2>2, <2>3 DEF GotKnown
  <2> QED
    BY <2>1, <2>3, <2>4, SameTables, ReadKeepsComputed
<1>4. ASSUME NEW i \in {"cdi", "ipca"}, ReadMacroFails(i) PROVE Known'
  <2>1. /\ Goes(i) /\ got' = [got EXCEPT !.unread = @ \cup ({i} \cap DOMAIN macro)]
        /\ UNCHANGED <<tables, kind, dash, report, changes, quiet>>
    BY <1>4 DEF ReadMacroFails, Read
  <2>2. /\ got'.fii = got.fii /\ got'.fixed = got.fixed /\ got'.macro = got.macro
        /\ got'.quotes = got.quotes /\ got'.asked = got.asked
        /\ got'.computed = got.computed /\ got'.selic = got.selic
    BY <2>1 DEF IndInv, IsGot
  <2>3. GotKnown'
    BY <2>2 DEF GotKnown
  <2> QED
    BY <2>1, <2>2, <2>3, SameTables, ReadKeepsComputed
<1>5. CASE ReadProfile \/ ReadSelic
  <2>1. /\ Goes("profile") \/ Goes("selic")
        /\ \/ got' = [got EXCEPT !.profile = profile]
           \/ got' = [got EXCEPT !.selic = Selic]
        /\ UNCHANGED <<tables, kind, dash, report, changes, quiet>>
    BY <1>5 DEF ReadProfile, ReadSelic, Read
  <2>2. /\ got'.fii = got.fii /\ got'.fixed = got.fixed /\ got'.macro = got.macro
        /\ got'.quotes = got.quotes /\ got'.asked = got.asked
        /\ got'.computed = got.computed /\ got'.selic \in {got.selic, Selic}
    BY <2>1 DEF IndInv, IsGot
  <2>3. Selic \in Int
    <3>1. CASE "selic" \in DOMAIN macro
      <4>1. macro["selic"] \in ReadingOf["selic"] /\ "selic" \in Indicators
        BY <3>1, PartialIs DEF TablesKnown, Indicators
      <4>2. macro["selic"] \in Int
        BY <4>1, ReportsAssumption
      <4> QED
        BY <3>1, <4>2 DEF Selic
    <3> QED
      BY <3>1 DEF Selic
  <2>4. GotKnown'
    BY <2>2, <2>3 DEF GotKnown
  <2> QED
    BY <2>1, <2>2, <2>4, SameTables, ReadKeepsComputed
<1> QED
  BY <1>1, <1>2, <1>3, <1>4, <1>5

LEMMA ReadQuoteKnown ==
  ASSUME IndInv, Known, NEW t \in Tickers, ReadQuote(t)
  PROVE  Known'
<1> USE DEF Known
<1> DEFINE q == IF t \in DOMAIN quotes THEN With(got.quotes, t, quotes[t]) ELSE got.quotes
<1>1. /\ got' = [got EXCEPT !.asked = got.asked \cup {t}, !.quotes = q]
      /\ UNCHANGED <<tables, kind, pc, dash, report, changes, quiet>>
      /\ pc = "quotes"
  BY DEF ReadQuote, IndInv, IsGot
<1>2. q \in Partial(QuoteOf) /\ DOMAIN q \subseteq got.asked \cup {t}
  <2>1. CASE t \in DOMAIN quotes
    <3>1. quotes[t] \in QuoteOf[t] /\ t \in DOMAIN QuoteOf
      BY <2>1, PartialIs DEF TablesKnown
    <3>2. With(got.quotes, t, quotes[t]) \in Partial(QuoteOf)
      BY <3>1, WithPartial DEF GotKnown
    <3>3. DOMAIN With(got.quotes, t, quotes[t]) = DOMAIN got.quotes \cup {t}
      BY DEF With
    <3> QED
      BY <2>1, <3>2, <3>3 DEF GotKnown
  <2> QED
    BY <2>1 DEF GotKnown
<1> HIDE DEF q
<1>3. /\ got'.fii = got.fii /\ got'.fixed = got.fixed /\ got'.macro = got.macro
      /\ got'.quotes = q /\ got'.asked = got.asked \cup {t} /\ got'.selic = got.selic
      /\ got'.computed = got.computed /\ ~got.computed
  BY <1>1 DEF IndInv, IsGot, OnItsWay
<1>4. GotKnown'
  BY <1>2, <1>3 DEF GotKnown
<1>5. report' = None
  BY <1>1 DEF IndInv, OnItsWay
<1>6. ReportKnown' /\ ComputedKnown'
  BY <1>3, <1>5 DEF ReportKnown, ComputedKnown, Done
<1> QED
  BY <1>1, <1>4, <1>6, SameTables

LEMMA ComputeKnown == ASSUME IndInv, Known, Compute PROVE Known'
<1> USE DEF Known
<1>1. /\ Goes("quotes")
      /\ got' = [got EXCEPT !.computed = TRUE, !.boardUnread = got.unread]
      /\ dash' = Dashboard(got.fii, got.fixed, got.macro, got.quotes, today)
      /\ UNCHANGED <<tables, kind, report, changes, quiet>>
  BY DEF Compute
<1>2. /\ got'.fii = got.fii /\ got'.fixed = got.fixed /\ got'.macro = got.macro
      /\ got'.quotes = got.quotes /\ got'.asked = got.asked /\ got'.selic = got.selic
  BY <1>1 DEF IndInv, IsGot
<1>3. GotKnown'
  BY <1>2 DEF GotKnown
<1>4. report' = None
  BY <1>1 DEF IndInv, OnItsWay, Goes
<1>5. ReportKnown'
  BY <1>4 DEF ReportKnown, Done
<1>6. ComputedOf(got.fii, got.fixed, got.macro, got.quotes, today)'
  BY <1>1, <1>2 DEF ComputedOf, GotKnown, TablesKnown, tables
<1>7. ComputedKnown'
  <2> DEFINE F == got.fii  X == got.fixed  M == got.macro  Q == got.quotes
  <2>1. (\E A, B, C, D, day : ComputedOf(A, B, C, D, day))'
    BY <1>6
  <2> QED
    BY <2>1 DEF ComputedKnown
<1> QED
  BY <1>1, <1>3, <1>5, <1>7, SameTables

LEMMA AnswerKnown == ASSUME IndInv, Known, Answer PROVE Known'
<1> USE DEF Known
<1>1. UNCHANGED <<tables, kind, pc, got, dash, changes, quiet>>
  BY DEF Answer
<1>2. GotKnown' /\ ComputedKnown'
  BY <1>1 DEF GotKnown, ComputedKnown, ComputedOf
<1>3. ReportKnown'
  BY <1>1 DEF Answer, ReportKnown, Done
<1> QED
  BY <1>1, <1>2, <1>3, SameTables

LEMMA OthersKnown ==
  ASSUME IndInv, Known, Begin \/ Fail \/ UNCHANGED vars PROVE Known'
<1> USE DEF Known
<1>1. UNCHANGED <<tables, kind, got, dash, changes>> /\ (quiet' = TRUE \/ quiet' = quiet)
  BY DEF Begin, Fail, vars, request
<1>2. GotKnown' /\ ComputedKnown' /\ TablesKnown' /\ CountsKnown'
  BY <1>1 DEF GotKnown, ComputedKnown, ComputedOf, TablesKnown, CountsKnown, tables
<1>3. report' = report \/ report' = Failed
  BY DEF Begin, Fail, vars, request
<1>4. ReportKnown'
  BY <1>1, <1>3 DEF ReportKnown, Done
<1> QED
  BY <1>2, <1>4

LEMMA NextKnown == ASSUME IndInv, Known, [Next]_vars PROVE Known'
<1> DEFINE Change == \/ \E row \in FIIRows : SaveFII(row)
                     \/ \E row \in fii : DeleteFII(row)
                     \/ \E row \in FixedRows : SaveFixed(row)
                     \/ \E row \in fixed : DeleteFixed(row)
                     \/ \E t \in Tickers : \E quote \in QuoteOf[t] : StoreQuote(t, quote)
                     \/ \E i \in Indicators : \E value \in ReadingOf[i] : StoreReading(i, value)
                     \/ \E risk \in Profiles : SetProfile(risk)
                     \/ NextDay
<1>1. CASE Change
  <2>1. UNCHANGED request /\ quiet' = FALSE /\ changes < MaxChanges
        /\ changes' = changes + 1
    BY <1>1 DEF SaveFII, DeleteFII, SaveFixed, DeleteFixed, StoreQuote, StoreReading,
                SetProfile, NextDay, Changed
  <2>2. GotKnown' /\ ComputedKnown' /\ ReportKnown'
    BY <2>1 DEF Known, GotKnown, ComputedKnown, ComputedOf, ReportKnown, Done, request
  <2>3. CountsKnown'
    <3>1. MaxChanges \in Nat
      BY ReportsAssumption
    <3>2. changes \in 0..MaxChanges
      BY DEF Known, CountsKnown
    <3>3. changes' \in 0..MaxChanges
      BY <2>1, <3>1, <3>2
    <3>4. quiet' \in BOOLEAN
      BY <2>1
    <3> QED
      BY <3>3, <3>4 DEF CountsKnown
  <2>4. TablesKnown'
    BY <1>1, ChangeKnown DEF Known
  <2> QED
    BY <2>2, <2>3, <2>4 DEF Known
<1>2. CASE \/ ReadFII \/ ReadFixed \/ ReadProfile \/ ReadSelic
           \/ \E i \in {"cdi", "ipca"} : ReadMacro(i) \/ ReadMacroFails(i)
  BY <1>2, ReadsKnown
<1>3. CASE \E t \in Tickers : ReadQuote(t)
  BY <1>3, ReadQuoteKnown
<1>4. CASE Compute
  BY <1>4, ComputeKnown
<1>5. CASE Answer
  BY <1>5, AnswerKnown
<1>6. CASE Begin \/ Fail \/ UNCHANGED vars
  BY <1>6, OthersKnown
<1> QED
  BY <1>1, <1>2, <1>3, <1>4, <1>5, <1>6 DEF Next

(* The code behaviour: the handlers of the reports and the writes that run       *)
(* between their statements.  Whatever changes meanwhile, a dashboard is made     *)
(* from rows, quotes and readings the tables may hold, and an answer from that    *)
(* dashboard and what was read after it.                                          *)
THEOREM KnownCorrect == Spec => [](IndInv /\ Known)
<1>1. Init => IndInv /\ Known
  <2> SUFFICES ASSUME Init PROVE Known
    BY InitIndInv
  <2>1. ComputedKnown /\ ReportKnown
    BY DEF Init, Nothing, ComputedKnown, ReportKnown, Done
  <2> QED
    BY <2>1, InitKnown DEF Known
<1>2. IndInv /\ Known /\ [Next]_vars => IndInv' /\ Known'
  BY NextIndInv, NextKnown
<1> QED
  BY <1>1, <1>2, PTL DEF Spec

(* The code behaviour: the rows, quotes, readings and answers a request handles   *)
(* are of their types, and no row was created after today.                        *)
THEOREM TypeCorrect == Spec => []TypeOK
<1>1. IndInv /\ Known => TypeOK
  BY KnownIsTyped DEF IndInv, Known
<1> QED
  BY <1>1, KnownCorrect, PTL

-----------------------------------------------------------------------------
(* Amounts *)

LEMMA ApplyBpsNat == ASSUME NEW a \in Int, NEW r \in Int PROVE ApplyBps(a, r) \in Nat
<1>1. CASE a <= 0 \/ r <= 0
  BY <1>1 DEF ApplyBps
<1>2. CASE ~(a <= 0 \/ r <= 0)
  <2>1. a * r \in Nat
    BY <1>2, TimesNat
  <2>2. Whole \in Nat /\ Whole > 0
    BY DEF Whole
  <2>3. HalfUp(a * r, Whole) \in Nat
    BY <2>1, <2>2, HalfUpNearest
  <2> QED
    BY <1>2, <2>3 DEF ApplyBps
<1> QED
  BY <1>1, <1>2

LEMMA FixedRowTyped ==
  ASSUME NEW x \in FixedKnown
  PROVE  /\ x.invested \in Nat /\ x.invested > 0 /\ x.rate \in Nat
         /\ x.created \in Nat /\ x.daily \in BOOLEAN
<1>1. PICK row \in FixedRows, d \in 0..LastDay : x = [row EXCEPT !.created = d]
  BY DEF FixedKnown
<1>2. /\ x.created = d /\ x.invested = row.invested /\ x.rate = row.rate
      /\ x.daily = row.daily
  BY <1>1, KnownFixed
<1>3. row.invested \in Nat \ {0} /\ row.rate \in Nat /\ row.daily \in BOOLEAN
  BY ReportsAssumption
<1> QED
  BY <1>2, <1>3

LEMMA FixedKnownFinite == IsFiniteSet(FixedKnown)
<1> DEFINE All == FixedRows \X (0..LastDay)
           f == [p \in All |-> [p[1] EXCEPT !.created = p[2]]]
<1>1. IsFiniteSet(All)
  <2>1. IsFiniteSet(FixedRows) /\ LastDay \in Int
    BY ReportsAssumption
  <2>2. IsFiniteSet(0..LastDay)
    BY <2>1, FS_Interval
  <2> QED
    BY <2>1, <2>2, FS_Product
<1>2. f \in [All -> FixedKnown]
  <2> SUFFICES ASSUME NEW p \in All PROVE [p[1] EXCEPT !.created = p[2]] \in FixedKnown
    OBVIOUS
  <2>1. p[1] \in FixedRows /\ p[2] \in 0..LastDay
    OBVIOUS
  <2> QED
    BY <2>1, KnownFixed
<1>3. ASSUME NEW x \in FixedKnown PROVE \E p \in All : f[p] = x
  <2>1. PICK row \in FixedRows, d \in 0..LastDay : x = [row EXCEPT !.created = d]
    BY DEF FixedKnown
  <2>2. <<row, d>> \in All /\ f[<<row, d>>] = x
    BY <2>1
  <2> QED
    BY <2>2
<1> HIDE DEF f
<1>4. f \in Surjection(All, FixedKnown)
  BY <1>2, <1>3 DEF Surjection
<1> QED
  BY <1>1, <1>4, FS_Surjection, Zenon

LEMMA RateIsInt ==
  ASSUME NEW x \in FixedKnown, NEW M, \A i \in DOMAIN M : M[i] \in Int
  PROVE  ResolveEffectiveRate(x, M) \in Int
<1>1. x.rate \in Int
  BY FixedRowTyped
<1>2. "cdi" \in DOMAIN M => ApplyBps(M["cdi"], x.rate) \in Int
  <2> SUFFICES ASSUME "cdi" \in DOMAIN M PROVE ApplyBps(M["cdi"], x.rate) \in Int
    OBVIOUS
  <2>1. M["cdi"] \in Int
    OBVIOUS
  <2>2. ApplyBps(M["cdi"], x.rate) \in Nat
    BY <1>1, <2>1, ApplyBpsNat
  <2> QED
    BY <2>2
<1>3. "ipca" \in DOMAIN M => x.rate + M["ipca"] \in Int
  BY <1>1
<1> QED
  BY <1>1, <1>2, <1>3 DEF ResolveEffectiveRate

LEMMA AccruedNat ==
  ASSUME NEW x \in FixedKnown, NEW M, \A i \in DOMAIN M : M[i] \in Int,
         NEW day \in Nat
  PROVE  Accrued(x, M, day) \in Nat
<1> DEFINE r == ResolveEffectiveRate(x, M)
           n == Bigger(0, day - x.created)
<1>1. x.invested \in Nat /\ r \in Int /\ n \in Nat
  BY FixedRowTyped, RateIsInt DEF Bigger
<1> HIDE DEF r, n
<1>2. CASE x.invested <= 0 \/ r <= 0 \/ n <= 0
  BY <1>2 DEF Accrued, AccrueSimpleInterest, r, n
<1>3. CASE ~(x.invested <= 0 \/ r <= 0 \/ n <= 0)
  <2>1. r \in Nat
    BY <1>1, <1>3
  <2>2. x.invested * r \in Nat
    BY <1>1, <2>1, TimesNat
  <2>3. x.invested * r * n \in Nat
    BY <1>1, <2>2, TimesNat
  <2>4. Whole * 365 \in Nat /\ Whole * 365 > 0
    BY DEF Whole
  <2>5. HalfUp(x.invested * r * n, Whole * 365) \in Nat
    <3> DEFINE num == x.invested * r * n
               den == Whole * 365
    <3>1. num \in Nat /\ den \in Nat /\ den > 0
      BY <2>3, <2>4
    <3> HIDE DEF num, den
    <3>2. HalfUp(num, den) \in Nat
      BY <3>1, HalfUpNearest
    <3> QED
      BY <3>2 DEF num, den
  <2> QED
    BY <1>3, <2>5 DEF Accrued, AccrueSimpleInterest, r, n
<1> QED
  BY <1>2, <1>3

LEMMA FIIAmounts ==
  ASSUME NEW row \in FIIRows, NEW Q \in Partial(QuoteOf)
  PROVE  Cost(row) \in Nat /\ Worth(row, Q) \in Nat /\ Dividend(row, Q) \in Nat
<1>1. row.quantity \in Nat /\ row.averagePrice \in Nat
  BY ReportsAssumption
<1>2. row.ticker \in DOMAIN Q => Q[row.ticker].price \in Nat /\ Q[row.ticker].dividend \in Nat
  BY PartialIs, ReportsAssumption DEF Tickers
<1>3. Cost(row) \in Nat
  BY <1>1, TimesNat DEF Cost
<1>4. CASE row.ticker \in DOMAIN Q
  <2>1. Q[row.ticker].price * row.quantity \in Nat
        /\ Q[row.ticker].dividend * row.quantity \in Nat
    BY <1>1, <1>2, <1>4, TimesNat
  <2> QED
    BY <1>3, <1>4, <2>1 DEF Worth, Dividend
<1> QED
  BY <1>3, <1>4 DEF Worth, Dividend

-----------------------------------------------------------------------------
(* Dashboard *)

LEMMA SectorsAreGroups ==
  ASSUME NEW F, NEW Q
  PROVE  SectorsOf(F, Q) = Groups([row \in F |-> Worth(row, Q)],
                                  [row \in F |-> SectorOf(row, Q)], F)
<1> DEFINE amount == [row \in F |-> Worth(row, Q)]
           key == [row \in F |-> SectorOf(row, Q)]
<1>1. KeysOf(key, F) = {SectorOf(row, Q) : row \in F}
  BY DEF KeysOf
<1>2. ASSUME NEW s
      PROVE  SumOver([row \in {x \in F : SectorOf(x, Q) = s} |-> Worth(row, Q)])
               = SumOn(amount, GroupOf(key, F, s))
  <2>1. GroupOf(key, F, s) = {x \in F : SectorOf(x, Q) = s}
    BY DEF GroupOf
  <2>2. Part(amount, {x \in F : SectorOf(x, Q) = s})
          = [row \in {x \in F : SectorOf(x, Q) = s} |-> Worth(row, Q)]
    BY DEF Part
  <2> QED
    BY <2>1, <2>2 DEF SumOver, SumOn
<1> HIDE DEF amount, key
<1>3. SectorsOf(F, Q) = [s \in KeysOf(key, F) |-> SumOn(amount, GroupOf(key, F, s))]
  BY <1>1, <1>2 DEF SectorsOf
<1> QED
  BY <1>3 DEF Groups, amount, key

LEMMA SectorsAddUp ==
  ASSUME NEW F \in SUBSET FIIRows, NEW Q \in Partial(QuoteOf)
  PROVE  /\ IsFiniteSet(DOMAIN SectorsOf(F, Q))
         /\ SectorsOf(F, Q) \in [DOMAIN SectorsOf(F, Q) -> Nat]
         /\ SumOver(SectorsOf(F, Q)) = SumOver([row \in F |-> Worth(row, Q)])
<1> DEFINE amount == [row \in F |-> Worth(row, Q)]
           key == [row \in F |-> SectorOf(row, Q)]
           sectors == Groups(amount, key, F)
<1>1. IsFiniteSet(F)
  <2>1. IsFiniteSet(FIIRows)
    BY ReportsAssumption
  <2> QED
    BY <2>1, FS_Subset
<1>2. amount \in [F -> Nat] /\ amount \in [F -> Int]
  BY FIIAmounts
<1>3. SectorsOf(F, Q) = sectors
  BY SectorsAreGroups
<1> HIDE DEF amount, key
<1>4. IsFiniteSet(KeysOf(key, F)) /\ DOMAIN sectors = KeysOf(key, F)
  BY <1>1, <1>2, GroupsType DEF Groups
<1>5. ASSUME NEW k \in KeysOf(key, F) PROVE sectors[k] \in Nat
  <2> DEFINE G == GroupOf(key, F, k)
  <2>1. G \subseteq F
    BY DEF GroupOf
  <2>2. IsFiniteSet(G)
    BY <1>1, <2>1, FS_Subset
  <2>3. Part(amount, G) \in [G -> Nat]
    BY <1>2, <2>1 DEF Part
  <2>4. SumFunction(Part(amount, G)) \in Nat
    <3> HIDE DEF G
    <3> QED
      BY <2>2, <2>3, SumOfNaturals
  <2> QED
    BY <2>4 DEF Groups, SumOn
<1>6. sectors \in [KeysOf(key, F) -> Nat]
  BY <1>5 DEF Groups
<1>7. SumFunction(sectors) = SumFunction(amount)
  BY <1>1, <1>2, SumByGroups
<1> QED
  BY <1>3, <1>4, <1>6, <1>7 DEF SumOver, amount

\* What a dashboard computed from rows F and quotes Q says of them.
Amounts(d, F, Q) ==
  /\ d.value["fii"] \in Nat /\ d.value["fixed_income"] \in Nat
  /\ d.current = d.value["fii"] + d.value["fixed_income"]
  /\ d.invested \in Nat /\ d.income \in Nat
  /\ d.value["fii"] = SumOver([row \in F |-> Worth(row, Q)])
  /\ d.income = SumOver([row \in F |-> Dividend(row, Q)])
  /\ d.growth = d.current - d.invested
  /\ d.share = [c \in Classes |-> ShareBps(d.value[c], d.current)]
  /\ d.sectorValue = SectorsOf(F, Q)
  /\ d.sectorShare = [s \in DOMAIN d.sectorValue |->
                        ShareBps(d.sectorValue[s], d.value["fii"])]
  /\ d.stale = {row.ticker : row \in F} \ DOMAIN Q

LEMMA DashboardAmounts ==
  ASSUME NEW F \in SUBSET FIIRows, NEW X \in SUBSET FixedKnown, NEW M,
         \A i \in DOMAIN M : M[i] \in Int, NEW Q \in Partial(QuoteOf), NEW day \in Nat
  PROVE  Amounts(Dashboard(F, X, M, Q, day), F, Q)
<1>1. IsFiniteSet(F) /\ IsFiniteSet(X)
  <2>1. IsFiniteSet(FIIRows)
    BY ReportsAssumption
  <2> QED
    BY <2>1, FixedKnownFinite, FS_Subset
<1>2. /\ SumOver([row \in F |-> Cost(row)]) \in Nat
      /\ SumOver([row \in F |-> Worth(row, Q)]) \in Nat
      /\ SumOver([row \in F |-> Dividend(row, Q)]) \in Nat
  <2>1. /\ [row \in F |-> Cost(row)] \in [F -> Nat]
        /\ [row \in F |-> Worth(row, Q)] \in [F -> Nat]
        /\ [row \in F |-> Dividend(row, Q)] \in [F -> Nat]
    BY FIIAmounts
  <2> QED
    BY <1>1, <2>1, SumOfNaturals DEF SumOver
<1>3. /\ SumOver([row \in X |-> row.invested]) \in Nat
      /\ SumOver([row \in X |-> row.invested + Accrued(row, M, day)]) \in Nat
  <2>1. \A row \in X : row.invested \in Nat /\ Accrued(row, M, day) \in Nat
    BY FixedRowTyped, AccruedNat
  <2>2. /\ [row \in X |-> row.invested] \in [X -> Nat]
        /\ [row \in X |-> row.invested + Accrued(row, M, day)] \in [X -> Nat]
    BY <2>1
  <2> QED
    BY <1>1, <2>2, SumOfNaturals DEF SumOver
<1> DEFINE cost == SumOver([row \in F |-> Cost(row)])
           worth == SumOver([row \in F |-> Worth(row, Q)])
           paid == SumOver([row \in F |-> Dividend(row, Q)])
           lent == SumOver([row \in X |-> row.invested])
           due == SumOver([row \in X |-> row.invested + Accrued(row, M, day)])
           sectors == SectorsOf(F, Q)
           now == worth + due
           d == Dashboard(F, X, M, Q, day)
<1>4. d = [invested    |-> cost + lent,
           current     |-> now,
           income      |-> paid,
           growth      |-> now - (cost + lent),
           growthBps   |-> ShareBps(now - (cost + lent), cost + lent),
           value       |-> [c \in Classes |-> IF c = "fii" THEN worth ELSE due],
           share       |-> [c \in Classes |-> ShareBps(IF c = "fii" THEN worth ELSE due, now)],
           sectorValue |-> sectors,
           sectorShare |-> [s \in DOMAIN sectors |-> ShareBps(sectors[s], worth)],
           stale       |-> {row.ticker : row \in F} \ DOMAIN Q]
  BY DEF Dashboard
<1> HIDE DEF cost, worth, paid, lent, due, sectors, d
<1>5. d.value["fii"] = worth /\ d.value["fixed_income"] = due
  BY <1>4 DEF Classes
<1>6. d.share = [c \in Classes |-> ShareBps(d.value[c], d.current)]
  BY <1>4
<1>7. /\ d.invested = cost + lent /\ d.current = now /\ d.income = paid
      /\ d.growth = d.current - d.invested
      /\ d.sectorValue = sectors /\ d.stale = {row.ticker : row \in F} \ DOMAIN Q
      /\ d.sectorShare = [s \in DOMAIN d.sectorValue |->
                            ShareBps(d.sectorValue[s], d.value["fii"])]
  BY <1>4, <1>5
<1>8. cost \in Nat /\ worth \in Nat /\ paid \in Nat /\ lent \in Nat /\ due \in Nat
  BY <1>2, <1>3 DEF cost, worth, paid, lent, due
<1>9. /\ d.value["fii"] \in Nat /\ d.value["fixed_income"] \in Nat
      /\ d.current = d.value["fii"] + d.value["fixed_income"]
      /\ d.invested \in Nat /\ d.income \in Nat
  BY <1>5, <1>7, <1>8
<1> QED
  BY <1>5, <1>6, <1>7, <1>9 DEF d, worth, paid, sectors, Amounts

(* The code behaviour: Compute's breakdowns.  For every portfolio and whatever    *)
(* mixture of rows and quotes was read, classes and sectors add up to the total,  *)
(* shares are off 100 % by their rounding, and what has no quote stands at cost.  *)
THEOREM DashboardCorrect == Spec => []DashboardReconciles
<1>1. ASSUME Known PROVE DashboardReconciles
  <2> SUFFICES ASSUME got.computed
               PROVE  /\ dash.current = dash.value["fii"] + dash.value["fixed_income"]
                      /\ SumOver(dash.sectorValue) = dash.value["fii"]
                      /\ dash.current = dash.invested + dash.growth
                      /\ dash.current > 0 =>
                           Near(dash.share["fii"] + dash.share["fixed_income"], Whole, 1)
                      /\ dash.value["fii"] > 0 =>
                           Near(SumOver(dash.sectorShare), Whole,
                                Cardinality(DOMAIN dash.sectorShare))
                      /\ (kind = "dashboard" /\ Held # {} /\ dash.stale = Held) =>
                           /\ dash.income = 0
                           /\ dash.value["fii"] = SumOver([row \in got.fii |-> Cost(row)])
                           /\ DOMAIN dash.sectorValue = {"other"}
    BY DEF DashboardReconciles
  <2>1. PICK F, X, M, Q, day : ComputedOf(F, X, M, Q, day)
    BY <1>1 DEF Known, ComputedKnown
  <2>2. /\ F \in SUBSET FIIRows /\ X \in SUBSET FixedKnown /\ Q \in Partial(QuoteOf)
        /\ \A i \in DOMAIN M : M[i] \in Int
        /\ day \in Nat
        /\ dash = Dashboard(F, X, M, Q, day)
        /\ kind = "dashboard" => F = got.fii
    BY <2>1, ReportsAssumption DEF ComputedOf
  <2>3. Amounts(dash, F, Q)
    BY <2>2, DashboardAmounts
  <2>4. /\ IsFiniteSet(DOMAIN dash.sectorValue)
        /\ dash.sectorValue \in [DOMAIN dash.sectorValue -> Nat]
        /\ SumOver(dash.sectorValue) = dash.value["fii"]
    <3>1. /\ IsFiniteSet(DOMAIN SectorsOf(F, Q))
          /\ SectorsOf(F, Q) \in [DOMAIN SectorsOf(F, Q) -> Nat]
          /\ SumOver(SectorsOf(F, Q)) = SumOver([row \in F |-> Worth(row, Q)])
      BY <2>2, SectorsAddUp
    <3> QED
      BY <2>3, <3>1 DEF Amounts
  <2>5. dash.current = dash.invested + dash.growth
    BY <2>3 DEF Amounts
  <2>6. dash.current > 0 => Near(dash.share["fii"] + dash.share["fixed_income"], Whole, 1)
    <3> DEFINE a == dash.value["fii"]
               b == dash.value["fixed_income"]
    <3>1. /\ dash.share["fii"] = ShareBps(a, a + b)
          /\ dash.share["fixed_income"] = ShareBps(b, a + b)
      BY <2>3 DEF Classes, Amounts
    <3>2. a \in Nat /\ b \in Nat /\ dash.current = a + b
      BY <2>3 DEF Amounts
    <3> HIDE DEF a, b
    <3>3. a + b > 0 => ShareBps(a, a + b) + ShareBps(b, a + b) \in Whole - 1 .. Whole + 1
      BY <3>2, ClassSharesAddUp
    <3> QED
      BY <3>1, <3>2, <3>3 DEF Near, Whole
  <2>7. dash.value["fii"] > 0 =>
          Near(SumOver(dash.sectorShare), Whole, Cardinality(DOMAIN dash.sectorShare))
    <3> SUFFICES ASSUME dash.value["fii"] > 0
                 PROVE  Near(SumOver(dash.sectorShare), Whole,
                             Cardinality(DOMAIN dash.sectorShare))
      OBVIOUS
    <3> DEFINE v == dash.sectorValue
               D == DOMAIN v
               t == SumFunction(v)
    <3>1. t = dash.value["fii"] /\ t > 0
      BY <2>4 DEF SumOver
    <3>2. dash.sectorShare = [s \in D |-> ShareBps(v[s], t)] /\ DOMAIN dash.sectorShare = D
      BY <2>3, <3>1 DEF Amounts
    <3>3. IsFiniteSet(D) /\ v \in [D -> Nat]
      BY <2>4
    <3> HIDE DEF v, D
    <3>4. SumFunction([s \in D |-> ShareBps(v[s], t)])
            \in Whole - Cardinality(D) .. Whole + Cardinality(D)
      BY <3>1, <3>3, SharesAddUp
    <3>5. Cardinality(D) \in Nat
      BY <3>3, FS_CardinalityType
    <3> QED
      BY <3>2, <3>4, <3>5 DEF Near, SumOver, Whole
  <2>8. ASSUME kind = "dashboard", Held # {}, dash.stale = Held
        PROVE  /\ dash.income = 0
               /\ dash.value["fii"] = SumOver([row \in got.fii |-> Cost(row)])
               /\ DOMAIN dash.sectorValue = {"other"}
    <3>1. F = got.fii /\ F # {} /\ \A row \in F : row.ticker \notin DOMAIN Q
      BY <2>2, <2>3, <2>8 DEF Held, Amounts
    <3>2. IsFiniteSet(F)
      <4>1. IsFiniteSet(FIIRows)
        BY ReportsAssumption
      <4> QED
        BY <2>2, <4>1, FS_Subset
    <3>3. dash.income = 0
      <4>1. [row \in F |-> Dividend(row, Q)] \in [F -> {0}]
        BY <3>1 DEF Dividend
      <4> QED
        BY <2>3, <3>2, <4>1, SumOfZeros DEF SumOver, Amounts
    <3>4. [row \in F |-> Worth(row, Q)] = [row \in F |-> Cost(row)]
      BY <3>1 DEF Worth
    <3>5. DOMAIN SectorsOf(F, Q) = {"other"}
      <4>1. \A row \in F : SectorOf(row, Q) = "other"
        BY <3>1 DEF SectorOf
      <4> QED
        BY <3>1, <4>1 DEF SectorsOf
    <3> QED
      BY <2>3, <3>1, <3>3, <3>4, <3>5 DEF Amounts
  <2> QED
    BY <2>3, <2>4, <2>5, <2>6, <2>7, <2>8 DEF Amounts
<1> QED
  BY <1>1, KnownCorrect, PTL

-----------------------------------------------------------------------------
(* Projections *)

\* The values of ProjectNetWorth's months, in terms of one another.
Months(f, n, current, contribution, rate) ==
  [m \in 0..n |-> IF m = 0 THEN current
                  ELSE f[m - 1] + ApplyBps(f[m - 1], rate) + contribution]
ValueOf(n, current, contribution, rate) ==
  CHOOSE f : f = Months(f, n, current, contribution, rate)

LEMMA NetWorthIsValue ==
  ASSUME NEW current, NEW contribution, NEW years, NEW yieldBps
  PROVE  ProjectNetWorth(current, contribution, years, yieldBps)
           = [y \in 0..years |->
                ValueOf(12 * years, current, contribution, yieldBps \div 12)[12 * y]]
BY Zenon DEF ProjectNetWorth, ValueOf, Months

\* The months' recursion has a solution: for any number of months it has.
LEMMA ValueExists ==
  ASSUME NEW n \in Nat, NEW current \in Nat, NEW contribution \in Nat, NEW rate \in Nat
  PROVE  \E f : f = Months(f, n, current, contribution, rate)
<1> DEFINE Good(k) == \E f \in [0..k -> Nat] : f = Months(f, k, current, contribution, rate)
           Bad == {k \in Nat : ~Good(k)}
<1>1. Good(0)
  <2> DEFINE f == [m \in 0..0 |-> current]
  <2>1. f \in [0..0 -> Nat] /\ f = Months(f, 0, current, contribution, rate)
    BY DEF Months
  <2> QED
    BY <2>1
<1>2. ASSUME NEW k \in Nat, Good(k) PROVE Good(k + 1)
  <2>1. PICK f \in [0..k -> Nat] : f = Months(f, k, current, contribution, rate)
    BY <1>2
  <2> DEFINE last == f[k] + ApplyBps(f[k], rate) + contribution
             g == [m \in 0..(k + 1) |-> IF m = k + 1 THEN last ELSE f[m]]
  <2>2. last \in Nat
    <3>1. f[k] \in Nat /\ f[k] \in Int /\ rate \in Int
      BY <2>1
    <3>2. ApplyBps(f[k], rate) \in Nat
      BY <3>1, ApplyBpsNat
    <3> QED
      BY <3>1, <3>2
  <2>3. g \in [0..(k + 1) -> Nat]
    BY <2>1, <2>2
  <2>4. ASSUME NEW m \in 0..(k + 1)
        PROVE  g[m] = IF m = 0 THEN current
                      ELSE g[m - 1] + ApplyBps(g[m - 1], rate) + contribution
    <3>1. CASE m = k + 1
      <4>1. g[m] = last /\ g[m - 1] = f[k] /\ m # 0
        BY <3>1
      <4> QED
        BY <4>1
    <3>2. CASE m \in 0..k
      <4>1. g[m] = f[m] /\ (m # 0 => g[m - 1] = f[m - 1])
        BY <3>2
      <4>2. f[m] = IF m = 0 THEN current
                   ELSE f[m - 1] + ApplyBps(f[m - 1], rate) + contribution
        BY <2>1, <3>2 DEF Months
      <4> QED
        BY <4>1, <4>2
    <3> QED
      BY <3>1, <3>2
  <2> HIDE DEF g
  <2>5. g = Months(g, k + 1, current, contribution, rate)
    BY <2>3, <2>4 DEF Months
  <2> QED
    BY <2>3, <2>5
<1> HIDE DEF Good
<1>3. Bad = {}
  <2> SUFFICES ASSUME Bad # {} PROVE FALSE
    OBVIOUS
  <2>1. PICK k \in Bad : \A j \in Bad : k <= j
    <3>1. Bad \in SUBSET Nat
      OBVIOUS
    <3> QED
      BY <3>1, LeastNumber
  <2>2. k # 0
    BY <1>1, <2>1
  <2>3. k - 1 \in Nat /\ Good(k - 1)
    BY <2>1, <2>2
  <2> QED
    BY <1>2, <2>1, <2>3
<1>4. Good(n)
  BY <1>3
<1> QED
  BY <1>4 DEF Good

IsValue(f, n, current, contribution, rate) ==
  /\ f[0] = current
  /\ \A m \in 0..n : f[m] \in Nat
  /\ \A m \in 1..n : f[m] = f[m - 1] + ApplyBps(f[m - 1], rate) + contribution

LEMMA ValueIsValue ==
  ASSUME NEW n \in Nat, NEW current \in Nat, NEW contribution \in Nat, NEW rate \in Nat
  PROVE  IsValue(ValueOf(n, current, contribution, rate), n, current, contribution, rate)
<1> DEFINE f == ValueOf(n, current, contribution, rate)
           Bad == {m \in 0..n : f[m] \notin Nat}
<1>1. f = Months(f, n, current, contribution, rate)
  BY ValueExists DEF ValueOf
<1> HIDE DEF f
<1>2. /\ f[0] = current
      /\ \A m \in 1..n : f[m] = f[m - 1] + ApplyBps(f[m - 1], rate) + contribution
  <2>1. \A m \in 0..n : f[m] = IF m = 0 THEN current
                               ELSE f[m - 1] + ApplyBps(f[m - 1], rate) + contribution
    BY <1>1 DEF Months
  <2> QED
    BY <2>1
<1>3. Bad = {}
  <2> SUFFICES ASSUME Bad # {} PROVE FALSE
    OBVIOUS
  <2>1. PICK m \in Bad : \A j \in Bad : m <= j
    <3>1. Bad \in SUBSET Nat
      OBVIOUS
    <3> QED
      BY <3>1, LeastNumber
  <2>2. m # 0
    BY <1>2, <2>1
  <2>3. m \in 1..n /\ m - 1 \in 0..n
    BY <2>1, <2>2
  <2>4. f[m - 1] \in Nat /\ f[m - 1] \in Int /\ rate \in Int
    BY <2>1, <2>3
  <2>5. ApplyBps(f[m - 1], rate) \in Nat
    BY <2>4, ApplyBpsNat
  <2>6. f[m] \in Nat
    BY <1>2, <2>3, <2>4, <2>5
  <2> QED
    BY <2>1, <2>6
<1> QED
  BY <1>2, <1>3 DEF IsValue, f

LEMMA ValuesOrdered ==
  ASSUME NEW n \in Nat, NEW current \in Nat, NEW contribution \in Nat,
         NEW r \in Nat, NEW t \in Nat, r <= t, NEW f, NEW g,
         IsValue(f, n, current, contribution, r), IsValue(g, n, current, contribution, t)
  PROVE  \A m \in 0..n : f[m] <= g[m]
<1> DEFINE Bad == {m \in 0..n : ~(f[m] <= g[m])}
<1>1. Bad = {}
  <2> SUFFICES ASSUME Bad # {} PROVE FALSE
    OBVIOUS
  <2>1. PICK m \in Bad : \A j \in Bad : m <= j
    <3>1. Bad \in SUBSET Nat
      OBVIOUS
    <3> QED
      BY <3>1, LeastNumber
  <2>2. m # 0
    BY <2>1 DEF IsValue
  <2>3. m \in 1..n /\ m - 1 \in 0..n
    BY <2>1, <2>2
  <2>4. f[m - 1] \in Nat /\ g[m - 1] \in Nat /\ f[m - 1] <= g[m - 1]
    BY <2>1, <2>3 DEF IsValue
  <2>5. /\ ApplyBps(f[m - 1], r) \in Nat /\ ApplyBps(g[m - 1], t) \in Nat
        /\ ApplyBps(f[m - 1], r) <= ApplyBps(g[m - 1], t)
    BY <2>4, ApplyBpsMonotone
  <2>6. f[m] <= g[m]
    BY <2>3, <2>4, <2>5 DEF IsValue
  <2> QED
    BY <2>1, <2>6
<1> QED
  BY <1>1

LEMMA ValueGrows ==
  ASSUME NEW n \in Nat, NEW current \in Nat, NEW contribution \in Nat, NEW r \in Nat,
         NEW f, IsValue(f, n, current, contribution, r), NEW y \in Nat, y > 0, 12 * y <= n
  PROVE  f[12 * y] >= f[12 * (y - 1)] + 12 * contribution
<1>1. \A m \in 0..(n - 1) : f[m + 1] \in Nat /\ f[m] \in Nat /\ f[m + 1] >= f[m] + contribution
  <2> TAKE m \in 0..(n - 1)
  <2>1. m + 1 \in 1..n /\ m \in 0..n /\ (m + 1) - 1 = m
    OBVIOUS
  <2>2. f[m] \in Nat /\ f[m + 1] \in Nat
        /\ f[m + 1] = f[m] + ApplyBps(f[m], r) + contribution
    BY <2>1 DEF IsValue
  <2>3. ApplyBps(f[m], r) \in Nat
    <3>1. f[m] \in Int /\ r \in Int
      BY <2>2
    <3> QED
      BY <3>1, ApplyBpsNat
  <2> QED
    BY <2>2, <2>3
<1> DEFINE b == 12 * (y - 1)
<1>2. b \in Nat /\ b + 12 = 12 * y /\ b + 12 <= n
  OBVIOUS
<1> HIDE DEF b
<1>3. /\ f[b + 1] >= f[b] + contribution /\ f[b + 2] >= f[b + 1] + contribution
      /\ f[b + 3] >= f[b + 2] + contribution /\ f[b + 4] >= f[b + 3] + contribution
      /\ f[b + 5] >= f[b + 4] + contribution /\ f[b + 6] >= f[b + 5] + contribution
      /\ f[b + 7] >= f[b + 6] + contribution /\ f[b + 8] >= f[b + 7] + contribution
      /\ f[b + 9] >= f[b + 8] + contribution /\ f[b + 10] >= f[b + 9] + contribution
      /\ f[b + 11] >= f[b + 10] + contribution /\ f[b + 12] >= f[b + 11] + contribution
  <2>1. \A k \in 0..11 : f[b + (k + 1)] >= f[b + k] + contribution
    <3> TAKE k \in 0..11
    <3>1. b + k \in 0..(n - 1) /\ (b + k) + 1 = b + (k + 1)
      BY <1>2
    <3> QED
      BY <1>1, <3>1
  <2> QED
    BY <1>2, <2>1
<1>4. \A k \in 0..12 : f[b + k] \in Nat
  <2> TAKE k \in 0..12
  <2>1. b + k \in 0..n
    BY <1>2
  <2> QED
    BY <2>1 DEF IsValue
<1>5. f[b + 12] >= f[b] + 12 * contribution
  <2>1. f[b] \in Nat /\ f[b + 1] \in Nat /\ f[b + 2] \in Nat /\ f[b + 3] \in Nat
        /\ f[b + 4] \in Nat /\ f[b + 5] \in Nat /\ f[b + 6] \in Nat /\ f[b + 7] \in Nat
        /\ f[b + 8] \in Nat /\ f[b + 9] \in Nat /\ f[b + 10] \in Nat /\ f[b + 11] \in Nat
        /\ f[b + 12] \in Nat
    BY <1>2, <1>4
  <2> QED
    BY <1>3, <2>1
<1> QED
  BY <1>2, <1>5 DEF b

LEMMA NetWorthOrdered ==
  ASSUME NEW current \in Nat, NEW contribution \in Nat, NEW years \in Nat,
         NEW r \in Nat, NEW t \in Nat, r <= t, NEW y \in 0..years
  PROVE  ProjectNetWorth(current, contribution, years, r)[y]
           <= ProjectNetWorth(current, contribution, years, t)[y]
<1> DEFINE n == 12 * years
           p == r \div 12
           q == t \div 12
           f == ValueOf(n, current, contribution, p)
           g == ValueOf(n, current, contribution, q)
<1>1. n \in Nat /\ p \in Nat /\ q \in Nat /\ p <= q /\ 12 * y \in 0..n
  OBVIOUS
<1>2. /\ ProjectNetWorth(current, contribution, years, r)[y] = f[12 * y]
      /\ ProjectNetWorth(current, contribution, years, t)[y] = g[12 * y]
  BY NetWorthIsValue
<1> HIDE DEF n, p, q
<1>3. IsValue(f, n, current, contribution, p) /\ IsValue(g, n, current, contribution, q)
  BY <1>1, ValueIsValue
<1> HIDE DEF f, g
<1>4. \A m \in 0..n : f[m] <= g[m]
  BY <1>1, <1>3, ValuesOrdered
<1> QED
  BY <1>1, <1>2, <1>4

LEMMA NetWorthGrows ==
  ASSUME NEW current \in Nat, NEW contribution \in Nat, NEW years \in Nat,
         NEW r \in Nat, NEW y \in 1..years
  PROVE  ProjectNetWorth(current, contribution, years, r)[y]
           >= ProjectNetWorth(current, contribution, years, r)[y - 1] + 12 * contribution
<1> DEFINE n == 12 * years
           p == r \div 12
           f == ValueOf(n, current, contribution, p)
<1>1. n \in Nat /\ p \in Nat /\ y \in Nat /\ y > 0 /\ 12 * y <= n
      /\ y \in 0..years /\ y - 1 \in 0..years
  OBVIOUS
<1>2. \A z \in 0..years :
        ProjectNetWorth(current, contribution, years, r)[z] = f[12 * z]
  BY NetWorthIsValue
<1> HIDE DEF n, p
<1>3. IsValue(f, n, current, contribution, p)
  BY <1>1, ValueIsValue
<1> HIDE DEF f
<1>4. f[12 * y] >= f[12 * (y - 1)] + 12 * contribution
  BY <1>1, <1>3, ValueGrows
<1> QED
  BY <1>1, <1>2, <1>4

\* A scenario's monthly income is its annual one, up to half a month's rounding.
LEMMA MonthlyNearAnnual ==
  ASSUME NEW a \in Nat
  PROVE  Near(12 * MonthlyFromAnnual(a), a, 6)
<1>1. CASE a = 0
  BY <1>1 DEF MonthlyFromAnnual, Near
<1>2. CASE a > 0
  <2> DEFINE q == HalfUp(a, 12)
  <2>1. /\ q \in Nat
        /\ 2 * (12 * q) <= 2 * a + 12
        /\ 2 * a < 2 * (12 * q) + 12
    BY HalfUpNearest
  <2>2. MonthlyFromAnnual(a) = q
    BY <1>2 DEF MonthlyFromAnnual
  <2> HIDE DEF q
  <2>3. 12 * q - a \in -6..6
    BY <2>1
  <2> QED
    BY <2>2, <2>3 DEF Near
<1> QED
  BY <1>1, <1>2

LEMMA ShareBpsNat ==
  ASSUME NEW part \in Nat, NEW whole \in Nat
  PROVE  ShareBps(part, whole) \in Nat
<1>1. CASE whole = 0
  BY <1>1 DEF ShareBps
<1>2. CASE whole > 0
  <2>1. part * Whole \in Nat
    BY TimesNat DEF Whole
  <2>2. HalfUp(part * Whole, whole) \in Nat
    BY <1>2, <2>1, HalfUpNearest
  <2> QED
    BY <1>2, <2>2 DEF ShareBps
<1> QED
  BY <1>1, <1>2

\* What the spread makes of the three scenarios' annual income and yield.
LEMMA SpreadOrdered ==
  ASSUME NEW annual \in Nat, NEW delta \in Nat, NEW yield \in Nat
  PROVE  LET Income(i) == Bigger(0, annual + (delta * YieldAdjBps(Scenarios[i])) \div SpreadBps)
             Yield(i)  == Bigger(0, yield + YieldAdjBps(Scenarios[i]))
         IN  /\ \A i \in 1..3 : Income(i) \in Nat /\ Yield(i) \in Nat
             /\ \A i \in 1..2 : Income(i) <= Income(i + 1) /\ Yield(i) <= Yield(i + 1)
<1> DEFINE Adj(i) == YieldAdjBps(Scenarios[i])
           Income(i) == Bigger(0, annual + (delta * Adj(i)) \div SpreadBps)
           Yield(i) == Bigger(0, yield + Adj(i))
<1>1. Adj(1) = -200 /\ Adj(2) = 0 /\ Adj(3) = 200 /\ SpreadBps = 200
  BY DEF YieldAdjBps, Scenarios, SpreadBps
<1>2. /\ (delta * (-200)) \div 200 = -delta
      /\ (delta * 0) \div 200 = 0
      /\ (delta * 200) \div 200 = delta
  OBVIOUS
<1> HIDE DEF Adj
<1>3. /\ Income(1) = Bigger(0, annual + (-delta)) /\ Income(2) = Bigger(0, annual + 0)
      /\ Income(3) = Bigger(0, annual + delta)
  BY <1>1, <1>2
<1>4. /\ Yield(1) = Bigger(0, yield + (-200)) /\ Yield(2) = Bigger(0, yield + 0)
      /\ Yield(3) = Bigger(0, yield + 200)
  BY <1>1
<1> HIDE DEF Income, Yield
<1>5. /\ Income(1) \in Nat /\ Income(2) \in Nat /\ Income(3) \in Nat
      /\ Income(1) <= Income(2) /\ Income(2) <= Income(3)
  BY <1>3 DEF Bigger
<1>6. /\ Yield(1) \in Nat /\ Yield(2) \in Nat /\ Yield(3) \in Nat
      /\ Yield(1) <= Yield(2) /\ Yield(2) <= Yield(3)
  BY <1>4 DEF Bigger
<1>7. /\ \A i \in 1..3 : Income(i) \in Nat /\ Yield(i) \in Nat
      /\ \A i \in 1..2 : Income(i) <= Income(i + 1) /\ Yield(i) <= Yield(i + 1)
  BY <1>5, <1>6
<1> QED
  BY <1>7 DEF Income, Yield, Adj

LEMMA AnnualNat ==
  ASSUME NEW X \in SUBSET FixedKnown, NEW M, \A i \in DOMAIN M : M[i] \in Int
  PROVE  FixedIncomeAnnual(X, M) \in Nat
<1> DEFINE Paid(row) == ApplyBps(row.invested, ResolveEffectiveRate(row, M))
<1>1. IsFiniteSet(X)
  BY FixedKnownFinite, FS_Subset
<1>2. ASSUME NEW row \in X PROVE Paid(row) \in Nat
  <2>1. row.invested \in Int /\ ResolveEffectiveRate(row, M) \in Int
    BY FixedRowTyped, RateIsInt
  <2> QED
    BY <2>1, ApplyBpsNat
<1>3. [row \in X |-> Paid(row)] \in [X -> Nat]
  BY <1>2
<1> QED
  BY <1>1, <1>3, SumOfNaturals DEF FixedIncomeAnnual, SumOver

\* What ScenariosOrdered asks of a report of projections.
Ordered(p) ==
  /\ \A i \in 1..3 : /\ p.annual[i] >= 0
                     /\ Near(12 * p.monthly[i], p.annual[i], 6)
                     /\ \A y \in 1..Years : p.netWorth[i][y]
                          >= p.netWorth[i][y - 1] + 12 * Contribution
  /\ \A i \in 1..2 : /\ p.annual[i] <= p.annual[i + 1]
                     /\ \A y \in 0..Years : p.netWorth[i][y] <= p.netWorth[i + 1][y]

LEMMA ProjectionsOrdered ==
  ASSUME NEW d, d.current \in Nat, d.income \in Nat, NEW X \in SUBSET FixedKnown,
         NEW M, \A i \in DOMAIN M : M[i] \in Int
  PROVE  Ordered(Projections(d, X, M, Contribution, Years))
<1> DEFINE annual == d.income * 12 + FixedIncomeAnnual(X, M)
           yield == ShareBps(annual, d.current)
           delta == ApplyBps(d.current, SpreadBps)
           Income(i) == Bigger(0, annual + (delta * YieldAdjBps(Scenarios[i])) \div SpreadBps)
           Yield(i) == Bigger(0, yield + YieldAdjBps(Scenarios[i]))
           worth(i) == ProjectNetWorth(d.current, Contribution, Years, Yield(i))
           p == Projections(d, X, M, Contribution, Years)
<1>1. annual \in Nat
  BY AnnualNat
<1>2. yield \in Nat
  <2> HIDE DEF annual
  <2> QED
    BY <1>1, ShareBpsNat
<1>3. delta \in Nat
  <2>1. d.current \in Int /\ SpreadBps \in Int
    BY DEF SpreadBps
  <2> QED
    BY <2>1, ApplyBpsNat
<1>4. Contribution \in Nat /\ Years \in Nat
  BY ReportsAssumption
<1>5. p = [annual   |-> [i \in 1..3 |-> Income(i)],
           monthly  |-> [i \in 1..3 |-> MonthlyFromAnnual(Income(i))],
           netWorth |-> [i \in 1..3 |-> worth(i)]]
  BY DEF Projections
<1> HIDE DEF annual, yield, delta, p
<1>6. /\ \A i \in 1..3 : Income(i) \in Nat /\ Yield(i) \in Nat
      /\ \A i \in 1..2 : Income(i) <= Income(i + 1) /\ Yield(i) <= Yield(i + 1)
  BY <1>1, <1>2, <1>3, SpreadOrdered
<1> HIDE DEF Income, Yield
<1>7. ASSUME NEW i \in 1..3
      PROVE  /\ p.annual[i] = Income(i) /\ p.monthly[i] = MonthlyFromAnnual(Income(i))
             /\ p.netWorth[i] = worth(i)
  BY <1>5
<1> HIDE DEF worth
<1>8. ASSUME NEW i \in 1..3, NEW y \in 1..Years
      PROVE  p.netWorth[i][y] >= p.netWorth[i][y - 1] + 12 * Contribution
  <2>1. worth(i)[y] >= worth(i)[y - 1] + 12 * Contribution
    BY <1>4, <1>6, NetWorthGrows DEF worth
  <2> QED
    BY <1>7, <2>1
<1>9. ASSUME NEW i \in 1..2, NEW y \in 0..Years
      PROVE  p.netWorth[i][y] <= p.netWorth[i + 1][y]
  <2>1. i \in 1..3 /\ i + 1 \in 1..3
    OBVIOUS
  <2>2. Yield(i) \in Nat /\ Yield(i + 1) \in Nat /\ Yield(i) <= Yield(i + 1)
    BY <1>6, <2>1
  <2>3. worth(i)[y] <= worth(i + 1)[y]
    BY <1>4, <2>2, NetWorthOrdered DEF worth
  <2>4. p.netWorth[i] = worth(i) /\ p.netWorth[i + 1] = worth(i + 1)
    BY <1>7, <2>1
  <2> QED
    BY <2>3, <2>4
<1>10. ASSUME NEW i \in 1..3
       PROVE  p.annual[i] >= 0 /\ Near(12 * p.monthly[i], p.annual[i], 6)
  <2>1. Income(i) \in Nat
    BY <1>6
  <2>2. Near(12 * MonthlyFromAnnual(Income(i)), Income(i), 6)
    BY <2>1, MonthlyNearAnnual
  <2>3. p.annual[i] = Income(i) /\ p.monthly[i] = MonthlyFromAnnual(Income(i))
    BY <1>7
  <2>4. p.annual[i] >= 0
    BY <2>1, <2>3
  <2> QED
    BY <2>2, <2>3, <2>4
<1>11. ASSUME NEW i \in 1..2 PROVE p.annual[i] <= p.annual[i + 1]
  <2>1. i \in 1..3 /\ i + 1 \in 1..3
    OBVIOUS
  <2> QED
    BY <1>6, <1>7, <2>1
<1>12. Ordered(p)
  BY <1>8, <1>9, <1>10, <1>11 DEF Ordered
<1> QED
  BY <1>12 DEF p

(* The code behaviour: Compute of the projections.  For every portfolio, all      *)
(* readings and any number of years: scenarios are in their order in income and   *)
(* in every year's worth, the worth grows by what is put in at least, and twelve  *)
(* months' income is the year's, up to rounding.                                  *)
THEOREM ScenariosCorrect == Spec => []ScenariosOrdered
<1>1. ASSUME IndInv, Known PROVE ScenariosOrdered
  <2> SUFFICES ASSUME Done("projections") PROVE Ordered(report)
    BY Zenon DEF ScenariosOrdered, Ordered
  <2>1. got.computed
    BY <1>1 DEF IndInv, OnItsWay, Done
  <2>2. PICK F, X, M, Q, day : ComputedOf(F, X, M, Q, day)
    BY <1>1, <2>1 DEF Known, ComputedKnown
  <2>3. Amounts(dash, F, Q)
    <3>1. /\ F \in SUBSET FIIRows /\ X \in SUBSET FixedKnown /\ Q \in Partial(QuoteOf)
          /\ \A i \in DOMAIN M : M[i] \in Int
          /\ day \in Nat
          /\ dash = Dashboard(F, X, M, Q, day)
      BY <2>2, ReportsAssumption DEF ComputedOf
    <3> QED
      BY <3>1, DashboardAmounts
  <2>4. dash.current \in Nat /\ dash.income \in Nat
    BY <2>3 DEF Amounts
  <2>5. got.fixed \in SUBSET FixedKnown /\ \A i \in DOMAIN got.macro : got.macro[i] \in Int
    BY <1>1 DEF Known, GotKnown
  <2>6. report = Projections(dash, got.fixed, got.macro, Contribution, Years)
    BY <1>1 DEF Known, ReportKnown
  <2> QED
    BY <2>4, <2>5, <2>6, ProjectionsOrdered
<1> QED
  BY <1>1, KnownCorrect, PTL

-----------------------------------------------------------------------------
(* Health score *)

\* Weights that make up 100 %.
AreWeights(w, D) == w \in [D -> Nat] /\ SumFunction(w) = Whole

LEMMA SizeOfPart ==
  ASSUME NEW T, IsFiniteSet(T), NEW S \in SUBSET T
  PROVE  Cardinality(S) \in Nat
BY FS_Subset, FS_CardinalityType

LEMMA SizeOfTwo == ASSUME NEW x \in Int, NEW y \in Int, x # y PROVE Cardinality({x, y}) = 2
<1>1. Cardinality({x}) = 1 /\ IsFiniteSet({x})
  BY FS_Singleton
<1>2. Cardinality({x} \cup {y}) = Cardinality({x}) + 1
  BY <1>1, FS_AddElement
<1>3. {x} \cup {y} = {x, y}
  OBVIOUS
<1> QED
  BY <1>1, <1>2, <1>3

LEMMA WeightsOfFive ==
  ASSUME NEW D, D = 1..5, NEW w \in [D -> Nat],
         w[1] = 2500, w[2] = 2500, w[3] = 1500, w[4] = 2000, w[5] = 1500
  PROVE  AreWeights(w, D) /\ AreWeights(AllocateBps(w), D)
<1>1. w \in [D -> Int] /\ \A i \in D : i \in {1, 2, 3, 4, 5}
  OBVIOUS
<1>2. SumFunction(w) = 10000 /\ Whole = 10000
  BY <1>1, SumOfFive DEF Whole
<1>3. ASSUME NEW i \in D PROVE ShareDown(w, i) = w[i]
  <2>1. (w[i] * 10000) \div 10000 = w[i]
    OBVIOUS
  <2> QED
    BY <1>2, <2>1 DEF ShareDown
<1>4. Leftover(w) = 0
  <2>1. [i \in DOMAIN w |-> ShareDown(w, i)] = w
    BY <1>3
  <2> QED
    BY <1>2, <2>1 DEF Leftover
<1>5. ASSUME NEW i \in D PROVE ~(Cardinality(AheadOf(w, i)) < 0)
  <2>1. PICK n \in Nat : n = 5
    OBVIOUS
  <2>2. AheadOf(w, i) \in SUBSET (1..n)
    BY <2>1 DEF AheadOf
  <2>3. Cardinality(AheadOf(w, i)) \in Nat
    <3> DEFINE S == AheadOf(w, i)
    <3> HIDE DEF S
    <3>1. S \in SUBSET (1..n)
      BY <2>2 DEF S
    <3> DEFINE T == 1..n
    <3>2. IsFiniteSet(T)
      BY FS_Interval
    <3>3. S \in SUBSET T
      BY <3>1
    <3> HIDE DEF T
    <3>4. Cardinality(S) \in Nat
      BY <3>2, <3>3, SizeOfPart
    <3> QED
      BY <3>4 DEF S
  <2> QED
    BY <2>3
<1>6. AllocateBps(w) = [i \in D |-> ShareDown(w, i)
                          + (IF Cardinality(AheadOf(w, i)) < Leftover(w) THEN 1 ELSE 0)]
  BY <1>2, AllocateIs
<1>7. AllocateBps(w) = w
  BY <1>3, <1>4, <1>5, <1>6
<1> QED
  BY <1>2, <1>7 DEF AreWeights

\* Without a profile the three weights that are left make up 100 % again.
LEMMA WeightsOfThree ==
  ASSUME NEW D, D = 1..3, NEW w \in [D -> Nat], w[1] = 2500, w[2] = 2500, w[3] = 1500
  PROVE  AreWeights(AllocateBps(w), D)
<1>1. w \in [D -> Int] /\ 1 \in D /\ 2 \in D /\ 3 \in D /\ \A i \in D : i \in {1, 2, 3}
  OBVIOUS
<1>2. SumFunction(w) = 6500 /\ Whole = 10000
  BY <1>1, SumOfThree DEF Whole
<1>3. ShareDown(w, 1) = 3846 /\ ShareDown(w, 2) = 3846 /\ ShareDown(w, 3) = 2307
  BY <1>2 DEF ShareDown
<1>4. LeftOf(w, 1) = 1000 /\ LeftOf(w, 2) = 1000 /\ LeftOf(w, 3) = 4500
  BY <1>2 DEF LeftOf
<1>5. Leftover(w) = 1
  <2> DEFINE f == [i \in D |-> ShareDown(w, i)]
  <2>1. f[1] = 3846 /\ f[2] = 3846 /\ f[3] = 2307 /\ DOMAIN w = D
    BY <1>1, <1>3
  <2>2. f \in [D -> Int]
    BY <1>1, <1>3
  <2> HIDE DEF f
  <2>3. SumFunction(f) = 9999
    BY <2>1, <2>2, SumOfThree
  <2> QED
    BY <1>2, <2>1, <2>3 DEF Leftover, f
<1>6. AheadOf(w, 1) = {3} /\ AheadOf(w, 2) = {1, 3} /\ AheadOf(w, 3) = {}
  BY <1>1, <1>4 DEF AheadOf
<1>7. Cardinality({3}) = 1 /\ Cardinality({}) = 0 /\ Cardinality({1, 3}) = 2
  <2>1. Cardinality({1, 3}) = 2
    BY SizeOfTwo
  <2> QED
    BY <2>1, FS_Singleton, FS_EmptySet
<1> DEFINE s == AllocateBps(w)
<1>8. s = [i \in D |-> ShareDown(w, i)
             + (IF Cardinality(AheadOf(w, i)) < Leftover(w) THEN 1 ELSE 0)]
  BY <1>2, AllocateIs
<1> HIDE DEF s
<1>9. s[1] = 3846 /\ s[2] = 3846 /\ s[3] = 2308
  BY <1>1, <1>3, <1>5, <1>6, <1>7, <1>8
<1>10. s \in [D -> Nat] /\ s \in [D -> Int]
  BY <1>1, <1>8, <1>9
<1>11. SumFunction(s) = 10000
  BY <1>9, <1>10, SumOfThree
<1> QED
  BY <1>2, <1>10, <1>11 DEF AreWeights, s

LEMMA PercentRange ==
  ASSUME NEW v \in Int PROVE Clamp(v, 0, 100) \in 0..100
BY DEF Clamp

\* The five factors, the profile's two after the measured three.
LEMMA FactorsJoined ==
  ASSUME NEW S, NEW s \in Seq(S), NEW t \in Seq(S), Len(s) = 3, Len(t) = 2
  PROVE  Len(s \o t) = 5 /\ s \o t \in [1..5 -> S]
<1> DEFINE u == s \o t
<1>1. u \in Seq(S) /\ Len(u) = Len(s) + Len(t)
  BY ConcatProperties
<1> HIDE DEF u
<1>2. Len(u) = 5
  BY <1>1
<1>3. u \in [1..Len(u) -> S]
  BY <1>1, LenProperties
<1> QED
  BY <1>2, <1>3 DEF u

LEMMA FirstWeights ==
  ASSUME NEW n \in 0..5
  PROVE  /\ SubSeq(DefaultWeightBps, 1, n) \in [1..n -> Nat]
         /\ \A i \in 1..n : SubSeq(DefaultWeightBps, 1, n)[i] = DefaultWeightBps[i]
<1> DEFINE w == DefaultWeightBps
           s == SubSeq(w, 1, n)
<1>1. \A i \in 1..n : w[i] \in Nat
  BY DEF DefaultWeightBps
<1> HIDE DEF w
<1>2. s \in Seq(Nat) /\ Len(s) = n /\ \A i \in 1..n : s[i] = w[i]
  BY <1>1, SubSeqProperties
<1> HIDE DEF s
<1>3. s \in [1..Len(s) -> Nat]
  BY <1>2, LenProperties
<1> QED
  BY <1>2, <1>3 DEF s, w

\* What the inputs of a health score are.
Inputs(in) ==
  /\ in.current \in Nat /\ in.inFII \in Nat /\ in.inFixed \in Nat /\ in.liquid \in Nat
  /\ in.holdings \in Nat /\ in.sectors \in Nat
  /\ in.worstClass \in Int /\ in.worstSector \in Int /\ in.selic \in Int

\* Every factor is a number of points, however far off its target a portfolio is.
LEMMA FactorsInRange ==
  ASSUME NEW in, Inputs(in)
  PROVE  /\ Diversification(in) \in 0..100 /\ Concentration(in) \in 0..100
         /\ Liquidity(in) \in 0..100 /\ GoalAlignment(in) \in 0..100
         /\ RiskExposure(in) \in 0..100
<1>1. Worst(in) \in Int
  BY DEF Worst, Bigger, Inputs
<1>2. ASSUME NEW bps \in Int PROVE Points(bps) \in 0..100
  <2>1. 100 - bps \div 100 \in Int
    OBVIOUS
  <2> QED
    BY <2>1, PercentRange DEF Points
<1>3. Diversification(in) \in 0..100
  <2>1. in.holdings * 12 \in Int /\ in.sectors * 13 \in Int
    BY DEF Inputs
  <2>2. Clamp(in.holdings * 12, 0, 60) \in Int /\ Clamp(in.sectors * 13, 0, 40) \in Int
    BY <2>1 DEF Clamp
  <2>3. Clamp(in.holdings * 12, 0, 60) + Clamp(in.sectors * 13, 0, 40) \in Int
    BY <2>2
  <2> QED
    BY <2>3, PercentRange DEF Diversification
<1>4. Concentration(in) \in 0..100
  BY <1>1, <1>2 DEF Concentration
<1>5. Liquidity(in) \in 0..100
  <2>1. ShareBps(in.liquid, in.current) \in Nat
    BY ShareBpsNat DEF Inputs
  <2>2. ShareBps(in.liquid, in.current) \div 100 \in Int
    BY <2>1
  <2> QED
    BY <2>2, PercentRange DEF Liquidity
<1> DEFINE share == FIIShareBps(in)
           target == TargetFIIShareBps(in.risk, in.selic)
           base == BaseFIIShareBps(in.risk)
<1>6. share \in Int
  <2>1. in.inFII \in Nat /\ in.inFII + in.inFixed \in Nat
    BY DEF Inputs
  <2>2. ShareBps(in.inFII, in.inFII + in.inFixed) \in Nat
    BY <2>1, ShareBpsNat
  <2> QED
    BY <2>2 DEF FIIShareBps
<1>7. base \in Int
  BY DEF BaseFIIShareBps
<1>8. target \in Int
  <2>1. (in.selic - 1000) \div 2 \in Int
    BY DEF Inputs
  <2>2. Clamp((in.selic - 1000) \div 2, 0, 1000) \in Int
    BY <2>1 DEF Clamp
  <2> QED
    BY <1>7, <2>2 DEF TargetFIIShareBps
<1>9. GoalAlignment(in) \in 0..100
  <2>1. share - target \in Int
    BY <1>6, <1>8
  <2> DEFINE off == share - target
  <2>2. GoalAlignment(in) = Points(Bigger(off, -off))
    BY DEF GoalAlignment
  <2> HIDE DEF off
  <2>3. Bigger(off, -off) \in Int
    BY <2>1 DEF Bigger, off
  <2> QED
    BY <1>2, <2>2, <2>3
<1>10. RiskExposure(in) \in 0..100
  <2> DEFINE a == Bigger(0, share - base)
             b == Bigger(0, Worst(in) - 5000) \div 2
  <2>1. a \in Int /\ b \in Int
    BY <1>1, <1>6, <1>7 DEF Bigger
  <2>2. RiskExposure(in) = Points(a + b)
    BY DEF RiskExposure
  <2> HIDE DEF a, b
  <2> QED
    BY <1>2, <2>1, <2>2
<1> QED
  BY <1>3, <1>4, <1>5, <1>9, <1>10

\* What ScoreWithinFactors asks of a score.
Scored(r) ==
  /\ r.score \in 0..100
  /\ SumOver(r.weights) = Whole
  /\ \E i, j \in DOMAIN r.factors : r.factors[i] <= r.score /\ r.score <= r.factors[j]

LEMMA MeanIsScored ==
  ASSUME NEW D, IsFiniteSet(D), D # {}, NEW f \in [D -> Nat], \A x \in D : f[x] <= 100,
         NEW w, AreWeights(w, D)
  PROVE  Scored([score |-> WeightedMeanBps(f, w), factors |-> f, weights |-> w])
<1> DEFINE S == {f[x] : x \in D}
<1>1. IsFiniteSet(D)
  OBVIOUS
<1>2. S \in SUBSET Int /\ S # {} /\ S \in SUBSET Nat
  <2>1. \A x \in D : f[x] \in Nat /\ f[x] \in Int
    OBVIOUS
  <2> QED
    BY <2>1
<1>3. IsFiniteSet(S)
  <2>1. S = KeysOf(f, D)
    BY DEF KeysOf
  <2> QED
    BY <1>1, <2>1, FiniteKeys
<1> HIDE DEF S
<1>4. PICK hi \in S : \A y \in S : hi >= y
  BY <1>2, <1>3, LargestExists
<1>5. PICK lo \in S : \A y \in S : lo <= y
  BY <1>2, LeastNumber
<1>6. PICK p \in D, q \in D : f[p] = lo /\ f[q] = hi
  BY <1>4, <1>5 DEF S
<1>7. lo \in 0..100 /\ hi \in 0..100 /\ \A x \in D : lo <= f[x] /\ f[x] <= hi
  <2>1. f[p] \in 0..100 /\ f[q] \in 0..100
    <3>1. f[p] \in Nat /\ f[q] \in Nat /\ f[p] <= 100 /\ f[q] <= 100
      OBVIOUS
    <3> QED
      BY <3>1
  <2>2. lo \in 0..100 /\ hi \in 0..100
    BY <1>6, <2>1, Zenon
  <2>3. ASSUME NEW x \in D PROVE lo <= f[x] /\ f[x] <= hi
    <3>1. f[x] \in S /\ f[x] \in Nat
      BY DEF S
    <3>2. lo <= f[x] /\ hi >= f[x]
      BY <1>4, <1>5, <3>1
    <3> QED
      BY <2>2, <3>1, <3>2
  <2> QED
    BY <2>2, <2>3
<1>8. f \in [D -> Nat] /\ lo \in Nat /\ hi \in Nat
  <2>1. \A x \in D : f[x] \in Nat
    OBVIOUS
  <2> QED
    BY <1>7, <2>1
<1>9. w \in [D -> Nat] /\ SumFunction(w) = Whole
  BY DEF AreWeights
<1>10. WeightedMeanBps(f, w) \in lo..hi
  BY <1>1, <1>7, <1>8, <1>9, MeanBetween
<1> DEFINE m == WeightedMeanBps(f, w)
           r == [score |-> m, factors |-> f, weights |-> w]
<1> HIDE DEF m
<1>11. m \in 0..100 /\ f[p] <= m /\ m <= f[q] /\ DOMAIN f = D
  <2>1. m \in lo..hi
    BY <1>10 DEF m
  <2>2. lo \in Int /\ hi \in Int /\ m \in Int /\ 0 <= lo /\ hi <= 100 /\ lo <= m /\ m <= hi
    BY <1>7, <2>1
  <2>3. m \in 0..100
    BY <2>2
  <2> QED
    BY <1>6, <2>2, <2>3
<1>12. r.score = m /\ r.factors = f /\ r.weights = w
  OBVIOUS
<1> HIDE DEF r
<1>13. Scored(r)
  BY <1>6, <1>9, <1>11, <1>12 DEF Scored, SumOver
<1> QED
  BY <1>13 DEF r, m

LEMMA HealthScored == ASSUME NEW in, Inputs(in) PROVE Scored(HealthScore(in))
<1> DEFINE a == Diversification(in)
           b == Concentration(in)
           c == Liquidity(in)
           d == GoalAlignment(in)
           e == RiskExposure(in)
<1>1. /\ a \in 0..100 /\ b \in 0..100 /\ c \in 0..100 /\ d \in 0..100 /\ e \in 0..100
  BY FactorsInRange
<1> HIDE DEF a, b, c, d, e
<1>2. CASE in.current <= 0
  <2> DEFINE r == [score |-> 0, factors |-> <<0, 0, 0, 0, 0>>, weights |-> DefaultWeightBps]
  <2>1. HealthScore(in) = r
    BY <1>2 DEF HealthScore
  <2>2. SumFunction(DefaultWeightBps) = Whole
    <3> DEFINE D == 1..5
               w == DefaultWeightBps
    <3>1. w \in [D -> Nat] /\ w[1] = 2500 /\ w[2] = 2500 /\ w[3] = 1500 /\ w[4] = 2000
          /\ w[5] = 1500
      BY DEF DefaultWeightBps
    <3> HIDE DEF w
    <3>2. AreWeights(w, D)
      BY <3>1, WeightsOfFive
    <3> QED
      BY <3>2 DEF AreWeights, w
  <2>3. r.score = 0 /\ r.factors = <<0, 0, 0, 0, 0>> /\ r.weights = DefaultWeightBps
    OBVIOUS
  <2> HIDE DEF r
  <2>4. 1 \in DOMAIN r.factors /\ r.factors[1] = 0
    BY <2>3
  <2>5. Scored(r)
    BY <2>2, <2>3, <2>4 DEF Scored, SumOver
  <2> QED
    BY <2>1, <2>5
<1>3. CASE ~(in.current <= 0) /\ in.risk = Unset
  <2> DEFINE D == 1..3
             f == <<a, b, c>>
             w == SubSeq(DefaultWeightBps, 1, 3)
  <2>1. Len(f) = 3 /\ f \in [D -> 0..100]
    BY <1>1
  <2>2. w \in [D -> Nat] /\ w[1] = 2500 /\ w[2] = 2500 /\ w[3] = 1500
    <3>1. w \in [D -> Nat] /\ \A i \in D : w[i] = DefaultWeightBps[i]
      BY FirstWeights
    <3> HIDE DEF w
    <3>2. 1 \in D /\ 2 \in D /\ 3 \in D
      OBVIOUS
    <3> QED
      BY <3>1, <3>2 DEF DefaultWeightBps
  <2>3. HealthScore(in) = [score |-> WeightedMeanBps(f, AllocateBps(w)),
                           factors |-> f, weights |-> AllocateBps(w)]
    BY <1>3, <2>1 DEF HealthScore, a, b, c
  <2> HIDE DEF f, w
  <2>4. AreWeights(AllocateBps(w), D)
    BY <2>2, WeightsOfThree
  <2>5. IsFiniteSet(D) /\ D # {}
    <3>1. PICK n \in Nat : n = 3
      OBVIOUS
    <3>2. IsFiniteSet(1..n)
      BY FS_Interval
    <3> QED
      BY <3>1, <3>2
  <2>6. f \in [D -> Nat] /\ \A i \in D : f[i] <= 100
    <3>1. \A i \in D : f[i] \in 0..100 /\ f[i] \in Nat /\ f[i] <= 100
      <4> TAKE i \in D
      <4>1. f[i] \in 0..100
        BY <2>1
      <4> QED
        BY <4>1
    <3> QED
      BY <2>1, <3>1
  <2> QED
    BY <2>3, <2>4, <2>5, <2>6, MeanIsScored
<1>4. CASE ~(in.current <= 0) /\ in.risk # Unset
  <2> DEFINE D == 1..5
             f == <<a, b, c>> \o <<d, e>>
             w == SubSeq(DefaultWeightBps, 1, 5)
  <2>1. Len(f) = 5 /\ f \in [D -> 0..100]
    <3>1. <<a, b, c>> \in Seq(0..100) /\ <<d, e>> \in Seq(0..100)
          /\ Len(<<a, b, c>>) = 3 /\ Len(<<d, e>>) = 2
      BY <1>1
    <3> QED
      BY <3>1, FactorsJoined
  <2>2. w \in [D -> Nat] /\ w[1] = 2500 /\ w[2] = 2500 /\ w[3] = 1500 /\ w[4] = 2000
        /\ w[5] = 1500
    <3>1. w \in [D -> Nat] /\ \A i \in D : w[i] = DefaultWeightBps[i]
      BY FirstWeights
    <3> HIDE DEF w
    <3>2. 1 \in D /\ 2 \in D /\ 3 \in D /\ 4 \in D /\ 5 \in D
      OBVIOUS
    <3> QED
      BY <3>1, <3>2 DEF DefaultWeightBps
  <2>3. HealthScore(in) = [score |-> WeightedMeanBps(f, AllocateBps(w)),
                           factors |-> f, weights |-> AllocateBps(w)]
    BY <1>4, <2>1 DEF HealthScore, a, b, c, d, e
  <2> HIDE DEF f, w
  <2>4. AreWeights(AllocateBps(w), D)
    BY <2>2, WeightsOfFive
  <2>5. IsFiniteSet(D) /\ D # {}
    <3>1. PICK n \in Nat : n = 5
      OBVIOUS
    <3>2. IsFiniteSet(1..n)
      BY FS_Interval
    <3> QED
      BY <3>1, <3>2
  <2>6. f \in [D -> Nat] /\ \A i \in D : f[i] <= 100
    <3>1. \A i \in D : f[i] \in 0..100 /\ f[i] \in Nat /\ f[i] <= 100
      <4> TAKE i \in D
      <4>1. f[i] \in 0..100
        BY <2>1
      <4> QED
        BY <4>1
    <3> QED
      BY <2>1, <3>1
  <2> QED
    BY <2>3, <2>4, <2>5, <2>6, MeanIsScored
<1> QED
  BY <1>2, <1>3, <1>4

LEMMA FiniteTwo == ASSUME NEW x, NEW y PROVE IsFiniteSet({x, y})
<1>1. IsFiniteSet({x} \cup {y})
  BY FS_Singleton, FS_AddElement
<1>2. {x} \cup {y} = {x, y}
  OBVIOUS
<1> QED
  BY <1>1, <1>2

\* What is liquid of FIIs of a and fixed income of b.
LEMMA LiquidInRange ==
  ASSUME NEW a \in Nat, NEW b \in Nat, NEW X \in SUBSET FixedKnown
  PROVE  LiquidValue(a, b, X) \in a..(a + b)
<1> DEFINE f == [row \in X |-> row.invested]
           S == {x \in X : x.daily}
           invested == SumOver(f)
           daily == SumOver([row \in S |-> row.invested])
           part == IF invested > 0 THEN ApplyBps(b, ShareBps(daily, invested)) ELSE 0
<1>1. IsFiniteSet(X)
  BY FixedKnownFinite, FS_Subset
<1>2. f \in [X -> Nat]
  BY FixedRowTyped
<1>3. S \in SUBSET X
  OBVIOUS
<1>4. daily = SumOn(f, S) /\ invested = SumFunction(f)
  <2>1. Part(f, S) = [row \in S |-> row.invested]
    BY DEF Part
  <2> QED
    BY <2>1 DEF SumOn, SumOver
<1>5. LiquidValue(a, b, X) = a + part
  BY DEF LiquidValue
<1> HIDE DEF f, S, daily, invested
<1>6. daily \in Nat /\ invested \in Nat /\ daily <= invested
  BY <1>1, <1>2, <1>3, <1>4, SumOfPart
<1>7. part \in 0..b
  <2>1. CASE invested > 0
    <3>1. daily \in 0..invested
      BY <1>6
    <3>2. ShareBps(daily, invested) \in 0..Whole
      BY <1>6, <3>1, ShareBpsRange
    <3>3. ApplyBps(b, ShareBps(daily, invested)) \in 0..b
      BY <3>2, ApplyBpsRange
    <3> QED
      BY <2>1, <3>3
  <2>2. CASE ~(invested > 0)
    BY <2>2
  <2> QED
    BY <2>1, <2>2
<1> HIDE DEF part
<1> QED
  BY <1>5, <1>7

LEMMA LargestIsInt ==
  ASSUME NEW S \in SUBSET Int, IsFiniteSet(S)
  PROVE  Largest({0} \cup S) \in Int
<1> DEFINE T == {0} \cup S
<1>1. IsFiniteSet(T) /\ T \in SUBSET Int /\ T # {}
  <2>1. IsFiniteSet(S \cup {0})
    BY FS_AddElement
  <2>2. T = S \cup {0}
    OBVIOUS
  <2> QED
    BY <2>1, <2>2
<1> HIDE DEF T
<1>2. \E x \in T : \A y \in T : x >= y
  BY <1>1, LargestExists
<1>3. Largest(T) \in T
  BY <1>2 DEF Largest
<1> QED
  BY <1>1, <1>3 DEF T

\* The score reads the holdings again after the dashboard, and they may be others.
LEMMA HealthInputsTyped ==
  ASSUME NEW d, NEW F \in SUBSET FIIRows, NEW Q \in Partial(QuoteOf), Amounts(d, F, Q),
         NEW F2 \in SUBSET FIIRows, NEW X2 \in SUBSET FixedKnown,
         NEW risk, NEW selic \in Int
  PROVE  Inputs(HealthInputs(d, F2, X2, risk, selic))
<1>1. d.value["fii"] \in Nat /\ d.value["fixed_income"] \in Nat /\ d.current \in Nat
  BY DEF Amounts
<1>2. LiquidValue(d.value["fii"], d.value["fixed_income"], X2) \in Nat
  <2> DEFINE a == d.value["fii"]
             b == d.value["fixed_income"]
  <2>1. a \in Nat /\ b \in Nat
    BY <1>1
  <2> HIDE DEF a, b
  <2>2. LiquidValue(a, b, X2) \in a..(a + b)
    BY <2>1, LiquidInRange
  <2>3. LiquidValue(a, b, X2) \in Nat
    BY <2>1, <2>2
  <2> QED
    BY <2>3 DEF a, b
<1>3. Cardinality(F2) \in Nat /\ Cardinality(X2) \in Nat
  <2>1. IsFiniteSet(FIIRows)
    BY ReportsAssumption
  <2> QED
    BY <2>1, FixedKnownFinite, SizeOfPart
<1>4. /\ IsFiniteSet(DOMAIN d.sectorValue)
      /\ d.sectorValue \in [DOMAIN d.sectorValue -> Nat]
  <2>1. /\ IsFiniteSet(DOMAIN SectorsOf(F, Q))
        /\ SectorsOf(F, Q) \in [DOMAIN SectorsOf(F, Q) -> Nat]
    BY SectorsAddUp
  <2> QED
    BY <2>1 DEF Amounts
<1>5. Cardinality(DOMAIN d.sectorValue) \in Nat
  BY <1>4, FS_CardinalityType
<1>6. Largest({0} \cup {d.share[c] : c \in Classes}) \in Int
  <2> DEFINE S == {d.share[c] : c \in Classes}
  <2>1. IsFiniteSet(S)
    <3>1. IsFiniteSet(Classes)
      BY FiniteTwo, Zenon DEF Classes
    <3>2. S = KeysOf(d.share, Classes)
      BY DEF KeysOf
    <3> QED
      BY <3>1, <3>2, FiniteKeys
  <2>2. S \in SUBSET Int
    <3>1. ASSUME NEW c \in Classes PROVE d.share[c] \in Int
      <4>1. d.value[c] \in Nat
        BY <1>1 DEF Classes
      <4>2. ShareBps(d.value[c], d.current) \in Nat
        BY <1>1, <4>1, ShareBpsNat
      <4>3. d.share[c] = ShareBps(d.value[c], d.current)
        BY DEF Amounts
      <4> QED
        BY <4>2, <4>3
    <3> QED
      BY <3>1
  <2> HIDE DEF S
  <2>3. Largest({0} \cup S) \in Int
    BY <2>1, <2>2, LargestIsInt
  <2> QED
    BY <2>3 DEF S
<1>7. Largest({0} \cup {d.sectorShare[s] : s \in DOMAIN d.sectorShare}) \in Int
  <2> DEFINE D == DOMAIN d.sectorValue
             S == {d.sectorShare[s] : s \in D}
  <2>1. d.sectorShare = [s \in D |-> ShareBps(d.sectorValue[s], d.value["fii"])]
        /\ DOMAIN d.sectorShare = D
    BY DEF Amounts
  <2>2. IsFiniteSet(S)
    <3>1. S = KeysOf(d.sectorShare, D)
      BY DEF KeysOf
    <3> QED
      BY <1>4, <3>1, FiniteKeys
  <2>3. S \in SUBSET Int
    <3>1. ASSUME NEW s \in D PROVE d.sectorShare[s] \in Int
      <4>1. d.sectorValue[s] \in Nat
        BY <1>4
      <4>2. ShareBps(d.sectorValue[s], d.value["fii"]) \in Nat
        BY <1>1, <4>1, ShareBpsNat
      <4>3. d.sectorShare[s] = ShareBps(d.sectorValue[s], d.value["fii"])
        BY <2>1
      <4> QED
        BY <4>2, <4>3
    <3> QED
      BY <3>1
  <2> HIDE DEF S
  <2>4. Largest({0} \cup S) \in Int
    BY <2>2, <2>3, LargestIsInt
  <2> QED
    BY <2>1, <2>4 DEF S
<1> DEFINE in == HealthInputs(d, F2, X2, risk, selic)
<1>8. /\ in.current = d.current /\ in.inFII = d.value["fii"]
      /\ in.inFixed = d.value["fixed_income"]
      /\ in.liquid = LiquidValue(d.value["fii"], d.value["fixed_income"], X2)
      /\ in.holdings = Cardinality(F2) + Cardinality(X2)
      /\ in.sectors = Cardinality(DOMAIN d.sectorValue)
      /\ in.worstClass = Largest({0} \cup {d.share[c] : c \in Classes})
      /\ in.worstSector = Largest({0} \cup {d.sectorShare[s] : s \in DOMAIN d.sectorShare})
      /\ in.selic = selic
  BY DEF HealthInputs
<1> HIDE DEF in
<1>9. in.holdings \in Nat
  BY <1>3, <1>8
<1>10. Inputs(in)
  BY <1>1, <1>2, <1>5, <1>6, <1>7, <1>8, <1>9 DEF Inputs
<1> QED
  BY <1>10 DEF in

\* The dashboard of a request that has computed one.
LEMMA DashboardKnown ==
  ASSUME Known, got.computed
  PROVE  \E F \in SUBSET FIIRows : \E Q \in Partial(QuoteOf) : Amounts(dash, F, Q)
<1>1. PICK F, X, M, Q, day : ComputedOf(F, X, M, Q, day)
  BY DEF Known, ComputedKnown
<1>2. /\ F \in SUBSET FIIRows /\ X \in SUBSET FixedKnown /\ Q \in Partial(QuoteOf)
      /\ \A i \in DOMAIN M : M[i] \in Int
      /\ day \in Nat
      /\ dash = Dashboard(F, X, M, Q, day)
  BY <1>1, ReportsAssumption DEF ComputedOf
<1>3. Amounts(dash, F, Q)
  BY <1>2, DashboardAmounts
<1> QED
  BY <1>2, <1>3

(* The code behaviour: Compute of the health score and AllocateBps.  For every   *)
(* portfolio, with a profile or without, and also when the holdings read after   *)
(* the dashboard are others: the weights make up 100 %, the score is between the *)
(* factors, and the liquid part is a part of the portfolio.                      *)
THEOREM ScoresCorrect == Spec => []ScoreWithinFactors
<1>1. ASSUME IndInv, Known PROVE ScoreWithinFactors
  <2> SUFFICES ASSUME Done("score")
               PROVE  /\ Scored(report)
                      /\ LiquidValue(dash.value["fii"], dash.value["fixed_income"],
                                     got.fixed) \in dash.value["fii"]..dash.current
    BY Zenon DEF ScoreWithinFactors, Scored
  <2>1. got.computed
    BY <1>1 DEF IndInv, OnItsWay, Done
  <2>2. PICK F \in SUBSET FIIRows : \E Q \in Partial(QuoteOf) : Amounts(dash, F, Q)
    BY <1>1, <2>1, DashboardKnown
  <2>3. PICK Q \in Partial(QuoteOf) : Amounts(dash, F, Q)
    BY <2>2
  <2>4. got.fii \in SUBSET FIIRows /\ got.fixed \in SUBSET FixedKnown /\ got.selic \in Int
    BY <1>1 DEF Known, GotKnown
  <2>5. Inputs(HealthInputs(dash, got.fii, got.fixed, got.profile, got.selic))
    BY <2>3, <2>4, HealthInputsTyped
  <2>6. report = HealthScore(HealthInputs(dash, got.fii, got.fixed, got.profile, got.selic))
    BY <1>1 DEF Known, ReportKnown
  <2>7. Scored(report)
    BY <2>5, <2>6, HealthScored
  <2>8. LiquidValue(dash.value["fii"], dash.value["fixed_income"], got.fixed)
          \in dash.value["fii"]..dash.current
    <3> DEFINE a == dash.value["fii"]
               b == dash.value["fixed_income"]
    <3>1. a \in Nat /\ b \in Nat /\ dash.current = a + b
      BY <2>3 DEF Amounts
    <3> HIDE DEF a, b
    <3>2. LiquidValue(a, b, got.fixed) \in a..(a + b)
      BY <2>4, <3>1, LiquidInRange
    <3> QED
      BY <3>1, <3>2 DEF a, b
  <2> QED
    BY <2>7, <2>8
<1> QED
  BY <1>1, KnownCorrect, PTL

-----------------------------------------------------------------------------
(* The split of a contribution *)

\* A share of an amount is off by half a centavo at most.
LEMMA ApplyBpsNear ==
  ASSUME NEW amount \in Nat, NEW bps \in Nat
  PROVE  /\ ApplyBps(amount, bps) \in Nat /\ amount * bps \in Nat
         /\ 20000 * ApplyBps(amount, bps) <= 2 * (amount * bps) + 10000
         /\ 2 * (amount * bps) <= 20000 * ApplyBps(amount, bps) + 10000
<1>1. amount * bps \in Nat
  BY TimesNat
<1>2. CASE amount = 0 \/ bps = 0
  BY <1>2 DEF ApplyBps
<1>3. CASE amount > 0 /\ bps > 0
  <2> DEFINE n == amount * bps
             x == HalfUp(n, Whole)
  <2> HIDE DEF n
  <2>1. Whole \in Nat /\ Whole > 0 /\ n \in Nat
    BY <1>1 DEF Whole, n
  <2>2. x \in Nat /\ 2 * (Whole * x) <= 2 * n + Whole /\ 2 * n < 2 * (Whole * x) + Whole
    BY <2>1, HalfUpNearest
  <2> HIDE DEF x
  <2>3. ApplyBps(amount, bps) = x
    BY <1>3 DEF ApplyBps, n, x
  <2>4. Whole = 10000
    BY DEF Whole
  <2>5. 20000 * x <= 2 * n + 10000 /\ 2 * n <= 20000 * x + 10000
    BY <2>1, <2>2, <2>4
  <2> QED
    BY <2>1, <2>2, <2>3, <2>5 DEF n
<1> QED
  BY <1>1, <1>2, <1>3

\* The value v of a class of a portfolio of c, told as a, is off by what basis points
\* of the total cannot tell apart.
NearlyTold(a, v, c) ==
  /\ a \in Nat
  /\ 20000 * a <= 20000 * v + (c + 10000)
  /\ 20000 * v <= 20000 * a + (c + 10000)

LEMMA ShareTold ==
  ASSUME NEW c \in Nat, NEW v \in Nat, v <= c, v > 0
  PROVE  NearlyTold(ApplyBps(c, ShareBps(v, c)), v, c)
<1> DEFINE s == ShareBps(v, c)
           x == c * s
           a == ApplyBps(c, s)
<1>1. v * Whole \in Nat /\ c > 0
  BY TimesNat DEF Whole
<1>2. s = HalfUp(v * Whole, c)
  BY <1>1 DEF ShareBps
<1>3. s \in Nat /\ 2 * x <= 2 * (v * Whole) + c /\ 2 * (v * Whole) < 2 * x + c
  BY <1>1, <1>2, HalfUpNearest
<1> HIDE DEF s
<1>4. a \in Nat /\ x \in Nat /\ 20000 * a <= 2 * x + 10000 /\ 2 * x <= 20000 * a + 10000
  <2>1. s \in Nat
    BY <1>3
  <2> QED
    BY <2>1, ApplyBpsNear
<1> HIDE DEF x, a
<1>5. v * Whole = 10000 * v
  BY <1>1 DEF Whole
<1>6. NearlyTold(a, v, c)
  BY <1>1, <1>3, <1>4, <1>5 DEF NearlyTold
<1> QED
  BY <1>6 DEF a, s

LEMMA AllocationNear ==
  ASSUME NEW c \in Nat, NEW v \in Nat, v <= c, NEW a,
         a = IF v > 0 THEN ApplyBps(c, ShareBps(v, c)) ELSE 0
  PROVE  NearlyTold(a, v, c)
<1>1. CASE v = 0
  BY <1>1 DEF NearlyTold
<1>2. CASE v > 0
  BY <1>2, ShareTold
<1> QED
  BY <1>1, <1>2

LEMMA CancelFactor ==
  ASSUME NEW g \in Nat, g > 0, NEW y \in Int, NEW z \in Int, g * y <= g * z
  PROVE  y <= z
<1> SUFFICES ASSUME y - z \in Nat, y - z >= 1 PROVE FALSE
  OBVIOUS
<1>1. g * 1 <= g * (y - z)
  BY TimesMonotone
<1>2. g * (y - z) = g * y - g * z /\ g * y \in Int /\ g * z \in Int
  OBVIOUS
<1> QED
  BY <1>1, <1>2

\* What a class gets of the contribution c if both classes are under their targets,
\* by g and h, as the facts tell, which are off by d and e.
LEMMA GapShare ==
  ASSUME NEW g \in Nat, NEW h \in Nat, g + h > 0, NEW c \in Nat, NEW s \in Nat,
         (g + h) * s <= g * 10000 + (g + h),
         NEW E \in Nat, NEW d \in Int, NEW e \in Int,
         -E <= 20000 * d, 20000 * d <= E, -E <= 20000 * e, 20000 * e <= E,
         c - (g + h) <= d + e + 1
  PROVE  2 * (c * s) <= 20000 * (g + d) + E + 20000 + 2 * c
<1> DEFINE G == g + h
           y == c * s
           z == 20000 * (g + d) + E + 20000 + 2 * c
<1>1. G \in Nat /\ G > 0 /\ y \in Nat /\ z \in Int
  BY TimesNat
<1>2. G * y <= 10000 * (c * g) + c * G
  <2>1. G * s \in Nat /\ g * 10000 + G \in Nat /\ G * s <= g * 10000 + G
    BY TimesNat
  <2>2. c * (G * s) <= c * (g * 10000 + G)
    <3> DEFINE p == G * s
               q == g * 10000 + G
    <3>1. p \in Nat /\ q \in Nat /\ p <= q
      BY <2>1
    <3> HIDE DEF p, q
    <3>2. c * p <= c * q
      BY <3>1, TimesMonotone
    <3> QED
      BY <3>2 DEF p, q
  <2>3. c * (G * s) = G * (c * s)
    OBVIOUS
  <2>4. c * (g * 10000 + G) = 10000 * (c * g) + c * G
    OBVIOUS
  <2> QED
    BY <2>2, <2>3, <2>4
<1>3. /\ G * g \in Int /\ G * d \in Int /\ G * E \in Int /\ G * c \in Int /\ c * g \in Int
      /\ G * y \in Int
  BY <1>1
<1>4. G * z = 20000 * (G * g) + 20000 * (G * d) + G * E + 20000 * G + 2 * (G * c)
  OBVIOUS
<1>5. c * G = G * c
  OBVIOUS
<1>6. 20000 * (c * g) <= 20000 * (G * g) + 20000 * (G * d) + G * E + 20000 * G
  <2>1. CASE c <= G
    <3>1. g * c <= g * G
      BY <1>1, <2>1, TimesMonotone
    <3>2. c * g = g * c /\ G * g = g * G
      OBVIOUS
    <3>3. 0 <= 20000 * (G * d) + G * E
      <4>1. 0 <= 20000 * d + E /\ 20000 * d + E \in Nat
        OBVIOUS
      <4>2. G * (20000 * d + E) \in Nat
        BY <1>1, <4>1, TimesNat
      <4>3. G * (20000 * d + E) = 20000 * (G * d) + G * E
        OBVIOUS
      <4> QED
        BY <4>2, <4>3
    <3> QED
      BY <1>1, <1>3, <3>1, <3>2, <3>3
  <2>2. CASE c > G
    <3> DEFINE k == c - G
    <3>1. k \in Nat /\ d + e + 1 \in Nat /\ k <= d + e + 1
      BY <1>1, <2>2
    <3>2. g * k <= g * (d + e + 1)
      BY <3>1, TimesMonotone
    <3>3. g * k = c * g - G * g
      OBVIOUS
    <3>4. g * (d + e + 1) = g * d + g * e + g
      OBVIOUS
    <3>5. g * d = G * d - h * d
      OBVIOUS
    <3>6. 20000 * (g * e) <= g * E
      <4>1. E - 20000 * e \in Nat
        OBVIOUS
      <4>2. g * (E - 20000 * e) \in Nat
        BY <4>1, TimesNat
      <4>3. g * (E - 20000 * e) = g * E - 20000 * (g * e)
        OBVIOUS
      <4>4. g * E \in Int /\ g * e \in Int
        OBVIOUS
      <4> QED
        BY <4>2, <4>3, <4>4
    <3>7. -(20000 * (h * d)) <= h * E
      <4>1. E + 20000 * d \in Nat
        OBVIOUS
      <4>2. h * (E + 20000 * d) \in Nat
        BY <4>1, TimesNat
      <4>3. h * (E + 20000 * d) = h * E + 20000 * (h * d)
        OBVIOUS
      <4>4. h * E \in Int /\ h * d \in Int
        OBVIOUS
      <4> QED
        BY <4>2, <4>3, <4>4
    <3>8. G * E = g * E + h * E
      OBVIOUS
    <3>9. /\ g * k \in Int /\ g * d \in Int /\ g * e \in Int /\ h * d \in Int
          /\ g * E \in Int /\ h * E \in Int /\ g <= G
      BY <3>1
    <3> HIDE DEF k, G
    <3> QED
      BY <1>1, <1>3, <3>2, <3>3, <3>4, <3>5, <3>6, <3>7, <3>8, <3>9
  <2> QED
    BY <1>1, <2>1, <2>2
<1> HIDE DEF y, z, G
<1>7. G * (2 * y) <= G * z
  <2>1. G * (2 * y) = 2 * (G * y)
    BY <1>1
  <2> QED
    BY <1>1, <1>2, <1>3, <1>4, <1>5, <1>6, <2>1
<1>8. 2 * y <= z
  <2>1. 2 * y \in Int
    BY <1>1
  <2> QED
    BY <1>1, <1>7, <2>1, CancelFactor
<1> QED
  BY <1>8 DEF y, z

\* The share s is what the first of two gaps, g and h, gets of 100 %.
Apportioned(g, h, s) ==
  (g > 0 \/ h > 0) => /\ (g + h) * s <= g * 10000 + (g + h)
                      /\ g = 0 => s = 0

\* A class of value v, told as a, gets m of the contribution c by its share s; the
\* other class has value u, told as b.  Their targets are p and q, their gaps g and h.
Contributed(v, u, c, a, b, p, q, g, h, s, m) ==
  /\ v \in Nat /\ u \in Nat /\ c \in Nat
  /\ NearlyTold(a, v, v + u) /\ NearlyTold(b, u, v + u)
  /\ p \in Nat /\ q \in Nat /\ p + q >= v + u + c - 1
  /\ g = Bigger(0, p - a) /\ h = Bigger(0, q - b) /\ Apportioned(g, h, s)
  /\ s \in Nat /\ m \in 1..c /\ 20000 * m <= 2 * (c * s) + 10000

LEMMA ClassSteered ==
  ASSUME NEW v \in Nat, NEW u \in Nat, NEW c \in Nat, NEW a, NEW b,
         NEW p \in Nat, NEW q \in Nat, NEW g, NEW h, NEW s \in Nat, NEW m \in 1..c,
         Contributed(v, u, c, a, b, p, q, g, h, s, m)
  PROVE  v + m <= p + (v + u + c) \div 10000 + 2
<1> DEFINE t == v + u + c
           k == t \div 10000
           n == v + m - p - 2
<1>1. /\ NearlyTold(a, v, v + u) /\ NearlyTold(b, u, v + u)
      /\ p + q >= v + u + c - 1 /\ 20000 * m <= 2 * (c * s) + 10000
      /\ g = Bigger(0, p - a) /\ h = Bigger(0, q - b) /\ Apportioned(g, h, s)
  BY DEF Contributed
<1>2. /\ a \in Nat /\ b \in Nat
      /\ 20000 * a <= 20000 * v + (v + u + 10000)
      /\ 20000 * v <= 20000 * a + (v + u + 10000)
      /\ 20000 * b <= 20000 * u + (v + u + 10000)
      /\ 20000 * u <= 20000 * b + (v + u + 10000)
  BY <1>1 DEF NearlyTold
<1>3. g \in Nat /\ h \in Nat /\ p - a <= g /\ q - b <= h /\ (g > 0 => g = p - a)
      /\ (h > 0 => h = q - b)
  BY <1>2, <1>1 DEF Bigger
<1>4. k \in Nat /\ t < 10000 * (k + 1)
  OBVIOUS
<1>5. (g > 0 \/ h > 0) => (g + h) * s <= g * 10000 + (g + h) /\ (g = 0 => s = 0)
  BY <1>1 DEF Apportioned
<1>6. n \in Int
  OBVIOUS
<1> SUFFICES 20000 * n <= v + u + 2 * c
  <2>1. 20000 * n < 20000 * (k + 1)
    BY <1>4
  <2>2. n <= k
    BY <1>4, <1>6, <2>1
  <2> QED
    BY <1>4, <2>2
<1>7. CASE h = 0
  <2>1. q <= b
    BY <1>2, <1>1, <1>3, <1>7
  <2> QED
    BY <1>2, <1>1, <2>1
<1>8. CASE h > 0 /\ g = 0
  <2>1. s = 0
    BY <1>5, <1>8
  <2>2. c * s = 0
    BY <2>1
  <2> QED
    BY <1>2, <1>1, <2>2
<1>9. CASE h > 0 /\ g > 0
  <2> DEFINE d == a - v
             e == b - u
             E == v + u + 10000
             y == c * s
  <2>1. g = p - a /\ h = q - b /\ g + h > 0 /\ (g + h) * s <= g * 10000 + (g + h)
    BY <1>3, <1>5, <1>9
  <2>2. /\ d \in Int /\ e \in Int /\ E \in Nat /\ -E <= 20000 * d /\ 20000 * d <= E
        /\ -E <= 20000 * e /\ 20000 * e <= E
    BY <1>2, <1>1
  <2>3. c - (g + h) <= d + e + 1
    BY <1>2, <1>1, <2>1
  <2> HIDE DEF d, e, E
  <2>4. 2 * (c * s) <= 20000 * (g + d) + E + 20000 + 2 * c
    BY <1>3, <2>1, <2>2, <2>3, GapShare
  <2>5. y \in Nat /\ 2 * y <= 20000 * (g + d) + E + 20000 + 2 * c
        /\ 20000 * m <= 2 * y + 10000
    BY <1>1, <2>4, TimesNat
  <2> HIDE DEF y
  <2> QED
    BY <1>2, <1>1, <2>1, <2>5 DEF d, E
<1> QED
  BY <1>3, <1>7, <1>8, <1>9

SteeredBy(v, u, c, p, m) == v + m <= p + (v + u + c) \div 10000 + 2

LEMMA ContributedSteered ==
  ASSUME NEW v, NEW u, NEW c, NEW a, NEW b, NEW p, NEW q, NEW g, NEW h, NEW s, NEW m,
         Contributed(v, u, c, a, b, p, q, g, h, s, m)
  PROVE  SteeredBy(v, u, c, p, m)
<1>1. /\ v \in Nat /\ u \in Nat /\ c \in Nat /\ p \in Nat /\ q \in Nat
      /\ s \in Nat /\ m \in 1..c
  BY DEF Contributed
<1> HIDE DEF Contributed
<1> QED
  BY <1>1, ClassSteered DEF SteeredBy

\* What two shares that make up 100 % make of an amount is off it by one at most.
LEMMA PartsAddUp ==
  ASSUME NEW t \in Nat, NEW x \in Nat, NEW y \in Nat, x + y = 10000
  PROVE  /\ ApplyBps(t, x) \in Nat /\ ApplyBps(t, y) \in Nat
         /\ ApplyBps(t, x) + ApplyBps(t, y) >= t - 1
         /\ ApplyBps(t, x) + ApplyBps(t, y) <= t + 1
<1> DEFINE p == ApplyBps(t, x)
           q == ApplyBps(t, y)
           i == t * x
           j == t * y
<1>1. p \in Nat /\ i \in Nat /\ 20000 * p <= 2 * i + 10000 /\ 2 * i <= 20000 * p + 10000
  BY ApplyBpsNear
<1>2. q \in Nat /\ j \in Nat /\ 20000 * q <= 2 * j + 10000 /\ 2 * j <= 20000 * q + 10000
  BY ApplyBpsNear
<1>3. i + j = 10000 * t
  <2>1. t * (x + y) = t * x + t * y
    BY Distributes
  <2> QED
    BY <2>1
<1> HIDE DEF i, j, p, q
<1>4. p + q >= t - 1 /\ p + q <= t + 1
  BY <1>1, <1>2, <1>3
<1> QED
  BY <1>1, <1>2, <1>4 DEF p, q

\* What SplitSteersToTarget asks of a split.
Steered(d, risk, r) ==
  LET after == d.current + Contribution
      slack == after \div Whole + 2
  IN  /\ SumOver(r.shares) = Whole
      /\ Near(SumOver(r.amounts), Contribution, 1)
      /\ \A i \in 1..2 : r.amounts[i] > 0 =>
           d.value[SplitClasses[i]] + r.amounts[i]
             <= ApplyBps(after, TargetShares(risk)[i]) + slack

\* What a contribution c becomes by two shares that make up 100 %.
Gives(c, i, j, m, n) ==
  /\ m = ApplyBps(c, i) /\ 20000 * m <= 2 * (c * i) + 10000
  /\ n = ApplyBps(c, j) /\ 20000 * n <= 2 * (c * j) + 10000
  /\ m + n >= c - 1 /\ m + n <= c + 1

CanGive(c, i, j) == \E m \in 0..c, n \in 0..c : Gives(c, i, j, m, n)

LEMMA GivenOut ==
  ASSUME NEW c \in Nat, NEW i \in Nat, NEW j \in Nat, i + j = 10000
  PROVE  CanGive(c, i, j)
<1> DEFINE m == ApplyBps(c, i)
           n == ApplyBps(c, j)
<1>1. 20000 * m <= 2 * (c * i) + 10000
  BY ApplyBpsNear
<1>2. 20000 * n <= 2 * (c * j) + 10000
  BY ApplyBpsNear
<1>3. m + n >= c - 1 /\ m + n <= c + 1
  BY PartsAddUp
<1>4. i \in 0..Whole
  BY DEF Whole
<1>5. j \in 0..Whole
  BY DEF Whole
<1>6. m \in 0..c
  BY <1>4, ApplyBpsRange
<1>7. n \in 0..c
  BY <1>5, ApplyBpsRange
<1> USE <1>6, <1>7 DEF CanGive
<1> WITNESS m \in 0..c, n \in 0..c
<1> QED
  BY <1>1, <1>2, <1>3 DEF Gives

LEMMA SplitSteered ==
  ASSUME NEW d, NEW F, NEW Q, Amounts(d, F, Q), NEW risk
  PROVE  Steered(d, risk, Split(d, risk, Contribution))
<1>1. PICK c \in Nat, v \in Nat, u \in Nat :
        /\ c = Contribution /\ d.current = v + u
        /\ v = d.value["fii"] /\ u = d.value["fixed_income"]
  BY ReportsAssumption DEF Amounts
<1>2. PICK x \in Nat, y \in Nat :
        x + y = 10000 /\ TargetShares(risk) = [i \in 1..2 |-> IF i = 1 THEN x ELSE y]
  <2> DEFINE k == BaseFIIShareBps(risk)
  <2>1. k \in 0..10000
    BY DEF BaseFIIShareBps
  <2> HIDE DEF k
  <2>2. TargetShares(risk) = [i \in 1..2 |-> IF i = 1 THEN k ELSE 10000 - k]
    BY DEF TargetShares, k, Whole
  <2>3. k \in Nat /\ 10000 - k \in Nat /\ k + (10000 - k) = 10000
    BY <2>1
  <2> QED
    BY <2>2, <2>3
<1>3. PICK total \in Nat, t \in Nat :
        total = v + u /\ t = total + c /\ v <= total /\ u <= total
  BY <1>1
<1>4. PICK a \in Nat : a = AllocationFromFacts(d, "fii") /\ NearlyTold(a, v, total)
  <2>1. PICK z : z = AllocationFromFacts(d, "fii")
    OBVIOUS
  <2>2. z = IF v > 0 THEN ApplyBps(total, ShareBps(v, total)) ELSE 0
    BY <1>1, <1>3, <2>1 DEF AllocationFromFacts, Amounts, Classes
  <2>3. NearlyTold(z, v, total)
    BY <1>1, <1>3, <2>2, AllocationNear
  <2> QED
    BY <2>1, <2>3 DEF NearlyTold
<1>5. PICK b \in Nat : b = AllocationFromFacts(d, "fixed_income") /\ NearlyTold(b, u, total)
  <2>1. PICK z : z = AllocationFromFacts(d, "fixed_income")
    OBVIOUS
  <2>2. z = IF u > 0 THEN ApplyBps(total, ShareBps(u, total)) ELSE 0
    BY <1>1, <1>3, <2>1 DEF AllocationFromFacts, Amounts, Classes
  <2>3. NearlyTold(z, u, total)
    BY <1>1, <1>3, <2>2, AllocationNear
  <2> QED
    BY <2>1, <2>3 DEF NearlyTold
<1>6. PICK p \in Nat, q \in Nat :
        p = ApplyBps(t, x) /\ q = ApplyBps(t, y) /\ p + q >= t - 1
  <2>1. t \in Nat /\ x \in Nat /\ y \in Nat /\ x + y = 10000
    BY <1>2, <1>3
  <2>2. /\ ApplyBps(t, x) \in Nat /\ ApplyBps(t, y) \in Nat
        /\ ApplyBps(t, x) + ApplyBps(t, y) >= t - 1
    BY <2>1, PartsAddUp
  <2> QED
    BY <2>2
<1>7. PICK g \in Nat, h \in Nat : g = Bigger(0, p - a) /\ h = Bigger(0, q - b)
  <2>1. Bigger(0, p - a) \in Nat /\ Bigger(0, q - b) \in Nat
    BY <1>4, <1>5, <1>6 DEF Bigger
  <2> QED
    BY <2>1
<1> DEFINE gap == [i \in 1..2 |-> IF i = 1 THEN g ELSE h]
           w == IF \E i \in 1..2 : gap[i] > 0 THEN gap ELSE TargetShares(risk)
           s == AllocateBps(w)
           amounts == [i \in 1..2 |-> ApplyBps(Contribution, s[i])]
<1>8. Split(d, risk, Contribution) = [shares |-> s, amounts |-> amounts]
  <2> DEFINE target == [i \in 1..2 |->
                          ApplyBps(d.current + Contribution, TargetShares(risk)[i])]
             below == [i \in 1..2 |->
                         Bigger(0, target[i] - AllocationFromFacts(d, SplitClasses[i]))]
  <2>1. target[1] = p /\ target[2] = q
    <3>1. TargetShares(risk)[1] = x /\ TargetShares(risk)[2] = y
      BY <1>2
    <3>2. d.current + Contribution = t
      BY <1>1, <1>3
    <3> QED
      BY <1>6, <3>1, <3>2
  <2>2. SplitClasses[1] = "fii" /\ SplitClasses[2] = "fixed_income"
    BY DEF SplitClasses
  <2> HIDE DEF target
  <2>3. below = gap
    BY <1>4, <1>5, <1>7, <2>1, <2>2
  <2> HIDE DEF gap, below
  <2>4. Split(d, risk, Contribution)
          = LET ws == IF \E i \in 1..2 : below[i] > 0 THEN below ELSE TargetShares(risk)
                ss == AllocateBps(ws)
            IN  [shares |-> ss, amounts |-> [i \in 1..2 |-> ApplyBps(Contribution, ss[i])]]
    BY Zenon DEF Split, below, target
  <2> QED
    BY <2>3, <2>4, Zenon
<1>9. /\ w \in [1..2 -> Nat] /\ w[1] + w[2] > 0
      /\ (g > 0 \/ h > 0) => w[1] = g /\ w[2] = h
  <2>1. CASE g > 0 \/ h > 0
    <3>1. w = gap
      BY <1>7, <2>1
    <3> QED
      BY <1>7, <2>1, <3>1
  <2>2. CASE ~(g > 0 \/ h > 0)
    <3>1. w = TargetShares(risk)
      BY <1>7, <2>2
    <3> QED
      BY <1>2, <2>2, <3>1
  <2> QED
    BY <2>1, <2>2
<1>10. SharedOut(s, w, 1..2)
  <2> DEFINE D == 1..2
  <2>1. w \in [D -> Nat] /\ w[1] + w[2] > 0
    BY <1>9
  <2> HIDE DEF w
  <2> QED
    BY <2>1, AllocateTwo
<1> HIDE DEF w, s
<1>11. /\ s \in [1..2 -> Nat] /\ s[1] \in Nat /\ s[2] \in Nat /\ s[1] + s[2] = 10000
       /\ (w[1] + w[2]) * s[1] <= w[1] * 10000 + (w[1] + w[2]) /\ (w[1] = 0 => s[1] = 0)
       /\ (w[1] + w[2]) * s[2] <= w[2] * 10000 + (w[1] + w[2]) /\ (w[2] = 0 => s[2] = 0)
  <2>1. 1 \in 1..2 /\ 2 \in 1..2 /\ Whole = 10000
    BY DEF Whole
  <2> QED
    BY <1>10, <2>1 DEF SharedOut
<1>12. PICK i \in Nat, j \in Nat :
         /\ i = s[1] /\ j = s[2] /\ i + j = 10000
         /\ Apportioned(g, h, i) /\ Apportioned(h, g, j)
  <2>1. h + g = g + h
    BY <1>7
  <2> QED
    BY <1>9, <1>11, <2>1 DEF Apportioned
<1>13. CanGive(c, i, j)
  <2>1. c \in Nat /\ i \in Nat /\ j \in Nat /\ i + j = 10000
    BY <1>1, <1>12
  <2> QED
    BY <2>1, GivenOut 
<1>14. PICK m \in 0..c, n \in 0..c : Gives(c, i, j, m, n)
  BY <1>13, Zenon DEF CanGive
<1>15. /\ m \in 0..c /\ n \in 0..c
       /\ m = ApplyBps(c, i) /\ 20000 * m <= 2 * (c * i) + 10000
       /\ n = ApplyBps(c, j) /\ 20000 * n <= 2 * (c * j) + 10000
       /\ m + n >= c - 1 /\ m + n <= c + 1
  BY <1>14 DEF Gives
<1>16. amounts = [k \in 1..2 |-> IF k = 1 THEN m ELSE n] /\ m \in Nat /\ n \in Nat
  BY <1>1, <1>12, <1>15
<1> HIDE DEF amounts
<1>17. PICK z \in Nat : z = (v + u + c) \div 10000 /\ t = v + u + c
  BY <1>1, <1>3
<1>18. m > 0 => v + m <= p + z + 2
  <2> SUFFICES ASSUME m > 0 PROVE v + m <= p + z + 2
    OBVIOUS
  <2>1. m \in 1..c
    BY <1>1, <1>15
  <2>2. p + q >= v + u + c - 1 /\ total = v + u
    BY <1>3, <1>6, <1>17
  <2>3. NearlyTold(a, v, v + u) /\ NearlyTold(b, u, v + u)
    BY <1>4, <1>5, <2>2
  <2>4. Contributed(v, u, c, a, b, p, q, g, h, i, m)
    BY <1>1, <1>6, <1>7, <1>12, <1>15, <2>1, <2>2, <2>3 DEF Contributed
  <2>5. v + m <= p + (v + u + c) \div 10000 + 2
    BY <2>4, ContributedSteered DEF SteeredBy
  <2> QED
    BY <1>17, <2>5
<1>19. n > 0 => u + n <= q + z + 2
  <2> SUFFICES ASSUME n > 0 PROVE u + n <= q + z + 2
    OBVIOUS
  <2>1. n \in 1..c
    BY <1>1, <1>15
  <2>2. q + p >= u + v + c - 1 /\ total = u + v
    BY <1>1, <1>3, <1>6, <1>17
  <2>3. NearlyTold(a, v, u + v) /\ NearlyTold(b, u, u + v)
    BY <1>4, <1>5, <2>2
  <2>4. Contributed(u, v, c, b, a, q, p, h, g, j, n)
    BY <1>1, <1>6, <1>7, <1>12, <1>15, <2>1, <2>2, <2>3 DEF Contributed
  <2>5. u + n <= q + (u + v + c) \div 10000 + 2
    BY <2>4, ContributedSteered DEF SteeredBy
  <2>6. u + v + c = v + u + c
    BY <1>1
  <2> QED
    BY <1>17, <2>5, <2>6
<1> DEFINE r == Split(d, risk, Contribution)
<1>20. r.shares = s /\ r.amounts = amounts
  BY <1>8
<1> HIDE DEF r
<1>21. SumOver(r.shares) = Whole
  <2> DEFINE D == 1..2
  <2>1. s \in [D -> Int]
    BY <1>11
  <2>2. SumFunction(s) = s[1] + s[2]
    BY <2>1, SumOfTwo
  <2> QED
    BY <1>11, <1>20, <2>2 DEF SumOver, Whole
<1>22. Near(SumOver(r.amounts), Contribution, 1)
  <2> DEFINE D == 1..2
  <2>1. amounts \in [D -> Int]
    BY <1>16
  <2>2. SumFunction(amounts) = amounts[1] + amounts[2]
    BY <2>1, SumOfTwo
  <2>3. SumOver(r.amounts) = m + n
    BY <1>16, <1>20, <2>2 DEF SumOver
  <2>4. c \in Nat /\ m \in Nat /\ n \in Nat /\ m + n >= c - 1 /\ m + n <= c + 1
    BY <1>1, <1>15, <1>16
  <2> HIDE DEF D
  <2>5. m + n - c \in -1..1
    BY <2>4
  <2>6. Near(m + n, c, 1)
    BY <2>5 DEF Near
  <2> QED
    BY <1>1, <2>3, <2>6, Zenon
<1>23. ASSUME NEW k \in 1..2, r.amounts[k] > 0
       PROVE  d.value[SplitClasses[k]] + r.amounts[k]
                <= ApplyBps(d.current + Contribution, TargetShares(risk)[k])
                   + ((d.current + Contribution) \div Whole + 2)
  <2>1. TargetShares(risk)[1] = x /\ TargetShares(risk)[2] = y
    BY <1>2
  <2>2. d.current + Contribution = t /\ t \div Whole = z
    BY <1>1, <1>3, <1>17 DEF Whole
  <2>3. d.value[SplitClasses[1]] = v /\ d.value[SplitClasses[2]] = u
    BY <1>1 DEF SplitClasses
  <2>4. CASE k = 1
    <3>1. r.amounts[k] = m /\ v + m <= p + (z + 2)
      BY <1>1, <1>6, <1>16, <1>17, <1>18, <1>20, <1>23, <2>4
    <3> QED
      BY <1>6, <2>1, <2>2, <2>3, <2>4, <3>1
  <2>5. CASE k = 2
    <3>1. r.amounts[k] = n /\ u + n <= q + (z + 2)
      BY <1>1, <1>6, <1>16, <1>17, <1>19, <1>20, <1>23, <2>5
    <3> QED
      BY <1>6, <2>1, <2>2, <2>3, <2>5, <3>1
  <2> QED
    BY <2>4, <2>5
<1>24. Steered(d, risk, r)
  BY <1>21, <1>22, <1>23 DEF Steered
<1> QED
  BY <1>24 DEF r

(* The code behaviour: Split, buildAllocation and AllocateBps.  For every        *)
(* portfolio and contribution, the shares make up 100 %, the amounts the whole   *)
(* contribution up to one centavo, and no class is taken beyond its target by    *)
(* more than what basis points cannot tell apart.                                *)
THEOREM SplitCorrect == Spec => []SplitSteersToTarget
<1>1. ASSUME IndInv, Known PROVE SplitSteersToTarget
  <2> SUFFICES ASSUME Done("rebalance") PROVE Steered(dash, got.profile, report)
    BY Zenon DEF SplitSteersToTarget, Steered
  <2>1. got.computed
    BY <1>1 DEF IndInv, OnItsWay, Done
  <2>2. PICK F \in SUBSET FIIRows : \E Q \in Partial(QuoteOf) : Amounts(dash, F, Q)
    BY <1>1, <2>1, DashboardKnown
  <2>3. PICK Q \in Partial(QuoteOf) : Amounts(dash, F, Q)
    BY <2>2
  <2>4. report = Split(dash, got.profile, Contribution)
    BY <1>1 DEF Known, ReportKnown
  <2> QED
    BY <2>3, <2>4, SplitSteered
<1> QED
  BY <1>1, KnownCorrect, PTL
=============================================================================
