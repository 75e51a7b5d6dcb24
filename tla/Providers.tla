------------------------------ MODULE Providers ------------------------------
(***************************************************************************)
(* One call of fii.Composite: the fundamentals of the tickers asked for    *)
(* from one table (Fundamentus), then for each quote, in the order of a Go *)
(* map, the last dividend from a chart (Yahoo), itself a map walked in any *)
(* order.  Texts are parsed by DecimalToMinor.                             *)
(*                                                                         *)
(*   row           [ticker, price, yield, pvp]                             *)
(*   distribution  [date, amount], the date an instant                     *)
(***************************************************************************)
EXTENDS Decimals

CONSTANTS
  Fund,                   \* the tickers of FIIs
  NoTicker,               \* a cell that is no ticker
  Tables,                 \* what the table may be: sequences of rows
  Charts,                 \* the distributions a ticker's chart may have: sets
  DayLength

IsSequence(s) == s \in Seq(ToSet(s))

ASSUME ProvidersAssumption ==
  /\ NoTicker \notin Fund /\ DayLength \in Nat \ {0}
  /\ \A table \in Tables :
       /\ IsSequence(table)
       /\ \A row \in ToSet(table) :
            /\ row.ticker \in Fund \cup {NoTicker}
            /\ IsSequence(row.price) /\ IsSequence(row.yield) /\ IsSequence(row.pvp)
  /\ \A chart \in Charts : \A d \in chart : d.date \in Nat /\ IsSequence(d.amount)

VARIABLES
  askedFor, table, chart, \* the tickers asked for; what the sites have
  stage,
  answer,                 \* the map the call returns
  todo,                   \* keys the loop over it has not come to
  current,                \* the ticker whose chart is read
  left,                   \* its distributions not yet walked over
  latest,                 \* the latest of those walked over
  failed                  \* history: tickers whose chart could not be read
sites == <<askedFor, table, chart>>
lookup == <<current, left, latest>>
callVars == <<sites, stage, answer, todo, lookup, failed>>

NoDistribution == [date |-> 0, amount |-> << >>]
NoQuotes == [t \in {} |-> 0]
NoDay == -1
Day(date) == date \div DayLength

CallInit ==
  /\ askedFor \in SUBSET Fund /\ table \in Tables /\ chart \in [Fund -> Charts]
  /\ stage = "fundamentals" /\ answer = NoQuotes /\ todo = {}
  /\ current = NoTicker /\ left = {} /\ latest = NoDistribution /\ failed = {}

-----------------------------------------------------------------------------
(* Fundamentus *)

StripPercent(s) == IF s # << >> /\ Last(s) = "%" THEN Front(s) ELSE s
OrZero(amount) == IF amount = Invalid THEN 0 ELSE amount

\* Faulty variant of Usable: an odd yield drops the row.
UsableInFull(row) ==
  /\ row.ticker \in askedFor /\ DecimalToMinor(row.price, 2) # Invalid
  /\ DecimalToMinor(StripPercent(row.yield), 2) # Invalid

\* A row needs a ticker that was asked for and a price; anything else may be odd.
Usable(row) == row.ticker \in askedFor /\ DecimalToMinor(row.price, 2) # Invalid

RowToQuote(row) ==
  [price    |-> DecimalToMinor(row.price, 2),
   yield    |-> OrZero(DecimalToMinor(StripPercent(row.yield), 2)),
   pvp      |-> OrZero(DecimalToMinor(row.pvp, 4)),
   dividend |-> 0, paid |-> NoDay]

\* Of several rows of one ticker the last stays.
ReadTable ==
  /\ stage = "fundamentals" /\ table # << >>
  /\ LET usable == {i \in DOMAIN table : Usable(table[i])}
         RowOf(t) == table[Max({i \in usable : table[i].ticker = t})]
     IN  answer' = [t \in {table[i].ticker : i \in usable} |-> RowToQuote(RowOf(t))]
  /\ todo' = DOMAIN answer' /\ stage' = "dividends"
  /\ UNCHANGED <<sites, lookup, failed>>

\* No answer, or a table without rows.
TableFails ==
  /\ stage = "fundamentals" /\ stage' = "failed"
  /\ UNCHANGED <<sites, answer, todo, lookup, failed>>

-----------------------------------------------------------------------------
(* Yahoo *)

ReadChart(t) ==
  /\ stage = "dividends" /\ t \in todo /\ todo' = todo \ {t}
  /\ current' = t /\ left' = chart[t] /\ latest' = NoDistribution
  /\ stage' = "latest"
  /\ UNCHANGED <<sites, answer, failed>>

ChartFails(t) ==
  /\ stage = "dividends" /\ t \in todo /\ todo' = todo \ {t}
  /\ failed' = failed \cup {t}
  /\ UNCHANGED <<sites, stage, answer, lookup>>

\* Faulty variant of WalkOver: the map is taken to be in the order of time.
WalkOverInOrder(d) ==
  /\ stage = "latest" /\ d \in left /\ left' = left \ {d}
  /\ latest' = d
  /\ UNCHANGED <<sites, stage, answer, todo, current, failed>>

WalkOver(d) ==
  /\ stage = "latest" /\ d \in left /\ left' = left \ {d}
  /\ latest' = IF d.date >= latest.date THEN d ELSE latest
  /\ UNCHANGED <<sites, stage, answer, todo, current, failed>>

\* An empty chart has an empty amount, which is no number either.
Enrich ==
  /\ stage = "latest" /\ left = {}
  /\ LET cents == OrZero(DecimalToMinor(latest.amount, 2))
     IN  answer' = IF cents > 0
                   THEN [answer EXCEPT ![current].dividend = cents,
                                       ![current].paid = Day(latest.date)]
                   ELSE answer
  /\ stage' = "dividends"
  /\ UNCHANGED <<sites, todo, lookup, failed>>

Return ==
  /\ stage = "dividends" /\ todo = {} /\ stage' = "done"
  /\ UNCHANGED <<sites, answer, todo, lookup, failed>>

CallNext ==
  \/ ReadTable \/ TableFails \/ Enrich \/ Return
  \/ \E t \in Fund : ReadChart(t) \/ ChartFails(t)
  \/ \E d \in left : WalkOver(d)
CallSpec == CallInit /\ [][CallNext]_callVars

-----------------------------------------------------------------------------
(* What the sites publish of a ticker. *)
Priced(t) == {row \in ToSet(table) : row.ticker = t /\ Denoted(row.price, 2) # Invalid}
Figures(row) == <<Denoted(row.price, 2), OrZero(Denoted(StripPercent(row.yield), 2)),
                  OrZero(Denoted(row.pvp, 4))>>
Newest(t) == {d \in chart[t] : \A e \in chart[t] : e.date <= d.date}
NothingPaid == <<0, NoDay>>
LastPaid(d) == LET cents == OrZero(Denoted(d.amount, 2))
               IN  IF cents > 0 THEN <<cents, Day(d.date)>> ELSE NothingPaid

\* The code behaviour: rowToQuote with DecimalToMinor, whose doc and ratio.go's speak of
\* one rounding rule; FetchFIIQuotes of Composite; and FetchLastDividend.  Each ticker
\* asked for with a row whose price is a number that fits, and no other, has the figures
\* one such row denotes, in either notation: an odd cell, or a carry too far, costs that
\* figure alone.  In whatever order charts and distributions are walked, it has the
\* amount and the day of one of its own latest distributions, or neither, if its chart
\* could not be read or that amount is no positive number.
QuotesAsPublished ==
  stage = "done" =>
    /\ DOMAIN answer = {t \in askedFor : Priced(t) # {}}
    /\ \A t \in DOMAIN answer :
         /\ <<answer[t].price, answer[t].yield, answer[t].pvp>>
              \in {Figures(row) : row \in Priced(t)}
         /\ <<answer[t].dividend, answer[t].paid>>
              \in IF t \in failed \/ Newest(t) = {} THEN {NothingPaid}
                  ELSE {LastPaid(d) : d \in Newest(t)}
=============================================================================
