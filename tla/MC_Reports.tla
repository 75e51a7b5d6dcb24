----------------------------- MODULE MC_Reports -----------------------------
(* A small portfolio: one ticker held twice or two tickers, a daily CDB at a   *)
(* share of the CDI and a bond on inflation, which may be negative.            *)
EXTENDS Reports

Fii(i, t, n, cost) == [id |-> i, ticker |-> t, quantity |-> n, averagePrice |-> cost]
MC_FIIRows == {Fii(1, "A", 3, 1000), Fii(2, "A", 1, 1100), Fii(2, "B", 7, 333)}

MC_FixedRows ==
  {[id |-> 1, invested |-> 2000, rate |-> 11000, indexer |-> "cdi_percentual",
    daily |-> TRUE, created |-> 0],
   [id |-> 2, invested |-> 3001, rate |-> 600, indexer |-> "ipca_spread",
    daily |-> FALSE, created |-> 7]}

Quoted(price, dividend, sector) ==
  [price |-> price, dividend |-> dividend, sector |-> sector]
MC_QuoteOf == [A |-> {Quoted(1200, 9, "logistics")},
               B |-> {Quoted(290, 2, "paper")}]
MC_ReadingOf == [cdi |-> {1050}, ipca |-> {-50}, selic |-> {1500}]
=============================================================================
