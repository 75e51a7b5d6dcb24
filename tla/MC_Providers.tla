---------------------------- MODULE MC_Providers ----------------------------
(* Tables and charts with odd cells, tickers twice, amounts of no use and   *)
(* distributions of one day; and tables of one row whose cells hold any text *)
(* of up to MaxLength characters, against the number that the text denotes   *)
(* by the places of its digits.                                              *)
EXTENDS Providers

CONSTANTS Chars, MaxLength

Row(t, price, yield, pvp) == [ticker |-> t, price |-> price, yield |-> yield, pvp |-> pvp]
Paid(date, amount) == [date |-> date, amount |-> amount]

Good == <<"5", ",", "7", "5">>
Plain == <<"1", ".", "2">>
Zero == <<"0", ".", "0", "0", "4">>
Half == <<"0", ".", "0", "2", "5">>
One == <<"1", ".", "1">>
Dash == <<"-">>
Tiny == <<"5", "e", "-", "5">>
Percent == <<"1", ",", "5", "%">>

SmallTables ==
  LET Rows == {Row("A", Good, Percent, Half), Row("A", Plain, Dash, Dash),
               Row("A", Dash, Percent, Half), Row("B", Good, Dash, Half),
               Row(NoTicker, Good, Percent, Half)}
  IN  UNION {[1..n -> Rows] : n \in 0..3}
TablesOfText ==
  {<<Row("A", text, text, text)>> : text \in UNION {[1..n -> Chars] : n \in 0..MaxLength}}
MC_Tables == SmallTables \cup TablesOfText
MC_Charts ==
  {{}, {Paid(2, Half)}, {Paid(1, Half), Paid(2, One)}, {Paid(1, One), Paid(2, Zero)},
   {Paid(1, Half), Paid(3, Tiny), Paid(2, One)},
   {Paid(1, Zero), Paid(3, Half), Paid(3, One)}}

MC_Init ==
  /\ \/ /\ table \in SmallTables /\ askedFor \in SUBSET Fund
        /\ chart \in [Fund -> Charts]
     \/ /\ table \in TablesOfText /\ askedFor = Fund /\ chart = [t \in Fund |-> {}]
  /\ CallInit
MC_Spec == MC_Init /\ [][CallNext]_callVars
=============================================================================
