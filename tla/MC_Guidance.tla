----------------------------- MODULE MC_Guidance -----------------------------
(***************************************************************************)
(* A small instance of Guidance: two requests of one user or of two, and a *)
(* portfolio that is empty or has too much in FIIs, whose splits are those *)
(* of Figures: 3000 and 7000 basis points of any contribution to the empty *)
(* one, and to the other all for fixed income of the small contribution,   *)
(* 2143 and 7857 of the large one.                                         *)
(***************************************************************************)
EXTENDS Guidance, TLC

CONSTANTS r1, r2, u1, u2, HGLG11, KNRI11, Unset

F == INSTANCE Figures

TwoRequests == {r1, r2}
TwoUsers == {u1, u2}
OneUser == {[r \in TwoRequests |-> u1]}
OneOrTwoUsers == OneUser \cup {r1 :> u1 @@ r2 :> u2}
OneTicker == {HGLG11}
TwoTickers == {HGLG11, KNRI11}
Bases == {"empty", "fiis"}
Contributions == {100, 350}
Large == [contribution |-> 350, withShares |-> TRUE]
SameOrOther == {r1 :> Large @@ r2 :> [Large EXCEPT !.contribution = c,
                                                   !.withShares = FALSE] :
                   c \in Contributions}
Results == {<< >>, <<Other>>, <<HGLG11, Other, HGLG11>>}

Dashboard(b) ==
    IF b = "empty"
    THEN [current |-> 0, value |-> [c \in Area |-> 0],
          share |-> [c \in Area |-> 0]]
    ELSE [current |-> 1000, value |-> "fii" :> 600 @@ "fixed_income" :> 400,
          share |-> "fii" :> 6000 @@ "fixed_income" :> 4000]

Risk(b) == IF b = "empty" THEN "conservative" ELSE Unset

\* Written out, for TLC to look up.
Splits ==
    "empty" :> [c \in Contributions |->
                   "fii" :> 3000 @@ "fixed_income" :> 7000]
    @@ "fiis" :> (100 :> ("fii" :> 0 @@ "fixed_income" :> 10000)
                  @@ 350 :> ("fii" :> 2143 @@ "fixed_income" :> 7857))

ASSUME SplitsAreOfFigures ==
    \A b \in Bases, c \in Contributions :
        LET split == F!Split(Dashboard(b), Risk(b), c).shares
        IN  Splits[b][c] = "fii" :> split[1] @@ "fixed_income" :> split[2]
=============================================================================
