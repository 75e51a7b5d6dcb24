------------------------------ MODULE Decimals ------------------------------
(***************************************************************************)
(* money.DecimalToMinor: the decimal numbers of the market-data sites, as  *)
(* integers scaled by a power of ten.  A text is a sequence of characters, *)
(* without the blanks around it.                                           *)
(***************************************************************************)
EXTENDS Money, SequencesExt

CONSTANTS MaxInt,                  \* the largest integer, math.MaxInt64
          Invalid                  \* ErrInvalidDecimal

ASSUME DecimalsAssumption == MaxInt \in Nat /\ Invalid \notin -MaxInt..MaxInt

Digits == <<"0", "1", "2", "3", "4", "5", "6", "7", "8", "9">>
Dot == "."
Comma == ","
Minus == "-"
Signs == {Minus, "+"}
IsDigits(s) == ToSet(s) \subseteq ToSet(Digits)
DigitValue(c) == (CHOOSE n \in DOMAIN Digits : Digits[n] = c) - 1
ParseInt(s) ==
  LET read[i \in 0..Len(s)] == IF i = 0 THEN 0 ELSE 10 * read[i - 1] + DigitValue(s[i])
  IN  read[Len(s)]

Unsigned(s) == IF s # << >> /\ s[1] \in Signs THEN Tail(s) ELSE s

\* With a comma in it, dots separate thousands: they go, and commas become dots.
Normalized(s) ==
  LET text[i \in 0..Len(s)] ==
        IF i = 0 THEN << >>
        ELSE IF s[i] = Dot THEN text[i - 1]
        ELSE Append(text[i - 1], IF s[i] = Comma THEN Dot ELSE s[i])
  IN  IF Comma \in ToSet(s) THEN text[Len(s)] ELSE s

\* strings.Cut at the first dot, which the end stands in for.
Point(s) == Min({i \in DOMAIN s : s[i] = Dot} \cup {Len(s) + 1})

\* Faulty variant of RoundUp: only what is above one half rounds up.
RoundUpAbove(frac, scale) == Len(frac) > scale /\ DigitValue(frac[scale + 1]) > 5

RoundUp(frac, scale) == Len(frac) > scale /\ DigitValue(frac[scale + 1]) >= 5

DecimalToMinor(s, scale) ==
  LET text  == Normalized(Unsigned(s))
      whole == SubSeq(text, 1, Point(text) - 1)
      frac  == SubSeq(text, Point(text) + 1, Len(text))
      kept  == [i \in 1..scale |-> IF i <= Len(frac) THEN frac[i] ELSE "0"]
      minor == ParseInt(whole \o kept) + (IF RoundUp(frac, scale) THEN 1 ELSE 0)
  IN  CASE whole \o frac = << >> -> Invalid
        [] ~IsDigits(whole \o frac) -> Invalid
        [] OTHER -> IF minor > MaxInt THEN Invalid
                    ELSE IF s[1] = Minus THEN -minor ELSE minor

-----------------------------------------------------------------------------
(* The number a text denotes by the places of its digits. *)
Ten(n) ==
  LET power[i \in 0..n] == IF i = 0 THEN 1 ELSE 10 * power[i - 1]
  IN  power[n]

At(s, chars) == {i \in DOMAIN s : s[i] \in chars}
DigitsAt(s) == At(s, ToSet(Digits))
DigitsAfter(s, i) == Cardinality({j \in DigitsAt(s) : j > i})

\* The decimal mark is a comma, or a dot where there is no comma.
Marks(s) == IF At(s, {Comma}) # {} THEN At(s, {Comma}) ELSE At(s, {Dot})
IsNumber(s) ==
  /\ DigitsAt(s) # {} /\ Cardinality(Marks(s)) <= 1
  /\ DOMAIN s \subseteq DigitsAt(s) \cup At(s, {Comma, Dot}) \cup (At(s, Signs) \cap {1})
Places(s) == IF Marks(s) = {} THEN 0 ELSE DigitsAfter(s, Max(Marks(s)))
Numerator(s) == SumFunction([i \in DigitsAt(s) |-> DigitValue(s[i]) * Ten(DigitsAfter(s, i))])

\* That number, rounded as Money rounds.
Denoted(s, scale) ==
  LET amount == HalfUp(Numerator(s) * Ten(scale), Ten(Places(s)))
  IN  IF ~IsNumber(s) \/ amount > MaxInt THEN Invalid
      ELSE IF s[1] = Minus THEN -amount ELSE amount
=============================================================================
