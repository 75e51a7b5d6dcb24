--------------------------- MODULE MC_InsightCache ---------------------------
(* Instances of InsightCache for TLC. *)
EXTENDS InsightCache, TLC

CONSTANTS r1, r2, ann, bob, portfolio, allocation, market

ThreeCategories == <<portfolio, allocation, market>>

\* Every request comes from one user.
OneUser == {[r \in Request |-> ann]}

\* The requests come from one user, or the second from another.
OneOrTwoUsers == OneUser \union {[r \in Request |-> IF r = r2 THEN bob ELSE ann]}

=============================================================================
