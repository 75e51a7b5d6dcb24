--------------------------- MODULE MC_ChatThreads ---------------------------
(***************************************************************************)
(* Small instances of ChatThreads for TLC: who sends which turn.           *)
(***************************************************************************)
EXTENDS ChatThreads, TLC

CONSTANTS u1, u2, r1, r2, r3

\* Turns of one user, in several tabs.
OneUser == [r \in Turn |-> u1]

\* Two turns of one user and one of another: isolation between them.
TwoUsers == [r \in Turn |-> IF r = r3 THEN u2 ELSE u1]

\* Turns of the same user are interchangeable.
TwoUsersSymmetry == Permutations({r1, r2})
=============================================================================
