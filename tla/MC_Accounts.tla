---------------------------- MODULE MC_Accounts ----------------------------
(* Two connections of one browser, whose cookie both of them use and change. *)
EXTENDS Accounts, TLC

CONSTANT Firefox
MC_BrowserOf == [c \in Connection |-> Firefox]
Symmetric == Permutations(Email) \cup Permutations(Password) \cup Permutations(Token)
             \cup Permutations(Content) \cup Permutations(Connection)
=============================================================================
