--------------------------- MODULE MCTokenRefresh ---------------------------
(***************************************************************************)
(* Model-checking values for TokenRefresh.                                 *)
(***************************************************************************)
EXTENDS TokenRefresh, TLC

CONSTANTS a1, a2,   \* accounts
          p1        \* the app both belong to

OneAccount  == {a1}
TwoAccounts == {a1, a2}

AppOfOne == [a \in OneAccount |-> p1]
AppOfTwo == [a \in TwoAccounts |-> p1]

\* Interchangeable callers, ids and keys (safety runs only).
Symmetry == Permutations(Requests) \cup Permutations(Users) \cup Permutations(Keys)
=============================================================================
