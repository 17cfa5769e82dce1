--------------------------- MODULE MCPooledRefresh ---------------------------
(* Model-checking values for PooledRefresh. *)
EXTENDS PooledRefresh

CONSTANTS a1, a2,   \* accounts
          p1        \* the app both belong to

TwoAccounts == {a1, a2}
AppOfTwo    == [a \in TwoAccounts |-> p1]
=============================================================================
