---------------------------- MODULE MCOauthFlow -----------------------------
(***************************************************************************)
(* Model-checking values for OauthFlow.                                    *)
(***************************************************************************)
EXTENDS OauthFlow, TLC

AllAccounts == Apps \X (Hints \cup Flows)
AppOfPair   == [a \in AllAccounts |-> a[1]]

\* Interchangeable handlers, ids, flows and apps (safety runs only).
Symmetry == Permutations(Callbacks) \cup Permutations(Redeemers) \cup Permutations(Users)
              \cup Permutations(Flows) \cup Permutations(Apps)
=============================================================================
