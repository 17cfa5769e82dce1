--------------------------- MODULE MCSetupScript ----------------------------
(* Values for the TLC runs of SetupScript. *)
EXTENDS SetupScript, TLC

CONSTANTS x1, x2, n1, c1, c2

\* Two runs of one script and one of the other.
BothScripts == (x1 :> "exact") @@ (x2 :> "exact") @@ (n1 :> "nmbrs")

\* The two runs of one script may swap their names, and so may connections.
Interchangeable == Permutations({x1, x2}) \cup Permutations({c1, c2})

=============================================================================
