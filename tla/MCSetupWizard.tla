--------------------------- MODULE MCSetupWizard ----------------------------
(***************************************************************************)
(* Model-checking values for SetupWizard.                                  *)
(***************************************************************************)
EXTENDS SetupWizard, TLC

CONSTANTS w1,   \* the suggested URL
          n1    \* the suggested name

\* Interchangeable handlers and key pairs.
Symmetry == Permutations(Submits) \cup Permutations(KeyPairs)
=============================================================================
