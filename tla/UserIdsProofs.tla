--------------------------- MODULE UserIdsProofs ----------------------------
(***************************************************************************)
(* What the abstract specification of user ids promises its readers.       *)
(***************************************************************************)
EXTENDS UserIds, TLAPS

\* Neither do two accounts ever share an id, nor has an account two of them: an
\* id that a caller stored keeps standing for the same account (UserIds is what
\* user_token, callback and the tables' UNIQUE key implement).
THEOREM IdsAreOneToOne == Spec => [](TypeOK /\ OneToOne)
<1>1. Init => TypeOK /\ OneToOne
  BY DEF Init, TypeOK, OneToOne
<1>2. TypeOK /\ OneToOne /\ [Next]_vars => (TypeOK /\ OneToOne)'
  <2> SUFFICES ASSUME TypeOK, OneToOne, [Next]_vars PROVE (TypeOK /\ OneToOne)'
    OBVIOUS
  <2>1. CASE Gone
    BY <2>1 DEF Gone, TypeOK, OneToOne
  <2>2. ASSUME NEW a \in Accounts, NEW u \in Users, Born(a, u)
        PROVE  (TypeOK /\ OneToOne)'
    <3>1. TypeOK'
      BY <2>2 DEF Born, TypeOK
    <3>2. \A b \in Accounts : ids'[b] = IF b = a THEN {u} ELSE ids[b]
      BY <2>2 DEF Born, TypeOK
    <3>3. \A b \in Accounts : u \notin ids[b]
      BY <2>2 DEF Born, OneToOne
    <3>4. spent' = spent \cup {u} /\ ids[a] = {}
      BY <2>2 DEF Born
    <3> QED
      BY <3>1, <3>2, <3>3, <3>4 DEF OneToOne
  <2>3. CASE UNCHANGED vars
    BY <2>3 DEF vars, TypeOK, OneToOne
  <2> QED
    BY <2>1, <2>2, <2>3 DEF Next
<1> QED
  BY <1>1, <1>2, PTL DEF Spec
=============================================================================
