------------------------------- MODULE UserIds ------------------------------
(***************************************************************************)
(* What callers may rely on when they store a user id: an account has at   *)
(* most one id, keeps it until it is deleted, and never shares it with     *)
(* another account or gets it back afterwards.  Re-authorizations,         *)
(* refreshes and everything else about tokens leave the ids alone.         *)
(*                                                                         *)
(* The handlers of TokenRefresh and of OauthFlow both implement this.      *)
(***************************************************************************)
CONSTANTS Accounts, Users

VARIABLES
  ids,     \* per account, its user ids
  spent    \* ids that were ever given out

vars == <<ids, spent>>

Init == ids = [a \in Accounts |-> {}] /\ spent = {}

\* An account without an id gets one that nobody has had.
Born(a, u) ==
  /\ ids[a] = {} /\ u \notin spent
  /\ ids' = [ids EXCEPT ![a] = {u}]
  /\ spent' = spent \cup {u}

\* Some accounts lose their ids.
Gone ==
  /\ UNCHANGED spent
  /\ ids' \in [Accounts -> SUBSET Users]
  /\ \A a \in Accounts : ids'[a] \in {ids[a], {}}

Next == \/ Gone
        \/ \E a \in Accounts, u \in Users : Born(a, u)

Spec == Init /\ [][Next]_vars

-----------------------------------------------------------------------------
TypeOK == ids \in [Accounts -> SUBSET Users] /\ spent \subseteq Users

\* No account has two ids and no id two accounts; ids in use were given out.
OneToOne ==
  \A a, b \in Accounts : \A u \in ids[a], v \in ids[b] :
    u \in spent /\ (u = v <=> a = b)

=============================================================================
