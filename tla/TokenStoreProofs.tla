-------------------------- MODULE TokenStoreProofs --------------------------
(***************************************************************************)
(* Lemmas about the statements of TokenStore: what they return, and what   *)
(* they do to the ids of the accounts.                                     *)
(***************************************************************************)
EXTENDS TokenStore, TLAPS

-----------------------------------------------------------------------------
(* The statements of the tokens table *)

\* What a query returns is a row or nothing.
LEMMA GetTokenType ==
  ASSUME NEW table \in Table, NEW app, NEW u \in Users
  PROVE  /\ GetToken(table, app, u) \in Row \cup {NoRow}
         /\ GetToken(table, app, u) # NoRow => GetToken(table, app, u) = table[u]
BY DEF Table, GetToken

\* Deleting one user leaves a table, and touches no other user.
LEMMA DeleteTokenType ==
  ASSUME NEW table \in Table, NEW app, NEW u \in Users
  PROVE  DeleteToken(table, app, u) \in Table
BY DEF Table, DeleteToken

LEMMA DeleteTokensOfType ==
  ASSUME NEW table \in Table, NEW app
  PROVE  DeleteTokensOf(table, app) \in Table
BY DEF Table, DeleteTokensOf

\* Saving a refreshed token keeps the row a row.
LEMMA SaveRefreshedType ==
  ASSUME NEW table \in Table, NEW u \in Users, table[u] # NoRow,
         NEW access \in Nat \ {None}, NEW refresh \in Nat, NEW expires \in Nat
  PROVE  /\ SaveRefreshed(table, u, access, refresh, expires) \in Table
         /\ SaveRefreshed(table, u, access, refresh, expires)[u] \in Row
         /\ SaveRefreshed(table, u, access, refresh, expires)[u].account = table[u].account
         /\ \A v \in Users \ {u} :
              SaveRefreshed(table, u, access, refresh, expires)[v] = table[v]
<1>1. table[u] \in Row
  BY DEF Table
<1>2. /\ RefreshedRow(table[u], access, refresh, expires) \in Row
      /\ RefreshedRow(table[u], access, refresh, expires).account = table[u].account
  BY <1>1 DEF Row, RefreshedRow, OrKeep
<1> QED
  BY <1>2 DEF Table, SaveRefreshed

\* So does a login, which also decides the account of the row.
LEMMA UpsertType ==
  ASSUME NEW table \in Table, NEW u \in Users, NEW row \in Row,
         table[u] = NoRow \/ table[u].account = row.account
  PROVE  /\ Upsert(table, u, row) \in Table
         /\ Upsert(table, u, row)[u] \in Row
         /\ Upsert(table, u, row)[u].account = row.account
         /\ \A v \in Users \ {u} : Upsert(table, u, row)[v] = table[v]
<1>1. table[u] \in Row \cup {NoRow}
  BY DEF Table
<1>2. UpsertedRow(table[u], row) \in Row /\ UpsertedRow(table[u], row).account = row.account
  BY <1>1 DEF Row, UpsertedRow, OrKeep
<1> QED
  BY <1>2 DEF Table, Upsert

-----------------------------------------------------------------------------
(* The ids of the accounts *)

\* UNIQUE (app_id, external_account).
OneRowPerAccount(table) ==
  \A u, v \in Users :
    table[u] # NoRow /\ table[v] # NoRow /\ table[u].account = table[v].account => u = v

\* Every row has an id that was inserted at some time.
RowsUsed(table, used) == \A u \in Users : table[u] # NoRow => u \in used

LEMMA EmptyIds ==
  /\ OneRowPerAccount(EmptyTable) /\ RowsUsed(EmptyTable, {})
  /\ IdsOf(EmptyTable) = [a \in Accounts |-> {}]
BY DEF OneRowPerAccount, RowsUsed, EmptyTable, IdsOf, Holders

\* A statement that writes other columns than the account.
LEMMA SameIds ==
  ASSUME NEW table, NEW new, OneRowPerAccount(table),
         \A u \in Users : \/ new[u] = table[u]
                          \/ /\ table[u] # NoRow /\ new[u] # NoRow
                             /\ new[u].account = table[u].account
  PROVE  OneRowPerAccount(new) /\ IdsOf(new) = IdsOf(table)
BY DEF OneRowPerAccount, IdsOf, Holders

\* A statement that deletes rows.
LEMMA FewerIds ==
  ASSUME NEW table, NEW new, OneRowPerAccount(table),
         \A u \in Users : new[u] \in {table[u], NoRow}
  PROVE  /\ OneRowPerAccount(new)
         /\ \A a \in Accounts : IdsOf(new)[a] \in {IdsOf(table)[a], {}}
         /\ \A used : RowsUsed(table, used) => RowsUsed(new, used)
<1>1. OneRowPerAccount(new) /\ \A used : RowsUsed(table, used) => RowsUsed(new, used)
  BY DEF OneRowPerAccount, RowsUsed
<1>2. ASSUME NEW a \in Accounts, Holders(new, a) # {}
      PROVE  Holders(new, a) = Holders(table, a)
  <2>1. PICK u \in Users : new[u] # NoRow /\ new[u].account = a
    BY <1>2 DEF Holders
  <2>2. table[u] = new[u]
    BY <2>1
  <2>3. \A v \in Users : table[v] # NoRow /\ table[v].account = a => v = u
    BY <2>1, <2>2 DEF OneRowPerAccount
  <2> QED
    BY <2>1, <2>2, <2>3 DEF Holders
<1> QED
  BY <1>1, <1>2 DEF IdsOf

\* From `table` to `new`, all ids stay, or the account without one gets a fresh one.
KeepsOrBears(table, used, a, u, new) ==
  \/ IdsOf(new) = IdsOf(table) /\ used \cup {u} = used
  \/ /\ IdsOf(table)[a] = {} /\ u \in Users \ used
     /\ IdsOf(new) = [IdsOf(table) EXCEPT ![a] = {u}]

\* An upsert does one or the other, and keeps the table's unique key.
LEMMA UpsertedIds ==
  ASSUME NEW table \in Table, NEW used, NEW a \in Accounts, NEW u \in UpsertIds(table, used, a),
         NEW row \in Row, row.account = a, OneRowPerAccount(table), RowsUsed(table, used)
  PROVE  LET new == Upsert(table, u, row) IN
         /\ new \in Table /\ new[u] \in Row /\ new[u].account = a
         /\ \A v \in Users \ {u} : new[v] = table[v]
         /\ OneRowPerAccount(new) /\ RowsUsed(new, used \cup {u})
         /\ KeepsOrBears(table, used, a, u, new)
<1> DEFINE new == Upsert(table, u, row)
<1>1. /\ u \in Users
      /\ table[u] = NoRow \/ table[u].account = a
  BY DEF UpsertIds, Holders, RowsUsed
<1>2. /\ new \in Table /\ new[u] \in Row /\ new[u].account = a
      /\ \A v \in Users \ {u} : new[v] = table[v]
  BY <1>1, UpsertType
<1> HIDE DEF new
<1>3. new[u] # NoRow
  BY <1>2, StoreAssumption
<1>4. CASE Holders(table, a) # {}
  <2>1. table[u] # NoRow /\ table[u].account = a
    BY <1>4 DEF UpsertIds, Holders
  <2>2. OneRowPerAccount(new) /\ IdsOf(new) = IdsOf(table)
    BY <1>2, <1>3, <2>1, SameIds
  <2>3. u \in used
    BY <1>1, <2>1 DEF RowsUsed
  <2>4. RowsUsed(new, used \cup {u})
    BY <1>2 DEF RowsUsed
  <2> QED
    BY <1>2, <2>2, <2>3, <2>4 DEF KeepsOrBears, new
<1>5. CASE Holders(table, a) = {}
  <2>1. u \notin used /\ table[u] = NoRow
    BY <1>1, <1>5 DEF UpsertIds, RowsUsed
  <2>2. \A v \in Users : table[v] # NoRow => table[v].account # a
    BY <1>5 DEF Holders
  <2>3. OneRowPerAccount(new) /\ RowsUsed(new, used \cup {u})
    BY <1>2, <2>1, <2>2 DEF OneRowPerAccount, RowsUsed
  <2>4. Holders(new, a) = {u}
    BY <1>1, <1>2, <1>3, <2>2 DEF Holders
  <2>5. ASSUME NEW b \in Accounts \ {a}
        PROVE  Holders(new, b) = Holders(table, b)
    BY <1>2, <2>1 DEF Holders
  <2>6. IdsOf(new) = [IdsOf(table) EXCEPT ![a] = {u}]
    BY <2>4, <2>5 DEF IdsOf
  <2>7. IdsOf(table)[a] = {}
    BY <1>5 DEF IdsOf
  <2> QED
    BY <1>1, <1>2, <2>1, <2>3, <2>6, <2>7 DEF KeepsOrBears, new
<1> QED
  BY <1>4, <1>5

=============================================================================
