----------------------------- MODULE TokenStore -----------------------------
(***************************************************************************)
(* The `tokens` table and the statements of repository.rs that read and    *)
(* write it, as operators from a table to a table.  Each statement is one  *)
(* SQLite autocommit, so a step of a handler applies exactly one of them.  *)
(*                                                                         *)
(* A grant (what one upstream response carries) is a positive number: the  *)
(* access token and the refresh token it brought are both named by it.     *)
(***************************************************************************)
EXTENDS Naturals

CONSTANTS
  Apps,      \* registered apps
  Accounts,  \* values of the unique key (app_id, external_account)
  AppOf,     \* the app_id half of each account
  Users,     \* values of tokens.id, a fresh UUID for every inserted row
  NoRow      \* what a query that matches nothing returns

None == 0   \* SQL NULL and Rust's Option::None; grants and clock start at 1

Row == [account : Accounts,       \* UNIQUE (app_id, external_account)
        access  : Nat \ {None},   \* the grant whose access token is stored
        refresh : Nat,            \* the grant whose refresh token is stored
        scopes  : Nat \ {None},   \* the grant whose scopes are stored
        expires : Nat]            \* expires_at

Table == [Users -> Row \cup {NoRow}]

ASSUME StoreAssumption ==
  /\ AppOf \in [Accounts -> Apps]
  /\ NoRow \notin Row
  /\ None \notin Users

EmptyTable == [u \in Users |-> NoRow]

\* Mutant of Expired: a token still counts as valid at its very expiry.
ExpiredLate(row, t) == row.expires # None /\ row.expires < t

\* is_expired in user_token: a row without an expiry never expires.
Expired(row, t) == row.expires # None /\ row.expires <= t

\* get_token: the row `u`, provided it belongs to `app`.
GetToken(table, app, u) ==
  IF table[u] # NoRow /\ AppOf[table[u].account] = app THEN table[u] ELSE NoRow

\* delete_token.
DeleteToken(table, app, u) ==
  IF GetToken(table, app, u) = NoRow THEN table ELSE [table EXCEPT ![u] = NoRow]

\* Mutant of DeleteTokensOf: rotating the key deletes nothing.
KeepTokensOf(table, app) == table

\* The DELETE of update_app: every row of the app whose key changes.
DeleteTokensOf(table, app) == [u \in Users |-> IF GetToken(table, app, u) = NoRow
                                               THEN table[u] ELSE NoRow]

\* Mutant of OrKeep: a new value never replaces a stored one.
KeepOld(new, old) == IF old = None THEN new ELSE old

\* Diesel's AsChangeset leaves a column alone when its Option is None.
OrKeep(new, old) == IF new = None THEN old ELSE new

\* The TokenRefresh changeset: scopes and account are not among its columns.
RefreshedRow(row, access, refresh, expires) ==
  [row EXCEPT !.access  = access,
              !.refresh = OrKeep(refresh, row.refresh),
              !.expires = OrKeep(expires, row.expires)]

\* save_refreshed_token, for a row that exists.
SaveRefreshed(table, u, access, refresh, expires) ==
  [table EXCEPT ![u] = RefreshedRow(table[u], access, refresh, expires)]

\* Mutant of Holders: the conflict is on app_id alone.
OfSameApp(table, account) ==
  {u \in Users : table[u] # NoRow /\ AppOf[table[u].account] = AppOf[account]}

\* The rows ON CONFLICT (app_id, external_account) would meet.
Holders(table, account) == {u \in Users : table[u] # NoRow /\ table[u].account = account}

\* The user ids of each account.
IdsOf(table) == [a \in Accounts |-> Holders(table, a)]

\* Mutant of UpsertIds: an id may be inserted again.
ReusedIds(table, used, account) ==
  IF Holders(table, account) # {} THEN Holders(table, account) ELSE Users

\* Mutant of UpsertIds: every login inserts a row.
AlwaysFresh(table, used, account) == Users \ used

\* The ids upsert_token may write: the row in conflict, or else a fresh one.
UpsertIds(table, used, account) ==
  IF Holders(table, account) # {} THEN Holders(table, account) ELSE Users \ used

\* What upsert_token writes: the new row, or the old one brought up to date.
UpsertedRow(old, row) ==
  IF old = NoRow THEN row
  ELSE [row EXCEPT !.refresh = OrKeep(row.refresh, old.refresh),
                   !.expires = OrKeep(row.expires, old.expires)]

\* upsert_token writing `row` at `u`: INSERT, or DO UPDATE keeping the id.
Upsert(table, u, row) == [table EXCEPT ![u] = UpsertedRow(table[u], row)]
=============================================================================
