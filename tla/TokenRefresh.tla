---------------------------- MODULE TokenRefresh ----------------------------
(***************************************************************************)
(* GET /apps/{app}/users/{user}/token: handing out a usable access token,  *)
(* refreshing it upstream first when the stored one has expired.           *)
(*                                                                         *)
(* Handlers run on different tokio threads and interleave between any two  *)
(* database statements; they wait at two await points, the refresh lock    *)
(* and the provider's answer.  Around them: the provider itself, a login   *)
(* (the callback's exchange and upsert, which takes no refresh lock), the  *)
(* admin endpoints that delete rows, and the faults named in `Env`.        *)
(***************************************************************************)
EXTENDS TokenStore, Sequences, FiniteSets

CONSTANTS
  Requests,   \* concurrent calls, each with a pooled connection (PooledRefresh)
  Keys,       \* public keys an app may be given
  Env,        \* the environment events that may happen, a subset of AllEnv
  TTL,        \* expires_in of every upstream response that has one
  MaxTime,    \* bound on the clock
  MaxGrants   \* bound on the upstream responses that mint tokens

AllEnv == {"delete",       \* DELETE /users/{user}, or a revoke
           "rotateKey",    \* PATCH /apps/{app} with another public_key
           "reauth",       \* a login for an account that already has a row
           "sameRefresh",  \* the provider keeps the refresh token it is shown
           "noExpiresIn",  \* an upstream response without expires_in
           "noRefresh",    \* a login response without a refresh token
           "unreachable",  \* a refresh request the provider never processes
           "lostAnswer",   \* a refresh answer lost on its way back
           "disconnect",   \* the client goes away: the handler is dropped
           "restart",      \* the process dies and comes back
           "busy"}         \* save_refreshed_token fails (SQLITE_BUSY)

ASSUME RefreshAssumption ==
  /\ Env \subseteq AllEnv
  /\ TTL \in Nat \ {0} /\ MaxTime \in Nat /\ MaxGrants \in Nat

VARIABLES
  now,      \* the clock
  key,      \* apps.public_key of each app
  tokens,   \* the tokens table
  used,     \* ids that were ever inserted
  grants,   \* provider: every grant minted so far, in order
  live,     \* provider: grants whose refresh token still works
  orphans,  \* refresh requests on the wire that nobody waits for any more
  login,    \* per account, the grant a callback holds and has not stored
  queue,    \* per user, the refresh lock: its head holds it, the rest wait
  h,        \* per request, the handler's locals
  out       \* per request, the last response

db       == <<key, tokens, used>>
provider == <<grants, live, orphans>>
vars     == <<now, db, provider, login, queue, h, out>>

-----------------------------------------------------------------------------
(* Handler locals and responses *)

Pc == {"idle", "getToken", "lock", "waiting", "calling", "answered"}

\* What oauth_client::refresh returns; grant None is an Err.
Err    == [grant |-> None, refresh |-> None, ttl |-> None]
Answer == {Err} \cup [grant : Nat \ {None}, refresh : Nat, ttl : {None, TTL}]

Local == [pc : Pc, app : Apps \cup {None}, user : Users \cup {None},
          key : Keys \cup {None},   \* app.public_key as read at the start
          asOf : Nat,               \* the clock as last read
          refresh : Nat,            \* the refresh token of the row as re-read
          ans : Answer]
Idle  == [pc |-> "idle", app |-> None, user |-> None, key |-> None,
          asOf |-> None, refresh |-> None, ans |-> Err]

Response   == [status : {None, 200, 404, 409, 500}, access : Nat, expires : Nat,
               key : Keys \cup {None}, asOf : Nat]
NoResponse == [status |-> None, access |-> None, expires |-> None,
               key |-> None, asOf |-> None]
Fail(code) == [NoResponse EXCEPT !.status = code]

\* The token sealed to the key the handler read when it started.
Sealed(r, row, t) == [status |-> 200, access |-> row.access, expires |-> row.expires,
                      key |-> h[r].key, asOf |-> t]

Grant == [lineage : Nat \ {None},   \* the login this grant descends from
          refreshed : BOOLEAN,      \* minted by a refresh, not by a login
          until : Nat]              \* when its access token really expires

\* Handlers that may still bring a grant about.
Pending == {r \in Requests : h[r].pc \notin {"idle", "answered"}}

\* Bound: no call or login starts that could need a grant beyond MaxGrants.
Budget == Len(grants) + Cardinality(Pending) < MaxGrants

\* `Accounts` without a row may log in at any time, the others with "reauth".
MayLogin(a) == Holders(tokens, a) = {} \/ "reauth" \in Env

Init ==
  /\ now = 1
  /\ key \in [Apps -> Keys]
  /\ tokens = EmptyTable /\ used = {}
  /\ grants = <<>> /\ live = {} /\ orphans = {}
  /\ login = [a \in Accounts |-> None]
  /\ queue = [u \in Users |-> <<>>]
  /\ h = [r \in Requests |-> Idle]
  /\ out = [r \in Requests |-> NoResponse]

-----------------------------------------------------------------------------
(* The refresh lock: a tokio Mutex per (app, user), first come first served *)

\* Mutant of LockOf: one lock for all users.
OneLock(u) == CHOOSE v \in Users : TRUE

\* The lock a handler for `u` takes.
LockOf(u) == u

\* Mutant of Holds: nobody waits for the lock.
NoLock(r) == TRUE

\* The lock is granted to the head of its queue.
Holds(r) == LET q == queue[LockOf(h[r].user)] IN q # <<>> /\ Head(q) = r

\* The guard is dropped: the next waiter holds the lock.
Release(r) == queue' = [queue EXCEPT ![LockOf(h[r].user)] = Tail(@)]

\* Mutant of Without: whoever leaves, the head goes.
WithoutHead(q, i) == Tail(q)

\* Mutant of Without: a dropped waiter keeps its place.
WithGhost(q, i) == q

\* `q` without its i-th element: a waiter that is dropped leaves the queue.
Without(q, i) == [j \in 1..(Len(q) - 1) |-> IF j < i THEN q[j] ELSE q[j + 1]]

Respond(r, response) == /\ out' = [out EXCEPT ![r] = response]
                        /\ h' = [h EXCEPT ![r] = Idle]

-----------------------------------------------------------------------------
(* user_token *)

\* The call arrives: pool.get() and get_app, whose public key it will seal to.
Arrive(r, app, u) ==
  /\ h[r].pc = "idle" /\ Budget
  /\ h' = [h EXCEPT ![r] = [Idle EXCEPT !.pc = "getToken", !.app = app,
                                        !.user = u, !.key = key[app]]]
  /\ out' = [out EXCEPT ![r] = NoResponse]
  /\ UNCHANGED <<now, db, provider, login, queue>>

\* get_token: answer at once, unless the stored token has expired.
LoadToken(r) ==
  LET row == GetToken(tokens, h[r].app, h[r].user) IN
  /\ h[r].pc = "getToken"
  /\ \/ row = NoRow /\ Respond(r, Fail(404))
     \/ row # NoRow /\ ~Expired(row, now) /\ Respond(r, Sealed(r, row, now))
     \/ /\ row # NoRow /\ Expired(row, now)
        /\ h' = [h EXCEPT ![r].pc = "lock"] /\ UNCHANGED out
  /\ UNCHANGED <<now, db, provider, login, queue>>

\* refresh_lock: create the entry if needed and join its queue.
RefreshLock(r) ==
  /\ h[r].pc = "lock"
  /\ queue' = [queue EXCEPT ![LockOf(h[r].user)] = Append(@, r)]
  /\ h' = [h EXCEPT ![r].pc = "waiting"]
  /\ UNCHANGED <<now, db, provider, login, out>>

\* The lock is ours: read the row again and decide whether a refresh is due.
Reread(r) ==
  LET row == GetToken(tokens, h[r].app, h[r].user) IN
  /\ h[r].pc = "waiting" /\ Holds(r)
  /\ \/ row = NoRow /\ Respond(r, Fail(404)) /\ Release(r)
     \/ row # NoRow /\ ~Expired(row, now) /\ Respond(r, Sealed(r, row, now)) /\ Release(r)
     \/ /\ row # NoRow /\ Expired(row, now) /\ row.refresh = None
        /\ Respond(r, Fail(409)) /\ Release(r)
     \/ /\ row # NoRow /\ Expired(row, now) /\ row.refresh # None
        /\ h' = [h EXCEPT ![r].pc = "calling", ![r].asOf = now, ![r].refresh = row.refresh]
        /\ UNCHANGED <<queue, out>>
  /\ UNCHANGED <<now, db, provider, login>>

\* Mutant of Failed: the Err arm of the match does not return.
NeverFailed(ans) == FALSE

\* The Err of oauth_client::refresh.
Failed(ans) == ans = Err

\* Mutant of ExpiryBase: the clock is read after the call.
ClockAfterCall(r) == now

\* expires_in counts from the clock read before the call.
ExpiryBase(r) == h[r].asOf

\* The handler has the provider's answer: store it, seal it, drop the lock.
Save(r) ==
  LET ans     == h[r].ans
      expires == IF ans.ttl = None THEN None ELSE ExpiryBase(r) + ans.ttl
      saved   == SaveRefreshed(tokens, h[r].user, ans.grant,
                               OrKeep(ans.refresh, h[r].refresh), expires)
  IN
  /\ h[r].pc = "answered"
  /\ \/ Failed(ans) /\ Respond(r, Fail(409)) /\ UNCHANGED tokens
     \/ ~Failed(ans) /\ tokens[h[r].user] = NoRow /\ Respond(r, Fail(500)) /\ UNCHANGED tokens
     \/ /\ ~Failed(ans) /\ tokens[h[r].user] # NoRow
        /\ tokens' = saved
        /\ Respond(r, Sealed(r, saved[h[r].user], h[r].asOf))
  /\ Release(r)
  /\ UNCHANGED <<now, key, used, provider, login>>

\* save_refreshed_token reports an error: the handler answers 500.
SaveFails(r) ==
  /\ "busy" \in Env
  /\ h[r].pc = "answered" /\ ~Failed(h[r].ans)
  /\ Respond(r, Fail(500)) /\ Release(r)
  /\ UNCHANGED <<now, db, provider, login>>

-----------------------------------------------------------------------------
(* The upstream provider (external: as oauth_client and its callers use it) *)

\* The provider accepts the refresh token and mints a new grant.
ProviderGrants(r) ==
  LET old == h[r].refresh
      new == Len(grants) + 1
  IN
  /\ h[r].pc = "calling" /\ old \in live
  /\ grants' = Append(grants, [lineage |-> grants[old].lineage, refreshed |-> TRUE,
                               until |-> now + TTL])
  /\ \E rotates \in {TRUE} \cup {FALSE : e \in Env \cap {"sameRefresh"}},
        ttl \in {TTL} \cup {None : e \in Env \cap {"noExpiresIn"}} :
       /\ live' = IF rotates THEN (live \ {old}) \cup {new} ELSE live
       /\ h' = [h EXCEPT ![r].pc = "answered",
                         ![r].ans = [grant |-> new, ttl |-> ttl,
                                     refresh |-> IF rotates THEN new ELSE None]]
  /\ UNCHANGED <<now, db, orphans, login, queue, out>>

\* Any Err of oauth_client::refresh: the token is dead, the provider was not
\* reached, or it rotated the token and its answer was lost.
RefreshFails(r) ==
  /\ h[r].pc = "calling"
  /\ \/ h[r].refresh \notin live /\ live' = live
     \/ "unreachable" \in Env /\ live' = live
     \/ "lostAnswer" \in Env /\ live' = live \ {h[r].refresh}
  /\ h' = [h EXCEPT ![r].pc = "answered", ![r].ans = Err]
  /\ UNCHANGED <<now, db, grants, orphans, login, queue, out>>

\* A request whose sender is gone reaches the provider, or is dropped.
ProcessOrphan(g) ==
  /\ g \in orphans
  /\ orphans' = orphans \ {g}
  /\ live' \in {live, live \ {g}}
  /\ UNCHANGED <<now, db, grants, login, queue, h, out>>

-----------------------------------------------------------------------------
(* A login, seen from here: callback's exchange_code, then its upsert_token *)

LoginExchange(a) ==
  LET new == Len(grants) + 1 IN
  /\ login[a] = None /\ Budget /\ MayLogin(a)
  /\ grants' = Append(grants, [lineage |-> new, refreshed |-> FALSE, until |-> now + TTL])
  /\ live' \in {live \cup {new}} \cup {live : e \in Env \cap {"noRefresh"}}
  /\ login' = [login EXCEPT ![a] = new]
  /\ UNCHANGED <<now, db, orphans, queue, h, out>>

LoginSave(a) ==
  LET g == login[a] IN
  /\ g # None
  /\ \E u \in UpsertIds(tokens, used, a),
        expires \in {now + TTL} \cup {None : e \in Env \cap {"noExpiresIn"}} :
       /\ tokens' = Upsert(tokens, u,
                      [account |-> a, access |-> g, scopes |-> g, expires |-> expires,
                       refresh |-> IF g \in live THEN g ELSE None])
       /\ used' = used \cup {u}
  /\ login' = [login EXCEPT ![a] = None]
  /\ UNCHANGED <<now, key, provider, queue, h, out>>

-----------------------------------------------------------------------------
(* The rest of the environment *)

\* delete_user, or a revoke that matched the row.
DeleteUser(u) ==
  /\ "delete" \in Env /\ tokens[u] # NoRow
  /\ tokens' = DeleteToken(tokens, AppOf[tokens[u].account], u)
  /\ UNCHANGED <<now, key, used, provider, login, queue, h, out>>

\* update_app with another public_key: one transaction.
RotateKey(app) ==
  /\ "rotateKey" \in Env
  /\ \E k \in Keys \ {key[app]} : key' = [key EXCEPT ![app] = k]
  /\ tokens' = DeleteTokensOf(tokens, app)
  /\ UNCHANGED <<now, used, provider, login, queue, h, out>>

\* The refresh request of a dropped handler that was still on the wire.
OnWire(r) == IF h[r].pc = "calling" THEN {h[r].refresh} ELSE {}

\* The connection closes and the handler's future is dropped at an await.
Disconnect(r) ==
  /\ "disconnect" \in Env
  /\ \/ h[r].pc = "waiting"
        /\ \E i \in 1..Len(queue[LockOf(h[r].user)]) :
             /\ queue[LockOf(h[r].user)][i] = r
             /\ queue' = [queue EXCEPT ![LockOf(h[r].user)] = Without(@, i)]
     \/ h[r].pc \in {"calling", "answered"} /\ Release(r)
  /\ orphans' = orphans \cup OnWire(r)
  /\ h' = [h EXCEPT ![r] = Idle]
  /\ UNCHANGED <<now, db, grants, live, login, out>>

\* The process restarts: the database survives, everything else is gone.
Restart ==
  /\ "restart" \in Env
  /\ h' = [r \in Requests |-> Idle]
  /\ out' = [r \in Requests |-> NoResponse]
  /\ queue' = [u \in Users |-> <<>>]
  /\ login' = [a \in Accounts |-> None]
  /\ orphans' = orphans \cup UNION {OnWire(r) : r \in Requests}
  /\ UNCHANGED <<now, db, grants, live>>

Tick ==
  /\ now < MaxTime
  /\ now' = now + 1
  /\ UNCHANGED <<db, provider, login, queue, h, out>>

-----------------------------------------------------------------------------
Handler(r) == LoadToken(r) \/ RefreshLock(r) \/ Reread(r) \/ Save(r) \/ SaveFails(r)

Provider(r) == ProviderGrants(r) \/ RefreshFails(r)

Next ==
  \/ \E r \in Requests : \/ \E app \in Apps, u \in used : Arrive(r, app, u)
                         \/ Handler(r)
                         \/ Provider(r)
                         \/ Disconnect(r)
  \/ \E g \in orphans : ProcessOrphan(g)
  \/ \E a \in Accounts : LoginExchange(a) \/ LoginSave(a)
  \/ \E u \in Users : DeleteUser(u)
  \/ \E app \in Apps : RotateKey(app)
  \/ Restart
  \/ Tick

Spec == Init /\ [][Next]_vars

\* The runtime polls every ready handler: each handler step is weakly fair.
HandlerFairness == \A r \in Requests : WF_vars(Handler(r))

\* No request timeout is set: that the provider answers is an assumption.
ProviderFairness == \A r \in Requests : WF_vars(Provider(r))

HandlerSpec == Spec /\ HandlerFairness

-----------------------------------------------------------------------------
(* Properties *)

\* Every variable ranges over the values the code can give it.
TypeOK ==
  /\ now \in Nat \ {0}
  /\ key \in [Apps -> Keys]
  /\ tokens \in Table /\ used \subseteq Users
  /\ grants \in Seq(Grant) /\ live \subseteq DOMAIN grants /\ orphans \subseteq Nat
  /\ login \in [Accounts -> Nat]
  /\ queue \in [Users -> Seq(Requests)]
  /\ h \in [Requests -> Local]
  /\ out \in [Requests -> Response]

InRefresh(r) == h[r].pc \in {"calling", "answered"}

\* At most one refresh of a user is under way, whatever the handlers, logins,
\* deletions and dropped connections around it do (lib.rs, refresh_lock:
\* "Serializes token refreshes for a given (app_id, user_id) pair").
OneRefreshPerUser ==
  \A r, s \in Requests :
    r # s /\ InRefresh(r) /\ InRefresh(s) => h[r].user # h[s].user

\* A stored refresh token still works at the provider, unless the handler that
\* is about to replace it already holds its successor: no interleaving of
\* callers leaves the row "stuck with a dead token forever" (user_token).
StoredRefreshTokenWorks ==
  \A u \in Users :
    tokens[u] # NoRow /\ tokens[u].refresh # None =>
      \/ tokens[u].refresh \in live
      \/ \E r \in Requests : /\ h[r].pc = "answered" /\ h[r].user = u
                             /\ h[r].ans.refresh \in live

\* The expiry stored with a refreshed access token is never later than the
\* moment the provider stops accepting it: user_token adds expires_in to the
\* clock it read before the call, however long the call took.  (callback reads
\* the clock after its exchange, so this does not hold of a login's row.)
ExpiryNotOverstated ==
  \A u \in Users :
    tokens[u] # NoRow /\ grants[tokens[u].access].refreshed =>
      tokens[u].expires <= grants[tokens[u].access].until

\* The scopes of a row, its access token and its refresh token come from the
\* same login ("Scopes actually granted", create_tokens/up.sql).
OneLoginPerRow ==
  \A u \in Users :
    tokens[u] # NoRow =>
      /\ grants[tokens[u].access].lineage = tokens[u].scopes
      /\ tokens[u].refresh # None =>
           grants[tokens[u].refresh].lineage = tokens[u].scopes

Answered(r, code) == out[r].status # code /\ out'[r].status = code

\* A token is only ever answered sealed to the key the app has at that moment,
\* though the handler read the key before it waited for the lock and for the
\* provider: rotating the key deletes the rows a stale handler would need.
SealedToCurrentKey ==
  [][\A r \in Requests : Answered(r, 200) => out'[r].key = key'[h[r].app]]_vars

\* The expiry in an answer lies after the instant at which the handler decided
\* the token was usable (user_token; DESCRIPTION.md: "returns a valid OAuth
\* token ... together with an expiry date").
AnswerNotExpired ==
  [][\A r \in Requests :
       Answered(r, 200) => out'[r].expires = None \/ out'[r].expires > out'[r].asOf]_vars

\* 409 means the user must log in again (wowauth-client, NeedsReauth: "expired
\* and there's no refresh token (or the upstream rejected it)"): it is never
\* answered while the stored refresh token works.
ReauthOnlyWhenNeeded ==
  [][\A r \in Requests :
       LET row == tokens[h[r].user] IN
       Answered(r, 409) => row = NoRow \/ row.refresh \notin live]_vars

\* A handler that has begun waits for nobody but a provider call made for the same
\* user: locks are per user (lib.rs, refresh_lock).  What requests without a
\* connection wait for is PooledRefresh's subject.
OnlyOwnUserBlocks ==
  \A r \in Requests :
    h[r].pc # "idle"
      ~> (h[r].pc = "idle" \/ \E s \in Requests : h[s].pc = "calling" /\ h[s].user = h[r].user)

\* When the provider answers, every request is answered or dropped: the lock
\* is released on each of user_token's early returns.
EveryRequestEnds ==
  ProviderFairness => \A r \in Requests : h[r].pc # "idle" ~> h[r].pc = "idle"

Ids == INSTANCE UserIds WITH ids <- IdsOf(tokens), spent <- used

\* Seen through its tokens table, this is a specification of user ids: whatever
\* refreshes do, an account keeps its id until it is deleted, and then gets a
\* fresh one (wowauth-client addresses tokens by the ids it has stored).
ImplementsUserIds == Ids!Spec
=============================================================================
