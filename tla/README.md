# wowauth in TLA+

wowauth is an OAuth broker: it runs the authorization-code flow against an
upstream provider on behalf of its callers, keeps the resulting tokens in a
SQLite database, refreshes them when they expire, and hands them out sealed to
a public key of the caller. This directory models its two protocols, *handing
out a token* and *obtaining one*, the pool of connections they run on, the
wizards and scripts that set a connection up and the admin UI around them. TLC
checks the models on small instances; TLAPS proves every invariant, action
property and refinement that a passing run checks, for every value of the
constants (under conditions on the environment where the code needs them), and
leaves liveness to TLC. Paths below are relative to the repository root.

Contents: [the system](#the-system), [the modules](#the-modules),
[state and actions against the code](#state-and-actions-against-the-code),
[the runs](#the-runs), [what the violations show](#what-the-violations-show),
[fairness](#fairness), [the proofs](#the-proofs),
[what is not modelled](#what-is-not-modelled).

## The system

One tokio process (`src/main.rs`) serves everything. Its handlers are `async` but
call the database synchronously through a pool of at most 8 connections
(`src/db.rs`); they run on several worker threads, so two handlers interleave
between any two statements, and inside a handler only the provider call and the
refresh lock are awaited. `pool.get()` is not: it blocks its thread. No statement
is part of a longer transaction, except in `update_app`.

| component | state it keeps | operations | talks to |
|---|---|---|---|
| token refresh: `user_token` in `src/handlers.rs`, `refresh_lock` in `src/lib.rs` | handler locals; one `tokio::sync::Mutex` per (app, user) in `refresh_locks` | `GET /apps/{app}/users/{user}/token` | `tokens`, the provider's token endpoint |
| OAuth facade: `src/oauth_handlers.rs` | handler locals | `GET /{app}/oauth/auth`, `GET /{app}/oauth/callback`, `POST /{app}/oauth/token`, `POST /{app}/oauth/revoke`, discovery | `oauth_flows`, `tokens`, the browser, the provider |
| tables: `src/repository.rs`, `src/models.rs`, `migrations/` | `apps`, `oauth_flows`, `tokens` | one function per statement; `ON DELETE CASCADE` from `apps` and `tokens` | SQLite |
| app registry: `create_app`, `update_app` | rows of `apps` | create, patch; a new `public_key` deletes the app's users | `apps`, `tokens` |
| admin reads: `list_apps`, `app_status`, `list_users`, `user_status`, by-name lookup, discovery, health | none | reads | `apps`, `tokens`, the pool |
| upstream client: `src/oauth_client.rs` | none | `refresh`, `exchange_code`, `build_authorization_request`, `normalize_expires_in` | the provider |
| connection pool and worker threads: `src/db.rs`, `src/main.rs` | at most 8 connections; one thread per core | `pool.get()`, pragmas and migrations on each new connection | SQLite |
| cryptography: `src/crypto.rs`, `src/pkce.rs`, `crates/wowauth-token-seal`; admin bearer check: `src/auth.rs` | master key, `CONFIG_SECRET` | encrypt/decrypt, HPKE seal/open, S256 | |
| client library: `crates/wowauth-client` | a connection's configuration | `fetch_token`, statuses to errors | `user_token` |
| admin UI: `frontend/src/main.ts`, `util.ts`, `auth.ts`, `views/home.ts`, `appDetail.ts`, `login.ts` | the address bar's hash, a cookie with the config secret, one container that every page writes | route, log in and out, load a page, check a user | admin API |
| setup scripts: `docs/examples/exact-setup.ts`, `nmbrs-setup.ts` | the locals of one process; the secrets file it writes | the wizards' steps as questions in a terminal, for a new connection or one that is reused by name | admin API, facade |
| setup wizards: `frontend/src/views/exactWizard.ts`, `nmbrsWizard.ts` | a module-level `model`: step, app id, key pair, state, verifier, user id | register an app, patch it, log in, redeem, show the secrets | admin API, facade |

What is hard about it, and what has to be right:

* **Refreshing.** Providers such as Exact Online invalidate a refresh token the
  moment it is used. So a user must never have two refreshes under way, the row
  must be read again after the lock is obtained, the new token must be stored
  before the lock is released, and the lock must be released on every return
  path and when a waiter goes away. Around it, logins, deletions and key
  rotations write the same row without the lock.
* **Answering.** The key a token is sealed to is read first and used last, with
  two waits in between; the expiry that is answered is what was stored.
* **The authorization flow.** One row is first a pending authorization and then
  the claim check of a code. It is read and written by separate statements of
  the callback and token handlers, deleted by either of them, and by a cascade
  when its user disappears. States and codes should work once, codes briefly,
  and a code must lead to the account the authorization was asked for.
* **Setting up.** A wizard's submit handler runs on across its awaits while the
  user goes back, submits again or leaves, and all of them share one `model`.
  The private key exists in that variable only; what the user is given at the
  end has to fit the app that was registered on the way, and a step that failed
  half-way has to be repeatable.
  A script that fails ends, and its re-run takes over a connection, replaces its
  key and so disconnects its users.
* **Sharing the pool.** A handler keeps its connection while it waits for the
  lock and the provider; a handler without one blocks a thread until it gets one
  or r2d2's timeout passes. When requests outnumber connections, those who could
  return one may find every thread blocked by those who want one.
* **Showing.** The admin UI's pages are async functions that share one element,
  and a page that was left goes on loading.
* **Failure.** The process may restart, a client may disconnect (poem drops the
  handler's future at its current await), the provider may be slow, unreachable
  or answer into the void, a statement may give up on a locked database.

`PROJECT.json` lists these hazards one by one, at the line where each bites.

## The modules

| module | what it is |
|---|---|
| `TokenStore` | the `tokens` table and each statement on it, as operators from table to table |
| `TokenRefresh` | `user_token`, the refresh locks, the provider, and everything that writes `tokens` around them |
| `PooledRefresh` | `TokenRefresh` composed with the connection pool and the worker threads |
| `OauthFlow` | the four facade handlers, the `oauth_flows` table with its cascade, and everything that deletes rows around them |
| `UserIds` | abstract: what a caller may rely on in a user id; both protocols implement it |
| `SetupWizard` | the wizards of the admin UI, their handlers in flight, and the `apps` table they fill |
| `SetupScript` | runs of the two setup scripts, the `apps` and `tokens` tables they change and the files they write |
| `AdminUi` | the router, the login, home and app pages of the admin UI |
| `MCTokenRefresh`, `MCPooledRefresh`, `MCOauthFlow`, `MCSetupWizard`, `MCSetupScript`, `MCAdminUi` | the values TLC runs use, and symmetry sets |
| `TokenStoreProofs`, `UserIdsProofs`, `TokenRefreshProofs`, `OauthFlowProofs`, `PooledRefreshProofs`, `SetupWizardProofs`, `SetupScriptProofs`, `AdminUiProofs` | theorems about the module each is named after |

`TokenRefresh` and `OauthFlow` both extend `TokenStore`: they are two views of
one table, each with the other's writes as environment. `TokenRefresh` sees a
login as two steps (the exchange returns; the row is upserted). `OauthFlow`
ignores expiry and refresh tokens of a row and keeps what a code can tell apart:
its id, its account and its access token. `SetupWizard` shares no state with
them: it registers apps, which they take as given, and takes the whole facade as
one step, `Login`, that brings back a code. `SetupScript` does the same with
`LoginSucceeds`, but keeps the users of an app, because re-runs delete them.

**Refinement.** `UserIds` has one variable per thing a client stores: the ids of
each account, and the ids ever given out. `TokenRefresh` and `OauthFlow` each
instantiate it with `ids <- IdsOf(tokens)` and `spent <- used`
(`ImplementsUserIds`): an upsert that inserts is `Born`, deletions, revocations
and rotations are `Gone`, everything else is a stutter. `PooledRefresh` extends
`TokenRefresh`, keeps its variables and adds one, so that its refinement mapping
is the identity (`ImplementsTokenRefresh`).

**Data.** A *grant* is one upstream response; it is a number, and the access
token, refresh token and scopes it brought are all named by that number. A row
therefore says which response each of its columns came from, which is all that
"this token is dead" or "these scopes belong to another login" needs.
`None` (0) is `NULL`. An account is the unique pair (app_id, external_account).
A flow is named by its id, which stands for its `state` too (both are fresh and
unique). A code is a number, fresh for each issue. Encryption at rest is left
out: it is inverted by the same process, and nothing here depends on it.

**Time.** A bounded clock (`now`, `MaxTime`). `TTL`, `FlowTtl` and `CodeTtl`
are small numbers; only their order and the comparisons at the boundary matter,
and `<=` at `expires_at` is kept exactly.

Definitions marked "Mutant of" are not part of the model. Each is a plausible
mistake in one mapped definition, used to show that a property notices it.

## State and actions against the code

### TokenRefresh

| variable | code |
|---|---|
| `key`, `tokens` | `apps.public_key`, the `tokens` table |
| `used` | history: ids that were ever inserted (UUIDs do not repeat) |
| `grants`, `live`, `orphans` | the provider: what it has issued, which refresh tokens still work, requests that are on the wire though their sender is gone |
| `login` | a callback between `exchange_code` and `upsert_token` |
| `queue` | the tokio mutexes: the head holds the lock, the others wait in order |
| `h`, `out` | locals of each running `user_token`, and its last response |

| action | code |
|---|---|
| `Arrive` | `pool.get()` and `get_app`: the public key is read here |
| `LoadToken` | the first `get_token`: 404, answer at once, or go for the lock |
| `RefreshLock` | `AppState::refresh_lock` up to `lock_owned` |
| `Reread` | the lock is granted: read again; 404, answer, 409 without a refresh token, or call the provider |
| `ProviderGrants`, `RefreshFails` | what `oauth_client::refresh` comes back with; `RefreshFails` is every `Err`, of which some rotate the token |
| `Save`, `SaveFails` | the `match` on the result, `save_refreshed_token`, the answer, the guard dropped |
| `LoginExchange`, `LoginSave` | the callback's exchange and upsert |
| `DeleteUser`, `RotateKey` | `delete_user` (or a revoke), `update_app` with another key |
| `Disconnect`, `ProcessOrphan`, `Restart` | the handler's future dropped at an await, the request it left on the wire, the process gone with locks and handlers while the database stays |

`Env` names the environment events a run allows, so that a run can say what
disturbs the protocol and a violation is pinned to its cause.

### PooledRefresh

| variable, action | code |
|---|---|
| `getting` | requests whose thread is inside `pool.get()` |
| `Connected` | handlers that have begun; the connection goes back when the future ends or is dropped |
| `OnThread` | who occupies a thread: `pool.get()` and the statements up to the lock; the lock and the provider are awaited, on no thread |
| `Ask`, `Connect`, `GiveUp` | a request gets a thread and asks; the pool hands out a connection (then `Arrive`); the timeout passes (500, or "degraded" for the health check) |
| `Run` | a handler on its thread: `LoadToken`, `RefreshLock` |
| `Resume` | a handler that was woken by the lock or the provider's answer needs a free thread: `Reread`, `Save`, `SaveFails` |
| `Around` | everything else of `TokenRefresh`, as it is |

Only handlers of `user_token` compete here. Callbacks keep a connection across
an await too; the remaining handlers give theirs back on the thread they have.

### OauthFlow

| action | code |
|---|---|
| `Authorize` | `authorize`: one `INSERT`; requests it rejects write nothing |
| `CallbackLookup` | `get_oauth_flow_by_state`, then the checks in the code's order (app, expiry, error, code) decide between the two continuations |
| `CallbackReject` | any of the five branches that delete the flow |
| `ExchangeAnswers` | `exchange_code` returns |
| `CallbackUpsert`, `CallbackMark` | `upsert_token`; `mark_flow_issued` and the redirect, also when the row is gone (no error) or the user is gone (foreign key, 500) |
| `RedeemLookup`, `RedeemDelete`, `RedeemGet` | `token`: look the code up, delete the flow, validate what was read, read the row |
| `RevokeList`, `RevokeDelete` | `revoke`: list and match, then delete by id |
| `DeleteUser`, `RotateKey`, `Disconnect`, `Restart` | as above; deletes cascade to `oauth_flows` |

Each handler instance is an element of `Callbacks`, `Redeemers` or `Revokers`
and is reused after it ends. `asked`, `returned`, `codes`, `redeemed` and
`revoked` are history variables: no action's effect on the other variables
depends on them, except that `asked` keeps flow ids from being used twice,
`returned` bounds the callbacks per state, and a code's number is its place in
`codes`.

### SetupWizard

| variable | code |
|---|---|
| `model` | the module variable `model`; `nonce` names `oauthState` and `pkceVerifier`, which are always drawn together |
| `page`, `busy`, `at` | what `container` shows (with the values it was rendered from), whose submit button is disabled in it, `location.hash` |
| `sub` | the locals of the submit handlers in flight; `pc` is the call each awaits |
| `apps` | the `apps` table, reduced to name, key, allowed and own redirect URI, and whether the client is a placeholder |
| `portal`, `codes` | the provider: callbacks registered there; codes that logins brought back |
| `shown` | history: what step 4 has shown |

| action | code |
|---|---|
| `Enter`, `Leave`, `Back` | `route` and `renderExactWizard`, the home link, `wireBack` |
| `Submit1`, `KeyGenerated`, `CreateAnswers`, `PatchAnswers` | step 1 from one await to the next: key pair, `createApp`, `updateApp` of `redirect_url`, each skipped when the model already has its result |
| `Submit2`, `SaveAnswers`, `Digest` | step 2's `updateApp`, then `renderStep3`, which awaits the challenge before it renders |
| `Relabel`, `Login`, `Submit3`, `TokenAnswers`, `UsersAnswers` | the label input, the login in another tab, step 3's submit with `finishAfterLogin`, step 4 |
| `CallFails` | `catch` and `finally`: the server refuses, or the call named in `Env` fails, served (`lost`) or not |

`exactWizard.ts` and `nmbrsWizard.ts` are the same program with other fields;
the map names the first for steps 1 and 2 and the second for steps 3 and 4. A
handler that resumes reads `model` again, even when it was replaced by a new
visit, which is why every answer's action reads the variable and not a local.
`KeyGenerated` draws a pair that nobody has seen: none of an app, of a handler in
flight or of the secrets shown before (X25519 pairs do not repeat).

### SetupScript

| variable | code |
|---|---|
| `apps` | the `apps` table reduced to name, key, settings (country, scopes), whether `redirect_url` is set and whose client it has, with the ids of each app's users |
| `file` | `exact-secrets.json` and `nmbrs-secrets.json` |
| `run` | the locals of each process; `pc` is the question or call it waits at; its field `since` is history: users from this id on came after the run's count |
| `born`, `gone` | history: users ever connected, and those an administrator deleted |

| action | code |
|---|---|
| `SelectCountry`, `SelectScopes`, `AskName` | the questions up to the name of a connection to reuse, or of a new one |
| `LookupFinds`, `StatusAnswers`, `Confirm`, `RotateAnswers` | a connection is reused: by-name lookup, the count of its users, the question, the `PATCH` of the key, which deletes them |
| `CreateAnswers`, `CreateFails` | a connection is registered, or its name is taken |
| `CallbackAnswers`, `ClientAnswers` | the `PATCH`es of `redirect_url` and of the client |
| `LoginSucceeds`, `LoginFails`, `TokenAnswers` | the login in the browser and the redemption of its code |
| `UsersAnswers`, `ProveAnswers` | `users[0]`, the secrets file, the last calls |
| `Fail` | any call fails, or the person stops: the process exits |
| `Connect`, `DeleteUser` | somebody else logs in; an administrator deletes a user, which is how `TokenFails`, `UsersFails` and `ProveFails` come about |

The two scripts are one program with other texts; the map alternates between
them. A run's name stands for the key pair and the app id it creates.

### AdminUi

| variable | code |
|---|---|
| `hash`, `events` | `location.hash`, and the `hashchange` events that assignments have queued (an assignment of the same hash queues none) |
| `cookie`, `nav` | the config secret; whether the header has its button |
| `page` | what the container shows: kind, app, whose users, and which task drew it |
| `task` | the async functions in flight: the call each awaits, and the secret it was sent with |

| action | code |
|---|---|
| `RouteRedirects`, `RouteSync`, `RouteHome`, `RouteDetail` | one `hashchange` handled by `route` |
| `ListAppsAnswers`, `UsersOfAllAnswer` | `renderHome` from await to await; the second call's failures are caught one by one |
| `StatusAnswers`, `NameAnswers`, `UsersAnswer` | `renderAppDetail`, `renderLoaded` and `loadUsers`, which writes the holder it found before its call |
| `Check`, `CheckAnswers` | a user row's button |
| `Catch`, `ReportError` | what an error writes, and the way back to the login |
| `Navigate`, `Login`, `Logout`, `Expire` | the person, and the cookie's `max-age` |

## The runs

Deadlock checking is off everywhere: the clock, the grants and the callbacks
per state are bounded, and a behaviour that has used them up has stopped only
because the exploration does. That requests end is checked as liveness instead.

| run | question | size |
|---|---|---|
| `refresh_races` | two callers of one account, two ids, two keys, with deletions, rotations, re-logins, rotating and non-rotating providers, logins without a refresh token: exclusion, the stored refresh token works, expiry of a refreshed token is not overstated, answers sealed to the current key, not expired, 409 only when needed; user ids are implemented | 2.3 M states |
| `refresh_ends` | two users and two callers, waiters leaving the queue, restarts, lost requests and answers, failing writes: types, exclusion; every request ends if the provider answers, and one that has begun waits for its own user only if it does not | 447 k |
| `refresh_pool` | three requests of two users, two connections, one thread, restarts, a provider that answers or does not: the pool is not overbooked; if the provider answers, the pool recovers from exhaustion and every request ends; if not, only its calls, for the users of all connections, keep the pool exhausted | 278 k |
| `oauth_flows` | two apps, two flows with and without a hint, in two environments: states returning once with deletions, revocations, dropped callbacks and restarts, and states returning twice, at either app, while keys are rotated: types, issued flows name their own existing user, a code yields its own account, is single-use, short-lived, and stored when handed out, revoked tokens stay gone; user ids are implemented | 1.9 M |
| `wizard_clicks` | two visits, two handlers in flight, Back and repeated submits, edited forms, every call failing or its answer lost: one app in use per key, the kept key is the app's, the secrets open its tokens, no key is shown twice | 1.0 M |
| `setup_reruns` | three runs of the two scripts over two connections, stopping anywhere, with administrators' deletions at any time and other people's logins before a run's new key is in place: the saved user is the login's, secrets are lost and counted users disconnected by consent only, a finished run's secrets work | 954 k |
| `admin_pages` | two apps, two async functions in flight, calls failing or rejected, a cookie that expires, one person who waits and one who does not: the users on a page are its app's, the page is the one the hash names, loading ends | 92 k |

Bounds, and why they are enough. Two requests make every race between a holder
and one competitor, and two users every pair of who may block whom; the third
request, in `refresh_pool`, is the one in `pool.get()` that blocks the only
thread while the two connections are with the provider and in the lock's queue,
or with the provider for two users. Two ids let
a deleted account come back under a fresh one. `MaxTime = 3` with `TTL = 1` lets
a token expire, be refreshed and expire again (the clock starts at 1, and 2, in
the runs of liveness, lets each token expire once). `Budget` stops calls from
*starting* when the handlers under way might need all grants that are left, and
never stops one that has started, so no handler is cut off by a bound; `MaxGrants`
leaves room for a login, a re-login and the refreshes of both. `Users` bounds the inserts: when no fresh id is left
a login cannot be saved, and handlers do not depend on it. In `oauth_flows`,
`FlowTtl = CodeTtl = 1` and `MaxTime = 2` put the expiry of both phases inside
the run. Two submits of the wizard are every overlap its shared variable can
tell apart; two visits, key pairs and names make one complete set-up follow
another; two nonces let step 3 be entered again. Three runs of the scripts are a
first one, its re-run and one of the other script, which may take over the same
connection; three users are one for each. Two tasks in the admin UI are a load
and one that it overtakes; three loads add nothing that two do not, since a page
remembers only who drew it last. Requests, ids, keys, flows, apps, runs and
names are symmetric where a run declares
it: no definition treats one of them specially, and no liveness run uses it.

Conditions to keep in mind. In `refresh_races`, `StoredRefreshTokenWorks`,
`AnswerNotExpired` and `ReauthOnlyWhenNeeded` are checked with a provider that
answers, sends `expires_in` and is reachable. `refresh_disconnect` drops the
first. With `noExpiresIn` added to its `Env`, TLC finds a fresh token answered
with the expiry of the one it replaced, because Diesel skips the `None` columns
of a changeset; with `unreachable`, a 409, "needs to redo the browser login
flow" to the client library, although the stored refresh token works.
`ExpiryNotOverstated` speaks of refreshed tokens: `user_token` adds `expires_in`
to a clock it read before the call, whereas `callback` reads its clock after the
exchange, so that the expiry stored for a login may be late by the duration of the
exchange. `OnlyOwnUserBlocks` speaks of handlers, which have their connection; a
request without one waits for anybody, and gets a 500 in the end, while as many
handlers as there are connections are held up by the provider.
`OnlySlowCallsExhaust` says that nothing less can do that. `SecretsOpenTokens`,
`KeptKeyIsTheApps` and `OneAppInUse` are checked for users who do not leave the
wizard during a call; with `leaveBusy` in `Env` all three fail, because the
answer of an abandoned visit writes into the next visit's model (`TypeOK` and
`KeyShownOnce` hold then too). `CodeIsSingleUse` is checked with one redeemer in
`oauth_flows`; with more it fails (`oauth_code_race`). What holds for any number of
them, that a code one call has deleted is out of reach of later ones, is proved
(`RedeemedCodesAreGone`, `CodesAreSingleUse`). `HandedCodeIsStored` is checked with states that come back once: with two callbacks of one
state, a failing one can delete the flow the other is about to mark, and the
code handed out is then in no row. `SavedUserIsTheLogin`,
`SecretsLostByConsent` and `DoneSecretsWork` are checked for runs that do not
overlap, with logins of others everywhere but at an app that the run at work has
just rekeyed (`Vacant`), so also between its count of the users and its `PATCH`.
`CountedLeaveByConsent` is proved with every overlap and speaks of
users whom the run has counted: somebody who logs in between the count and the
`PATCH` is disconnected unasked. `PageMatchesHash` speaks of a person who waits
for pages to load and of apps that keep their names: a page that was left while
it loads ends up over the next one, two rejected loads leave an empty card where
the login form was, and an app that was renamed between its status and its
lookup by name shows another app, or an error.

## What the violations show

Each of these runs checks one statement of the repository and TLC finds a
behaviour of the code against it; `PROJECT.json` quotes the statement.

* `refresh_disconnect`: the client disconnects while the provider rotates the
  token. The handler's future is dropped, the new refresh token is in nobody's
  hands, and the stored one is dead. The lock protects against a second caller,
  not against the first one going away (a spawned task would).
* `refresh_login_race`: a login that lands between a refresh's call and its
  save is overwritten, except for its scopes.
* `oauth_code_race`: two redemptions read the flow before either deletes it.
* `oauth_state_replay`: `state` stays usable after its code was issued.
* `wizard_callback`: the wizard remembers the app before the `PATCH` that
  replaces the placeholder `redirect_url`; when that call fails, a retry skips it
  and step 2 has the administrator register a callback wowauth never sends.

Reading found more, which need no run: `mark_flow_issued` gives a code five
minutes, which docs/SCHEMA.md calls "~60s" and a shortening (it is not one late
in a flow's ten minutes); no statement deletes expired flows, which the facade
migration says happens; and after a failed login `exact-setup.ts` has the person
correct what was wrong and reuse the connection, "to skip re-registering and
jump straight back to step 8", but a re-run never reads
`needsExactRegistration`, and it leaves a wrong country or scopes as registered
(`RotateAnswers` does not touch `setting`).

## Fairness

`HandlerFairness`: a step of a handler that stays possible is taken, because the
tokio runtime polls every ready task and the mutex wakes its waiters in order.
`ProviderFairness`: the provider eventually answers or the call fails. The code
does *not* justify the second (the HTTP client has no timeout), so no
specification contains it: `EveryRequestEnds` and `PoolRecovers` have it as a
hypothesis, and `OnlyOwnUserBlocks` and `OnlySlowCallsExhaust` are checked without
it.

`PoolFairness` replaces the first where threads are scarce. `pool.get()` returns
one way or the other (weak: r2d2 hands a connection over or times out), and a
handler on a thread runs on (weak). A handler that was woken needs a thread that
others may take first, so that `Resume` is enabled again and again rather than
always: strong fairness, because tokio's run queue is a queue and a woken task is
in it. Without the timeout (mutant `Persist`) `EveryRequestEnds` and
`PoolRecovers` fail.

`AdminUi` assumes that every fetch settles and that the event loop handles every
event; `SetupScript` and `SetupWizard` assume nothing. Nothing is assumed of
callers, logins, administrators, faults or the clock.

## The proofs

For every value of the constants that satisfies the named assumptions:
`StoreAssumption` (the sentinels are not values, every account has an app),
`RefreshAssumption` (numbers are numbers, `Env` is a set of known events),
`FlowAssumption` and `NoFlowAssumption` (the same for the facade; an account is
an app with a hint or a flow), `PoolAssumption` (at least one connection and
one thread, finitely many requests), `WizardAssumption` and `ScriptAssumption`
(sentinels again, and known events in `Env`), and `UiAssumption` (in addition, no
app id is the name of a page: ids are UUIDs).

| module | theorem | statement |
|---|---|---|
| `TokenRefreshProofs` | `TypeCorrect` | `Spec => []TypeOK` |
| | `RefreshIsExclusive` | `Spec => []OneRefreshPerUser` |
| | `SealedToTheCurrentKey` | `Spec => SealedToCurrentKey` |
| | `StoredExpiries` | `"noExpiresIn" \notin Env \/ "reauth" \notin Env => (Spec => []ExpiryNotOverstated)`, and `Spec => []ExpiryWithinTtl` |
| | `AnswersAreNotExpired` | `"noExpiresIn" \notin Env => (Spec => AnswerNotExpired)` |
| | `StoredRefreshTokensWork` | `Calm => (Spec => []StoredRefreshTokenWorks)` |
| | `RowsAreOfOneLogin` | `Spec /\ [][WholeRelogins]_vars => []OneLoginPerRow` |
| | `NoNeedlessReauth` | `"unreachable" \notin Env /\ (Calm \/ "reauth" \notin Env) => (Spec => ReauthOnlyWhenNeeded)` |
| | `RefreshImplementsUserIds` | `Spec => ImplementsUserIds` |
| `UserIdsProofs` | `IdsAreOneToOne` | `Spec => [](TypeOK /\ OneToOne)` |
| `OauthFlowProofs` | `TypeCorrect` | `Spec => []TypeOK` |
| | `CodesNameTheirUser` | `Spec => []IssuedFlowHasItsUser` |
| | `RedeemsTheOwnAccount` | `Spec => []RedeemsOwnAccount` |
| | `CodesExpire` | `Spec => []CodeExpires` |
| | `RedeemedCodesAreGone` | `Spec => []RedeemedCodeIsGone` |
| | `CodesAreSingleUse` | `Spec /\ []ReadsAlone => []CodeIsSingleUse` |
| | `RevokedTokensStayGone` | `Spec => []RevokedStaysGone` |
| | `HandedCodesAreStored` | `Spec => HandedCodeIsStored` (which speaks of states that come back once) |
| | `OauthImplementsUserIds` | `Spec => ImplementsUserIds` |
| `PooledRefreshProofs` | `PoolImplementsRefresh` | `PooledSpec => ImplementsTokenRefresh` |
| | `PooledRefreshIsExclusive` | `PooledSpec => []OneRefreshPerUser` |
| | `PoolIsNeverOverbooked` | `PooledSpec => []PoolTypeOK` |
| `SetupWizardProofs` | `WizardTypeCorrect` | `Spec => []TypeOK` |
| | `KeysAreShownOnce` | `Spec => []KeyShownOnce` |
| | `OneAppIsInUse` | `"leaveBusy" \notin Env => (Spec => []OneAppInUse)` |
| | `KeptKeyIsTheKeyOfTheApp` | `"leaveBusy" \notin Env => (Spec => []KeptKeyIsTheApps)` |
| | `SecretsDoOpenTokens` | `"leaveBusy" \notin Env => (Spec => []SecretsOpenTokens)` |
| `SetupScriptProofs` | `ScriptTypeCorrect` | `Spec => []TypeOK` |
| | `SavedUserLoggedIn` | `"overlap" \notin Env => (Spec => []SavedUserIsTheLogin)` |
| | `SecretsAreLostByConsent` | `"overlap" \notin Env => (Spec => []SecretsLostByConsent)` |
| | `UsersLeaveByConsent` | `Spec => CountedLeaveByConsent` |
| | `DoneMeansWorking` | `"overlap" \notin Env => (Spec => DoneSecretsWork)` |
| `AdminUiProofs` | `UiTypeCorrect` | `Spec => []TypeOK` |
| | `UsersAreOfThePage` | `Spec => []UsersBelongToPage` |
| | `PageIsTheOneNamed` | `Spec => []PageMatchesHash` (which speaks of a person who waits and apps that keep their names) |

None of them bounds the number of requests, flows, handlers, users, apps, visits,
runs or tasks, and those without a condition hold with every event of `Env`,
disconnects and restarts included. The others say which event, or which overlap, they
do without, and each of these is needed (TLC refutes the property when the event
is added to `Env`, for `Calm` with each of its four events alone):

| condition | what happens without it |
|---|---|
| `"noExpiresIn" \notin Env` | a refresh without `expires_in` keeps the old `expires_at` beside the new token: it has passed, or it is that of a login that came in between |
| `Calm` (no lost answer, disconnect, restart or failing save) | the provider rotates and nobody stores the successor: `refresh_disconnect` |
| `WholeRelogins`: a login that replaces a row brings a refresh token, and does not land while the row is being refreshed | its row keeps the old login's refresh token; or a refresh that it overtook overwrites it but for its scopes: `refresh_login_race` |
| `"reauth" \notin Env`, where something may be lost | a login lands while the provider refuses a token that was lost before, and 409 is answered beside the login's working token |
| `"unreachable" \notin Env` | a timeout is answered 409 like a rejected token |
| `ReadsAlone` (no two redeemers have both read one code before either deleted its flow) | two calls of `/oauth/token` are both answered: `oauth_code_race` |
| `"leaveBusy" \notin Env` | an abandoned visit writes into the next visit's model |
| `"overlap" \notin Env` | somebody who logs in after a run has set its key is taken for the run's own login, or another run's key replaces the run's |

`StoredExpiries` allows a provider without `expires_in` where no account
with a row logs in: then the `expires_at` that is kept is the one that had passed
when the refresh began. Its second half, `ExpiryWithinTtl`, is what is left for a
login's row, whose expiry `callback` computes from a clock read after the
exchange. `NoNeedlessReauth` has a disjunction because either half
makes a rejected token a dead one that is still in the row: with nothing lost it
is live and cannot be rejected at all, and without a re-login nothing else
changes the row's refresh token in the meantime. The runs that check these
properties satisfy the same conditions. `TokenStoreProofs` has the lemmas about
statements on `tokens` that the protocols share: what an upsert, a partial
changeset or a delete does to the types and to the ids of an account.

*TokenRefresh.* None of these is inductive on its own. `IInv` adds to `TypeOK`:

* `HandlersHaveUsers`: a running handler serves an id that was inserted once.
  Without it, `h[r].user` might be outside the domain of `tokens`.
* `RefresherHoldsLock`: whoever is in a provider call is the head of its user's
  queue. A queue has one head, which gives exclusion. It is preserved because
  joining appends, a holder that leaves pops only its own queue
  (`ReleaseKeeps`), and a waiter that is dropped is not the head while the head
  is calling (`WithoutKeepsHead`).
* `RowsAreUsed`: the id of every row is in `used`, so an upsert that inserts
  takes an id no handler serves and no deleted row had.
* `KeysAreCurrent`: as long as the row a handler serves exists, the key it read
  at the start is the app's key. A rotation deletes all rows of the app in the
  same transaction, and a row that is gone does not come back (`NextRows`), so
  a handler with a stale key finds nothing to answer with.
* `OneRowPerAccount`: the table's UNIQUE key, which makes `IdsOf` map every step
  to `Born`, `Gone` or a stutter of `UserIds`.

`NextType` proves `TypeOK'` with one lemma per action; `NextRows` states what
any step does to a row (deletes it, keeps its account, or inserts it under a
fresh id), `NextKeys` and `NextHandlers` what it does to keys and handlers; the
other conjuncts follow from those. `IInv` itself was first checked by TLC with
two ids, two keys, three callers and every fault of `Env`, and so was every
invariant below on the instance of its module's run before it was proved.

What grants do takes a second layer, `GInv`. `GrantsExist`: whatever a row, a
handler or a login names was issued. `GrantsAreOwned`: a refresh token is in one
user's hands (its row, or the handler that has the lock) or in one login's; this
is where exclusion is used, since two refreshers would both own it. `AnswersFit`:
an answered handler knows a successor of what it sent, whose lifetime began no
earlier than `asOf`. With it, what `Save` stores is the clock before the call
plus `TTL`, which is never too late. Under `Calm`, `CallsWork` says that the
token a handler has sent is live, or its answer's successor is;
`StoredRefreshTokenWorks` is the case in which no handler has the row. Without
re-logins, `LoginsAreFirst` (a login's account has no row) and
`HandlersHaveTheRow` (the row still has the token that was sent, and the expiry
that had passed) make every write to a row a write of its own lineage, and
`RejectedIsDead` carries what the provider said to the answer 409. With them,
`RowsAreOfOneLogin` has the two halves of `WholeRelogins` do the same for each
step: a re-login replaces every column, and no refresh is under way whose save
would put older columns back.

*OauthFlow.* A code's promise is spread over four places: the row it is in, the
callback that writes it, the redeemer that has read it, and the answer. `IInv`
has a conjunct for each. `FlowsAreAsked`: a row keeps the account it was started
for. `CallbacksServeFlows`: a callback between its statements serves the account
of the flow it read, and the user it upserted has that account while its row
exists. `CodesAreHanded`: a stored code is one that was redirected, with the
expiry it was issued with. `IssuedFlowHasItsUser` needs these for the mark, and
the cascade for every delete. `RedeemersServeCodes` carries them to what a
redeemer read, `AnswersMatchCodes` to what it answered; `RevokersServeApps` types
the last handler. `TypeOK`, `OneRowPerAccount` and `RowsUsed` support them.

Single use: a redeemer that is past its delete has taken the row out of the table
(`TakenIsGone`), an answered code is in no row (`RedeemedIsGone`), and a replayed
state issues another code, never an old one, which together are
`RedeemedCodesAreGone`: whoever looks a code up after one delete finds nothing.
That leaves those who have read it by then. Under `ReadsAlone` there is one
(`TakersAreAlone`), so an answered code is in no redeemer's hands either
(`RedeemedIsSpent`), and `CodesAreSingleUse` follows. Revocation (`RInv`): a grant that a callback holds and has not stored
is in no row and was never revoked (`GrantsAreFresh`), a stored one is in a single
row (`AccessIsUnique`), and a revoker about to delete knows the only row that may
have its token (`RevokersKnowTheRow`). States that come back once
(`CallbacksAlone`): a callback that works has its flow to itself, the flow has no
code and so no user, and therefore neither a cascade nor a redeemer nor another
callback can delete it before `mark_flow_issued`.

*PooledRefresh.* `PooledStep` maps every step to a step of `TokenRefresh` or a
stutter, so the theorems there carry over. `InUse` (the bounds on connections
and threads, and that those in `pool.get()` have no connection) is inductive with
`TypeOK`: `Ask` and `Connect` take what was free, and every other action only
gives back (`StepReturns`).

*SetupWizard.* `KInv`: a private key that was shown is not the model's any more
(`ShownKeysAreForgotten`), step 4 clears it and a drawn one is fresh; handlers
carry none of their own, so this holds for abandoned visits too. The rest is
about who may write `model`. `SInv` says that a handler which registers an app is
the only one that does and that its visit is still the one on the page
(`RegistersAlone`), that later steps and later calls have the model's app
(`StepsNeedTheApp`, `CallsAreForTheApp`), that nothing is in flight at the home
page (`NobodyAtHome`, the conjunct that `leaveBusy` destroys), and that the
model's keys are its app's (`KeysFit`) and no other app with that key has a
client (`OnlyTheModelsApp`). Every action is reduced to one of a few effects
(`WizardEffect`: a visit begins or ends, a key is drawn, an app is asked for, got
or given up, a handler works on the app it has), and each effect keeps `SInv`.

*SetupScript.* With every overlap, `CInv`: a run that has not registered its app
has none (`NotYet`), and a run that will rotate without having been told "yes" has
counted nobody, so that whoever is connected by then came after its count
(`CountsFit`). This alone gives `UsersLeaveByConsent`. The rest is for `Serial`
runs. `Own(r)` is what a run knows of its app once its key is in place: that the
app has no users when the login begins, and which user can be there when
`users[0]` is taken. `FilesFit`: a file names the user its run's login brought, and
a run that counts later counts him too; with `CountsFit`, it cannot disconnect him
unless it was told "yes", though others log in meanwhile. Most
actions change neither apps nor files (`QuietAction`); each of the others has a
lemma of its own.

*AdminUi.* `BInv` types the event queue (`EventsFit`: it exceeds what a person
can queue by at most one, after a rejection or while nothing is in flight) and
says that a task that finds its holder on the page asks for the users of that
page's app (`HoldersFit`), which gives `UsersBelongToPage` in any order of
answers. For a patient person `InOrder` adds that at most one event is queued,
that one load is in flight and it is the hash's (`LoadsAlone`), that a check is
on its app's page or has outlived a rejection (`ChecksFit`), and that the page is
the hash's once no event waits and nothing loads (`Settled`).

Only model-checked: the liveness properties (`EveryRequestEnds`,
`OnlyOwnUserBlocks`, `OnlySlowCallsExhaust`, `PoolRecovers`, `LoadingEnds`), since
liveness under fairness and `ENABLED` are beyond this prover. The five expected violations are TLC's
too. No operator here is recursive.

## What is not modelled

* Cryptography, header and body formats, logging, the OpenAPI schema and the
  types generated from it. `frontend/src/webcrypto.ts` is conversions of bytes.
* SQL errors, other than the foreign key in `CallbackMark` and the failing save
  in `SaveFails`: a handler that answers 500 on one stops like a handler that a
  `Restart` stops, between two of its statements. In particular SQLite may refuse
  `update_app`'s deferred transaction when another writer comes between its read
  and its write; it is rolled back as a whole, and its caller sees a failed
  `PATCH`, which both set-up models have.
* Connections of handlers other than `user_token`, pragmas and migrations.
* In `TokenRefresh` and `OauthFlow`, the columns of an app other than its key,
  and its creation. Apps are never deleted by the code, so a fixed set of them is
  faithful to running handlers.
* `normalize_expires_in` and the arithmetic of `expires_in`: functions of one
  value each, without state, whose cases the unit tests beside them list.
* `is_active` and the counts of the status endpoints: functions of rows.
* In `SetupWizard`, which user `users[0]` is, the wizard's own form fields, a
  reload of the tab, and a rejected config secret.
* In `AdminUi`, what the tables show beyond whose data it is, and the wizards'
  pages, which are `SetupWizard`'s.
* `refresh_locks` never shrinks; the model has a queue for every id throughout.
