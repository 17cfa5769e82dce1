----------------------------- MODULE OauthFlow ------------------------------
(***************************************************************************)
(* The /oauth/* facade: an authorization that starts at /oauth/auth, comes *)
(* back from the provider at /oauth/callback, and ends at /oauth/token     *)
(* with a single-use code; and /oauth/revoke.  One `oauth_flows` row is    *)
(* first a pending authorization and then the claim check for its code.    *)
(*                                                                         *)
(* Every database statement of a handler is a step of its own; handlers    *)
(* interleave between statements, and a callback waits for the provider    *)
(* between reading its flow and writing anything.                          *)
(***************************************************************************)
EXTENDS TokenStore, Sequences, FiniteSets

CONSTANTS
  Hints,         \* values of account_hint
  Flows,         \* oauth_flows.id; `state` is as unique, so it names it too
  NoFlow,        \* what a query on oauth_flows that matches nothing returns
  NoAccount,     \* the account of a handler or flow that has none yet
  Callbacks,     \* concurrent calls of /oauth/callback
  Redeemers,     \* concurrent calls of /oauth/token
  Revokers,      \* concurrent calls of /oauth/revoke
  Envs,          \* the sets of environment events to explore, subsets of AllEnv
  FlowTtl,       \* lifetime of a pending flow (10 minutes)
  CodeTtl,       \* lifetime of an issued code (5 minutes)
  MaxTime        \* bound on the clock

AllEnv == {"delete",      \* DELETE /users/{user}
           "rotateKey",   \* PATCH /apps/{app} with another public_key
           "revoke",      \* calls of /oauth/revoke
           "replay",      \* a state that comes back to /oauth/callback twice
           "disconnect",  \* a callback dropped while it awaits the provider
           "restart"}     \* the process dies and comes back

ASSUME FlowAssumption ==
  /\ Envs \subseteq SUBSET AllEnv
  /\ Accounts = Apps \X (Hints \cup Flows)
  /\ \A a \in Accounts : AppOf[a] = a[1]
  /\ NoAccount \notin Accounts
  /\ FlowTtl \in Nat \ {0} /\ CodeTtl \in Nat \ {0}
  /\ MaxTime \in Nat

VARIABLES
  now,         \* the clock
  env,         \* the environment events that may happen in this behaviour
  tokens,      \* the tokens table
  used,        \* ids of tokens that were ever inserted
  flows,       \* the oauth_flows table
  minted,      \* provider: number of grants minted so far
  cb, tk, rv,  \* locals of the callback, token and revoke handlers
  asked,       \* history: the account each flow was started for
  returned,    \* history: how often each state came back to /oauth/callback
  codes,       \* history: the codes redirected to callers, in order
  redeemed,    \* history: the 200 answers of /oauth/token, in order
  revoked      \* history: the <<app, access token>> pairs revoke answered

db      == <<tokens, used, flows>>
history == <<asked, returned, codes, redeemed, revoked>>
vars    == <<now, env, db, minted, cb, tk, rv, history>>

-----------------------------------------------------------------------------
(* The oauth_flows table and handler locals *)

\* A row waits for its callback (issued_code and token_id are NULL) ...
Pending == [account : Accounts,   \* app_id, external_account_hint or else id
            expires : Nat,        \* expires_at
            code    : {None},     \* issued_code
            user    : {None}]     \* token_id

\* ... or claims the user that its code was issued for.
Issued == [account : Accounts, expires : Nat, code : Nat \ {None}, user : Users]

ASSUME NoFlowAssumption == NoFlow \notin Pending \cup Issued

\* Mutant of DeleteFlow: the row survives.
KeepFlow(table, f) == table

\* delete_oauth_flow; it does not say whether there was a row to delete.
DeleteFlow(table, f) == [table EXCEPT ![f] = NoFlow]

\* Mutant of Cascade: flows of a deleted user stay.
NoCascade(table, rows) == table

\* Mutant of Cascade: ON DELETE SET NULL.
SetNull(table, rows) ==
  [f \in Flows |-> IF table[f] # NoFlow /\ table[f].user # None /\ rows[table[f].user] = NoRow
                   THEN [table[f] EXCEPT !.user = None] ELSE table[f]]

\* Mutant of Cascade: flows go with their account, pending ones too.
CascadePending(table, rows) ==
  [f \in Flows |-> IF table[f] # NoFlow /\ Holders(rows, table[f].account) = {}
                   THEN NoFlow ELSE table[f]]

\* token_id REFERENCES tokens(id) ON DELETE CASCADE, once `rows` is the table.
Cascade(table, rows) ==
  [f \in Flows |-> IF table[f] # NoFlow /\ table[f].user # None /\ rows[table[f].user] = NoRow
                   THEN NoFlow ELSE table[f]]

\* get_oauth_flow_by_code: at most one row (unique index on issued_code).
WithCode(table, code) == {f \in Flows : table[f] # NoFlow /\ table[f].code = code}

CbIdle == [pc |-> "idle", flow |-> None, account |-> NoAccount, grant |-> None, user |-> None]
TkIdle == [pc |-> "idle", flow |-> None, account |-> NoAccount, user |-> None,
           expires |-> None, code |-> None, app |-> None, proof |-> FALSE, at |-> None]
RvIdle == [pc |-> "idle", app |-> None, user |-> None, access |-> None]

Handed == {redeemed[i].access : i \in DOMAIN redeemed}

Init ==
  /\ now = 1 /\ env \in Envs
  /\ tokens = EmptyTable /\ used = {}
  /\ flows = [f \in Flows |-> NoFlow]
  /\ minted = 0
  /\ cb = [c \in Callbacks |-> CbIdle]
  /\ tk = [t \in Redeemers |-> TkIdle]
  /\ rv = [v \in Revokers |-> RvIdle]
  /\ asked = [f \in Flows |-> NoAccount]
  /\ returned = [f \in Flows |-> 0]
  /\ codes = <<>> /\ redeemed = <<>> /\ revoked = {}

-----------------------------------------------------------------------------
(* authorize *)

\* An accepted request inserts a pending flow (rejected ones write nothing).
\* Without a hint the flow's own id will name the account.
Authorize(f, app, who) ==
  /\ asked[f] = NoAccount /\ who \in Hints \cup {f}
  /\ flows' = [flows EXCEPT ![f] = [account |-> <<app, who>>, expires |-> now + FlowTtl,
                                    code |-> None, user |-> None]]
  /\ asked' = [asked EXCEPT ![f] = <<app, who>>]
  /\ UNCHANGED <<now, env, tokens, used, minted, cb, tk, rv, returned, codes, redeemed, revoked>>

-----------------------------------------------------------------------------
(* callback *)

\* A browser comes back once; bound: with "replay", a second time.
MayReturn(f) == returned[f] = 0 \/ ("replay" \in env /\ returned[f] = 1)

\* The browser returns with a state and a code, an error or neither.
\* get_oauth_flow_by_state does not look at issued_code.
CallbackLookup(c, app, f, brings) ==
  LET flow   == flows[f]
      usable == AppOf[flow.account] = app /\ flow.expires > now /\ brings = "code"
  IN
  /\ cb[c].pc = "idle" /\ asked[f] # NoAccount /\ MayReturn(f)
  /\ returned' = [returned EXCEPT ![f] = @ + 1]
  /\ IF flow = NoFlow
     THEN UNCHANGED cb
     ELSE cb' = [cb EXCEPT ![c] = [CbIdle EXCEPT !.pc = IF usable THEN "exchange" ELSE "reject",
                                                 !.flow = f, !.account = flow.account]]
  /\ UNCHANGED <<now, env, db, minted, tk, rv, asked, codes, redeemed, revoked>>

\* Expired, wrong app, an upstream error, no code or a failed exchange: the
\* flow is deleted and the browser is told.
CallbackReject(c) ==
  /\ cb[c].pc = "reject"
  /\ flows' = DeleteFlow(flows, cb[c].flow)
  /\ cb' = [cb EXCEPT ![c] = CbIdle]
  /\ UNCHANGED <<now, env, tokens, used, minted, tk, rv, history>>

\* exchange_code returns (external: the provider grants or refuses).
ExchangeAnswers(c) ==
  /\ cb[c].pc = "exchange"
  /\ \/ /\ minted' = minted + 1
        /\ cb' = [cb EXCEPT ![c].pc = "upsert", ![c].grant = minted + 1]
     \/ cb' = [cb EXCEPT ![c].pc = "reject"] /\ UNCHANGED minted
  /\ UNCHANGED <<now, env, db, tk, rv, history>>

\* upsert_token for the flow's account.  Expiry and refresh tokens are
\* TokenRefresh's subject; here a row is its id, account and access token.
CallbackUpsert(c) ==
  LET g == cb[c].grant IN
  /\ cb[c].pc = "upsert"
  /\ \E u \in UpsertIds(tokens, used, cb[c].account) :
       /\ tokens' = Upsert(tokens, u, [account |-> cb[c].account, access |-> g, refresh |-> None,
                                       scopes |-> g, expires |-> None])
       /\ used' = used \cup {u}
       /\ cb' = [cb EXCEPT ![c].pc = "mark", ![c].user = u]
  /\ UNCHANGED <<now, env, flows, minted, tk, rv, history>>

\* Mutant of IssuedExpiry: the code's lifetime comes on top of the flow's.
ExtendedExpiry(f) == flows[f].expires + CodeTtl

\* mark_flow_issued: the code lives for five minutes from now.
IssuedExpiry(f) == now + CodeTtl

\* mark_flow_issued, then the redirect that hands out the code.  A flow that is
\* gone is zero rows updated and no error; a user that is gone breaks the
\* foreign key, the handler answers 500 and no code leaves it.
CallbackMark(c) ==
  LET f    == cb[c].flow
      code == Len(codes) + 1
      hand == codes' = Append(codes, [flow |-> f, at |-> now])
  IN
  /\ cb[c].pc = "mark"
  /\ \/ flows[f] = NoFlow /\ hand /\ UNCHANGED flows
     \/ flows[f] # NoFlow /\ tokens[cb[c].user] = NoRow /\ UNCHANGED <<flows, codes>>
     \/ /\ flows[f] # NoFlow /\ tokens[cb[c].user] # NoRow /\ hand
        /\ flows' = [flows EXCEPT ![f].code = code, ![f].user = cb[c].user,
                                  ![f].expires = IssuedExpiry(f)]
  /\ cb' = [cb EXCEPT ![c] = CbIdle]
  /\ UNCHANGED <<now, env, tokens, used, minted, tk, rv, asked, returned, redeemed, revoked>>

-----------------------------------------------------------------------------
(* token *)

\* A caller presents a code at `app`, with the redirect_uri and code_verifier
\* of its flow (`proof`) or others.  get_oauth_flow_by_code.
RedeemLookup(t, app, code, proof) ==
  /\ tk[t].pc = "idle"
  /\ \E f \in WithCode(flows, code) :
       tk' = [tk EXCEPT ![t] = [pc |-> "delete", flow |-> f, account |-> flows[f].account,
                                user |-> flows[f].user, expires |-> flows[f].expires,
                                code |-> code, app |-> app, proof |-> proof, at |-> None]]
  /\ UNCHANGED <<now, env, db, minted, cb, rv, history>>

\* app_id, expires_at, redirect_uri and PKCE, on the flow as it was read.
RedeemOK(q, t) == AppOf[q.account] = q.app /\ q.expires > t /\ q.proof /\ q.user # None

\* "Single-use regardless of outcome below": delete the flow, then validate.
RedeemDelete(t) ==
  /\ tk[t].pc = "delete"
  /\ flows' = DeleteFlow(flows, tk[t].flow)
  /\ tk' = [tk EXCEPT ![t] = IF RedeemOK(@, now) THEN [@ EXCEPT !.pc = "get", !.at = now]
                                                    ELSE TkIdle]
  /\ UNCHANGED <<now, env, tokens, used, minted, cb, rv, history>>

\* get_token, and the answer.
RedeemGet(t) ==
  LET row == GetToken(tokens, AppOf[tk[t].account], tk[t].user) IN
  /\ tk[t].pc = "get"
  /\ IF row = NoRow THEN UNCHANGED redeemed
     ELSE redeemed' = Append(redeemed, [code |-> tk[t].code, account |-> row.account,
                                        access |-> row.access, at |-> tk[t].at])
  /\ tk' = [tk EXCEPT ![t] = TkIdle]
  /\ UNCHANGED <<now, env, db, minted, cb, rv, asked, returned, codes, revoked>>

-----------------------------------------------------------------------------
(* revoke *)

\* Mutant of Matches: a row that fails to decrypt is no match.
NoMatch(app, access) == {}

\* The rows of `app` that store the presented access token.
Matches(app, access) ==
  {u \in Users : GetToken(tokens, app, u) # NoRow /\ tokens[u].access = access}

\* list_tokens_for_app, and the first row whose access token was presented.
RevokeList(v, app, access) ==
  /\ "revoke" \in env /\ rv[v].pc = "idle"
  /\ IF Matches(app, access) = {}
     THEN revoked' = revoked \cup {<<app, access>>} /\ UNCHANGED rv
     ELSE /\ \E u \in Matches(app, access) : rv' = [rv EXCEPT ![v] = [pc |-> "delete", app |-> app, user |-> u,
                                                       access |-> access]]
          /\ UNCHANGED revoked
  /\ UNCHANGED <<now, env, db, minted, cb, tk, asked, returned, codes, redeemed>>

\* delete_token by id, whatever the row holds by now.
RevokeDelete(v) ==
  /\ rv[v].pc = "delete"
  /\ tokens' = DeleteToken(tokens, rv[v].app, rv[v].user)
  /\ flows' = Cascade(flows, tokens')
  /\ revoked' = revoked \cup {<<rv[v].app, rv[v].access>>}
  /\ rv' = [rv EXCEPT ![v] = RvIdle]
  /\ UNCHANGED <<now, env, used, minted, cb, tk, asked, returned, codes, redeemed>>

-----------------------------------------------------------------------------
(* The environment *)

DeleteUser(u) ==
  /\ "delete" \in env /\ tokens[u] # NoRow
  /\ tokens' = DeleteToken(tokens, AppOf[tokens[u].account], u)
  /\ flows' = Cascade(flows, tokens')
  /\ UNCHANGED <<now, env, used, minted, cb, tk, rv, history>>

RotateKey(app) ==
  /\ "rotateKey" \in env
  /\ tokens' = DeleteTokensOf(tokens, app)
  /\ flows' = Cascade(flows, tokens')
  /\ UNCHANGED <<now, env, used, minted, cb, tk, rv, history>>

Disconnect(c) ==
  /\ "disconnect" \in env /\ cb[c].pc = "exchange"
  /\ cb' = [cb EXCEPT ![c] = CbIdle]
  /\ UNCHANGED <<now, env, db, minted, tk, rv, history>>

Restart ==
  /\ "restart" \in env
  /\ cb' = [c \in Callbacks |-> CbIdle]
  /\ tk' = [t \in Redeemers |-> TkIdle]
  /\ rv' = [v \in Revokers |-> RvIdle]
  /\ UNCHANGED <<now, env, db, minted, history>>

Tick == now < MaxTime /\ now' = now + 1 /\ UNCHANGED <<env, db, minted, cb, tk, rv, history>>

-----------------------------------------------------------------------------
Callback(c) == CallbackReject(c) \/ ExchangeAnswers(c) \/ CallbackUpsert(c) \/ CallbackMark(c)
Redeem(t)   == RedeemDelete(t) \/ RedeemGet(t)

Next ==
  \/ \E f \in Flows, app \in Apps, who \in Hints \cup Flows : Authorize(f, app, who)
  \/ \E c \in Callbacks :
       \/ \E app \in Apps, f \in Flows, brings \in {"code", "error"} :
            CallbackLookup(c, app, f, brings)
       \/ Callback(c)
       \/ Disconnect(c)
  \/ \E t \in Redeemers :
       \/ \E app \in Apps, code \in 1..Len(codes), proof \in BOOLEAN :
            RedeemLookup(t, app, code, proof)
       \/ Redeem(t)
  \/ \E v \in Revokers : \/ \E app \in Apps, access \in Handed : RevokeList(v, app, access)
                         \/ RevokeDelete(v)
  \/ \E u \in Users : DeleteUser(u)
  \/ \E app \in Apps : RotateKey(app)
  \/ Restart
  \/ Tick

Spec == Init /\ [][Next]_vars

-----------------------------------------------------------------------------
(* Properties *)

CbLocal == [pc : {"idle", "reject", "exchange", "upsert", "mark"}, flow : Flows \cup {None},
            account : Accounts \cup {NoAccount}, grant : Nat, user : Users \cup {None}]
TkLocal == [pc : {"idle", "delete", "get"}, flow : Flows \cup {None},
            account : Accounts \cup {NoAccount}, user : Users \cup {None}, expires : Nat,
            code : Nat, app : Apps \cup {None}, proof : BOOLEAN, at : Nat]
RvLocal == [pc : {"idle", "delete"}, app : Apps \cup {None}, user : Users \cup {None},
            access : Nat]

\* Every variable ranges over the values the code can give it.
TypeOK ==
  /\ now \in Nat \ {0} /\ env \subseteq AllEnv
  /\ tokens \in Table /\ used \subseteq Users
  /\ flows \in [Flows -> Pending \cup Issued \cup {NoFlow}]
  /\ minted \in Nat
  /\ cb \in [Callbacks -> CbLocal]
  /\ tk \in [Redeemers -> TkLocal]
  /\ rv \in [Revokers -> RvLocal]
  /\ asked \in [Flows -> Accounts \cup {NoAccount}]
  /\ returned \in [Flows -> Nat]
  /\ codes \in Seq([flow : Flows, at : Nat])
  /\ redeemed \in Seq([code : Nat, account : Accounts, access : Nat, at : Nat])
  /\ revoked \subseteq Apps \X Nat

\* A flow that holds a code names a user that exists and is the very account
\* the authorization was asked for, whatever is deleted, revoked, rotated or
\* logged in meanwhile (oauth_flows.token_id and its cascade).
IssuedFlowHasItsUser ==
  \A f \in Flows :
    flows[f] # NoFlow /\ flows[f].code # None =>
      /\ tokens[flows[f].user] # NoRow
      /\ tokens[flows[f].user].account = asked[f]

\* What /oauth/token answers belongs to the account that the redeemed code's
\* authorization was asked for, and to no other login of the app.
RedeemsOwnAccount ==
  \A i \in DOMAIN redeemed :
    redeemed[i].account = asked[codes[redeemed[i].code].flow]

\* A code is accepted only during the lifetime it got when it was issued
\* (mark_flow_issued: "Codes are short-lived").
CodeExpires ==
  \A i \in DOMAIN redeemed : redeemed[i].at < codes[redeemed[i].code].at + CodeTtl

\* A code is answered with a token at most once (token: "Single-use regardless
\* of outcome below"; lifecycle-errors.test.ts: "rejects reusing an
\* already-redeemed code").
CodeIsSingleUse ==
  \A i, j \in DOMAIN redeemed : redeemed[i].code = redeemed[j].code => i = j

\* A code that leaves the callback is in the database, so that /oauth/token can
\* find it (callback: "now representing a fresh, short-lived, single-use code
\* redeemable at /oauth/token"), as long as each state comes back once.
HandedCodeIsStored ==
  [][\A n \in DOMAIN codes' \ DOMAIN codes :
       "replay" \notin env => WithCode(flows', n) # {}]_vars

\* One state leads to at most one code (SCHEMA.md: "so a `state` can never be
\* replayed").
StateIsSingleUse ==
  \A i, j \in DOMAIN codes : codes[i].flow = codes[j].flow => i = j

\* Once revoke has answered, no row of the app stores the presented token: not
\* the row that was listed, and no login that was under way puts it back.
RevokedStaysGone ==
  \A u \in Users :
    tokens[u] # NoRow => <<AppOf[tokens[u].account], tokens[u].access>> \notin revoked

Ids == INSTANCE UserIds WITH ids <- IdsOf(tokens), spent <- used

\* Seen through its tokens table, this is a specification of user ids: whatever
\* callbacks and revocations do, an account keeps its id until it is deleted, and then gets a
\* fresh one (wowauth-client addresses tokens by the ids it has stored).
ImplementsUserIds == Ids!Spec
=============================================================================
