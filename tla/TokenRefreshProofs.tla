------------------------- MODULE TokenRefreshProofs -------------------------
(***************************************************************************)
(* Theorems about TokenRefresh, for every value of its constants.          *)
(***************************************************************************)
EXTENDS TokenRefresh, TokenStoreProofs, SequenceTheorems

-----------------------------------------------------------------------------
(* The inductive invariant *)

\* A handler that is not idle serves an id that was inserted at some time.
HandlersHaveUsers == \A r \in Requests : h[r].pc # "idle" => h[r].user \in used

\* Whoever talks to the provider holds the lock of its user.
RefresherHoldsLock == \A r \in Requests : InRefresh(r) => Holds(r)

\* Every row has an id that was inserted at some time.
RowsAreUsed == \A u \in Users : tokens[u] # NoRow => u \in used

\* As long as the row a handler serves exists, the key it has read is current;
\* past the first get_token, that row is also known to be the app's.
KeysAreCurrent ==
  \A r \in Requests :
    LET row == tokens[h[r].user] IN
    h[r].pc # "idle" /\ row # NoRow =>
      /\ AppOf[row.account] = h[r].app => h[r].key = key[h[r].app]
      /\ h[r].pc # "getToken" => AppOf[row.account] = h[r].app

IInv == /\ TypeOK /\ HandlersHaveUsers /\ RefresherHoldsLock /\ RowsAreUsed /\ KeysAreCurrent
        /\ OneRowPerAccount(tokens)

-----------------------------------------------------------------------------
(* Type correctness *)

\* A waiter that leaves the queue leaves a queue.
LEMMA WithoutType ==
  ASSUME NEW S, NEW q \in Seq(S), NEW i \in 1..Len(q)
  PROVE  Without(q, i) \in Seq(S)
<1> DEFINE w == Without(q, i)
<1>1. Len(q) \in Nat \ {0} /\ \A j \in 1..Len(q) : q[j] \in S
  OBVIOUS
<1>2. w \in [1..(Len(q) - 1) -> S]
  BY <1>1 DEF Without
<1>3. Len(q) - 1 \in Nat
  BY <1>1
<1> HIDE DEF w
<1>4. w \in Seq(S)
  BY <1>2, <1>3
<1> QED
  BY <1>4 DEF w

LEMMA IdleType == Idle \in Local
BY DEF Idle, Local, Pc, Err, Answer, None

LEMMA FailType ==
  /\ NoResponse \in Response
  /\ \A code \in {404, 409, 500} : Fail(code) \in Response
BY DEF Fail, NoResponse, Response, None

\* A sealed row is a response.
LEMMA SealedType ==
  ASSUME TypeOK, NEW r \in Requests, NEW row \in Row, NEW t \in Nat
  PROVE  Sealed(r, row, t) \in Response
BY DEF TypeOK, Sealed, Response, Row, Local

\* Answering puts the handler back to idle.
LEMMA RespondType ==
  ASSUME TypeOK, NEW r \in Requests, NEW response \in Response, Respond(r, response)
  PROVE  h' \in [Requests -> Local] /\ out' \in [Requests -> Response]
BY IdleType DEF TypeOK, Respond

LEMMA InitType == Init => TypeOK
<1> SUFFICES ASSUME Init PROVE TypeOK
  OBVIOUS
<1>1. tokens \in Table
  BY DEF Init, EmptyTable, Table
<1>2. h \in [Requests -> Local] /\ out \in [Requests -> Response]
  BY IdleType, FailType DEF Init
<1> QED
  BY <1>1, <1>2 DEF Init, TypeOK, None

LEMMA ArriveType ==
  ASSUME TypeOK, NEW r \in Requests, NEW app \in Apps, NEW u \in used, Arrive(r, app, u)
  PROVE  TypeOK'
<1>1. [Idle EXCEPT !.pc = "getToken", !.app = app, !.user = u, !.key = key[app]] \in Local
  BY IdleType DEF TypeOK, Local, Pc
<1>2. h' \in [Requests -> Local]
  BY <1>1 DEF Arrive, TypeOK
<1>3. out' \in [Requests -> Response]
  BY FailType DEF Arrive, TypeOK
<1> QED
  BY <1>2, <1>3 DEF Arrive, TypeOK, db, provider

LEMMA LoadTokenType ==
  ASSUME TypeOK, HandlersHaveUsers, NEW r \in Requests, LoadToken(r)
  PROVE  TypeOK'
<1> DEFINE row == GetToken(tokens, h[r].app, h[r].user)
<1>1. h[r].user \in Users
  BY DEF HandlersHaveUsers, LoadToken, TypeOK
<1>2. row \in Row \cup {NoRow}
  BY <1>1, GetTokenType DEF TypeOK
<1>3. h' \in [Requests -> Local] /\ out' \in [Requests -> Response]
  <2>1. CASE row = NoRow /\ Respond(r, Fail(404))
    BY <2>1, FailType, RespondType
  <2>2. CASE row # NoRow /\ Respond(r, Sealed(r, row, now))
    BY <1>2, <2>2, SealedType, RespondType DEF TypeOK
  <2>3. CASE h' = [h EXCEPT ![r].pc = "lock"] /\ UNCHANGED out
    BY <2>3 DEF TypeOK, Local, Pc
  <2> QED
    BY <2>1, <2>2, <2>3 DEF LoadToken
<1> QED
  BY <1>3 DEF LoadToken, TypeOK, db, provider

LEMMA RefreshLockType ==
  ASSUME TypeOK, HandlersHaveUsers, NEW r \in Requests, RefreshLock(r)
  PROVE  TypeOK'
<1>1. h[r].user \in Users
  BY DEF HandlersHaveUsers, RefreshLock, TypeOK
<1>2. h' \in [Requests -> Local]
  BY DEF RefreshLock, TypeOK, Local, Pc
<1>3. queue' \in [Users -> Seq(Requests)]
  BY <1>1 DEF RefreshLock, TypeOK, LockOf
<1> QED
  BY <1>2, <1>3 DEF RefreshLock, TypeOK, db, provider

LEMMA ReleaseType ==
  ASSUME TypeOK, NEW r \in Requests, h[r].user \in Users, Holds(r), Release(r)
  PROVE  queue' \in [Users -> Seq(Requests)]
BY DEF TypeOK, Holds, Release, LockOf

LEMMA RereadType ==
  ASSUME TypeOK, HandlersHaveUsers, NEW r \in Requests, Reread(r)
  PROVE  TypeOK'
<1> DEFINE row == GetToken(tokens, h[r].app, h[r].user)
<1>1. h[r].user \in Users /\ Holds(r)
  BY DEF HandlersHaveUsers, Reread, TypeOK
<1>2. row \in Row \cup {NoRow}
  BY <1>1, GetTokenType DEF TypeOK
<1>3. /\ h' \in [Requests -> Local] /\ out' \in [Requests -> Response]
      /\ queue' \in [Users -> Seq(Requests)]
  <2>1. CASE row = NoRow /\ Respond(r, Fail(404)) /\ Release(r)
    BY <1>1, <2>1, FailType, RespondType, ReleaseType
  <2>2. CASE row # NoRow /\ Respond(r, Sealed(r, row, now)) /\ Release(r)
    BY <1>1, <1>2, <2>2, SealedType, RespondType, ReleaseType DEF TypeOK
  <2>3. CASE Respond(r, Fail(409)) /\ Release(r)
    BY <1>1, <2>3, FailType, RespondType, ReleaseType
  <2>4. CASE /\ row # NoRow
             /\ h' = [h EXCEPT ![r].pc = "calling", ![r].asOf = now, ![r].refresh = row.refresh]
             /\ UNCHANGED <<queue, out>>
    <3>1. row.refresh \in Nat /\ now \in Nat
      BY <1>2, <2>4 DEF Row, TypeOK
    <3>2. [h[r] EXCEPT !.pc = "calling", !.asOf = now, !.refresh = row.refresh] \in Local
      BY <3>1 DEF TypeOK, Local, Pc
    <3> QED
      BY <2>4, <3>2 DEF TypeOK
  <2> QED
    BY <2>1, <2>2, <2>3, <2>4 DEF Reread
<1> QED
  BY <1>3 DEF Reread, TypeOK, db, provider

LEMMA SaveType ==
  ASSUME TypeOK, HandlersHaveUsers, RefresherHoldsLock, NEW r \in Requests, Save(r)
  PROVE  TypeOK'
<1> DEFINE u       == h[r].user
           ans     == h[r].ans
           expires == IF ans.ttl = None THEN None ELSE ExpiryBase(r) + ans.ttl
           refresh == OrKeep(ans.refresh, h[r].refresh)
           saved   == SaveRefreshed(tokens, u, ans.grant, refresh, expires)
<1>1. u \in Users /\ Holds(r)
  BY DEF HandlersHaveUsers, RefresherHoldsLock, InRefresh, Save, TypeOK
<1>2. queue' \in [Users -> Seq(Requests)]
  BY <1>1, ReleaseType DEF Save
<1>3. h[r] \in Local
  BY DEF TypeOK
<1>4. ans \in Answer /\ refresh \in Nat /\ expires \in Nat
  BY <1>3, RefreshAssumption DEF Local, Answer, Err, OrKeep, ExpiryBase, None
<1>5. /\ h' \in [Requests -> Local] /\ out' \in [Requests -> Response]
      /\ tokens' \in Table
  <2>1. CASE Respond(r, Fail(409)) /\ UNCHANGED tokens
    BY <2>1, FailType, RespondType DEF TypeOK
  <2>2. CASE Respond(r, Fail(500)) /\ UNCHANGED tokens
    BY <2>2, FailType, RespondType DEF TypeOK
  <2>3. CASE /\ ~Failed(ans) /\ tokens[u] # NoRow /\ tokens' = saved
             /\ Respond(r, Sealed(r, saved[u], h[r].asOf))
    <3>1. ans.grant \in Nat \ {None}
      BY <1>4, <2>3 DEF Failed, Answer
    <3>2. saved \in Table /\ saved[u] \in Row
      BY <1>1, <1>4, <2>3, <3>1, SaveRefreshedType DEF TypeOK
    <3> QED
      BY <1>3, <2>3, <3>2, SealedType, RespondType DEF Local
  <2> QED
    BY <2>1, <2>2, <2>3 DEF Save
<1> QED
  BY <1>2, <1>5 DEF Save, TypeOK, provider

LEMMA SaveFailsType ==
  ASSUME TypeOK, HandlersHaveUsers, RefresherHoldsLock, NEW r \in Requests, SaveFails(r)
  PROVE  TypeOK'
<1>1. h[r].user \in Users /\ Holds(r)
  BY DEF HandlersHaveUsers, RefresherHoldsLock, InRefresh, SaveFails, TypeOK
<1>2. queue' \in [Users -> Seq(Requests)]
  BY <1>1, ReleaseType DEF SaveFails
<1>3. h' \in [Requests -> Local] /\ out' \in [Requests -> Response]
  BY FailType, RespondType DEF SaveFails
<1> QED
  BY <1>2, <1>3 DEF SaveFails, TypeOK, db, provider

\* Minting a grant adds its number to those that exist.
LEMMA AppendGrant ==
  ASSUME NEW s \in Seq(Grant), NEW g \in Grant
  PROVE  /\ Append(s, g) \in Seq(Grant)
         /\ DOMAIN Append(s, g) = DOMAIN s \cup {Len(s) + 1}
<1> DEFINE t == Append(s, g)
<1>1. t \in Seq(Grant) /\ Len(t) = Len(s) + 1 /\ Len(s) \in Nat
  OBVIOUS
<1>2. DOMAIN t = 1..Len(t) /\ DOMAIN s = 1..Len(s)
  BY <1>1
<1> HIDE DEF t
<1>3. 1..(Len(s) + 1) = 1..Len(s) \cup {Len(s) + 1}
  BY <1>1
<1> QED
  BY <1>1, <1>2, <1>3 DEF t

\* A handler that gets its answer.
LEMMA AnsweredType ==
  ASSUME NEW l \in Local, NEW ans \in Answer
  PROVE  [l EXCEPT !.pc = "answered", !.ans = ans] \in Local
BY DEF Local, Pc

LEMMA ProviderGrantsType ==
  ASSUME TypeOK, NEW r \in Requests, ProviderGrants(r)
  PROVE  TypeOK'
<1> DEFINE old == h[r].refresh
           new == Len(grants) + 1
           minted == [lineage |-> grants[old].lineage, refreshed |-> TRUE, until |-> now + TTL]
<1>1. PICK rotates \in {TRUE} \cup {FALSE : e \in Env \cap {"sameRefresh"}},
           ttl \in {TTL} \cup {None : e \in Env \cap {"noExpiresIn"}} :
        /\ live' = IF rotates THEN (live \ {old}) \cup {new} ELSE live
        /\ h' = [h EXCEPT ![r].pc = "answered",
                          ![r].ans = [grant |-> new, ttl |-> ttl,
                                      refresh |-> IF rotates THEN new ELSE None]]
  BY DEF ProviderGrants
<1>2. new \in Nat \ {None} /\ old \in DOMAIN grants
  BY DEF ProviderGrants, TypeOK, None
<1>3. minted \in Grant
  <2>1. grants[old] \in Grant
    BY <1>2 DEF TypeOK
  <2> QED
    BY <2>1, RefreshAssumption DEF TypeOK, Grant
<1>4. grants' \in Seq(Grant) /\ DOMAIN grants' = DOMAIN grants \cup {new}
  BY <1>3, AppendGrant DEF ProviderGrants, TypeOK
<1>5. live' \subseteq DOMAIN grants'
  <2>1. live' \subseteq live \cup {new}
    BY <1>1
  <2> QED
    BY <1>4, <2>1 DEF TypeOK
<1>6. [grant |-> new, ttl |-> ttl, refresh |-> IF rotates THEN new ELSE None] \in Answer
  BY <1>1, <1>2 DEF Answer, None
<1>7. h' \in [Requests -> Local]
  BY <1>1, <1>6, AnsweredType DEF TypeOK
<1> QED
  BY <1>4, <1>5, <1>7 DEF ProviderGrants, TypeOK, db

LEMMA RefreshFailsType ==
  ASSUME TypeOK, NEW r \in Requests, RefreshFails(r)
  PROVE  TypeOK'
<1>1. Err \in Answer
  BY DEF Answer
<1>2. h' \in [Requests -> Local]
  BY <1>1, AnsweredType DEF RefreshFails, TypeOK
<1> QED
  BY <1>2 DEF RefreshFails, TypeOK, db

LEMMA ProcessOrphanType ==
  ASSUME TypeOK, NEW g \in orphans, ProcessOrphan(g)
  PROVE  TypeOK'
BY DEF ProcessOrphan, TypeOK, db

LEMMA LoginExchangeType ==
  ASSUME TypeOK, NEW a \in Accounts, LoginExchange(a)
  PROVE  TypeOK'
<1> DEFINE new == Len(grants) + 1
           minted == [lineage |-> new, refreshed |-> FALSE, until |-> now + TTL]
<1>1. new \in Nat \ {None}
  BY DEF TypeOK, None
<1>2. minted \in Grant
  BY <1>1, RefreshAssumption DEF TypeOK, Grant
<1>3. grants' \in Seq(Grant) /\ DOMAIN grants' = DOMAIN grants \cup {new}
  BY <1>2, AppendGrant DEF LoginExchange, TypeOK
<1>4. live' \subseteq DOMAIN grants'
  <2>1. live' \subseteq live \cup {new}
    BY DEF LoginExchange
  <2> QED
    BY <1>3, <2>1 DEF TypeOK
<1> QED
  BY <1>1, <1>3, <1>4 DEF LoginExchange, TypeOK, db

\* An upsert meets only rows of its own account, or an id never used.
LEMMA UpsertIdsType ==
  ASSUME TypeOK, RowsAreUsed, NEW a \in Accounts, NEW u \in UpsertIds(tokens, used, a)
  PROVE  /\ u \in Users
         /\ tokens[u] = NoRow \/ tokens[u].account = a
         /\ tokens[u] = NoRow => u \notin used
BY DEF TypeOK, RowsAreUsed, UpsertIds, Holders

LEMMA LoginSaveType ==
  ASSUME TypeOK, RowsAreUsed, NEW a \in Accounts, LoginSave(a)
  PROVE  TypeOK'
<1> DEFINE Wrote(expires) == [account |-> a, access |-> login[a], scopes |-> login[a],
                              expires |-> expires,
                              refresh |-> IF login[a] \in live THEN login[a] ELSE None]
<1>1. PICK u \in UpsertIds(tokens, used, a),
           expires \in {now + TTL} \cup {None : e \in Env \cap {"noExpiresIn"}} :
        tokens' = Upsert(tokens, u, Wrote(expires)) /\ used' = used \cup {u}
  BY DEF LoginSave
<1>2. expires \in Nat /\ login[a] \in Nat \ {None}
  BY <1>1, RefreshAssumption DEF LoginSave, TypeOK, None
<1>3. Wrote(expires) \in Row
  BY <1>2 DEF Row, None
<1>4. tokens' \in Table /\ used' \subseteq Users
  BY <1>1, <1>3, UpsertIdsType, UpsertType DEF TypeOK
<1> QED
  BY <1>4 DEF LoginSave, TypeOK, provider, None

LEMMA DeleteUserType ==
  ASSUME TypeOK, NEW u \in Users, DeleteUser(u)
  PROVE  TypeOK'
<1>1. tokens' \in Table
  BY DeleteTokenType DEF DeleteUser, TypeOK
<1> QED
  BY <1>1 DEF DeleteUser, TypeOK, provider

LEMMA RotateKeyType ==
  ASSUME TypeOK, NEW app \in Apps, RotateKey(app)
  PROVE  TypeOK'
<1>1. tokens' \in Table
  BY DeleteTokensOfType DEF RotateKey, TypeOK
<1>2. key' \in [Apps -> Keys]
  BY DEF RotateKey, TypeOK
<1> QED
  BY <1>1, <1>2 DEF RotateKey, TypeOK, provider

LEMMA OnWireType ==
  ASSUME TypeOK, NEW r \in Requests
  PROVE  OnWire(r) \subseteq Nat
BY DEF TypeOK, OnWire, Local

LEMMA DisconnectType ==
  ASSUME TypeOK, HandlersHaveUsers, RefresherHoldsLock, NEW r \in Requests, Disconnect(r)
  PROVE  TypeOK'
<1>1. h[r].user \in Users
  BY DEF HandlersHaveUsers, Disconnect, TypeOK
<1>2. queue' \in [Users -> Seq(Requests)]
  <2>1. CASE h[r].pc = "waiting"
    <3>1. PICK i \in 1..Len(queue[h[r].user]) :
            queue' = [queue EXCEPT ![h[r].user] = Without(@, i)]
      BY <2>1 DEF Disconnect, LockOf
    <3>2. queue[h[r].user] \in Seq(Requests)
      BY <1>1 DEF TypeOK
    <3> QED
      BY <3>1, <3>2, WithoutType DEF TypeOK
  <2>2. CASE h[r].pc \in {"calling", "answered"} /\ Release(r)
    BY <1>1, <2>2, ReleaseType DEF RefresherHoldsLock, InRefresh
  <2> QED
    BY <2>1, <2>2 DEF Disconnect
<1>3. h' \in [Requests -> Local] /\ orphans' \subseteq Nat
  BY IdleType, OnWireType DEF Disconnect, TypeOK
<1> QED
  BY <1>2, <1>3 DEF Disconnect, TypeOK, db

LEMMA RestartType ==
  ASSUME TypeOK, Restart
  PROVE  TypeOK'
<1>1. h' \in [Requests -> Local] /\ out' \in [Requests -> Response]
  BY IdleType, FailType DEF Restart
<1>2. orphans' \subseteq Nat
  BY OnWireType DEF Restart, TypeOK
<1>3. queue' \in [Users -> Seq(Requests)] /\ login' \in [Accounts -> Nat]
  BY DEF Restart, None
<1> QED
  BY <1>1, <1>2, <1>3 DEF Restart, TypeOK, db

LEMMA NextType ==
  ASSUME IInv, Next
  PROVE  TypeOK'
<1> USE DEF IInv
<1>1. ASSUME NEW r \in Requests, NEW app \in Apps, NEW u \in used, Arrive(r, app, u)
      PROVE  TypeOK'
  BY <1>1, ArriveType
<1>2. ASSUME NEW r \in Requests, Handler(r)
      PROVE  TypeOK'
  BY <1>2, LoadTokenType, RefreshLockType, RereadType, SaveType, SaveFailsType DEF Handler
<1>3. ASSUME NEW r \in Requests, Provider(r)
      PROVE  TypeOK'
  BY <1>3, ProviderGrantsType, RefreshFailsType DEF Provider
<1>4. ASSUME NEW r \in Requests, Disconnect(r)
      PROVE  TypeOK'
  BY <1>4, DisconnectType
<1>5. ASSUME NEW g \in orphans, ProcessOrphan(g)
      PROVE  TypeOK'
  BY <1>5, ProcessOrphanType
<1>6. ASSUME NEW a \in Accounts, LoginExchange(a) \/ LoginSave(a)
      PROVE  TypeOK'
  BY <1>6, LoginExchangeType, LoginSaveType
<1>7. ASSUME NEW u \in Users, DeleteUser(u)
      PROVE  TypeOK'
  BY <1>7, DeleteUserType
<1>8. ASSUME NEW app \in Apps, RotateKey(app)
      PROVE  TypeOK'
  BY <1>8, RotateKeyType
<1>9. CASE Restart
  BY <1>9, RestartType
<1>10. CASE Tick
  BY <1>10 DEF Tick, TypeOK, db, provider
<1> QED
  BY <1>1, <1>2, <1>3, <1>4, <1>5, <1>6, <1>7, <1>8, <1>9, <1>10 DEF Next

-----------------------------------------------------------------------------
(* What a step may do to the rows, the keys and the handlers *)

\* A step deletes a row, keeps its account, or inserts it under a fresh id.
RowStep(u) == \/ tokens'[u] = NoRow
              \/ tokens[u] # NoRow /\ tokens'[u].account = tokens[u].account
              \/ u \notin used

LEMMA SaveRows ==
  ASSUME TypeOK, HandlersHaveUsers, NEW r \in Requests, Save(r), NEW u \in Users
  PROVE  \/ tokens'[u] = tokens[u]
         \/ /\ tokens[u] # NoRow /\ tokens'[u] # NoRow
            /\ tokens'[u].account = tokens[u].account
<1> DEFINE v       == h[r].user
           ans     == h[r].ans
           expires == IF ans.ttl = None THEN None ELSE ExpiryBase(r) + ans.ttl
           refresh == OrKeep(ans.refresh, h[r].refresh)
           saved   == SaveRefreshed(tokens, v, ans.grant, refresh, expires)
<1>1. v \in Users
  BY DEF HandlersHaveUsers, Save, TypeOK
<1>2. h[r] \in Local
  BY DEF TypeOK
<1>3. ans \in Answer /\ refresh \in Nat /\ expires \in Nat
  BY <1>2, RefreshAssumption DEF Local, Answer, Err, OrKeep, ExpiryBase, None
<1>4. CASE UNCHANGED tokens
  BY <1>4
<1>5. CASE ~Failed(ans) /\ tokens[v] # NoRow /\ tokens' = saved
  <2>1. ans.grant \in Nat \ {None}
    BY <1>3, <1>5 DEF Failed, Answer
  <2> HIDE DEF refresh, expires
  <2>2. /\ saved[v] \in Row /\ saved[v].account = tokens[v].account
        /\ \A w \in Users \ {v} : saved[w] = tokens[w]
    <3>1. tokens \in Table /\ tokens[v] # NoRow
      BY <1>5 DEF TypeOK
    <3> HIDE DEF v
    <3>2. refresh \in Nat /\ expires \in Nat
      BY <1>3
    <3> QED
      BY <1>1, <2>1, <3>1, <3>2, SaveRefreshedType
  <2>3. tokens[v] # NoRow /\ tokens' = saved
    BY <1>5
  <2> HIDE DEF saved, v
  <2>4. CASE u = v
    BY <2>2, <2>3, <2>4, StoreAssumption
  <2>5. CASE u # v
    BY <2>2, <2>3, <2>5
  <2> QED
    BY <2>4, <2>5
<1> QED
  BY <1>4, <1>5 DEF Save

LEMMA LoginSaveRows ==
  ASSUME TypeOK, RowsAreUsed, NEW a \in Accounts, LoginSave(a), NEW v \in Users
  PROVE  /\ RowStep(v)
         /\ used \subseteq used'
         /\ tokens'[v] # NoRow => v \in used'
<1> DEFINE Wrote(expires) == [account |-> a, access |-> login[a], scopes |-> login[a],
                              expires |-> expires,
                              refresh |-> IF login[a] \in live THEN login[a] ELSE None]
<1>1. PICK u \in UpsertIds(tokens, used, a),
           expires \in {now + TTL} \cup {None : e \in Env \cap {"noExpiresIn"}} :
        tokens' = Upsert(tokens, u, Wrote(expires)) /\ used' = used \cup {u}
  BY DEF LoginSave
<1>2. expires \in Nat /\ login[a] \in Nat \ {None}
  BY <1>1, RefreshAssumption DEF LoginSave, TypeOK, None
<1>3. Wrote(expires) \in Row
  BY <1>2 DEF Row, None
<1>4. /\ u \in Users
      /\ tokens[u] = NoRow \/ tokens[u].account = a
      /\ tokens[u] = NoRow => u \notin used
  BY UpsertIdsType
<1>5. tokens'[u].account = a /\ \A w \in Users \ {u} : tokens'[w] = tokens[w]
  BY <1>1, <1>3, <1>4, UpsertType DEF TypeOK
<1> QED
  BY <1>1, <1>4, <1>5 DEF RowStep, RowsAreUsed

LEMMA NextRows ==
  ASSUME IInv, Next, NEW v \in Users
  PROVE  /\ RowStep(v)
         /\ used \subseteq used'
         /\ tokens'[v] # NoRow => v \in used'
<1> USE DEF IInv
<1>1. ASSUME UNCHANGED <<tokens, used>>
      PROVE  /\ RowStep(v) /\ used \subseteq used'
             /\ tokens'[v] # NoRow => v \in used'
  BY <1>1 DEF RowStep, RowsAreUsed
<1>2. ASSUME NEW r \in Requests, Save(r)
      PROVE  /\ RowStep(v) /\ used \subseteq used'
             /\ tokens'[v] # NoRow => v \in used'
  <2>1. used' = used
    BY <1>2 DEF Save
  <2>2. tokens'[v] = tokens[v] \/ (tokens[v] # NoRow /\ tokens'[v].account = tokens[v].account)
    BY <1>2, SaveRows
  <2> QED
    BY <2>1, <2>2 DEF RowStep, RowsAreUsed
<1>3. ASSUME NEW a \in Accounts, LoginSave(a)
      PROVE  /\ RowStep(v) /\ used \subseteq used'
             /\ tokens'[v] # NoRow => v \in used'
  BY <1>3, LoginSaveRows
<1>4. ASSUME NEW u \in Users, DeleteUser(u)
      PROVE  /\ RowStep(v) /\ used \subseteq used'
             /\ tokens'[v] # NoRow => v \in used'
  BY <1>4 DEF DeleteUser, DeleteToken, RowStep, RowsAreUsed, TypeOK, Table
<1>5. ASSUME NEW app \in Apps, RotateKey(app)
      PROVE  /\ RowStep(v) /\ used \subseteq used'
             /\ tokens'[v] # NoRow => v \in used'
  BY <1>5 DEF RotateKey, DeleteTokensOf, RowStep, RowsAreUsed, TypeOK, Table
<1> QED
  BY <1>1, <1>2, <1>3, <1>4, <1>5
  DEF Next, Arrive, Handler, LoadToken, RefreshLock, Reread, SaveFails, Provider,
      ProviderGrants, RefreshFails, Disconnect, ProcessOrphan, LoginExchange, Restart, Tick, db

\* Only rotating the key of an app changes it, and then the app has no rows.
LEMMA NextKeys ==
  ASSUME IInv, Next, NEW app \in Apps, NEW u \in Users,
         tokens'[u] # NoRow, AppOf[tokens'[u].account] = app
  PROVE  key'[app] = key[app]
<1>1. ASSUME NEW a \in Apps, RotateKey(a)
      PROVE  key'[app] = key[app]
  BY <1>1 DEF IInv, RotateKey, DeleteTokensOf, GetToken, TypeOK
<1> QED
  BY <1>1
  DEF Next, Arrive, Handler, LoadToken, RefreshLock, Reread, Save, SaveFails, Provider,
      ProviderGrants, RefreshFails, Disconnect, ProcessOrphan, LoginExchange, LoginSave,
      DeleteUser, Restart, Tick, db

\* A call that starts, and a call that goes on with what it has read so far.
Starts(r) == \E app \in Apps, u \in used : Arrive(r, app, u)

GoesOn(r) ==
  /\ h[r].pc # "idle"
  /\ h'[r].user = h[r].user /\ h'[r].app = h[r].app /\ h'[r].key = h[r].key
  /\ h[r].pc = "getToken" /\ h'[r].pc # "getToken" =>
       /\ tokens' = tokens
       /\ GetToken(tokens, h[r].app, h[r].user) # NoRow

LEMMA NextHandlers ==
  ASSUME IInv, Next, NEW r \in Requests, h'[r].pc # "idle"
  PROVE  Starts(r) \/ GoesOn(r)
<1> USE DEF IInv, TypeOK
<1>0. h \in [Requests -> Local] /\ Idle.pc = "idle"
  BY DEF Idle
<1>1. ASSUME NEW s \in Requests, NEW app \in Apps, NEW u \in used, Arrive(s, app, u)
      PROVE  Starts(r) \/ GoesOn(r)
  BY <1>0, <1>1 DEF Starts, Arrive, GoesOn
<1>2. ASSUME NEW s \in Requests, LoadToken(s)
      PROVE  GoesOn(r)
  <2>1. tokens' = tokens /\ h[s].pc = "getToken"
    BY <1>2 DEF LoadToken, db
  <2>2. CASE h' = [h EXCEPT ![s] = Idle]
    BY <1>0, <2>2 DEF GoesOn
  <2>3. CASE /\ GetToken(tokens, h[s].app, h[s].user) # NoRow
             /\ h' = [h EXCEPT ![s].pc = "lock"]
    BY <1>0, <2>1, <2>3 DEF GoesOn, Local
  <2> QED
    BY <1>2, <2>2, <2>3 DEF LoadToken, Respond
<1>3. ASSUME NEW s \in Requests, RefreshLock(s)
      PROVE  GoesOn(r)
  BY <1>0, <1>3 DEF RefreshLock, GoesOn, db, Local
<1>4. ASSUME NEW s \in Requests, Reread(s)
      PROVE  GoesOn(r)
  BY <1>0, <1>4 DEF Reread, Respond, GoesOn, db, Local
<1>5. ASSUME NEW s \in Requests, Save(s) \/ SaveFails(s) \/ Disconnect(s)
      PROVE  GoesOn(r)
  <2>1. h' = [h EXCEPT ![s] = Idle]
    BY <1>5 DEF Save, SaveFails, Disconnect, Respond
  <2> QED
    BY <1>0, <2>1 DEF GoesOn
<1>6. ASSUME NEW s \in Requests, ProviderGrants(s) \/ RefreshFails(s)
      PROVE  GoesOn(r)
  <2>1. PICK ans : h' = [h EXCEPT ![s].pc = "answered", ![s].ans = ans]
    BY <1>6 DEF ProviderGrants, RefreshFails
  <2>2. h[s].pc = "calling"
    BY <1>6 DEF ProviderGrants, RefreshFails
  <2> QED
    BY <1>0, <2>1, <2>2 DEF GoesOn, Local
<1>7. ASSUME UNCHANGED h
      PROVE  GoesOn(r)
  BY <1>7 DEF GoesOn
<1>8. CASE Restart
  BY <1>0, <1>8 DEF Restart
<1> QED
  BY <1>1, <1>2, <1>3, <1>4, <1>5, <1>6, <1>7, <1>8
  DEF Next, Handler, Provider, ProcessOrphan, LoginExchange, LoginSave, DeleteUser, RotateKey, Tick

LEMMA NextHandlersHaveUsers ==
  ASSUME IInv, Next
  PROVE  HandlersHaveUsers'
<1> SUFFICES ASSUME NEW r \in Requests, h'[r].pc # "idle"
             PROVE  h'[r].user \in used'
  BY DEF HandlersHaveUsers
<1>1. CASE Starts(r)
  <2>1. PICK app \in Apps, u \in used : Arrive(r, app, u)
    BY <1>1 DEF Starts
  <2>2. h'[r].user = u /\ used' = used
    BY <2>1 DEF Arrive, db, Idle, IInv, TypeOK
  <2> QED
    BY <2>2
<1>2. CASE GoesOn(r)
  <2>1. h[r].user \in used /\ h[r].user \in Users
    BY <1>2 DEF GoesOn, IInv, HandlersHaveUsers, TypeOK
  <2>2. used \subseteq used'
    BY <2>1, NextRows
  <2> QED
    BY <1>2, <2>1, <2>2 DEF GoesOn
<1> QED
  BY <1>1, <1>2, NextHandlers

LEMMA NextKeysAreCurrent ==
  ASSUME IInv, Next
  PROVE  KeysAreCurrent'
<1> SUFFICES ASSUME NEW r \in Requests, h'[r].pc # "idle", tokens'[h'[r].user] # NoRow
             PROVE  LET row == tokens'[h'[r].user] IN
                    /\ AppOf[row.account] = h'[r].app => h'[r].key = key'[h'[r].app]
                    /\ h'[r].pc # "getToken" => AppOf[row.account] = h'[r].app
  BY DEF KeysAreCurrent
<1>1. CASE Starts(r)
  <2>1. PICK app \in Apps, u \in used : Arrive(r, app, u)
    BY <1>1 DEF Starts
  <2>2. h'[r].app = app /\ h'[r].key = key[app] /\ h'[r].pc = "getToken" /\ key' = key
    BY <2>1 DEF Arrive, db, Idle, IInv, TypeOK
  <2> QED
    BY <2>2
<1>2. CASE GoesOn(r)
  <2> DEFINE u   == h[r].user
             app == h[r].app
             row == tokens[u]
  <2>1. u \in used /\ u \in Users
    BY <1>2 DEF GoesOn, IInv, HandlersHaveUsers, TypeOK
  <2>2. /\ h'[r].user = u /\ h'[r].app = app /\ h'[r].key = h[r].key
        /\ tokens'[u] # NoRow
    BY <1>2 DEF GoesOn
  <2>3. row # NoRow /\ tokens'[u].account = row.account
    BY <2>1, <2>2, NextRows DEF RowStep
  <2>4. row.account \in Accounts /\ AppOf[row.account] \in Apps
    BY <2>1, <2>3, StoreAssumption DEF IInv, TypeOK, Table, Row
  <2>5. AppOf[row.account] = app => h[r].key = key[app] /\ key'[app] = key[app]
    <3>1. AppOf[row.account] = app => h[r].key = key[app]
      BY <1>2, <2>3 DEF IInv, KeysAreCurrent, GoesOn
    <3>2. AppOf[row.account] = app => key'[app] = key[app]
      BY <2>1, <2>2, <2>3, <2>4, NextKeys
    <3> QED
      BY <3>1, <3>2
  <2>6. h'[r].pc # "getToken" => AppOf[row.account] = app
    <3>1. CASE h[r].pc # "getToken"
      BY <1>2, <2>3, <3>1 DEF IInv, KeysAreCurrent, GoesOn
    <3>2. CASE h[r].pc = "getToken"
      BY <1>2, <2>3, <3>2 DEF GoesOn, GetToken
    <3> QED
      BY <3>1, <3>2
  <2> QED
    BY <2>2, <2>3, <2>5, <2>6
<1> QED
  BY <1>1, <1>2, NextHandlers

-----------------------------------------------------------------------------
(* The lock *)

\* Dropping one guard leaves the lock of everybody else's user alone.
LEMMA ReleaseKeeps ==
  ASSUME TypeOK, NEW r \in Requests, NEW s \in Requests, s # r,
         h[r].user \in Users, h[s].user \in Users, Holds(r), Holds(s), Release(s)
  PROVE  queue'[h[r].user] = queue[h[r].user]
BY DEF TypeOK, Holds, Release, LockOf

\* A waiter that leaves is not the head while the head talks to the provider.
LEMMA WithoutKeepsHead ==
  ASSUME NEW S, NEW q \in Seq(S), q # <<>>, NEW i \in 1..Len(q), q[i] # Head(q)
  PROVE  Without(q, i) # <<>> /\ Head(Without(q, i)) = Head(q)
<1> DEFINE w == Without(q, i)
<1>1. Len(q) \in Nat /\ Head(q) = q[1]
  OBVIOUS
<1>2. i > 1 /\ Len(q) - 1 \in Nat /\ 1 \in 1..(Len(q) - 1)
  BY <1>1
<1>3. w = [j \in 1..(Len(q) - 1) |-> IF j < i THEN q[j] ELSE q[j + 1]]
  BY DEF Without
<1>4. w[1] = q[1]
  BY <1>2, <1>3
<1>5. w \in Seq(S)
  BY WithoutType
<1>6. DOMAIN w = 1..(Len(q) - 1)
  BY <1>3
<1> HIDE DEF w
<1>7. w # <<>>
  BY <1>2, <1>6
<1>8. Head(w) = w[1]
  BY <1>5, <1>7
<1> QED
  BY <1>1, <1>4, <1>7, <1>8 DEF w

\* A handler that leaves with the lock does not touch any other refresher.
LEMMA LeaverKeepsOthers ==
  ASSUME IInv, NEW r \in Requests, NEW s \in Requests, h[s].user \in Users,
         Holds(s), Release(s), h' = [h EXCEPT ![s] = Idle], InRefresh(r)'
  PROVE  Holds(r)'
<1>1. s # r /\ h'[r] = h[r]
  BY DEF InRefresh, Idle, IInv, TypeOK
<1>2. InRefresh(r)
  BY <1>1 DEF InRefresh
<1>3. Holds(r) /\ h[r].user \in Users
  BY <1>2 DEF IInv, RefresherHoldsLock, HandlersHaveUsers, InRefresh, TypeOK
<1>4. queue'[h[r].user] = queue[h[r].user]
  BY <1>1, <1>3, ReleaseKeeps DEF IInv
<1> QED
  BY <1>1, <1>3, <1>4 DEF Holds, LockOf

\* Nothing else moves a refresher away from the head of its queue.
LEMMA StaysAtHead ==
  ASSUME IInv, NEW r \in Requests, InRefresh(r), h'[r].user = h[r].user, UNCHANGED queue
  PROVE  Holds(r)'
BY DEF IInv, RefresherHoldsLock, Holds, LockOf

LEMMA DisconnectKeepsLock ==
  ASSUME IInv, NEW r \in Requests, NEW s \in Requests, Disconnect(s), InRefresh(r)'
  PROVE  Holds(r)'
<1>1. h' = [h EXCEPT ![s] = Idle] /\ h[s].user \in Users
  BY DEF Disconnect, IInv, HandlersHaveUsers, TypeOK
<1>2. CASE h[s].pc \in {"calling", "answered"} /\ Release(s)
  <2>1. Holds(s)
    BY <1>2 DEF IInv, RefresherHoldsLock, InRefresh
  <2> QED
    BY <1>1, <1>2, <2>1, LeaverKeepsOthers
<1>3. CASE h[s].pc = "waiting"
  <2>1. s # r /\ h'[r] = h[r] /\ InRefresh(r)
    BY <1>1 DEF InRefresh, Idle, IInv, TypeOK
  <2>2. Holds(r) /\ h[r].user \in Users
    BY <2>1 DEF IInv, RefresherHoldsLock, HandlersHaveUsers, InRefresh, TypeOK
  <2> DEFINE q == queue[h[s].user]
  <2>3. q \in Seq(Requests)
    BY <1>1 DEF IInv, TypeOK
  <2>4. PICK i \in 1..Len(q) : /\ q[i] = s
                               /\ queue' = [queue EXCEPT ![h[s].user] = Without(@, i)]
    BY <1>3 DEF Disconnect, LockOf
  <2>5. CASE h[r].user = h[s].user
    <3>1. q # <<>> /\ Head(q) = r
      BY <2>2, <2>5 DEF Holds, LockOf
    <3>2. Without(q, i) # <<>> /\ Head(Without(q, i)) = r
      <4> HIDE DEF q
      <4> QED
        BY <2>1, <2>3, <2>4, <3>1, WithoutKeepsHead
    <3>3. queue'[h[r].user] = Without(q, i)
      BY <2>2, <2>4, <2>5 DEF IInv, TypeOK
    <3> QED
      BY <2>1, <3>2, <3>3 DEF Holds, LockOf
  <2>6. CASE h[r].user # h[s].user
    <3>1. queue'[h[r].user] = queue[h[r].user]
      BY <2>2, <2>4, <2>6 DEF IInv, TypeOK
    <3> QED
      BY <2>1, <2>2, <3>1 DEF Holds, LockOf
  <2> QED
    BY <2>5, <2>6
<1> QED
  BY <1>2, <1>3 DEF Disconnect

LEMMA NextHoldsLock ==
  ASSUME IInv, Next
  PROVE  RefresherHoldsLock'
<1> SUFFICES ASSUME NEW r \in Requests, InRefresh(r)'
             PROVE  Holds(r)'
  BY DEF RefresherHoldsLock
<1>0. h \in [Requests -> Local] /\ queue \in [Users -> Seq(Requests)]
  BY DEF IInv, TypeOK
<1>1. ASSUME NEW s \in Requests, NEW app \in Apps, NEW u \in used, Arrive(s, app, u)
      PROVE  Holds(r)'
  <2>1. h'[r] = h[r] /\ UNCHANGED queue
    BY <1>0, <1>1 DEF Arrive, InRefresh, Idle
  <2> QED
    BY <2>1, StaysAtHead DEF InRefresh
<1>2. ASSUME NEW s \in Requests, LoadToken(s)
      PROVE  Holds(r)'
  <2>1. CASE h' = [h EXCEPT ![s] = Idle]
    BY <1>0, <1>2, <2>1, StaysAtHead DEF LoadToken, InRefresh, Idle
  <2>2. CASE h' = [h EXCEPT ![s].pc = "lock"]
    BY <1>0, <1>2, <2>2, StaysAtHead DEF LoadToken, InRefresh, Local
  <2> QED
    BY <1>2, <2>1, <2>2 DEF LoadToken, Respond
<1>3. ASSUME NEW s \in Requests, RefreshLock(s)
      PROVE  Holds(r)'
  <2>1. h'[r] = h[r] /\ InRefresh(r)
    BY <1>0, <1>3 DEF RefreshLock, InRefresh, Local
  <2>2. Holds(r) /\ h[r].user \in Users /\ h[s].user \in Users
    BY <1>3, <2>1 DEF IInv, RefresherHoldsLock, HandlersHaveUsers, InRefresh, RefreshLock, TypeOK
  <2>3. queue[h[r].user] \in Seq(Requests) /\ queue[h[r].user] # <<>>
    BY <1>0, <2>2 DEF Holds, LockOf
  <2>4. queue'[h[r].user] \in {queue[h[r].user], Append(queue[h[r].user], s)}
    BY <1>0, <1>3, <2>2 DEF RefreshLock, LockOf
  <2>5. queue'[h[r].user] # <<>> /\ Head(queue'[h[r].user]) = Head(queue[h[r].user])
    BY <2>3, <2>4
  <2> QED
    BY <2>1, <2>2, <2>5 DEF Holds, LockOf
<1>4. ASSUME NEW s \in Requests, Reread(s)
      PROVE  Holds(r)'
  <2>1. h[s].user \in Users /\ Holds(s)
    BY <1>4 DEF IInv, HandlersHaveUsers, Reread, TypeOK
  <2>2. CASE h' = [h EXCEPT ![s] = Idle] /\ Release(s)
    BY <2>1, <2>2, LeaverKeepsOthers
  <2>3. CASE /\ UNCHANGED queue
             /\ \E x : h' = [h EXCEPT ![s].pc = "calling", ![s].asOf = now, ![s].refresh = x]
    <3>1. h'[r].user = h[r].user /\ (r = s \/ InRefresh(r))
      BY <1>0, <2>3 DEF InRefresh, Local
    <3>2. CASE r = s
      BY <2>1, <2>3, <3>1, <3>2 DEF Holds, LockOf
    <3>3. CASE InRefresh(r)
      BY <2>3, <3>1, <3>3, StaysAtHead
    <3> QED
      BY <3>1, <3>2, <3>3
  <2> QED
    BY <1>4, <2>2, <2>3 DEF Reread, Respond
<1>5. ASSUME NEW s \in Requests, Save(s) \/ SaveFails(s)
      PROVE  Holds(r)'
  <2>1. h' = [h EXCEPT ![s] = Idle] /\ Release(s) /\ h[s].pc = "answered"
    BY <1>5 DEF Save, SaveFails, Respond
  <2>2. Holds(s) /\ h[s].user \in Users
    BY <2>1 DEF IInv, RefresherHoldsLock, HandlersHaveUsers, InRefresh, TypeOK
  <2> QED
    BY <2>1, <2>2, LeaverKeepsOthers
<1>6. ASSUME NEW s \in Requests, ProviderGrants(s) \/ RefreshFails(s)
      PROVE  Holds(r)'
  <2>1. PICK ans : h' = [h EXCEPT ![s].pc = "answered", ![s].ans = ans]
    BY <1>6 DEF ProviderGrants, RefreshFails
  <2>2. h[s].pc = "calling" /\ UNCHANGED queue
    BY <1>6 DEF ProviderGrants, RefreshFails
  <2>3. h'[r].user = h[r].user /\ InRefresh(r)
    BY <1>0, <2>1, <2>2 DEF InRefresh, Local
  <2> QED
    BY <2>2, <2>3, StaysAtHead
<1>7. ASSUME NEW s \in Requests, Disconnect(s)
      PROVE  Holds(r)'
  BY <1>7, DisconnectKeepsLock
<1>8. ASSUME UNCHANGED <<h, queue>>
      PROVE  Holds(r)'
  BY <1>8, StaysAtHead DEF InRefresh
<1>9. CASE Restart
  BY <1>9 DEF Restart, InRefresh, Idle
<1> QED
  BY <1>1, <1>2, <1>3, <1>4, <1>5, <1>6, <1>7, <1>8, <1>9
  DEF Next, Handler, Provider, ProcessOrphan, LoginExchange, LoginSave, DeleteUser, RotateKey, Tick

-----------------------------------------------------------------------------
(* The user ids *)

LEMMA NextIds ==
  ASSUME IInv, Next
  PROVE  OneRowPerAccount(tokens') /\ [Ids!Next]_(Ids!vars)
<1> USE DEF IInv
<1>0. IdsOf(tokens') \in [Accounts -> SUBSET Users]
  BY DEF IdsOf, Holders
<1>1. ASSUME UNCHANGED <<tokens, used>>
      PROVE  OneRowPerAccount(tokens') /\ [Ids!Next]_(Ids!vars)
  BY <1>1 DEF Ids!vars
<1>2. ASSUME NEW r \in Requests, Save(r)
      PROVE  OneRowPerAccount(tokens') /\ [Ids!Next]_(Ids!vars)
  <2>1. \A u \in Users : \/ tokens'[u] = tokens[u]
                          \/ /\ tokens[u] # NoRow /\ tokens'[u] # NoRow
                             /\ tokens'[u].account = tokens[u].account
    BY <1>2, SaveRows
  <2>2. OneRowPerAccount(tokens') /\ IdsOf(tokens') = IdsOf(tokens)
    BY <2>1, SameIds
  <2> QED
    BY <1>2, <2>2 DEF Save, Ids!vars
<1>3. ASSUME NEW a \in Accounts, LoginSave(a)
      PROVE  OneRowPerAccount(tokens') /\ [Ids!Next]_(Ids!vars)
  <2> DEFINE Wrote(expires) == [account |-> a, access |-> login[a], scopes |-> login[a],
                                expires |-> expires,
                                refresh |-> IF login[a] \in live THEN login[a] ELSE None]
  <2>1. PICK u \in UpsertIds(tokens, used, a),
             expires \in {now + TTL} \cup {None : e \in Env \cap {"noExpiresIn"}} :
          tokens' = Upsert(tokens, u, Wrote(expires)) /\ used' = used \cup {u}
    BY <1>3 DEF LoginSave
  <2>2. expires \in Nat /\ login[a] \in Nat \ {None}
    BY <1>3, <2>1, RefreshAssumption DEF LoginSave, TypeOK, None
  <2>3. Wrote(expires) \in Row /\ Wrote(expires).account = a
    BY <2>2 DEF Row, None
  <2>4. tokens \in Table /\ RowsUsed(tokens, used) /\ OneRowPerAccount(tokens)
    BY DEF TypeOK, RowsAreUsed, RowsUsed
  <2> HIDE DEF Wrote
  <2>5. OneRowPerAccount(tokens') /\ KeepsOrBears(tokens, used, a, u, tokens')
    BY <2>1, <2>3, <2>4, UpsertedIds
  <2> QED
    BY <2>1, <2>5 DEF KeepsOrBears, Ids!vars, Ids!Next, Ids!Born
<1>4. ASSUME used' = used, \A u \in Users : tokens'[u] \in {tokens[u], NoRow}
      PROVE  OneRowPerAccount(tokens') /\ [Ids!Next]_(Ids!vars)
  BY <1>0, <1>4, FewerIds DEF Ids!Next, Ids!Gone
<1>5. ASSUME NEW u \in Users, DeleteUser(u)
      PROVE  OneRowPerAccount(tokens') /\ [Ids!Next]_(Ids!vars)
  BY <1>4, <1>5 DEF DeleteUser, DeleteToken, TypeOK, Table
<1>6. ASSUME NEW app \in Apps, RotateKey(app)
      PROVE  OneRowPerAccount(tokens') /\ [Ids!Next]_(Ids!vars)
  BY <1>4, <1>6 DEF RotateKey, DeleteTokensOf, TypeOK, Table
<1> QED
  BY <1>1, <1>2, <1>3, <1>5, <1>6
  DEF Next, Arrive, Handler, LoadToken, RefreshLock, Reread, SaveFails, Provider,
      ProviderGrants, RefreshFails, Disconnect, ProcessOrphan, LoginExchange, Restart, Tick, db

-----------------------------------------------------------------------------
(* The theorems *)

LEMMA InitInv == Init => IInv
<1> SUFFICES ASSUME Init PROVE IInv
  OBVIOUS
<1>1. \A r \in Requests : h[r].pc = "idle"
  BY DEF Init, Idle
<1>2. \A u \in Users : tokens[u] = NoRow
  BY DEF Init, EmptyTable
<1> QED
  BY <1>1, <1>2, InitType, EmptyIds
  DEF Init, IInv, HandlersHaveUsers, RefresherHoldsLock, InRefresh, RowsAreUsed, KeysAreCurrent

LEMMA NextInv == IInv /\ [Next]_vars => IInv'
<1> SUFFICES ASSUME IInv, [Next]_vars PROVE IInv'
  OBVIOUS
<1>1. CASE Next
  <2>1. RowsAreUsed'
    BY <1>1, NextRows DEF RowsAreUsed
  <2> QED
    BY <1>1, <2>1, NextType, NextHandlersHaveUsers, NextHoldsLock,
       NextKeysAreCurrent, NextIds DEF IInv
<1>2. CASE UNCHANGED vars
  BY <1>2 DEF vars, db, provider, IInv, TypeOK, HandlersHaveUsers, RefresherHoldsLock, InRefresh,
              Holds, RowsAreUsed, KeysAreCurrent, OneRowPerAccount
<1> QED
  BY <1>1, <1>2

\* The invariant holds in every behaviour of user_token, the refresh locks and
\* what writes the table around them.
THEOREM Invariance == Spec => []IInv
BY InitInv, NextInv, PTL DEF Spec

\* Every variable keeps its type, however many callers, users and apps there
\* are and whatever the environment does.
THEOREM TypeCorrect == Spec => []TypeOK
<1>1. IInv => TypeOK
  BY DEF IInv
<1> QED
  BY <1>1, Invariance, PTL

\* The refresh lock does its work: two handlers never talk to the provider for
\* the same user (user_token, refresh_lock).
THEOREM RefreshIsExclusive == Spec => []OneRefreshPerUser
<1>1. IInv => OneRefreshPerUser
  BY DEF IInv, RefresherHoldsLock, Holds, LockOf, OneRefreshPerUser
<1> QED
  BY <1>1, Invariance, PTL

LEMMA AnswersAreSealed ==
  ASSUME IInv, Next, NEW r \in Requests, Answered(r, 200)
  PROVE  out'[r].key = key'[h[r].app]
<1>0. out \in [Requests -> Response] /\ NoResponse.status = None
  BY DEF IInv, TypeOK, NoResponse
<1>1. \A code : Fail(code).status = code
  BY DEF Fail, NoResponse
<1>2. \A row, t : Sealed(r, row, t).key = h[r].key
  BY DEF Sealed
<1>3. ASSUME h[r].pc # "idle", tokens[h[r].user] # NoRow,
             AppOf[tokens[h[r].user].account] = h[r].app, UNCHANGED key,
             NEW row, NEW t, Respond(r, Sealed(r, row, t))
      PROVE  out'[r].key = key'[h[r].app]
  <2>1. h[r].key = key[h[r].app]
    BY <1>3 DEF IInv, KeysAreCurrent
  <2> QED
    BY <1>0, <1>2, <1>3, <2>1 DEF Respond
<1>4. ASSUME NEW s \in Requests, LoadToken(s)
      PROVE  out'[r].key = key'[h[r].app]
  <2>1. s = r
    BY <1>0, <1>4 DEF LoadToken, Respond, Answered
  <2>2. PICK row : /\ row = GetToken(tokens, h[r].app, h[r].user) /\ row # NoRow
                   /\ Respond(r, Sealed(r, row, now))
    BY <1>0, <1>1, <1>4, <2>1 DEF LoadToken, Respond, Answered
  <2> QED
    BY <1>3, <1>4, <2>1, <2>2 DEF LoadToken, GetToken, db
<1>5. ASSUME NEW s \in Requests, Reread(s)
      PROVE  out'[r].key = key'[h[r].app]
  <2>1. s = r
    BY <1>0, <1>5 DEF Reread, Respond, Answered
  <2>2. PICK row : /\ row = GetToken(tokens, h[r].app, h[r].user) /\ row # NoRow
                   /\ Respond(r, Sealed(r, row, now))
    BY <1>0, <1>1, <1>5, <2>1 DEF Reread, Respond, Answered
  <2> QED
    BY <1>3, <1>5, <2>1, <2>2 DEF Reread, GetToken, db
<1>6. ASSUME NEW s \in Requests, Save(s)
      PROVE  out'[r].key = key'[h[r].app]
  <2>1. s = r
    BY <1>0, <1>6 DEF Save, Respond, Answered
  <2>2. h[r].pc = "answered" /\ UNCHANGED key
    BY <1>6, <2>1 DEF Save
  <2>3. /\ tokens[h[r].user] # NoRow
        /\ \E row, t : Respond(r, Sealed(r, row, t))
    BY <1>0, <1>1, <1>6, <2>1 DEF Save, Respond, Answered
  <2>4. AppOf[tokens[h[r].user].account] = h[r].app
    BY <2>2, <2>3 DEF IInv, KeysAreCurrent
  <2> QED
    BY <1>3, <2>2, <2>3, <2>4
<1>7. ASSUME NEW s \in Requests, SaveFails(s)
      PROVE  FALSE
  BY <1>0, <1>1, <1>7 DEF SaveFails, Respond, Answered
<1>8. ASSUME NEW s \in Requests, NEW app \in Apps, NEW u \in used, Arrive(s, app, u)
      PROVE  FALSE
  BY <1>0, <1>8 DEF Arrive, Answered, None
<1>9. CASE Restart
  BY <1>0, <1>9 DEF Restart, Answered, None
<1>10. CASE UNCHANGED out
  BY <1>10 DEF Answered
<1> QED
  BY <1>4, <1>5, <1>6, <1>7, <1>8, <1>9, <1>10
  DEF Next, Handler, RefreshLock, Provider, ProviderGrants, RefreshFails, Disconnect,
      ProcessOrphan, LoginExchange, LoginSave, DeleteUser, RotateKey, Tick

\* No answer is sealed to a key the app no longer has, however long the handler
\* waited between reading the key and answering (user_token, update_app).
THEOREM SealedToTheCurrentKey == Spec => SealedToCurrentKey
<1> DEFINE Seals == \A r \in Requests : Answered(r, 200) => out'[r].key = key'[h[r].app]
<1>1. IInv /\ [Next]_vars => [Seals]_vars
  <2>1. IInv /\ Next => Seals
    BY AnswersAreSealed
  <2> QED
    BY <2>1
<1> QED
  BY <1>1, Invariance, PTL DEF Spec, SealedToCurrentKey

\* Refreshes, logins, deletions and rotations, with all the faults around them,
\* implement the abstract user ids: each is a step of UserIds or a stutter.
THEOREM RefreshImplementsUserIds == Spec => ImplementsUserIds
<1>1. Init => Ids!Init
  BY EmptyIds DEF Init, Ids!Init
<1>2. IInv /\ [Next]_vars => [Ids!Next]_(Ids!vars)
  <2>1. IInv /\ UNCHANGED vars => UNCHANGED Ids!vars
    BY DEF vars, db, Ids!vars
  <2> QED
    BY <2>1, NextIds
<1> QED
  BY <1>1, <1>2, Invariance, PTL DEF Spec, ImplementsUserIds, Ids!Spec

-----------------------------------------------------------------------------
(* The grants: whose they are, and what a handler knows of its answer *)

\* The refresh tokens a handler in a provider call sends and is answered.
Carried(r) == {h[r].refresh, h[r].ans.refresh}

\* Grant `g` is, or was sent as, the refresh token of user `u`.
Named(u, g) ==
  \/ tokens[u] # NoRow /\ tokens[u].refresh = g
  \/ \E r \in Requests : InRefresh(r) /\ h[r].user = u /\ g \in Carried(r)

\* What rows, handlers and logins hold was minted.
GrantsExist ==
  /\ \A u \in Users : tokens[u] # NoRow => tokens[u].access \in DOMAIN grants
  /\ \A u \in Users, g \in Nat \ {None} : Named(u, g) => g \in DOMAIN grants
  /\ \A a \in Accounts : login[a] # None =>
       /\ login[a] \in DOMAIN grants
       /\ grants[login[a]].lineage = login[a] /\ ~grants[login[a]].refreshed

\* No refresh token belongs to two users, to a user and a login, or to two logins.
GrantsAreOwned ==
  \A g \in Nat \ {None} :
    /\ \A u, v \in Users : Named(u, g) /\ Named(v, g) => u = v
    /\ \A a \in Accounts : login[a] = g => \A u \in Users : ~Named(u, g)
    /\ \A a, b \in Accounts : login[a] = g /\ login[b] = g => a = b

\* What handler `r` knows about the answer it has.
Fits(r) ==
  /\ h[r].pc # "answered" => h[r].ans = Err
  /\ InRefresh(r) => h[r].refresh # None /\ h[r].asOf <= now
  /\ InRefresh(r) /\ h[r].ans # Err =>
       /\ h[r].ans.grant \in DOMAIN grants
       /\ h[r].ans.refresh \in {None, h[r].ans.grant}
       /\ h[r].asOf + TTL <= grants[h[r].ans.grant].until
       /\ grants[h[r].ans.grant].lineage = grants[h[r].refresh].lineage
       /\ "noExpiresIn" \notin Env => h[r].ans.ttl = TTL

AnswersFit == \A r \in Requests : Fits(r)

GInv == IInv /\ GrantsExist /\ GrantsAreOwned /\ AnswersFit

\* Nothing is lost on its way from the provider to the row.
Calm == Env \cap {"lostAnswer", "disconnect", "restart", "busy"} = {}

-----------------------------------------------------------------------------
(* The effects a step may have on grants *)

\* Nothing new: rows, logins and calls may go.
Quiet ==
  /\ UNCHANGED grants /\ live' \subseteq live /\ now <= now'
  /\ \A u \in Users : tokens'[u] \in {tokens[u], NoRow}
  /\ \A a \in Accounts : login'[a] \in {login[a], None}
  /\ \A r \in Requests :
       \/ h'[r] = h[r]
       \/ /\ ~InRefresh(r)' /\ h'[r].ans = Err
          /\ Calm /\ InRefresh(r) => h[r].ans = Err \/ tokens[h[r].user] = NoRow
  /\ Calm /\ orphans = {} => UNCHANGED <<live, orphans>>

\* Handler `r` calls the provider with the row's refresh token.
Dials(r) ==
  LET row == tokens[h[r].user] IN
  /\ h[r].pc = "waiting" /\ Holds(r) /\ row # NoRow /\ row.refresh # None /\ row.expires <= now
  /\ h' = [h EXCEPT ![r].pc = "calling", ![r].asOf = now, ![r].refresh = row.refresh]
  /\ UNCHANGED <<now, tokens, grants, live, orphans, login>>

\* Handler `r` stores the answer it has.
Stores(r) ==
  LET u == h[r].user  ans == h[r].ans IN
  /\ h[r].pc = "answered" /\ ans # Err /\ tokens[u] # NoRow
  /\ \A v \in Users \ {u} : tokens'[v] = tokens[v]
  /\ tokens'[u] \in Row
  /\ tokens'[u].account = tokens[u].account /\ tokens'[u].scopes = tokens[u].scopes
  /\ tokens'[u].access = ans.grant
  /\ tokens'[u].refresh = OrKeep(ans.refresh, h[r].refresh)
  /\ tokens'[u].expires = IF ans.ttl = TTL THEN h[r].asOf + TTL ELSE tokens[u].expires
  /\ h' = [h EXCEPT ![r] = Idle]
  /\ UNCHANGED <<now, grants, live, orphans, login>>

\* The login of account `a` is stored at `u`.
LogsIn(a, u) ==
  LET g == login[a]  row == tokens[u] IN
  /\ LoginSave(a) /\ g # None /\ u \in Users
  /\ \A v \in Users \ {u} : tokens'[v] = tokens[v]
  /\ tokens'[u] \in Row
  /\ tokens'[u].expires <= now + TTL \/ (row # NoRow /\ tokens'[u].expires = row.expires)
  /\ tokens'[u].account = a /\ tokens'[u].access = g /\ tokens'[u].scopes = g
  /\ \/ tokens'[u].refresh \in {None, g}
     \/ row # NoRow /\ g \notin live /\ tokens'[u].refresh = row.refresh
  /\ tokens'[u].refresh = g => g \in live
  /\ row = NoRow => u \notin used
  /\ row # NoRow => row.account = a
  /\ login' = [login EXCEPT ![a] = None]
  /\ UNCHANGED <<now, grants, live, orphans, h>>

LEMMA SaveEffect ==
  ASSUME GInv, NEW r \in Requests, Save(r)
  PROVE  Quiet \/ Stores(r)
<1> DEFINE u       == h[r].user
           ans     == h[r].ans
           expires == IF ans.ttl = None THEN None ELSE ExpiryBase(r) + ans.ttl
           refresh == OrKeep(ans.refresh, h[r].refresh)
           saved   == SaveRefreshed(tokens, u, ans.grant, refresh, expires)
<1>1. /\ h[r].pc = "answered" /\ InRefresh(r) /\ u \in Users /\ h[r] \in Local
      /\ h \in [Requests -> Local] /\ tokens \in Table /\ now \in Nat
  BY DEF Save, InRefresh, GInv, IInv, TypeOK, HandlersHaveUsers
<1>2. /\ h' = [h EXCEPT ![r] = Idle] /\ UNCHANGED <<now, grants, live, orphans, login>>
  BY DEF Save, Respond, provider
<1>3. CASE UNCHANGED tokens /\ (ans = Err \/ tokens[u] = NoRow)
  <2>1. ~InRefresh(r)' /\ h'[r].ans = Err
    BY <1>1, <1>2 DEF InRefresh, Idle
  <2> QED
    BY <1>1, <1>2, <1>3, <2>1 DEF Quiet
<1>4. CASE ans # Err /\ tokens[u] # NoRow /\ tokens' = saved
  <2>1. /\ ans \in Answer /\ refresh \in Nat /\ expires \in Nat
        /\ h[r].refresh \in Nat /\ h[r].asOf \in Nat
    BY <1>1, RefreshAssumption DEF Local, Answer, Err, OrKeep, ExpiryBase, None
  <2>2. ans.grant \in Nat \ {None}
    BY <1>4, <2>1 DEF Answer
  <2>3. refresh # None
    BY <1>1 DEF GInv, AnswersFit, Fits, OrKeep
  <2>4. IF ans.ttl = TTL THEN expires = h[r].asOf + TTL /\ expires # None ELSE expires = None
    BY <2>1, RefreshAssumption DEF ExpiryBase, None, Answer, Err
  <2>5. tokens[u] \in Row
    BY <1>1, <1>4 DEF Table
  <2> DEFINE new == RefreshedRow(tokens[u], ans.grant, refresh, expires)
  <2>6. /\ new \in Row /\ new.account = tokens[u].account /\ new.scopes = tokens[u].scopes
        /\ new.access = ans.grant /\ new.refresh = refresh
        /\ new.expires = OrKeep(expires, tokens[u].expires)
    <3> HIDE DEF refresh, expires
    <3> QED
      BY <2>1, <2>2, <2>3, <2>5 DEF Row, RefreshedRow, OrKeep
  <2>7. tokens'[u] = new /\ \A v \in Users \ {u} : tokens'[v] = tokens[v]
    <3> HIDE DEF refresh, expires
    <3> QED
      BY <1>1, <1>4 DEF SaveRefreshed, Table
  <2> HIDE DEF new
  <2> QED
    BY <1>1, <1>2, <1>4, <2>4, <2>6, <2>7 DEF Stores, OrKeep
<1> QED
  BY <1>3, <1>4 DEF Save, Failed

LEMMA LoginSaveEffect ==
  ASSUME GInv, NEW a \in Accounts, LoginSave(a)
  PROVE  \E u \in Users : LogsIn(a, u)
<1> DEFINE g == login[a]
           Wrote(expires) == [account |-> a, access |-> g, scopes |-> g, expires |-> expires,
                              refresh |-> IF g \in live THEN g ELSE None]
<1>1. PICK u \in UpsertIds(tokens, used, a),
           expires \in {now + TTL} \cup {None : e \in Env \cap {"noExpiresIn"}} :
        tokens' = Upsert(tokens, u, Wrote(expires))
  BY DEF LoginSave
<1>2. expires \in Nat /\ g \in Nat \ {None} /\ tokens \in Table
  BY <1>1, RefreshAssumption DEF LoginSave, GInv, IInv, TypeOK, None
<1>3. Wrote(expires) \in Row
  BY <1>2 DEF Row, None
<1>4. /\ u \in Users
      /\ tokens[u] = NoRow \/ tokens[u].account = a
      /\ tokens[u] = NoRow => u \notin used
  BY <1>1, UpsertIdsType DEF GInv, IInv
<1>5. /\ tokens'[u] = UpsertedRow(tokens[u], Wrote(expires))
      /\ \A v \in Users \ {u} : tokens'[v] = tokens[v]
  BY <1>1, <1>2, <1>4 DEF Upsert, Table
<1>6. tokens'[u] \in Row
  BY <1>1, <1>2, <1>3, <1>4, UpsertType
<1>7. /\ tokens'[u].account = a /\ tokens'[u].access = g /\ tokens'[u].scopes = g
      /\ tokens'[u].refresh = IF tokens[u] # NoRow /\ g \notin live THEN tokens[u].refresh
                              ELSE IF g \in live THEN g ELSE None
  BY <1>2, <1>5 DEF UpsertedRow, OrKeep
<1>8. g \in live => tokens'[u].refresh = g
  BY <1>7
<1>12. tokens'[u].expires <= now + TTL \/ (tokens[u] # NoRow /\ tokens'[u].expires = tokens[u].expires)
  <2>1. now \in Nat /\ TTL \in Nat /\ expires \in {None, now + TTL}
    BY <1>1, RefreshAssumption DEF GInv, IInv, TypeOK
  <2>2. /\ tokens[u] = NoRow => tokens'[u].expires = expires
        /\ tokens[u] # NoRow => tokens'[u].expires = OrKeep(expires, tokens[u].expires)
    BY <1>5 DEF UpsertedRow
  <2>3. None <= now + TTL /\ now + TTL <= now + TTL
    BY <2>1 DEF None
  <2> QED
    BY <2>1, <2>2, <2>3 DEF OrKeep
<1>9. login' = [login EXCEPT ![a] = None] /\ UNCHANGED <<now, grants, live, orphans, h>>
  BY DEF LoginSave, provider
<1>10. g \notin live =>
         \/ tokens'[u].refresh = None
         \/ tokens[u] # NoRow /\ tokens'[u].refresh = tokens[u].refresh
  BY <1>7
<1>11. tokens[u] # NoRow => tokens[u].refresh # g \/ g \in live
  <2>1. ASSUME tokens[u] # NoRow, tokens[u].refresh = g PROVE FALSE
    BY <1>2, <1>4, <2>1 DEF GInv, GrantsAreOwned, Named
  <2> QED
    BY <2>1
<1> QED
  BY <1>2, <1>4, <1>5, <1>6, <1>7, <1>8, <1>9, <1>10, <1>11, <1>12 DEF LogsIn
LEMMA RereadEffect ==
  ASSUME GInv, NEW r \in Requests, Reread(r)
  PROVE  Quiet \/ Dials(r)
<1> DEFINE u == h[r].user
<1>1. /\ h[r].pc = "waiting" /\ Holds(r) /\ u \in Users
      /\ h \in [Requests -> Local] /\ tokens \in Table /\ now \in Nat
  BY DEF Reread, GInv, IInv, TypeOK, HandlersHaveUsers
<1>2. UNCHANGED <<now, tokens, grants, live, orphans, login>>
  BY DEF Reread, db, provider
<1>3. CASE h' = [h EXCEPT ![r] = Idle]
  <2>1. ~InRefresh(r)' /\ h'[r].ans = Err /\ ~InRefresh(r)
    BY <1>1, <1>3 DEF InRefresh, Idle
  <2> QED
    BY <1>1, <1>2, <1>3, <2>1 DEF Quiet
<1>4. ASSUME GetToken(tokens, h[r].app, u) # NoRow, GetToken(tokens, h[r].app, u).refresh # None,
             Expired(GetToken(tokens, h[r].app, u), now),
             h' = [h EXCEPT ![r].pc = "calling", ![r].asOf = now,
                            ![r].refresh = GetToken(tokens, h[r].app, u).refresh]
      PROVE  Dials(r)
  <2>1. GetToken(tokens, h[r].app, u) = tokens[u]
    BY <1>1, <1>4, GetTokenType
  <2> QED
    BY <1>1, <1>2, <1>4, <2>1 DEF Dials, Expired
<1> QED
  BY <1>3, <1>4 DEF Reread, Respond

\* Handler `r` has not called the provider and its step does not.
LEMMA QuietHandler ==
  ASSUME GInv, NEW r \in Requests, NEW l, h' = [h EXCEPT ![r] = l],
         l.pc \notin {"calling", "answered"}, l.ans = Err,
         Calm => ~InRefresh(r),
         UNCHANGED <<now, tokens, grants, live, login>>, Calm => UNCHANGED orphans
  PROVE  Quiet
<1>1. h \in [Requests -> Local] /\ now \in Nat
  BY DEF GInv, IInv, TypeOK
<1>2. ~InRefresh(r)' /\ h'[r].ans = Err
  BY <1>1 DEF InRefresh
<1> QED
  BY <1>1, <1>2 DEF Quiet

\* Every step has one of these effects.
LEMMA NextEffect ==
  ASSUME GInv, Next
  PROVE  \/ Quiet
         \/ \E r \in Requests : Dials(r) \/ ProviderGrants(r) \/ RefreshFails(r) \/ Stores(r)
         \/ \E a \in Accounts : LoginExchange(a) \/ \E u \in Users : LogsIn(a, u)
<1>0. /\ h \in [Requests -> Local] /\ now \in Nat /\ tokens \in Table
      /\ login \in [Accounts -> Nat] /\ live \subseteq DOMAIN grants
  BY DEF GInv, IInv, TypeOK
<1>1. ASSUME NEW r \in Requests, NEW app \in Apps, NEW u \in used, Arrive(r, app, u)
      PROVE  Quiet
  <2> DEFINE l == [Idle EXCEPT !.pc = "getToken", !.app = app, !.user = u, !.key = key[app]]
  <2>1. l.pc = "getToken" /\ l.ans = Err
    BY DEF Idle
  <2>2. h' = [h EXCEPT ![r] = l] /\ ~InRefresh(r)
    BY <1>1 DEF Arrive, InRefresh
  <2> HIDE DEF l
  <2> QED
    BY <1>1, <2>1, <2>2, QuietHandler DEF Arrive, db, provider
<1>2. ASSUME NEW r \in Requests, LoadToken(r) \/ RefreshLock(r)
      PROVE  Quiet
  <2>1. h[r].ans = Err /\ ~InRefresh(r)
    BY <1>2 DEF LoadToken, RefreshLock, GInv, AnswersFit, Fits, InRefresh
  <2>2. PICK l \in {Idle, [h[r] EXCEPT !.pc = "lock"], [h[r] EXCEPT !.pc = "waiting"]} :
          h' = [h EXCEPT ![r] = l]
    BY <1>2 DEF LoadToken, RefreshLock, Respond
  <2>3. l.pc \notin {"calling", "answered"} /\ l.ans = Err
    BY <1>0, <2>1, <2>2 DEF Idle, Local
  <2> QED
    BY <1>2, <2>1, <2>2, <2>3, QuietHandler DEF LoadToken, RefreshLock, db, provider
<1>3. ASSUME NEW r \in Requests, SaveFails(r) \/ Disconnect(r)
      PROVE  Quiet
  <2>1. Idle.pc = "idle" /\ Idle.ans = Err
    BY DEF Idle
  <2>2. h' = [h EXCEPT ![r] = Idle] /\ ~Calm /\ UNCHANGED <<now, tokens, grants, live, login>>
    BY <1>3 DEF SaveFails, Disconnect, Respond, Calm, db, provider
  <2> QED
    BY <2>1, <2>2, QuietHandler
<1>4. CASE Restart
  <2>1. ASSUME NEW r \in Requests PROVE ~InRefresh(r)' /\ h'[r].ans = Err
    BY <1>4 DEF Restart, InRefresh, Idle
  <2>2. \A a \in Accounts : login'[a] = None
    BY <1>4 DEF Restart
  <2>3. ~Calm /\ UNCHANGED <<now, tokens, grants, live>>
    BY <1>4 DEF Restart, Calm, db
  <2> QED
    BY <1>0, <2>1, <2>2, <2>3 DEF Quiet
<1>5. ASSUME NEW g \in orphans, ProcessOrphan(g)
      PROVE  Quiet
  BY <1>0, <1>5 DEF ProcessOrphan, Quiet, db
<1>6. ASSUME UNCHANGED <<grants, live, orphans, login, h>>, now <= now',
             \A u \in Users : tokens'[u] \in {tokens[u], NoRow}
      PROVE  Quiet
  BY <1>0, <1>6 DEF Quiet
<1>7. ASSUME NEW u \in Users, DeleteUser(u)
      PROVE  Quiet
  BY <1>0, <1>6, <1>7 DEF DeleteUser, DeleteToken, Table, provider
<1>8. ASSUME NEW app \in Apps, RotateKey(app)
      PROVE  Quiet
  BY <1>0, <1>6, <1>8 DEF RotateKey, DeleteTokensOf, provider
<1>9. CASE Tick
  BY <1>0, <1>6, <1>9 DEF Tick, db, provider
<1> QED
  BY <1>1, <1>2, <1>3, <1>4, <1>5, <1>7, <1>8, <1>9, SaveEffect, RereadEffect, LoginSaveEffect
  DEF Next, Handler, Provider

-----------------------------------------------------------------------------
(* Who has which grant *)

\* A new grant has a new number and leaves the others as they are.
LEMMA Minted ==
  ASSUME IInv, NEW g, grants' = Append(grants, g)
  PROVE  /\ Len(grants) + 1 \in Nat \ {None} /\ Len(grants) + 1 \notin DOMAIN grants
         /\ Len(grants) + 1 \in DOMAIN grants' /\ grants'[Len(grants) + 1] = g
         /\ \A i \in DOMAIN grants : i \in DOMAIN grants' /\ grants'[i] = grants[i]
<1>1. grants \in Seq(Grant)
  BY DEF IInv, TypeOK
<1>2. Len(grants) \in Nat /\ DOMAIN grants = 1..Len(grants)
  BY <1>1
<1>3. Len(grants') = Len(grants) + 1 /\ DOMAIN grants' = 1..(Len(grants) + 1)
  BY <1>1
<1>4. \A i \in 1..Len(grants) : grants'[i] = grants[i]
  BY <1>1
<1>5. grants'[Len(grants) + 1] = g
  BY <1>1
<1> QED
  BY <1>2, <1>3, <1>4, <1>5 DEF None

\* Steps that make nobody the owner of a grant he did not have.
LEMMA NoNewNames ==
  ASSUME GInv, NEW u \in Users, NEW g \in Nat \ {None}, Named(u, g)',
         \/ Quiet
         \/ \E r \in Requests : Dials(r) \/ RefreshFails(r) \/ Stores(r)
         \/ \E a \in Accounts : LoginExchange(a)
  PROVE  Named(u, g)
<1>0. /\ h \in [Requests -> Local] /\ \A r \in Requests : h[r].user \in Users \cup {None}
      /\ Err.refresh = None
  BY DEF GInv, IInv, TypeOK, Local, Err
<1>1. CASE Quiet
  BY <1>1 DEF Quiet, Named, InRefresh, Carried
<1>2. ASSUME NEW r \in Requests, Dials(r)
      PROVE  Named(u, g)
  <2>1. /\ h'[r].pc = "calling" /\ h'[r].refresh = tokens[h[r].user].refresh
        /\ h'[r].ans = h[r].ans /\ h'[r].user = h[r].user
        /\ \A s \in Requests \ {r} : h'[s] = h[s]
    BY <1>0, <1>2 DEF Dials, Local
  <2>2. h[r].ans.refresh = None /\ UNCHANGED tokens /\ tokens[h[r].user] # NoRow
    BY <1>0, <1>2 DEF Dials, GInv, AnswersFit, Fits
  <2>3. CASE tokens'[u] # NoRow /\ tokens'[u].refresh = g
    BY <2>2, <2>3 DEF Named
  <2>4. ASSUME NEW s \in Requests, InRefresh(s)', h'[s].user = u, g \in Carried(s)'
        PROVE  Named(u, g)
    <3>1. CASE s = r
      BY <2>1, <2>2, <2>4, <3>1 DEF Named, Carried
    <3>2. CASE s # r
      BY <2>1, <2>4, <3>2 DEF Named, Carried, InRefresh
    <3> QED
      BY <3>1, <3>2
  <2> QED
    BY <2>3, <2>4 DEF Named
<1>3. ASSUME NEW r \in Requests, RefreshFails(r)
      PROVE  Named(u, g)
  <2>1. /\ h[r].pc = "calling" /\ h'[r].refresh = h[r].refresh
        /\ h'[r].ans = Err /\ h'[r].user = h[r].user
        /\ \A s \in Requests \ {r} : h'[s] = h[s]
    BY <1>0, <1>3 DEF RefreshFails, Local
  <2>2. UNCHANGED tokens
    BY <1>3 DEF RefreshFails, db
  <2> QED
    BY <1>0, <2>1, <2>2 DEF Named, InRefresh, Carried
<1>4. ASSUME NEW r \in Requests, Stores(r)
      PROVE  Named(u, g)
  <2>1. ~InRefresh(r)' /\ InRefresh(r) /\ \A s \in Requests \ {r} : h'[s] = h[s]
    BY <1>0, <1>4 DEF Stores, InRefresh, Idle
  <2>2. tokens'[h[r].user].refresh \in Carried(r)
    BY <1>4 DEF Stores, OrKeep, Carried
  <2>3. CASE tokens'[u] # NoRow /\ tokens'[u].refresh = g
    BY <1>4, <2>1, <2>2, <2>3 DEF Stores, Named
  <2>4. CASE \E s \in Requests : InRefresh(s)' /\ h'[s].user = u /\ g \in Carried(s)'
    BY <2>1, <2>4 DEF Named, InRefresh, Carried
  <2> QED
    BY <2>3, <2>4 DEF Named
<1>5. ASSUME NEW a \in Accounts, LoginExchange(a)
      PROVE  Named(u, g)
  BY <1>5 DEF LoginExchange, db, Named, InRefresh, Carried
<1> QED
  BY <1>1, <1>2, <1>3, <1>4, <1>5

\* What a handler has when the provider has accepted its refresh token.
LEMMA GrantAnswer ==
  ASSUME IInv, NEW r \in Requests, ProviderGrants(r)
  PROVE  \E ans \in Answer :
           /\ h'[r] = [h[r] EXCEPT !.pc = "answered", !.ans = ans]
           /\ h'[r].pc = "answered" /\ h'[r].user = h[r].user
           /\ h'[r].refresh = h[r].refresh /\ h'[r].asOf = h[r].asOf /\ h'[r].ans = ans
           /\ ans # Err /\ ans.grant = Len(grants) + 1
           /\ \/ /\ ans.refresh = Len(grants) + 1
                 /\ live' = (live \ {h[r].refresh}) \cup {Len(grants) + 1}
              \/ ans.refresh = None /\ live' = live
           /\ "noExpiresIn" \notin Env => ans.ttl = TTL
<1> DEFINE new == Len(grants) + 1
<1>1. PICK rotates \in {TRUE} \cup {FALSE : e \in Env \cap {"sameRefresh"}},
           ttl \in {TTL} \cup {None : e \in Env \cap {"noExpiresIn"}} :
        /\ live' = IF rotates THEN (live \ {h[r].refresh}) \cup {new} ELSE live
        /\ h' = [h EXCEPT ![r].pc = "answered",
                          ![r].ans = [grant |-> new, ttl |-> ttl,
                                      refresh |-> IF rotates THEN new ELSE None]]
  BY DEF ProviderGrants
<1> DEFINE ans == [grant |-> new, ttl |-> ttl, refresh |-> IF rotates THEN new ELSE None]
<1>2. new \in Nat \ {None}
  BY DEF IInv, TypeOK, None
<1>3. ans \in Answer /\ ans # Err
  BY <1>1, <1>2 DEF Answer, None, Err
<1>4. "noExpiresIn" \notin Env => ans.ttl = TTL
  BY <1>1
<1>5. \/ ans.refresh = new /\ live' = (live \ {h[r].refresh}) \cup {new}
      \/ ans.refresh = None /\ live' = live
  BY <1>1
<1>6. h'[r] = [h[r] EXCEPT !.pc = "answered", !.ans = ans] /\ h[r] \in Local
  BY <1>1 DEF IInv, TypeOK
<1>7. ans.grant = new
  OBVIOUS
<1> HIDE DEF ans
<1>8. /\ h'[r].pc = "answered" /\ h'[r].user = h[r].user
      /\ h'[r].refresh = h[r].refresh /\ h'[r].asOf = h[r].asOf /\ h'[r].ans = ans
  BY <1>6 DEF Local
<1> QED
  BY <1>3, <1>4, <1>5, <1>6, <1>7, <1>8

\* A refresh makes its user the owner of a new grant, a stored login its row.
LEMMA NewNames ==
  ASSUME GInv, NEW u \in Users, NEW g \in Nat \ {None}, Named(u, g)'
  PROVE  /\ \A r \in Requests : ProviderGrants(r) =>
              Named(u, g) \/ (u = h[r].user /\ g = Len(grants) + 1)
         /\ \A a \in Accounts, w \in Users : LogsIn(a, w) => Named(u, g) \/ (u = w /\ g = login[a])
<1>1. ASSUME NEW r \in Requests, ProviderGrants(r)
      PROVE  Named(u, g) \/ (u = h[r].user /\ g = Len(grants) + 1)
  <2>1. /\ h'[r].refresh = h[r].refresh /\ h'[r].user = h[r].user
        /\ h'[r].ans.refresh \in {None, Len(grants) + 1}
    BY <1>1, GrantAnswer DEF GInv
  <2>2. \A s \in Requests \ {r} : h'[s] = h[s]
    BY <1>1 DEF ProviderGrants, GInv, IInv, TypeOK
  <2>3. UNCHANGED tokens /\ InRefresh(r)
    BY <1>1 DEF ProviderGrants, db, InRefresh
  <2>4. CASE tokens'[u] # NoRow /\ tokens'[u].refresh = g
    BY <2>3, <2>4 DEF Named
  <2>5. ASSUME NEW s \in Requests, InRefresh(s)', h'[s].user = u, g \in Carried(s)'
        PROVE  Named(u, g) \/ (u = h[r].user /\ g = Len(grants) + 1)
    <3>1. CASE s = r
      BY <2>1, <2>2, <2>3, <2>5, <3>1 DEF Named, Carried
    <3>2. CASE s # r
      BY <2>2, <2>5, <3>2 DEF Named, Carried, InRefresh
    <3> QED
      BY <3>1, <3>2
  <2> QED
    BY <2>4, <2>5 DEF Named
<1>2. ASSUME NEW a \in Accounts, NEW w \in Users, LogsIn(a, w)
      PROVE  Named(u, g) \/ (u = w /\ g = login[a])
  <2>1. CASE tokens'[u] # NoRow /\ tokens'[u].refresh = g
    <3>0. u # w => tokens'[u] = tokens[u]
      BY <1>2 DEF LogsIn
    <3>1. u # w => Named(u, g)
      BY <2>1, <3>0 DEF Named
    <3>2. \/ tokens'[w].refresh \in {None, login[a]}
          \/ tokens[w] # NoRow /\ tokens'[w].refresh = tokens[w].refresh
      BY <1>2 DEF LogsIn
    <3> QED
      BY <2>1, <3>1, <3>2 DEF Named
  <2>2. CASE \E s \in Requests : InRefresh(s)' /\ h'[s].user = u /\ g \in Carried(s)'
    BY <1>2, <2>2 DEF LogsIn, Named, InRefresh, Carried
  <2> QED
    BY <2>1, <2>2 DEF Named
<1> QED
  BY <1>1, <1>2

LEMMA NextGrantsAreOwned ==
  ASSUME GInv, Next
  PROVE  GrantsAreOwned'
<1> DEFINE new == Len(grants) + 1
<1> SUFFICES ASSUME NEW g \in Nat \ {None}
             PROVE  /\ \A u, v \in Users : Named(u, g)' /\ Named(v, g)' => u = v
                    /\ \A a \in Accounts : login'[a] = g => \A u \in Users : ~Named(u, g)'
                    /\ \A a, b \in Accounts : login'[a] = g /\ login'[b] = g => a = b
  BY DEF GrantsAreOwned
<1>0. /\ \A u, v \in Users : Named(u, g) /\ Named(v, g) => u = v
      /\ \A a \in Accounts : login[a] = g => \A u \in Users : ~Named(u, g)
      /\ \A a, b \in Accounts : login[a] = g /\ login[b] = g => a = b
      /\ login \in [Accounts -> Nat]
      /\ \A u \in Users : Named(u, g) => g \in DOMAIN grants
      /\ \A a \in Accounts : login[a] = g => g \in DOMAIN grants
  BY DEF GInv, GrantsAreOwned, GrantsExist, IInv, TypeOK
<1>1. ASSUME \A u \in Users : Named(u, g)' => Named(u, g),
             \A a \in Accounts : login'[a] \in {login[a], None}
      PROVE  /\ \A u, v \in Users : Named(u, g)' /\ Named(v, g)' => u = v
             /\ \A a \in Accounts : login'[a] = g => \A u \in Users : ~Named(u, g)'
             /\ \A a, b \in Accounts : login'[a] = g /\ login'[b] = g => a = b
  BY <1>0, <1>1
<1>2. CASE Quiet
  BY <1>1, <1>2, NoNewNames DEF Quiet
<1>3. ASSUME NEW r \in Requests, Dials(r) \/ RefreshFails(r) \/ Stores(r)
      PROVE  /\ \A u, v \in Users : Named(u, g)' /\ Named(v, g)' => u = v
             /\ \A a \in Accounts : login'[a] = g => \A u \in Users : ~Named(u, g)'
             /\ \A a, b \in Accounts : login'[a] = g /\ login'[b] = g => a = b
  BY <1>1, <1>3, NoNewNames DEF Dials, RefreshFails, Stores
<1>4. ASSUME NEW r \in Requests, ProviderGrants(r)
      PROVE  /\ \A u, v \in Users : Named(u, g)' /\ Named(v, g)' => u = v
             /\ \A a \in Accounts : login'[a] = g => \A u \in Users : ~Named(u, g)'
             /\ \A a, b \in Accounts : login'[a] = g /\ login'[b] = g => a = b
  <2>1. new \notin DOMAIN grants /\ UNCHANGED login
    BY <1>4, Minted DEF GInv, ProviderGrants
  <2>2. \A u \in Users : Named(u, g)' => Named(u, g) \/ (u = h[r].user /\ g = new)
    BY <1>4, NewNames
  <2> QED
    BY <1>0, <2>1, <2>2
<1>5. ASSUME NEW a \in Accounts, LoginExchange(a)
      PROVE  /\ \A u, v \in Users : Named(u, g)' /\ Named(v, g)' => u = v
             /\ \A b \in Accounts : login'[b] = g => \A u \in Users : ~Named(u, g)'
             /\ \A b, c \in Accounts : login'[b] = g /\ login'[c] = g => b = c
  <2>1. new \notin DOMAIN grants
    BY <1>5, Minted DEF GInv, LoginExchange
  <2>2. \A u \in Users : Named(u, g)' => Named(u, g)
    BY <1>5, NoNewNames
  <2>3. login' = [login EXCEPT ![a] = new]
    BY <1>5 DEF LoginExchange
  <2> QED
    BY <1>0, <2>1, <2>2, <2>3
<1>6. ASSUME NEW a \in Accounts, NEW w \in Users, LogsIn(a, w)
      PROVE  /\ \A u, v \in Users : Named(u, g)' /\ Named(v, g)' => u = v
             /\ \A b \in Accounts : login'[b] = g => \A u \in Users : ~Named(u, g)'
             /\ \A b, c \in Accounts : login'[b] = g /\ login'[c] = g => b = c
  <2>1. \A u \in Users : Named(u, g)' => Named(u, g) \/ (u = w /\ g = login[a])
    BY <1>6, NewNames
  <2>2. login' = [login EXCEPT ![a] = None]
    BY <1>6 DEF LogsIn
  <2> QED
    BY <1>0, <2>1, <2>2
<1> QED
  BY <1>2, <1>3, <1>4, <1>5, <1>6, NextEffect

-----------------------------------------------------------------------------
(* What is known about a grant stays true *)

\* Grants are never withdrawn or changed.
LEMMA NextGrants ==
  ASSUME GInv, Next, NEW i \in DOMAIN grants
  PROVE  i \in DOMAIN grants' /\ grants'[i] = grants[i]
BY NextEffect, Minted
DEF GInv, Quiet, Dials, ProviderGrants, RefreshFails, Stores, LoginExchange, LogsIn

LEMMA NextGrantsExist ==
  ASSUME GInv, Next
  PROVE  GrantsExist'
<1> DEFINE new == Len(grants) + 1
<1>0. /\ GrantsExist /\ login \in [Accounts -> Nat] /\ Len(grants) + 1 \in Nat
      /\ h \in [Requests -> Local]
  BY DEF GInv, IInv, TypeOK
<1>1. ASSUME NEW u \in Users, tokens'[u] # NoRow
      PROVE  tokens'[u].access \in DOMAIN grants'
  <2>1. CASE tokens'[u] \in {tokens[u], NoRow}
    BY <1>0, <1>1, <2>1, NextGrants DEF GrantsExist
  <2>2. ASSUME NEW r \in Requests, Stores(r)
        PROVE  tokens'[u].access \in DOMAIN grants'
    <3>1. CASE u = h[r].user
      <4>1. tokens'[u].access = h[r].ans.grant
        BY <2>2, <3>1 DEF Stores
      <4>2. h[r].ans.grant \in DOMAIN grants
        BY <2>2 DEF Stores, GInv, AnswersFit, Fits, InRefresh
      <4> QED
        BY <4>1, <4>2, NextGrants
    <3>2. CASE u # h[r].user
      BY <2>1, <2>2, <3>2 DEF Stores
    <3> QED
      BY <3>1, <3>2
  <2>3. ASSUME NEW a \in Accounts, NEW w \in Users, LogsIn(a, w)
        PROVE  tokens'[u].access \in DOMAIN grants'
    <3>1. CASE u = w
      <4>1. tokens'[u].access = login[a] /\ login[a] # None
        BY <2>3, <3>1 DEF LogsIn
      <4> QED
        BY <1>0, <4>1, NextGrants DEF GrantsExist
    <3>2. CASE u # w
      BY <2>1, <2>3, <3>2 DEF LogsIn
    <3> QED
      BY <3>1, <3>2
  <2> QED
    BY <1>1, <2>1, <2>2, <2>3, NextEffect
    DEF Quiet, Dials, ProviderGrants, RefreshFails, LoginExchange, db
<1>2. ASSUME NEW u \in Users, NEW g \in Nat \ {None}, Named(u, g)'
      PROVE  g \in DOMAIN grants'
  <2>1. CASE Named(u, g)
    BY <1>0, <2>1, NextGrants DEF GrantsExist
  <2>2. ASSUME NEW r \in Requests, ProviderGrants(r)
        PROVE  g \in DOMAIN grants'
    <3>1. new \in DOMAIN grants'
      BY <2>2, Minted DEF GInv, ProviderGrants
    <3> QED
      BY <1>2, <2>1, <2>2, <3>1, NewNames
  <2>3. ASSUME NEW a \in Accounts, NEW w \in Users, LogsIn(a, w)
        PROVE  g \in DOMAIN grants'
    <3>1. login[a] \in DOMAIN grants
      BY <1>0, <2>3 DEF LogsIn, GrantsExist
    <3> QED
      BY <1>2, <2>1, <2>3, <3>1, NewNames, NextGrants
  <2> QED
    BY <1>2, <2>1, <2>2, <2>3, NextEffect, NoNewNames
<1>3. ASSUME NEW a \in Accounts, login'[a] # None
      PROVE  /\ login'[a] \in DOMAIN grants'
             /\ grants'[login'[a]].lineage = login'[a] /\ ~grants'[login'[a]].refreshed
  <2>1. CASE login'[a] = login[a]
    BY <1>0, <1>3, <2>1, NextGrants DEF GrantsExist
  <2>2. ASSUME NEW b \in Accounts, LoginExchange(b), login'[a] # login[a]
        PROVE  /\ login'[a] \in DOMAIN grants'
               /\ grants'[login'[a]].lineage = login'[a] /\ ~grants'[login'[a]].refreshed
    <3>1. login'[a] = new
      BY <1>0, <2>2 DEF LoginExchange
    <3> QED
      BY <2>2, <3>1, Minted DEF GInv, LoginExchange
  <2>3. ASSUME NEW b \in Accounts, NEW w \in Users, LogsIn(b, w)
        PROVE  login'[a] = login[a]
    BY <1>0, <1>3, <2>3 DEF LogsIn
  <2> QED
    BY <1>3, <2>1, <2>2, <2>3, NextEffect DEF Quiet, Dials, ProviderGrants, RefreshFails, Stores
<1> QED
  BY <1>1, <1>2, <1>3 DEF GrantsExist

\* A handler that does nothing still fits: time passes, grants stay.
LEMMA StillFits ==
  ASSUME GInv, Next, NEW r \in Requests, h'[r] = h[r], now <= now', now' \in Nat
  PROVE  Fits(r)'
<1>1. Fits(r) /\ h[r] \in Local /\ now \in Nat
  BY DEF GInv, AnswersFit, Fits, IInv, TypeOK
<1>2. CASE ~InRefresh(r)
  BY <1>1, <1>2 DEF Fits, InRefresh
<1>3. CASE InRefresh(r)
  <2>1. h[r].refresh \in DOMAIN grants
    <3>1. h[r].refresh \in Nat \ {None} /\ h[r].user \in Users
      BY <1>1, <1>3 DEF Fits, Local, GInv, IInv, HandlersHaveUsers, TypeOK, InRefresh
    <3>2. Named(h[r].user, h[r].refresh)
      BY <1>3 DEF Named, Carried
    <3> QED
      BY <3>1, <3>2 DEF GInv, GrantsExist
  <2>2. h[r].asOf \in Nat
    BY <1>1 DEF Local
  <2> QED
    BY <1>1, <1>3, <2>1, <2>2, NextGrants DEF Fits, InRefresh
<1> QED
  BY <1>2, <1>3

LEMMA NextAnswersFit ==
  ASSUME GInv, Next
  PROVE  AnswersFit'
<1> SUFFICES ASSUME NEW r \in Requests PROVE Fits(r)'
  BY DEF AnswersFit, Fits
<1>0. /\ h \in [Requests -> Local] /\ now \in Nat /\ now' \in Nat /\ tokens \in Table
      /\ Err.refresh = None /\ \A s \in Requests : Fits(s)
  BY NextType DEF GInv, IInv, TypeOK, Err, AnswersFit, Fits
<1>1. CASE Quiet
  BY <1>0, <1>1, StillFits DEF Quiet, Fits
<1>2. ASSUME NEW s \in Requests, Dials(s)
      PROVE  Fits(r)'
  <2>1. CASE r = s
    <3>1. /\ h'[r].pc = "calling" /\ h'[r].refresh # None /\ h'[r].asOf = now
          /\ h'[r].ans = h[r].ans /\ now' = now
      BY <1>0, <1>2, <2>1 DEF Dials, Local
    <3>2. h[r].ans = Err
      BY <1>0, <1>2, <2>1 DEF Dials, Fits
    <3> QED
      BY <1>0, <3>1, <3>2 DEF Fits
  <2>2. CASE r # s
    BY <1>0, <1>2, <2>2, StillFits DEF Dials
  <2> QED
    BY <2>1, <2>2
<1>3. ASSUME NEW s \in Requests, RefreshFails(s)
      PROVE  Fits(r)'
  <2>0. UNCHANGED now
    BY <1>3 DEF RefreshFails
  <2>1. CASE r = s
    <3>1. /\ h'[r].pc = "answered" /\ h'[r].refresh = h[r].refresh /\ h'[r].asOf = h[r].asOf
          /\ h'[r].ans = Err /\ h[r].pc = "calling"
      BY <1>0, <1>3, <2>1 DEF RefreshFails, Local
    <3> QED
      BY <1>0, <2>0, <3>1 DEF Fits, InRefresh
  <2>2. CASE r # s
    BY <1>0, <1>3, <2>0, <2>2, StillFits DEF RefreshFails
  <2> QED
    BY <2>1, <2>2
<1>4. ASSUME NEW s \in Requests, ProviderGrants(s)
      PROVE  Fits(r)'
  <2>0. UNCHANGED now
    BY <1>4 DEF ProviderGrants
  <2>1. CASE r = s
    <3> DEFINE new == Len(grants) + 1
               old == h[r].refresh
    <3>1. /\ h'[r].pc = "answered" /\ h'[r].refresh = old /\ h'[r].asOf = h[r].asOf
          /\ h'[r].ans.grant = new /\ h'[r].ans.refresh \in {None, new}
          /\ "noExpiresIn" \notin Env => h'[r].ans.ttl = TTL
      BY <1>4, <2>1, GrantAnswer DEF GInv
    <3>2. h[r].pc = "calling" /\ old \in DOMAIN grants
      BY <1>4, <2>1 DEF ProviderGrants, GInv, IInv, TypeOK
    <3>3. /\ new \in DOMAIN grants' /\ grants'[old] = grants[old]
          /\ grants'[new].lineage = grants[old].lineage /\ grants'[new].until = now + TTL
      BY <1>4, <2>1, <3>2, Minted DEF ProviderGrants, GInv
    <3>4. old # None /\ h[r].asOf <= now /\ h[r].asOf \in Nat /\ TTL \in Nat
      BY <1>0, <3>2, RefreshAssumption DEF Fits, InRefresh, Local
    <3> HIDE DEF new, old
    <3> QED
      BY <1>0, <2>0, <3>1, <3>3, <3>4 DEF Fits
  <2>2. CASE r # s
    BY <1>0, <1>4, <2>0, <2>2, StillFits DEF ProviderGrants
  <2> QED
    BY <2>1, <2>2
<1>5. ASSUME NEW s \in Requests, Stores(s)
      PROVE  Fits(r)'
  <2>1. CASE r = s
    BY <1>0, <1>5, <2>1 DEF Stores, Fits, Idle, InRefresh
  <2>2. CASE r # s
    BY <1>0, <1>5, <2>2, StillFits DEF Stores
  <2> QED
    BY <2>1, <2>2
<1>6. ASSUME NEW a \in Accounts, LoginExchange(a) \/ \E u \in Users : LogsIn(a, u)
      PROVE  Fits(r)'
  BY <1>0, <1>6, StillFits DEF LoginExchange, LogsIn
<1> QED
  BY <1>1, <1>2, <1>3, <1>4, <1>5, <1>6, NextEffect

LEMMA InitGInv == Init => GInv
<1> SUFFICES ASSUME Init PROVE GInv
  OBVIOUS
<1>1. IInv /\ \A r \in Requests : h[r].pc = "idle" /\ h[r].ans = Err
  BY InitInv DEF Init, Idle
<1>2. \A u \in Users, g \in Nat \ {None} : tokens[u] = NoRow /\ ~Named(u, g)
  BY <1>1 DEF Init, EmptyTable, Named, InRefresh
<1>3. \A a \in Accounts : login[a] = None
  BY DEF Init
<1> QED
  BY <1>1, <1>2, <1>3 DEF GInv, GrantsExist, GrantsAreOwned, AnswersFit, Fits, InRefresh

LEMMA NextGInv == GInv /\ [Next]_vars => GInv'
<1> SUFFICES ASSUME GInv, [Next]_vars PROVE GInv'
  OBVIOUS
<1>1. CASE Next
  BY <1>1, NextInv, NextGrantsExist, NextGrantsAreOwned, NextAnswersFit DEF GInv
<1>2. CASE UNCHANGED vars
  <2>1. IInv'
    BY <1>2, NextInv DEF GInv
  <2>2. GrantsExist' /\ GrantsAreOwned' /\ AnswersFit'
    BY <1>2 DEF GInv, vars, db, provider, GrantsExist, GrantsAreOwned, AnswersFit, Fits,
                InRefresh, Named, Carried
  <2> QED
    BY <2>1, <2>2 DEF GInv
<1> QED
  BY <1>1, <1>2

LEMMA GrantInvariance == Spec => []GInv
BY InitGInv, NextGInv, PTL DEF Spec

-----------------------------------------------------------------------------
(* Expiry *)

\* Whoever answers 200 answers for the row it has just read or written.
LEMMA AnswersAreFresh ==
  ASSUME GInv, Next, NEW r \in Requests, Answered(r, 200), "noExpiresIn" \notin Env
  PROVE  out'[r].expires = None \/ out'[r].expires > out'[r].asOf
<1>0. /\ out \in [Requests -> Response] /\ NoResponse.status = None /\ now \in Nat
      /\ tokens \in Table /\ h \in [Requests -> Local]
  BY DEF GInv, IInv, TypeOK, NoResponse
<1>1. \A code : Fail(code).status = code
  BY DEF Fail, NoResponse
<1>2. \A row, t : Sealed(r, row, t).expires = row.expires /\ Sealed(r, row, t).asOf = t
  BY DEF Sealed
<1>3. ASSUME h[r].user \in Users, GetToken(tokens, h[r].app, h[r].user) # NoRow,
             ~Expired(GetToken(tokens, h[r].app, h[r].user), now),
             Respond(r, Sealed(r, GetToken(tokens, h[r].app, h[r].user), now))
      PROVE  out'[r].expires = None \/ out'[r].expires > out'[r].asOf
  <2> DEFINE row == GetToken(tokens, h[r].app, h[r].user)
  <2>1. row \in Row
    BY <1>0, <1>3, GetTokenType
  <2> HIDE DEF row
  <2>2. row.expires \in Nat /\ (row.expires = None \/ row.expires > now)
    BY <1>0, <1>3, <2>1 DEF Expired, Row, row
  <2>3. out'[r] = Sealed(r, row, now)
    BY <1>0, <1>3 DEF Respond, row
  <2> QED
    BY <1>2, <2>2, <2>3
<1>4. ASSUME NEW s \in Requests, LoadToken(s) \/ Reread(s)
      PROVE  out'[r].expires = None \/ out'[r].expires > out'[r].asOf
  <2>1. s = r
    BY <1>0, <1>4 DEF LoadToken, Reread, Respond, Answered
  <2>2. h[r].user \in Users
    BY <1>4, <2>1 DEF LoadToken, Reread, GInv, IInv, HandlersHaveUsers, TypeOK
  <2>3. CASE LoadToken(r)
    BY <1>0, <1>1, <1>3, <2>2, <2>3 DEF LoadToken, Respond, Answered
  <2>4. CASE Reread(r)
    BY <1>0, <1>1, <1>3, <2>2, <2>4 DEF Reread, Respond, Answered
  <2> QED
    BY <1>4, <2>1, <2>3, <2>4
<1>5. ASSUME NEW s \in Requests, Save(s)
      PROVE  out'[r].expires = None \/ out'[r].expires > out'[r].asOf
  <2>1. s = r
    BY <1>0, <1>5 DEF Save, Respond, Answered
  <2> DEFINE u     == h[r].user
             ans   == h[r].ans
             exp   == IF ans.ttl = None THEN None ELSE ExpiryBase(r) + ans.ttl
             saved == SaveRefreshed(tokens, u, ans.grant, OrKeep(ans.refresh, h[r].refresh), exp)
  <2>2. ~Failed(ans) /\ tokens[u] # NoRow /\ Respond(r, Sealed(r, saved[u], h[r].asOf))
    BY <1>0, <1>1, <1>5, <2>1 DEF Save, Respond, Answered
  <2>3. h[r].pc = "answered" /\ u \in Users /\ h[r].asOf \in Nat
    BY <1>0, <1>5, <2>1 DEF Save, GInv, IInv, HandlersHaveUsers, TypeOK, Local
  <2>4. ans.ttl = TTL
    BY <2>2, <2>3 DEF GInv, AnswersFit, Fits, InRefresh, Failed
  <2>5. exp = h[r].asOf + TTL /\ exp > h[r].asOf /\ exp # None
    BY <2>3, <2>4, RefreshAssumption DEF ExpiryBase, None
  <2>6. saved[u].expires = exp
    <3> HIDE DEF exp
    <3>1. tokens[u] \in Row
      BY <1>0, <2>2, <2>3 DEF Table
    <3> QED
      BY <1>0, <2>3, <2>5, <3>1 DEF SaveRefreshed, RefreshedRow, OrKeep, Table, Row
  <2>7. out'[r] = Sealed(r, saved[u], h[r].asOf)
    BY <1>0, <2>2 DEF Respond
  <2> HIDE DEF saved, exp
  <2> QED
    BY <1>2, <2>5, <2>6, <2>7
<1>6. ASSUME NEW s \in Requests, SaveFails(s)
      PROVE  FALSE
  BY <1>0, <1>1, <1>6 DEF SaveFails, Respond, Answered
<1>7. ASSUME NEW s \in Requests, NEW app \in Apps, NEW u \in used, Arrive(s, app, u)
      PROVE  FALSE
  BY <1>0, <1>7 DEF Arrive, Answered, None
<1>8. CASE Restart
  BY <1>0, <1>8 DEF Restart, Answered, None
<1>9. CASE UNCHANGED out
  BY <1>9 DEF Answered
<1> QED
  BY <1>4, <1>5, <1>6, <1>7, <1>8, <1>9
  DEF Next, Handler, RefreshLock, Provider, ProviderGrants, RefreshFails, Disconnect,
      ProcessOrphan, LoginExchange, LoginSave, DeleteUser, RotateKey, Tick

\* No answer carries an expiry that has passed: neither a row found in time nor
\* one that was refreshed (user_token), for providers that send expires_in.
THEOREM AnswersAreNotExpired ==
  "noExpiresIn" \notin Env => (Spec => AnswerNotExpired)
<1> SUFFICES ASSUME "noExpiresIn" \notin Env PROVE Spec => AnswerNotExpired
  OBVIOUS
<1> DEFINE Fresh == \A r \in Requests :
                      Answered(r, 200) => out'[r].expires = None \/ out'[r].expires > out'[r].asOf
<1>1. GInv /\ [Next]_vars => [Fresh]_vars
  <2>1. GInv /\ Next => Fresh
    BY AnswersAreFresh
  <2> QED
    BY <2>1
<1> QED
  BY <1>1, GrantInvariance, PTL DEF Spec, AnswerNotExpired

-----------------------------------------------------------------------------
(* The stored refresh token works *)

\* A handler that calls has a token that works, and one that was answered has
\* the token that now works; nobody's request is still on the wire.
CallsWork ==
  /\ orphans = {}
  /\ \A r \in Requests :
       /\ h[r].pc = "calling" => h[r].refresh \in live
       /\ h[r].pc = "answered" /\ h[r].ans # Err => OrKeep(h[r].ans.refresh, h[r].refresh) \in live
       /\ h[r].pc = "answered" /\ h[r].ans = Err => "unreachable" \in Env

\* Two handlers never carry the same grant.
LEMMA OwnGrants ==
  ASSUME GInv, NEW r \in Requests, NEW s \in Requests, r # s, InRefresh(r), InRefresh(s),
         NEW g \in Nat \ {None}, g \in Carried(r)
  PROVE  g \notin Carried(s)
<1>1. h[r].user \in Users /\ h[s].user \in Users
  BY DEF GInv, IInv, HandlersHaveUsers, TypeOK, InRefresh
<1>2. h[r].user # h[s].user
  BY DEF GInv, IInv, RefresherHoldsLock, Holds, LockOf
<1> QED
  BY <1>1, <1>2 DEF GInv, GrantsAreOwned, Named

\* Nobody but a handler that gets a successor takes a working grant away.
LEMMA NextLive ==
  ASSUME GInv, Calm, CallsWork, Next, NEW g \in live
  PROVE  g \in live' \/ \E r \in Requests : ProviderGrants(r) /\ g = h[r].refresh
<1>1. ASSUME NEW r \in Requests, ProviderGrants(r)
      PROVE  g \in live' \/ g = h[r].refresh
  BY <1>1, GrantAnswer DEF GInv
<1>2. ASSUME NEW r \in Requests, RefreshFails(r)
      PROVE  g \in live'
  BY <1>2 DEF RefreshFails, Calm
<1> QED
  BY <1>1, <1>2, NextEffect DEF Quiet, CallsWork, Dials, Stores, LoginExchange, LogsIn

LEMMA LiveNames ==
  ASSUME GInv
  PROVE  live \subseteq Nat \ {None}
<1>1. grants \in Seq(Grant) /\ live \subseteq DOMAIN grants
  BY DEF GInv, IInv, TypeOK
<1>2. DOMAIN grants = 1..Len(grants) /\ Len(grants) \in Nat
  BY <1>1
<1> QED
  BY <1>1, <1>2 DEF None

\* What a handler carries still works after another handler's step.
LEMMA CarriedStaysLive ==
  ASSUME GInv, Calm, CallsWork, Next, NEW r \in Requests, InRefresh(r), ~ProviderGrants(r),
         NEW g \in Carried(r), g \in live
  PROVE  g \in live'
<1>1. g \in Nat \ {None}
  BY LiveNames
<1>2. ASSUME NEW s \in Requests, ProviderGrants(s), g = h[s].refresh
      PROVE  FALSE
  <2>1. InRefresh(s) /\ g \in Carried(s) /\ s # r
    BY <1>2 DEF ProviderGrants, InRefresh, Carried
  <2> QED
    BY <1>1, <2>1, OwnGrants
<1> QED
  BY <1>2, NextLive

\* At the head of the queue nobody else is in a call: the stored token works.
LEMMA DialsWithWorkingToken ==
  ASSUME GInv, StoredRefreshTokenWorks, NEW r \in Requests, Dials(r)
  PROVE  tokens[h[r].user].refresh \in live
<1>1. h[r].user \in Users
  BY DEF Dials, GInv, IInv, HandlersHaveUsers, TypeOK
<1>2. ASSUME NEW s \in Requests, h[s].pc = "answered", h[s].user = h[r].user
      PROVE  FALSE
  <2>1. Holds(s) /\ Holds(r) /\ s # r
    BY <1>2 DEF GInv, IInv, RefresherHoldsLock, InRefresh, Dials
  <2> QED
    BY <1>2, <2>1 DEF Holds, LockOf
<1> QED
  BY <1>1, <1>2 DEF StoredRefreshTokenWorks, Dials

LEMMA NextCallsWork ==
  ASSUME GInv, Calm, CallsWork, StoredRefreshTokenWorks, Next
  PROVE  CallsWork'
<1> DEFINE Works(r) ==
      /\ h[r].pc = "calling" => h[r].refresh \in live
      /\ h[r].pc = "answered" /\ h[r].ans # Err => OrKeep(h[r].ans.refresh, h[r].refresh) \in live
      /\ h[r].pc = "answered" /\ h[r].ans = Err => "unreachable" \in Env
<1>0. h \in [Requests -> Local] /\ \A r \in Requests : Works(r)
  BY DEF GInv, IInv, TypeOK, CallsWork
<1>1. orphans' = {}
  BY NextEffect DEF CallsWork, Quiet, Dials, ProviderGrants, RefreshFails, Stores, LoginExchange,
                    LogsIn
<1>2. ASSUME NEW r \in Requests, h'[r] = h[r], ~ProviderGrants(r)
      PROVE  Works(r)'
  <2>1. OrKeep(h[r].ans.refresh, h[r].refresh) \in Carried(r) /\ h[r].refresh \in Carried(r)
    BY DEF OrKeep, Carried
  <2>2. CASE h[r].pc = "calling"
    BY <1>0, <1>2, <2>1, <2>2, CarriedStaysLive DEF InRefresh
  <2>3. CASE h[r].pc = "answered"
    BY <1>0, <1>2, <2>1, <2>3, CarriedStaysLive DEF InRefresh
  <2> QED
    BY <1>2, <2>2, <2>3
<1>3. ASSUME NEW r \in Requests, ~InRefresh(r)'
      PROVE  Works(r)'
  BY <1>3 DEF InRefresh
<1>4. ASSUME NEW r \in Requests, Dials(r)
      PROVE  Works(r)'
  <2>1. h'[r].pc = "calling" /\ h'[r].refresh = tokens[h[r].user].refresh /\ UNCHANGED live
    BY <1>0, <1>4 DEF Dials, Local
  <2> QED
    BY <1>4, <2>1, DialsWithWorkingToken
<1>5. ASSUME NEW r \in Requests, ProviderGrants(r)
      PROVE  Works(r)'
  <2>1. /\ h'[r].pc = "answered" /\ h'[r].refresh = h[r].refresh /\ h'[r].ans # Err
        /\ \/ h'[r].ans.refresh = Len(grants) + 1 /\ Len(grants) + 1 \in live'
           \/ h'[r].ans.refresh = None /\ live' = live
    BY <1>5, GrantAnswer DEF GInv
  <2>2. h[r].refresh \in live /\ Len(grants) + 1 # None
    BY <1>5 DEF ProviderGrants, GInv, IInv, TypeOK, None
  <2> QED
    BY <2>1, <2>2 DEF OrKeep
<1>6. ASSUME NEW r \in Requests, RefreshFails(r)
      PROVE  Works(r)'
  <2>1. h'[r].pc = "answered" /\ h'[r].ans = Err /\ h[r].pc = "calling"
    BY <1>0, <1>6 DEF RefreshFails, Local
  <2>2. "unreachable" \in Env
    BY <1>0, <1>6, <2>1 DEF RefreshFails, Calm
  <2> QED
    BY <2>1, <2>2
<1>7. ASSUME NEW r \in Requests PROVE Works(r)'
  <2>1. CASE ProviderGrants(r)
    BY <1>5, <2>1
  <2>2. CASE ~ProviderGrants(r)
    <3> HIDE DEF Works
    <3>1. h'[r] = h[r] \/ ~InRefresh(r)' \/ Dials(r) \/ RefreshFails(r)
      <4>1. ASSUME NEW s \in Requests, Dials(s) \/ ProviderGrants(s) \/ RefreshFails(s), s # r
            PROVE  h'[r] = h[r]
        BY <1>0, <4>1 DEF Dials, ProviderGrants, RefreshFails
      <4>2. ASSUME NEW s \in Requests, Stores(s)
            PROVE  h'[r] = h[r] \/ ~InRefresh(r)'
        BY <1>0, <4>2 DEF Stores, InRefresh, Idle
      <4>3. ASSUME NEW a \in Accounts, LoginExchange(a) \/ \E u \in Users : LogsIn(a, u)
            PROVE  h'[r] = h[r]
        BY <4>3 DEF LoginExchange, LogsIn
      <4>4. CASE Quiet
        BY <4>4 DEF Quiet
      <4> QED
        BY <2>2, <4>1, <4>2, <4>3, <4>4, NextEffect
    <3> QED
      BY <1>2, <1>3, <1>4, <1>6, <2>2, <3>1
  <2> QED
    BY <2>1, <2>2
<1> QED
  BY <1>1, <1>7 DEF CallsWork

\* A token that works stays, or its handler has its successor.
LEMMA StillWorks ==
  ASSUME GInv, Calm, CallsWork, StoredRefreshTokenWorks, Next, NEW u \in Users,
         tokens[u] # NoRow, tokens[u].refresh # None,
         \A r \in Requests : h[r].pc = "answered" /\ h[r].user = u /\ h[r].ans.refresh \in live
                               => h'[r] = h[r]
  PROVE  \/ tokens[u].refresh \in live'
         \/ \E r \in Requests : /\ h'[r].pc = "answered" /\ h'[r].user = u
                                /\ h'[r].ans.refresh \in live'
<1> DEFINE g == tokens[u].refresh
<1>1. CASE g \in live /\ g \notin live'
  <2>1. PICK r \in Requests : ProviderGrants(r) /\ g = h[r].refresh
    BY <1>1, NextLive
  <2>2. /\ InRefresh(r) /\ g \in Carried(r) /\ g \in Nat \ {None}
        /\ h[r].user \in Users
    BY <1>1, <2>1, LiveNames
    DEF ProviderGrants, InRefresh, Carried, GInv, IInv, HandlersHaveUsers, TypeOK
  <2>3. h[r].user = u
    <3>1. Named(h[r].user, g) /\ Named(u, g)
      BY <2>2 DEF Named
    <3> QED
      BY <2>2, <3>1 DEF GInv, GrantsAreOwned
  <2>4. /\ h'[r].pc = "answered" /\ h'[r].user = h[r].user
        /\ h'[r].ans.refresh \in live' \/ live' = live
    <3>1. IInv /\ ProviderGrants(r)
      BY <2>1 DEF GInv
    <3>2. PICK ans \in Answer :
            /\ h'[r].pc = "answered" /\ h'[r].user = h[r].user /\ h'[r].ans = ans
            /\ \/ ans.refresh = Len(grants) + 1
                  /\ live' = (live \ {h[r].refresh}) \cup {Len(grants) + 1}
               \/ live' = live
      BY <3>1, GrantAnswer
    <3> QED
      BY <3>2
  <2> QED
    BY <1>1, <2>3, <2>4
<1>2. ASSUME NEW r \in Requests, h[r].pc = "answered", h[r].user = u, h[r].ans.refresh \in live
      PROVE  h'[r].pc = "answered" /\ h'[r].user = u /\ h'[r].ans.refresh \in live'
  <2>1. h'[r] = h[r]
    BY <1>2
  <2>2. h[r].ans.refresh \in live'
    BY <1>2, CarriedStaysLive DEF InRefresh, Carried, ProviderGrants
  <2> QED
    BY <1>2, <2>1, <2>2
<1> QED
  BY <1>1, <1>2 DEF StoredRefreshTokenWorks

LEMMA NextStoredWorks ==
  ASSUME GInv, Calm, CallsWork, StoredRefreshTokenWorks, Next
  PROVE  StoredRefreshTokenWorks'
<1> DEFINE Works(u) ==
      \/ tokens[u].refresh \in live
      \/ \E r \in Requests : /\ h[r].pc = "answered" /\ h[r].user = u
                             /\ h[r].ans.refresh \in live
<1> SUFFICES ASSUME NEW u \in Users, tokens'[u] # NoRow, tokens'[u].refresh # None
             PROVE  Works(u)'
  BY DEF StoredRefreshTokenWorks
<1>0. h \in [Requests -> Local] /\ Err.refresh \notin live
  BY LiveNames DEF GInv, IInv, TypeOK, Err
<1>1. CASE Quiet
  <2>1. tokens'[u] = tokens[u]
    BY <1>1 DEF Quiet
  <2>2. ASSUME NEW r \in Requests, h[r].pc = "answered", h[r].user = u, h[r].ans.refresh \in live
        PROVE  h'[r] = h[r]
    BY <1>0, <1>1, <2>1, <2>2 DEF Quiet, InRefresh
  <2> QED
    BY <2>1, <2>2, StillWorks
<1>2. ASSUME NEW s \in Requests, Dials(s) \/ ProviderGrants(s) \/ RefreshFails(s)
      PROVE  Works(u)'
  <2>1. tokens'[u] = tokens[u]
    BY <1>2 DEF Dials, ProviderGrants, RefreshFails, db
  <2>2. \A r \in Requests : h[r].pc = "answered" => h'[r] = h[r]
    BY <1>0, <1>2 DEF Dials, ProviderGrants, RefreshFails
  <2> QED
    BY <2>1, <2>2, StillWorks
<1>3. ASSUME NEW s \in Requests, Stores(s)
      PROVE  Works(u)'
  <2>1. CASE u = h[s].user
    BY <1>3, <2>1 DEF Stores, CallsWork
  <2>2. CASE u # h[s].user
    <3>1. tokens'[u] = tokens[u] /\ \A r \in Requests : h[r].user = u => h'[r] = h[r]
      BY <1>0, <1>3, <2>2 DEF Stores
    <3> QED
      BY <3>1, StillWorks
  <2> QED
    BY <2>1, <2>2
<1>4. ASSUME NEW a \in Accounts, LoginExchange(a)
      PROVE  Works(u)'
  BY <1>4, StillWorks DEF LoginExchange, db
<1>5. ASSUME NEW a \in Accounts, NEW w \in Users, LogsIn(a, w)
      PROVE  Works(u)'
  <2>0. UNCHANGED <<live, h>>
    BY <1>5 DEF LogsIn
  <2>1. CASE tokens[u] # NoRow /\ tokens'[u].refresh = tokens[u].refresh
    BY <2>0, <2>1, StillWorks
  <2>2. CASE u = w /\ tokens'[u].refresh = login[a]
    BY <1>5, <2>0, <2>2 DEF LogsIn
  <2> QED
    BY <1>5, <2>1, <2>2 DEF LogsIn
<1> QED
  BY <1>1, <1>2, <1>3, <1>4, <1>5, NextEffect

LEMMA CalmInvariance == Calm => (Spec => [](GInv /\ CallsWork /\ StoredRefreshTokenWorks))
<1> DEFINE CInv == GInv /\ CallsWork /\ StoredRefreshTokenWorks
<1> SUFFICES ASSUME Calm PROVE Spec => []CInv
  OBVIOUS
<1>1. Init => CInv
  BY InitGInv DEF Init, EmptyTable, Idle, CallsWork, StoredRefreshTokenWorks
<1>2. CInv /\ [Next]_vars => CInv'
  <2>1. CInv /\ Next => CInv'
    BY NextGInv, NextCallsWork, NextStoredWorks
  <2>2. CInv /\ UNCHANGED vars => CInv'
    BY NextGInv DEF vars, db, provider, CallsWork, StoredRefreshTokenWorks
  <2> QED
    BY <2>1, <2>2
<1> HIDE DEF CInv
<1> QED
  BY <1>1, <1>2, PTL DEF Spec

\* A row never keeps a dead refresh token, unless the handler that is about to
\* replace it has its successor: whatever callers, logins, deletions and
\* rotations do around it, as long as nothing is lost between the provider's
\* answer and the row (user_token).
THEOREM StoredRefreshTokensWork == Calm => (Spec => []StoredRefreshTokenWorks)
<1>1. GInv /\ CallsWork /\ StoredRefreshTokenWorks => StoredRefreshTokenWorks
  OBVIOUS
<1> QED
  BY <1>1, CalmInvariance, PTL

-----------------------------------------------------------------------------
(* Rows and logins *)

\* A login that replaces a row brings a refresh token of its own, and replaces no
\* row that a handler is refreshing: it would have to wait for the refresh lock.
WholeRelogins ==
  \A a \in Accounts :
    LoginSave(a) /\ Holders(tokens, a) # {} =>
      /\ login[a] \in live
      /\ \A r \in Requests : InRefresh(r) => h[r].user \notin Holders(tokens, a)

\* Where an account with a row does not log in, a login's account has no row.
LoginsAreFirst == \A a \in Accounts : login[a] # None => Holders(tokens, a) = {}

\* Then a row stays as the handler that is refreshing it has read it: with the
\* refresh token it has sent, and expired by then.
HandlersHaveTheRow ==
  \A r \in Requests :
    InRefresh(r) /\ tokens[h[r].user] # NoRow =>
      tokens[h[r].user].refresh = h[r].refresh /\ tokens[h[r].user].expires <= h[r].asOf

\* A refresh token that a reachable provider rejected is dead.
RejectedIsDead ==
  "unreachable" \notin Env =>
    \A r \in Requests : h[r].pc = "answered" /\ h[r].ans = Err => h[r].refresh \notin live

\* A login leaves no refresh token of another one, and the handlers' rows alone.
LEMMA WholeLogin ==
  ASSUME GInv, WholeRelogins, NEW a \in Accounts, NEW u \in Users, LogsIn(a, u)
  PROVE  /\ tokens'[u].refresh \in {None, login[a]}
         /\ \A r \in Requests : InRefresh(r) => h[r].user # u
<1>1. CASE tokens[u] = NoRow
  <2>1. u \notin used /\ tokens'[u].refresh \in {None, login[a]}
    BY <1>1 DEF LogsIn
  <2> QED
    BY <2>1 DEF GInv, IInv, HandlersHaveUsers, InRefresh
<1>2. CASE tokens[u] # NoRow
  <2>1. u \in Holders(tokens, a) /\ LoginSave(a)
    BY <1>2 DEF LogsIn, Holders
  <2>2. login[a] \in live /\ \A r \in Requests : InRefresh(r) => h[r].user # u
    BY <2>1 DEF WholeRelogins
  <2> QED
    BY <2>2 DEF LogsIn
<1> QED
  BY <1>1, <1>2

LEMMA NextLoginsAreFirst ==
  ASSUME GInv, LoginsAreFirst, Next, "reauth" \notin Env
  PROVE  LoginsAreFirst'
<1> SUFFICES ASSUME NEW a \in Accounts, login'[a] # None, NEW u \in Users, tokens'[u] # NoRow,
                    tokens'[u].account = a
             PROVE  FALSE
  BY DEF LoginsAreFirst, Holders
<1>0. login \in [Accounts -> Nat]
  BY DEF GInv, IInv, TypeOK
<1>1. ASSUME login[a] # None, tokens[u] # NoRow, tokens[u].account = a
      PROVE  FALSE
  BY <1>1 DEF LoginsAreFirst, Holders
<1>2. ASSUME NEW b \in Accounts, LoginExchange(b)
      PROVE  FALSE
  <2>1. /\ tokens' = tokens /\ Holders(tokens, b) = {}
        /\ login' = [login EXCEPT ![b] = Len(grants) + 1]
    BY <1>2 DEF LoginExchange, MayLogin, db
  <2>2. CASE a = b
    BY <2>1, <2>2 DEF Holders
  <2>3. CASE a # b
    BY <1>0, <1>1, <2>1, <2>3
  <2> QED
    BY <2>2, <2>3
<1>3. ASSUME NEW b \in Accounts, NEW w \in Users, LogsIn(b, w)
      PROVE  FALSE
  <2>1. a # b /\ login[a] # None
    BY <1>0, <1>3 DEF LogsIn
  <2>2. u # w
    BY <1>3, <2>1 DEF LogsIn
  <2>3. tokens'[u] = tokens[u]
    BY <1>3, <2>2 DEF LogsIn
  <2> QED
    BY <1>1, <2>1, <2>3
<1>4. ASSUME NEW r \in Requests, Stores(r)
      PROVE  FALSE
  BY <1>1, <1>4 DEF Stores
<1>5. CASE Quiet
  BY <1>1, <1>5 DEF Quiet
<1> QED
  BY <1>1, <1>2, <1>3, <1>4, <1>5, NextEffect DEF Dials, ProviderGrants, RefreshFails, db

LEMMA NextHandlersHaveTheRow ==
  ASSUME GInv, WholeRelogins, HandlersHaveTheRow, Next
  PROVE  HandlersHaveTheRow'
<1> DEFINE Keeps(q) == /\ tokens'[h'[q].user].refresh = h'[q].refresh
                       /\ tokens'[h'[q].user].expires <= h'[q].asOf
<1> SUFFICES ASSUME NEW r \in Requests, InRefresh(r)', tokens'[h'[r].user] # NoRow
             PROVE  Keeps(r)
  BY DEF HandlersHaveTheRow
<1>0. h \in [Requests -> Local] /\ HandlersHaveUsers /\ used \subseteq Users
  BY DEF GInv, IInv, TypeOK
<1>1. ASSUME h'[r].user = h[r].user, h'[r].refresh = h[r].refresh, h'[r].asOf = h[r].asOf,
             InRefresh(r), tokens'[h[r].user] \in {tokens[h[r].user], NoRow}
      PROVE  Keeps(r)
  BY <1>1 DEF HandlersHaveTheRow
<1>2. CASE Quiet
  <2>1. h'[r] = h[r] /\ InRefresh(r)
    BY <1>2 DEF Quiet, InRefresh
  <2>2. h[r].user \in Users
    BY <1>0, <2>1 DEF HandlersHaveUsers, InRefresh
  <2> QED
    BY <1>1, <1>2, <2>1, <2>2 DEF Quiet
<1>3. ASSUME NEW s \in Requests, Dials(s)
      PROVE  Keeps(r)
  <2>1. CASE r = s
    BY <1>0, <1>3, <2>1 DEF Dials, Local
  <2>2. CASE r # s
    BY <1>0, <1>1, <1>3, <2>2 DEF Dials, InRefresh
  <2> QED
    BY <2>1, <2>2
<1>4. ASSUME NEW s \in Requests, ProviderGrants(s) \/ RefreshFails(s)
      PROVE  Keeps(r)
  <2>1. UNCHANGED tokens /\ InRefresh(s)
    BY <1>4 DEF ProviderGrants, RefreshFails, db, InRefresh
  <2>2. h'[s].user = h[s].user /\ h'[s].refresh = h[s].refresh /\ h'[s].asOf = h[s].asOf
    <3>1. CASE ProviderGrants(s)
      BY <3>1, GrantAnswer DEF GInv
    <3>2. CASE RefreshFails(s)
      BY <1>0, <3>2 DEF RefreshFails, Local
    <3> QED
      BY <1>4, <3>1, <3>2
  <2>3. s # r => h'[r] = h[r]
    BY <1>0, <1>4 DEF ProviderGrants, RefreshFails
  <2> QED
    BY <1>1, <2>1, <2>2, <2>3 DEF InRefresh
<1>5. ASSUME NEW s \in Requests, Stores(s)
      PROVE  Keeps(r)
  <2>1. r # s /\ h'[r] = h[r] /\ InRefresh(r) /\ InRefresh(s)
    BY <1>0, <1>5 DEF Stores, InRefresh, Idle
  <2>2. h[r].user # h[s].user /\ h[r].user \in Users
    BY <1>0, <2>1 DEF GInv, IInv, RefresherHoldsLock, Holds, LockOf, HandlersHaveUsers, InRefresh
  <2> QED
    BY <1>1, <1>5, <2>1, <2>2 DEF Stores
<1>6. ASSUME NEW a \in Accounts, LoginExchange(a)
      PROVE  Keeps(r)
  BY <1>1, <1>6 DEF LoginExchange, db, InRefresh
<1>7. ASSUME NEW a \in Accounts, NEW w \in Users, LogsIn(a, w)
      PROVE  Keeps(r)
  <2>1. h'[r] = h[r] /\ InRefresh(r)
    BY <1>7 DEF LogsIn, InRefresh
  <2>2. h[r].user # w /\ h[r].user \in Users
    BY <1>0, <1>7, <2>1, WholeLogin DEF HandlersHaveUsers, InRefresh
  <2> QED
    BY <1>1, <1>7, <2>1, <2>2 DEF LogsIn
<1> QED
  BY <1>2, <1>3, <1>4, <1>5, <1>6, <1>7, NextEffect

LEMMA NextRejectedIsDead ==
  ASSUME GInv, RejectedIsDead, Next
  PROVE  RejectedIsDead'
<1> SUFFICES ASSUME "unreachable" \notin Env, NEW r \in Requests,
                    h'[r].pc = "answered", h'[r].ans = Err
             PROVE  h'[r].refresh \notin live'
  BY DEF RejectedIsDead
<1>0. h \in [Requests -> Local]
  BY DEF GInv, IInv, TypeOK
<1>1. ASSUME h'[r] = h[r], NEW s \in Requests, ProviderGrants(s) \/ RefreshFails(s)
      PROVE  s # r
  BY <1>1, GrantAnswer DEF GInv, ProviderGrants, RefreshFails
<1>2. CASE h'[r] = h[r]
  <2> DEFINE new == Len(grants) + 1
  <2>1. h[r].refresh \notin live
    BY <1>2 DEF RejectedIsDead
  <2>2. h[r].refresh \in DOMAIN grants
    <3>1. h[r].refresh \in Nat \ {None} /\ h[r].user \in Users
      BY <1>0, <1>2 DEF AnswersFit, Fits, Local, GInv, IInv, HandlersHaveUsers, TypeOK, InRefresh
    <3>2. Named(h[r].user, h[r].refresh)
      BY <1>2 DEF Named, Carried, InRefresh
    <3> QED
      BY <3>1, <3>2 DEF GInv, GrantsExist
  <2>3. live' \subseteq live \cup (IF UNCHANGED grants THEN {} ELSE {new})
    <3>1. ASSUME NEW s \in Requests, ProviderGrants(s)
          PROVE  live' \subseteq live \cup {new} /\ ~UNCHANGED grants
      <4>1. new \notin DOMAIN grants /\ new \in DOMAIN grants'
        BY <3>1, Minted DEF ProviderGrants, GInv
      <4>2. live' \subseteq live \cup {new}
        BY <3>1, GrantAnswer DEF GInv
      <4> QED
        BY <4>1, <4>2
    <3>2. ASSUME NEW a \in Accounts, LoginExchange(a)
          PROVE  live' \subseteq live \cup {new} /\ ~UNCHANGED grants
      <4>1. new \notin DOMAIN grants /\ new \in DOMAIN grants'
        BY <3>2, Minted DEF LoginExchange, GInv
      <4> QED
        BY <3>2, <4>1 DEF LoginExchange
    <3> QED
      BY <3>1, <3>2, NextEffect DEF Quiet, Dials, RefreshFails, Stores, LogsIn
  <2>4. ~UNCHANGED grants => new \notin DOMAIN grants
    <3>1. grants \in Seq(Grant)
      BY DEF GInv, IInv, TypeOK
    <3> QED
      BY <3>1
  <2> QED
    BY <1>2, <2>1, <2>2, <2>3, <2>4
<1>3. CASE RefreshFails(r)
  <2>1. h'[r].refresh = h[r].refresh
    BY <1>0, <1>3 DEF RefreshFails, Local
  <2> QED
    BY <1>3, <2>1 DEF RefreshFails
<1>4. h'[r] = h[r] \/ RefreshFails(r)
  <2>1. ASSUME NEW s \in Requests, Dials(s)
        PROVE  h'[r] = h[r]
    <3>1. h'[s].pc = "calling"
      BY <1>0, <2>1 DEF Dials, Local
    <3> QED
      BY <1>0, <2>1, <3>1 DEF Dials
  <2>2. ASSUME NEW s \in Requests, Stores(s)
        PROVE  h'[r] = h[r]
    BY <1>0, <2>2 DEF Stores, Idle
  <2>3. ASSUME NEW s \in Requests, ProviderGrants(s)
        PROVE  h'[r] = h[r]
    <3>1. h'[s].ans # Err
      BY <2>3, GrantAnswer DEF GInv
    <3> QED
      BY <1>0, <2>3, <3>1 DEF ProviderGrants
  <2>4. ASSUME NEW s \in Requests, RefreshFails(s), s # r
        PROVE  h'[r] = h[r]
    BY <1>0, <2>4 DEF RefreshFails
  <2> QED
    BY <2>1, <2>2, <2>3, <2>4, NextEffect DEF Quiet, InRefresh, LoginExchange, LogsIn
<1> QED
  BY <1>2, <1>3, <1>4

LEMMA NextOneLoginPerRow ==
  ASSUME GInv, WholeRelogins, HandlersHaveTheRow, OneLoginPerRow, Next
  PROVE  OneLoginPerRow'
<1> DEFINE Fits1(row) ==
      /\ grants[row.access].lineage = row.scopes
      /\ row.refresh # None => grants[row.refresh].lineage = row.scopes
<1> SUFFICES ASSUME NEW u \in Users, tokens'[u] # NoRow
             PROVE  /\ grants'[tokens'[u].access].lineage = tokens'[u].scopes
                    /\ tokens'[u].refresh # None =>
                         grants'[tokens'[u].refresh].lineage = tokens'[u].scopes
  BY DEF OneLoginPerRow
<1>0. tokens \in Table /\ h \in [Requests -> Local]
  BY DEF GInv, IInv, TypeOK
<1>1. ASSUME NEW row, row.access \in DOMAIN grants,
             row.refresh # None => row.refresh \in DOMAIN grants, Fits1(row)
      PROVE  /\ grants'[row.access].lineage = row.scopes
             /\ row.refresh # None => grants'[row.refresh].lineage = row.scopes
  BY <1>1, NextGrants
<1>2. CASE tokens'[u] = tokens[u]
  <2>1. tokens[u] \in Row
    BY <1>0, <1>2 DEF Table
  <2>2. tokens[u].access \in DOMAIN grants
    BY <1>2 DEF GInv, GrantsExist
  <2>3. tokens[u].refresh # None => tokens[u].refresh \in DOMAIN grants
    BY <1>2, <2>1 DEF GInv, GrantsExist, Named, Row
  <2>4. Fits1(tokens[u])
    BY <1>2 DEF OneLoginPerRow
  <2> HIDE DEF Fits1
  <2> QED
    BY <1>1, <1>2, <2>2, <2>3, <2>4
<1>3. ASSUME NEW r \in Requests, Stores(r), u = h[r].user
      PROVE  /\ grants'[tokens'[u].access].lineage = tokens'[u].scopes
             /\ tokens'[u].refresh # None =>
                  grants'[tokens'[u].refresh].lineage = tokens'[u].scopes
  <2> DEFINE ans == h[r].ans
             old == h[r].refresh
  <2>1. InRefresh(r) /\ ans # Err /\ tokens[u] # NoRow
    BY <1>3 DEF Stores, InRefresh
  <2>2. /\ ans.grant \in DOMAIN grants /\ ans.refresh \in {None, ans.grant}
        /\ grants[ans.grant].lineage = grants[old].lineage /\ old # None
    BY <2>1 DEF GInv, AnswersFit, Fits
  <2>3. old = tokens[u].refresh /\ old \in Nat
    BY <1>0, <1>3, <2>1 DEF HandlersHaveTheRow, Local
  <2>4. grants[old].lineage = tokens[u].scopes
    BY <2>1, <2>2, <2>3 DEF OneLoginPerRow
  <2>5. old \in DOMAIN grants
    <3>1. Named(u, old)
      BY <2>1, <2>3 DEF Named
    <3> QED
      BY <2>2, <2>3, <3>1 DEF GInv, GrantsExist
  <2>6. /\ tokens'[u].access = ans.grant /\ tokens'[u].scopes = tokens[u].scopes
        /\ tokens'[u].refresh \in {ans.grant, old}
    BY <1>3, <2>2 DEF Stores, OrKeep
  <2>7. /\ Fits1(tokens'[u])
        /\ tokens'[u].access \in DOMAIN grants /\ tokens'[u].refresh \in DOMAIN grants
    BY <2>2, <2>4, <2>5, <2>6
  <2> HIDE DEF Fits1
  <2> QED
    BY <1>1, <2>7
<1>4. ASSUME NEW a \in Accounts, LogsIn(a, u)
      PROVE  /\ grants'[tokens'[u].access].lineage = tokens'[u].scopes
             /\ tokens'[u].refresh # None =>
                  grants'[tokens'[u].refresh].lineage = tokens'[u].scopes
  <2>1. tokens'[u].refresh \in {None, login[a]}
    BY <1>4, WholeLogin
  <2>2. tokens'[u].access = login[a] /\ tokens'[u].scopes = login[a]
    BY <1>4 DEF LogsIn
  <2>3. login[a] \in DOMAIN grants /\ grants[login[a]].lineage = login[a]
    BY <1>4 DEF LogsIn, GInv, GrantsExist
  <2>4. Fits1(tokens'[u]) /\ tokens'[u].access \in DOMAIN grants
        /\ (tokens'[u].refresh # None => tokens'[u].refresh \in DOMAIN grants)
    BY <2>1, <2>2, <2>3
  <2> HIDE DEF Fits1
  <2> QED
    BY <1>1, <2>4
<1>5. ASSUME NEW r \in Requests, Stores(r), u # h[r].user
      PROVE  tokens'[u] = tokens[u]
  BY <1>5 DEF Stores
<1>6. ASSUME NEW a \in Accounts, NEW w \in Users, LogsIn(a, w), u # w
      PROVE  tokens'[u] = tokens[u]
  BY <1>6 DEF LogsIn
<1> HIDE DEF Fits1
<1> QED
  BY <1>2, <1>3, <1>4, <1>5, <1>6, NextEffect
  DEF Quiet, Dials, ProviderGrants, RefreshFails, LoginExchange, db

\* As long as logins are whole: everything a row's refresh token depends on.
LEMMA WholeInvariance ==
  Spec /\ [][WholeRelogins]_vars
    => [](GInv /\ HandlersHaveTheRow /\ RejectedIsDead /\ OneLoginPerRow)
<1> DEFINE WInv == GInv /\ HandlersHaveTheRow /\ RejectedIsDead /\ OneLoginPerRow
<1>1. Init => WInv
  <2> SUFFICES ASSUME Init PROVE WInv
    OBVIOUS
  <2>1. (\A u \in Users : tokens[u] = NoRow) /\ \A r \in Requests : h[r].pc = "idle"
    BY DEF Init, EmptyTable, Idle
  <2> QED
    BY <2>1, InitGInv DEF InRefresh, HandlersHaveTheRow, RejectedIsDead, OneLoginPerRow
<1>2. WInv /\ [Next]_vars /\ [WholeRelogins]_vars => WInv'
  <2>1. WInv /\ Next /\ WholeRelogins => WInv'
    BY NextGInv, NextHandlersHaveTheRow, NextRejectedIsDead, NextOneLoginPerRow
  <2>2. WInv /\ UNCHANGED vars => WInv'
    <3> SUFFICES ASSUME WInv, UNCHANGED vars PROVE WInv'
      OBVIOUS
    <3>1. GInv'
      BY NextGInv
    <3>2. HandlersHaveTheRow' /\ RejectedIsDead' /\ OneLoginPerRow'
      BY DEF vars, db, provider, HandlersHaveTheRow, InRefresh, RejectedIsDead, OneLoginPerRow
    <3> QED
      BY <3>1, <3>2
  <2> QED
    BY <2>1, <2>2
<1> HIDE DEF WInv
<1>3. Spec /\ [][WholeRelogins]_vars => []WInv
  BY <1>1, <1>2, PTL DEF Spec
<1> QED
  BY <1>3 DEF WInv

\* Without a second login every login is whole.
LEMMA AloneInvariance ==
  "reauth" \notin Env =>
    (Spec => [](GInv /\ HandlersHaveTheRow /\ RejectedIsDead /\ OneLoginPerRow))
<1> DEFINE AInv == GInv /\ LoginsAreFirst
<1> SUFFICES ASSUME "reauth" \notin Env
             PROVE  Spec => [](GInv /\ HandlersHaveTheRow /\ RejectedIsDead /\ OneLoginPerRow)
  OBVIOUS
<1>1. Init => AInv
  BY InitGInv DEF Init, LoginsAreFirst
<1>2. AInv /\ [Next]_vars => AInv'
  <2>1. AInv /\ Next => AInv'
    BY NextGInv, NextLoginsAreFirst
  <2>2. AInv /\ UNCHANGED vars => AInv'
    <3>1. GInv /\ UNCHANGED vars => GInv'
      BY NextGInv
    <3> QED
      BY <3>1 DEF vars, db, LoginsAreFirst, Holders
  <2> QED
    BY <2>1, <2>2
<1>3. AInv => WholeRelogins
  BY DEF LoginsAreFirst, LoginSave, WholeRelogins
<1>4. AInv /\ [Next]_vars => [WholeRelogins]_vars
  BY <1>3
<1> HIDE DEF AInv
<1>5. Spec => [][WholeRelogins]_vars
  BY <1>1, <1>2, <1>4, PTL DEF Spec
<1> QED
  BY <1>5, WholeInvariance, PTL

\* A row's scopes, access token and refresh token are of one login, whatever is
\* refreshed, deleted, lost or logged in, unless a login overtakes a refresh of
\* its row (callback takes no refresh_lock) or brings no refresh token of its own
\* (upsert_token keeps the old one): nothing else mixes two logins in a row.
THEOREM RowsAreOfOneLogin == Spec /\ [][WholeRelogins]_vars => []OneLoginPerRow
<1>1. GInv /\ HandlersHaveTheRow /\ RejectedIsDead /\ OneLoginPerRow => OneLoginPerRow
  OBVIOUS
<1> QED
  BY <1>1, WholeInvariance, PTL

LEMMA NextExpiry ==
  ASSUME GInv, ExpiryNotOverstated, Next, "noExpiresIn" \notin Env \/ HandlersHaveTheRow
  PROVE  ExpiryNotOverstated'
<1> SUFFICES ASSUME NEW u \in Users, tokens'[u] # NoRow, grants'[tokens'[u].access].refreshed
             PROVE  tokens'[u].expires <= grants'[tokens'[u].access].until
  BY DEF ExpiryNotOverstated
<1>1. CASE tokens'[u] \in {tokens[u], NoRow}
  <2>1. tokens'[u] = tokens[u] /\ tokens[u].access \in DOMAIN grants
    BY <1>1 DEF GInv, GrantsExist
  <2>2. grants'[tokens[u].access] = grants[tokens[u].access]
    BY <2>1, NextGrants
  <2> QED
    BY <2>1, <2>2 DEF ExpiryNotOverstated
<1>2. ASSUME NEW r \in Requests, Stores(r), u = h[r].user
      PROVE  tokens'[u].expires <= grants'[tokens'[u].access].until
  <2>1. /\ h[r].ans.grant \in DOMAIN grants
        /\ "noExpiresIn" \notin Env => h[r].ans.ttl = TTL
        /\ h[r].asOf + TTL <= grants[h[r].ans.grant].until
    BY <1>2 DEF Stores, GInv, AnswersFit, Fits, InRefresh
  <2>2. tokens[u].expires <= h[r].asOf \/ h[r].ans.ttl = TTL
    BY <1>2, <2>1 DEF Stores, HandlersHaveTheRow, InRefresh
  <2>3. h[r].asOf \in Nat /\ grants[h[r].ans.grant].until \in Nat /\ tokens[u].expires \in Nat
    <3>1. tokens[u] \in Row
      BY <1>2 DEF Stores, GInv, IInv, TypeOK, Table
    <3>2. grants[h[r].ans.grant] \in Grant
      BY <2>1 DEF GInv, IInv, TypeOK
    <3>3. h[r] \in Local
      BY DEF GInv, IInv, TypeOK
    <3> QED
      BY <3>1, <3>2, <3>3 DEF Row, Grant, Local
  <2>4. tokens'[u].access = h[r].ans.grant /\ tokens'[u].expires <= h[r].asOf + TTL
    BY <1>2, <2>2, <2>3, RefreshAssumption DEF Stores
  <2>5. grants'[tokens'[u].access].until = grants[h[r].ans.grant].until
    BY <2>1, <2>4, NextGrants
  <2>6. tokens'[u].expires \in Nat
    BY <1>2 DEF Stores, Row
  <2> QED
    BY <2>1, <2>3, <2>4, <2>5, <2>6, RefreshAssumption
<1>3. ASSUME NEW a \in Accounts, LogsIn(a, u)
      PROVE  FALSE
  <2>1. login[a] \in DOMAIN grants /\ ~grants[login[a]].refreshed
    BY <1>3 DEF LogsIn, GInv, GrantsExist
  <2> QED
    BY <1>3, <2>1, NextGrants DEF LogsIn
<1>4. ASSUME NEW r \in Requests, Stores(r), u # h[r].user
      PROVE  tokens'[u] = tokens[u]
  BY <1>4 DEF Stores
<1>5. ASSUME NEW a \in Accounts, NEW w \in Users, LogsIn(a, w), u # w
      PROVE  tokens'[u] = tokens[u]
  BY <1>5 DEF LogsIn
<1> QED
  BY <1>1, <1>2, <1>3, <1>4, <1>5, NextEffect
  DEF Quiet, Dials, ProviderGrants, RefreshFails, LoginExchange, db

\* No row, a login's included, promises more than a lifetime from now.
ExpiryWithinTtl == \A u \in Users : tokens[u] # NoRow => tokens[u].expires <= now + TTL

LEMMA NextExpiryWithinTtl ==
  ASSUME GInv, ExpiryWithinTtl, Next
  PROVE  ExpiryWithinTtl'
<1> SUFFICES ASSUME NEW u \in Users, tokens'[u] # NoRow
             PROVE  tokens'[u].expires <= now' + TTL
  BY DEF ExpiryWithinTtl
<1>0. /\ now \in Nat /\ now' \in Nat /\ TTL \in Nat
      /\ tokens \in Table /\ tokens' \in Table /\ h \in [Requests -> Local]
  BY NextType, RefreshAssumption DEF GInv, IInv, TypeOK
<1>1. ASSUME now <= now', tokens'[u] \in {tokens[u], NoRow}
      PROVE  tokens'[u].expires <= now' + TTL
  <2>1. tokens'[u] = tokens[u] /\ tokens[u].expires <= now + TTL
    BY <1>1 DEF ExpiryWithinTtl
  <2>2. tokens[u].expires \in Nat
    BY <1>0, <2>1 DEF Table, Row
  <2> QED
    BY <1>0, <1>1, <2>1, <2>2
<1>2. ASSUME NEW r \in Requests, Stores(r), u = h[r].user
      PROVE  tokens'[u].expires <= now' + TTL
  <2>1. h[r].asOf \in Nat /\ h[r].asOf <= now /\ now' = now
    BY <1>0, <1>2 DEF Stores, GInv, AnswersFit, Fits, InRefresh, Local
  <2>2. h[r].asOf + TTL <= now + TTL
    BY <1>0, <2>1
  <2>3. tokens'[u].expires = h[r].asOf + TTL \/ tokens'[u].expires = tokens[u].expires
    BY <1>2 DEF Stores
  <2>4. tokens[u].expires <= now + TTL
    BY <1>2 DEF Stores, ExpiryWithinTtl
  <2> QED
    BY <2>1, <2>2, <2>3, <2>4
<1>3. ASSUME NEW a \in Accounts, LogsIn(a, u)
      PROVE  tokens'[u].expires <= now' + TTL
  BY <1>3 DEF LogsIn, ExpiryWithinTtl
<1>4. ASSUME NEW r \in Requests, Stores(r), u # h[r].user
      PROVE  tokens'[u] = tokens[u] /\ now' = now
  BY <1>4 DEF Stores
<1>5. ASSUME NEW a \in Accounts, NEW w \in Users, LogsIn(a, w), u # w
      PROVE  tokens'[u] = tokens[u] /\ now' = now
  BY <1>5 DEF LogsIn
<1>6. CASE Quiet
  BY <1>1, <1>6 DEF Quiet
<1>7. CASE tokens'[u] = tokens[u] /\ now' = now
  BY <1>0, <1>1, <1>7
<1> QED
  BY <1>2, <1>3, <1>4, <1>5, <1>6, <1>7, NextEffect
  DEF Dials, ProviderGrants, RefreshFails, LoginExchange, db

\* What a stored expiry is worth.  That of a refreshed token is never later than
\* the provider's, however long the call took: user_token adds expires_in to the
\* clock it read before the call.  (A response without expires_in leaves the old
\* expires_at, which had passed, unless a login has come in between.)  That of a
\* login's token may be late, since callback reads the clock after its exchange,
\* but like any other it is at most a lifetime away.
THEOREM StoredExpiries ==
  /\ "noExpiresIn" \notin Env \/ "reauth" \notin Env => (Spec => []ExpiryNotOverstated)
  /\ Spec => []ExpiryWithinTtl
<1>1. ASSUME "noExpiresIn" \notin Env \/ "reauth" \notin Env
      PROVE  Spec => []ExpiryNotOverstated
  <2> DEFINE Cond == "noExpiresIn" \notin Env \/ HandlersHaveTheRow
  <2>1. Init => ExpiryNotOverstated
    BY DEF Init, EmptyTable, ExpiryNotOverstated
  <2>2. GInv /\ Cond /\ ExpiryNotOverstated /\ [Next]_vars => ExpiryNotOverstated'
    <3>1. ExpiryNotOverstated /\ UNCHANGED vars => ExpiryNotOverstated'
      BY DEF vars, db, provider, ExpiryNotOverstated
    <3> QED
      BY <3>1, NextExpiry
  <2>3. Spec => []Cond
    <3>1. CASE "noExpiresIn" \notin Env
      <4>1. Cond
        BY <3>1
      <4> QED
        BY <4>1, PTL
    <3>2. CASE "reauth" \notin Env
      <4>1. GInv /\ HandlersHaveTheRow /\ RejectedIsDead /\ OneLoginPerRow => Cond
        OBVIOUS
      <4> QED
        BY <3>2, <4>1, AloneInvariance, PTL
    <3> QED
      BY <1>1, <3>1, <3>2
  <2> HIDE DEF Cond
  <2> QED
    BY <2>1, <2>2, <2>3, GrantInvariance, PTL DEF Spec
<1>2. Spec => []ExpiryWithinTtl
  <2>1. Init => ExpiryWithinTtl
    BY DEF Init, EmptyTable, ExpiryWithinTtl
  <2>2. GInv /\ ExpiryWithinTtl /\ [Next]_vars => ExpiryWithinTtl'
    <3>1. ExpiryWithinTtl /\ UNCHANGED vars => ExpiryWithinTtl'
      BY DEF vars, db, ExpiryWithinTtl
    <3> QED
      BY <3>1, NextExpiryWithinTtl
  <2> QED
    BY <2>1, <2>2, GrantInvariance, PTL DEF Spec
<1> QED
  BY <1>1, <1>2

\* Whoever answers 409 has found no refresh token, or one that was rejected.
LEMMA ReauthIsNeeded ==
  ASSUME GInv, Next, NEW r \in Requests, Answered(r, 409), "unreachable" \notin Env,
         \/ Calm /\ CallsWork
         \/ HandlersHaveTheRow /\ RejectedIsDead
  PROVE  tokens[h[r].user] = NoRow \/ tokens[h[r].user].refresh \notin live
<1>0. out \in [Requests -> Response] /\ NoResponse.status = None
  BY DEF GInv, IInv, TypeOK, NoResponse
<1>1. \A code : Fail(code).status = code
  BY DEF Fail, NoResponse
<1>2. \A row, t : Sealed(r, row, t).status = 200
  BY DEF Sealed
<1>3. ASSUME NEW s \in Requests, LoadToken(s)
      PROVE  FALSE
  <2>1. s = r
    BY <1>0, <1>3 DEF LoadToken, Respond, Answered
  <2> QED
    BY <1>0, <1>1, <1>2, <1>3, <2>1 DEF LoadToken, Respond, Answered
<1>4. ASSUME NEW s \in Requests, Reread(s)
      PROVE  tokens[h[r].user].refresh \notin live
  <2>1. s = r
    BY <1>0, <1>4 DEF Reread, Respond, Answered
  <2> DEFINE row == GetToken(tokens, h[r].app, h[r].user)
  <2>2. row # NoRow /\ row.refresh = None
    BY <1>0, <1>1, <1>2, <1>4, <2>1 DEF Reread, Respond, Answered
  <2>3. row = tokens[h[r].user]
    BY <2>2 DEF GetToken
  <2> QED
    BY <2>2, <2>3, LiveNames
<1>5. ASSUME NEW s \in Requests, Save(s)
      PROVE  tokens[h[r].user] = NoRow \/ tokens[h[r].user].refresh \notin live
  <2>1. s = r
    BY <1>0, <1>5 DEF Save, Respond, Answered
  <2>2. h[r].pc = "answered" /\ h[r].ans = Err
    BY <1>0, <1>1, <1>2, <1>5, <2>1 DEF Save, Respond, Answered, Failed
  <2> QED
    BY <2>2 DEF CallsWork, HandlersHaveTheRow, RejectedIsDead, InRefresh
<1>6. ASSUME NEW s \in Requests, SaveFails(s)
      PROVE  FALSE
  BY <1>0, <1>1, <1>6 DEF SaveFails, Respond, Answered
<1>7. ASSUME NEW s \in Requests, NEW app \in Apps, NEW u \in used, Arrive(s, app, u)
      PROVE  FALSE
  BY <1>0, <1>7 DEF Arrive, Answered, None
<1>8. CASE Restart
  BY <1>0, <1>8 DEF Restart, Answered, None
<1>9. CASE UNCHANGED out
  BY <1>9 DEF Answered
<1> QED
  BY <1>3, <1>4, <1>5, <1>6, <1>7, <1>8, <1>9
  DEF Next, Handler, RefreshLock, Provider, ProviderGrants, RefreshFails, Disconnect,
      ProcessOrphan, LoginExchange, LoginSave, DeleteUser, RotateKey, Tick

\* 409 is never answered while the stored refresh token works (user_token), if
\* the provider is reached and either nothing is lost on the way back from it
\* or no account with a row logs in.
THEOREM NoNeedlessReauth ==
  "unreachable" \notin Env /\ (Calm \/ "reauth" \notin Env) => (Spec => ReauthOnlyWhenNeeded)
<1> DEFINE CInv   == GInv /\ CallsWork /\ StoredRefreshTokenWorks
           AInv   == GInv /\ HandlersHaveTheRow /\ RejectedIsDead /\ OneLoginPerRow
           Needed == \A r \in Requests :
                       LET row == tokens[h[r].user] IN
                       Answered(r, 409) => row = NoRow \/ row.refresh \notin live
<1> SUFFICES ASSUME "unreachable" \notin Env, Calm \/ "reauth" \notin Env
             PROVE  Spec => ReauthOnlyWhenNeeded
  OBVIOUS
<1>1. CASE Calm
  <2>1. CInv /\ [Next]_vars => [Needed]_vars
    <3>1. CInv /\ Next => Needed
      BY <1>1, ReauthIsNeeded
    <3> QED
      BY <3>1
  <2>2. Spec => []CInv
    BY <1>1, CalmInvariance
  <2> QED
    BY <2>1, <2>2, PTL DEF Spec, ReauthOnlyWhenNeeded
<1>2. CASE "reauth" \notin Env
  <2>1. AInv /\ [Next]_vars => [Needed]_vars
    <3>1. AInv /\ Next => Needed
      BY ReauthIsNeeded
    <3> QED
      BY <3>1
  <2>2. Spec => []AInv
    BY <1>2, AloneInvariance
  <2> QED
    BY <2>1, <2>2, PTL DEF Spec, ReauthOnlyWhenNeeded
<1> QED
  BY <1>1, <1>2
=============================================================================
