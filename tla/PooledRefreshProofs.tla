------------------------- MODULE PooledRefreshProofs ------------------------
(***************************************************************************)
(* Theorems about PooledRefresh: it implements TokenRefresh, so what is    *)
(* proved there holds however few connections and threads there are, and   *)
(* it never has more of either in use than there are.                      *)
(***************************************************************************)
EXTENDS PooledRefresh, TokenRefreshProofs, FiniteSetTheorems

-----------------------------------------------------------------------------
(* The refinement *)

LEMMA PooledStep == [PooledNext]_pooledVars => [Next]_vars
<1> SUFFICES ASSUME PooledNext PROVE Next \/ UNCHANGED vars
  BY DEF pooledVars
<1>1. ASSUME NEW r \in Requests, Ask(r) \/ GiveUp(r)
      PROVE  UNCHANGED vars
  BY <1>1 DEF Ask, GiveUp
<1>2. ASSUME NEW r \in Requests, Run(r) \/ Resume(r)
      PROVE  Next
  BY <1>2 DEF Run, Resume, Next, Handler
<1>3. ASSUME NEW r \in Requests, NEW app \in Apps, NEW u \in used, Connect(r, app, u)
      PROVE  Next
  BY <1>3 DEF Connect, Next
<1>4. CASE PooledRestart
  BY <1>4 DEF PooledRestart, Next
<1>5. CASE Around
  BY <1>5 DEF Around, Next
<1> QED
  BY <1>1, <1>2, <1>3, <1>4, <1>5 DEF PooledNext

\* The pool and the threads only take behaviours away: whatever a server with
\* few connections and few threads does, TokenRefresh does too.
THEOREM PoolImplementsRefresh == PooledSpec => ImplementsTokenRefresh
BY PooledStep, PTL DEF PooledSpec, PooledInit, ImplementsTokenRefresh, Spec

\* In particular it never refreshes one user twice at a time.
THEOREM PooledRefreshIsExclusive == PooledSpec => []OneRefreshPerUser
BY PoolImplementsRefresh, RefreshIsExclusive, PTL DEF ImplementsTokenRefresh

-----------------------------------------------------------------------------
(* Connections and threads in use *)

InUse == /\ getting \subseteq Requests \ Connected
         /\ Cardinality(Connected) <= Connections /\ Cardinality(OnThread) <= Workers

LEMMA Finite ==
  ASSUME NEW S \in SUBSET Requests
  PROVE  /\ IsFiniteSet(S) /\ Cardinality(S) \in Nat
         /\ \A T \in SUBSET S : Cardinality(T) <= Cardinality(S) /\ Cardinality(T) \in Nat
<1>1. IsFiniteSet(S)
  BY PoolAssumption, FS_Subset
<1>2. \A T \in SUBSET S : IsFiniteSet(T) /\ Cardinality(T) <= Cardinality(S)
  BY <1>1, FS_Subset
<1> QED
  BY <1>1, <1>2, FS_CardinalityType

\* Steps that take neither a connection nor a thread.
Returns == Connected' \subseteq Connected /\ OnThread' \subseteq OnThread /\ getting' \subseteq getting

LEMMA ReturningIsFine ==
  ASSUME InUse, Returns
  PROVE  InUse'
<1>1. Connected \subseteq Requests /\ OnThread \subseteq Requests
  BY DEF InUse, Connected, OnThread
<1>2. /\ Cardinality(Connected') <= Cardinality(Connected) /\ Cardinality(Connected) \in Nat
      /\ Cardinality(OnThread') <= Cardinality(OnThread) /\ Cardinality(OnThread) \in Nat
      /\ Cardinality(Connected') \in Nat /\ Cardinality(OnThread') \in Nat
  BY <1>1, Finite DEF Returns
<1>3. /\ Cardinality(Connected)' = Cardinality(Connected')
      /\ Cardinality(OnThread)' = Cardinality(OnThread')
  OBVIOUS
<1> QED
  BY <1>1, <1>2, <1>3, PoolAssumption DEF InUse, Returns

LEMMA AskFits ==
  ASSUME TypeOK, InUse, NEW r \in Requests, Ask(r)
  PROVE  InUse'
<1>1. /\ Connected' = Connected /\ OnThread' = OnThread \cup {r}
      /\ r \notin Connected /\ getting' = getting \cup {r}
  BY DEF Ask, vars, Connected, OnThread
<1>2. OnThread \subseteq Requests
  BY DEF InUse, OnThread
<1>3. /\ Cardinality(OnThread \cup {r}) <= Cardinality(OnThread) + 1
      /\ Cardinality(OnThread) \in Nat /\ Cardinality(OnThread \cup {r}) \in Nat
  BY <1>2, Finite, FS_AddElement
<1>4. Cardinality(OnThread) < Workers
  BY DEF Ask, FreeThread
<1>5. Cardinality(OnThread \cup {r}) <= Workers
  BY <1>3, <1>4, PoolAssumption
<1>6. Cardinality(Connected)' = Cardinality(Connected) /\ Cardinality(OnThread)' <= Workers
  BY <1>1, <1>5
<1>7. getting' \subseteq Requests \ Connected'
  BY <1>1 DEF InUse
<1> QED
  BY <1>6, <1>7 DEF InUse

LEMMA ConnectFits ==
  ASSUME TypeOK, InUse, NEW r \in Requests, NEW app \in Apps, NEW u \in used, Connect(r, app, u)
  PROVE  InUse'
<1>1. h[r].pc = "idle" /\ r \in getting /\ getting' = getting \ {r}
  BY DEF Connect, Arrive
<1>2. \A s \in Requests : h'[s].pc = IF s = r THEN "getToken" ELSE h[s].pc
  BY DEF Connect, Arrive, TypeOK, Idle
<1>3. Connected' = Connected \cup {r} /\ OnThread' = OnThread
  BY <1>1, <1>2 DEF Connected, OnThread, InUse
<1>4. Connected \subseteq Requests
  BY DEF Connected
<1>5. /\ Cardinality(Connected \cup {r}) <= Cardinality(Connected) + 1
      /\ Cardinality(Connected) \in Nat /\ Cardinality(Connected \cup {r}) \in Nat
  BY <1>4, Finite, FS_AddElement
<1>6. Cardinality(Connected) < Connections
  BY DEF Connect, FreeConnection
<1>7. Cardinality(Connected \cup {r}) <= Connections
  BY <1>5, <1>6, PoolAssumption
<1>8. Cardinality(Connected)' <= Connections /\ Cardinality(OnThread)' = Cardinality(OnThread)
  BY <1>3, <1>7
<1>9. getting' \subseteq Requests \ Connected'
  BY <1>1, <1>3 DEF InUse
<1> QED
  BY <1>8, <1>9 DEF InUse

\* A step of TokenRefresh other than Arrive starts nothing.
LEMMA StepReturns ==
  ASSUME TypeOK, getting' \subseteq getting,
         NEW r \in Requests,
         \/ LoadToken(r) \/ RefreshLock(r) \/ Reread(r) \/ Save(r) \/ SaveFails(r)
         \/ Provider(r) \/ Disconnect(r)
  PROVE  Returns
<1>0. h \in [Requests -> Local] /\ Idle.pc = "idle"
  BY DEF TypeOK, Idle
<1> SUFFICES \A s \in Requests : /\ h[s].pc = "idle" => h'[s].pc = "idle"
                                 /\ h'[s].pc \in {"getToken", "lock"} => h[s].pc \in {"getToken", "lock"}
  BY DEF Returns, Connected, OnThread
<1>1. CASE LoadToken(r)
  BY <1>0, <1>1 DEF LoadToken, Respond, Local
<1>2. CASE RefreshLock(r)
  BY <1>0, <1>2 DEF RefreshLock, Local
<1>3. CASE Reread(r)
  BY <1>0, <1>3 DEF Reread, Respond, Local
<1>4. CASE Save(r) \/ SaveFails(r) \/ Disconnect(r)
  <2>1. h' = [h EXCEPT ![r] = Idle]
    BY <1>4 DEF Save, SaveFails, Disconnect, Respond
  <2> QED
    BY <1>0, <2>1
<1>5. CASE Provider(r)
  <2>1. h[r].pc = "calling"
    BY <1>5 DEF Provider, ProviderGrants, RefreshFails
  <2>2. PICK ans : h' = [h EXCEPT ![r].pc = "answered", ![r].ans = ans]
    BY <1>5 DEF Provider, ProviderGrants, RefreshFails
  <2> QED
    BY <1>0, <2>1, <2>2 DEF Local
<1> QED
  BY <1>1, <1>2, <1>3, <1>4, <1>5

LEMMA PooledNextFits == TypeOK /\ InUse /\ [PooledNext]_pooledVars => InUse'
<1> SUFFICES ASSUME TypeOK, InUse, [PooledNext]_pooledVars PROVE InUse'
  OBVIOUS
<1>1. ASSUME UNCHANGED h, getting' \subseteq getting
      PROVE  InUse'
  BY <1>1, ReturningIsFine DEF Returns, Connected, OnThread
<1>2. ASSUME NEW r \in Requests, Ask(r)
      PROVE  InUse'
  BY <1>2, AskFits
<1>3. ASSUME NEW r \in Requests, GiveUp(r)
      PROVE  InUse'
  BY <1>1, <1>3 DEF GiveUp, vars
<1>4. ASSUME NEW r \in Requests, Run(r) \/ Resume(r)
      PROVE  InUse'
  BY <1>4, StepReturns, ReturningIsFine DEF Run, Resume
<1>5. ASSUME NEW r \in Requests, NEW app \in Apps, NEW u \in used, Connect(r, app, u)
      PROVE  InUse'
  BY <1>5, ConnectFits
<1>6. CASE PooledRestart
  <2>1. getting' = {} /\ \A r \in Requests : h'[r].pc = "idle"
    BY <1>6 DEF PooledRestart, Restart, Idle
  <2>2. Returns
    BY <2>1 DEF Returns, Connected, OnThread
  <2> QED
    BY <2>2, ReturningIsFine
<1>7. CASE Around
  <2>1. ASSUME NEW r \in Requests, Provider(r) \/ Disconnect(r)
        PROVE  InUse'
    <3>1. getting' \subseteq getting
      BY <1>7 DEF Around
    <3> QED
      BY <2>1, <3>1, StepReturns, ReturningIsFine
  <2> QED
    BY <1>1, <1>7, <2>1
    DEF Around, ProcessOrphan, LoginExchange, LoginSave, DeleteUser, RotateKey, Tick
<1>8. CASE UNCHANGED pooledVars
  BY <1>1, <1>8 DEF pooledVars, vars
<1> QED
  BY <1>2, <1>3, <1>4, <1>5, <1>6, <1>7, <1>8 DEF PooledNext

\* The server never has more connections out, or handlers running, than it has
\* connections and threads, and a handler that asks for a connection holds none.
THEOREM PoolIsNeverOverbooked == PooledSpec => []PoolTypeOK
<1>1. PooledInit => InUse
  <2> SUFFICES ASSUME PooledInit PROVE InUse
    OBVIOUS
  <2>1. \A r \in Requests : h[r].pc = "idle"
    BY DEF PooledInit, Init, Idle
  <2>2. Connected = {} /\ OnThread = {} /\ getting = {}
    BY <2>1 DEF PooledInit, Connected, OnThread
  <2> QED
    BY <2>2, FS_EmptySet, PoolAssumption DEF InUse
<1>2. PooledSpec => []TypeOK
  BY PoolImplementsRefresh, TypeCorrect, PTL DEF ImplementsTokenRefresh
<1>3. TypeOK /\ InUse => PoolTypeOK
  BY DEF InUse, PoolTypeOK
<1> QED
  BY <1>1, <1>2, <1>3, PooledNextFits, PTL DEF PooledSpec
=============================================================================
