---------------------------- MODULE PooledRefresh ----------------------------
(***************************************************************************)
(* The handlers of TokenRefresh on the two things they compete for: the    *)
(* connections of the pool, which a handler keeps while it awaits the lock *)
(* or the provider, and tokio's worker threads.  pool.get() is no await:   *)
(* the thread that runs it is blocked until a connection is free or r2d2's *)
(* timeout has passed, and cannot run the handler that would return one.   *)
(***************************************************************************)
EXTENDS TokenRefresh

CONSTANTS
  Connections,   \* max_size of the pool (8)
  Workers        \* worker threads of the runtime

ASSUME PoolAssumption == Connections \in Nat \ {0} /\ Workers \in Nat \ {0} /\ IsFiniteSet(Requests)

VARIABLE getting   \* requests that are inside pool.get()

pooledVars == <<vars, getting>>

-----------------------------------------------------------------------------
\* Every handler that has begun holds a connection; when its future ends, or
\* is dropped, the connection is back in the pool.
Connected == {r \in Requests : h[r].pc # "idle"}

\* Mutant of FreeConnection: the pool opens one connection too many.
OneTooMany == Cardinality(Connected) <= Connections

FreeConnection == Cardinality(Connected) < Connections

\* A thread runs a handler from one await to the next; the lock and the
\* provider are awaited, pool.get() and the database are not.
OnThread == getting \cup {r \in Requests : h[r].pc \in {"getToken", "lock"}}

FreeThread == Cardinality(OnThread) < Workers

\* Budget, with those who are about to begin.
Room == Len(grants) + Cardinality(Pending \cup getting) < MaxGrants

PooledInit == Init /\ getting = {}

-----------------------------------------------------------------------------
\* A request comes in, is given a thread, and asks the pool for a connection.
Ask(r) ==
  /\ h[r].pc = "idle" /\ r \notin getting
  /\ FreeThread /\ Room
  /\ getting' = getting \cup {r}
  /\ UNCHANGED vars

\* pool.get() returns: whoever waits may be first.
Connect(r, app, u) ==
  /\ r \in getting /\ FreeConnection
  /\ Arrive(r, app, u)
  /\ getting' = getting \ {r}

\* Mutant of GiveUp: pool.get() waits for as long as it takes.
Persist(r) == FALSE /\ UNCHANGED pooledVars

\* connection_timeout has passed: the handler answers 500.
GiveUp(r) ==
  /\ r \in getting /\ ~FreeConnection
  /\ getting' = getting \ {r}
  /\ UNCHANGED vars

\* A handler goes on, on the thread it has.
Run(r) == (LoadToken(r) \/ RefreshLock(r)) /\ UNCHANGED getting

\* A handler that was woken, by the lock or by the provider's answer, is
\* polled again.
Resume(r) == FreeThread /\ (Reread(r) \/ Save(r) \/ SaveFails(r)) /\ UNCHANGED getting

PooledRestart == Restart /\ getting' = {}

\* What needs neither, or belongs to other handlers and has both.
Around ==
  /\ \/ \E r \in Requests : Provider(r) \/ (FreeThread /\ Disconnect(r))
     \/ \E g \in orphans : ProcessOrphan(g)
     \/ \E a \in Accounts : (Room /\ LoginExchange(a)) \/ LoginSave(a)
     \/ \E u \in Users : DeleteUser(u)
     \/ \E app \in Apps : RotateKey(app)
     \/ Tick
  /\ UNCHANGED getting

PooledNext ==
  \/ \E r \in Requests : \/ Ask(r) \/ GiveUp(r) \/ Run(r) \/ Resume(r)
                         \/ \E app \in Apps, u \in used : Connect(r, app, u)
  \/ PooledRestart
  \/ Around

\* r2d2 returns, one way or the other; a running thread runs on; and whenever
\* threads are free again and again, a handler that is ready gets one of them
\* (tokio's run queue is a queue).
PoolFairness ==
  \A r \in Requests :
    /\ WF_pooledVars(GiveUp(r) \/ \E app \in Apps, u \in used : Connect(r, app, u))
    /\ WF_pooledVars(Run(r))
    /\ SF_pooledVars(Resume(r))

PooledSpec == PooledInit /\ [][PooledNext]_pooledVars /\ PoolFairness

-----------------------------------------------------------------------------
(* Properties *)

\* No more connections are out than the pool has, no more handlers run than
\* there are threads, and who asks for a connection has none.
PoolTypeOK ==
  /\ TypeOK /\ getting \subseteq Requests \ Connected
  /\ Cardinality(Connected) <= Connections /\ Cardinality(OnThread) <= Workers

\* A slow provider may cost other users their turn, since handlers keep connections
\* over its calls: as many calls as there are connections make everybody else wait in
\* pool.get() for r2d2's timeout and a 500.  But nothing less does, though threads are
\* stuck there and locks are waited for: in a pool that stays exhausted, again and
\* again every connection belongs to a user for whom the provider is being called.
OnlySlowCallsExhaust ==
  []<>(FreeConnection
       \/ \A r \in Connected : \E s \in Requests : h[s].pc = "calling" /\ h[s].user = h[r].user)

\* When the provider answers, an exhausted pool does not stay exhausted, though
\* every thread may be stuck in pool.get() while every connection belongs to a
\* handler that needs a thread to return it (health: "degraded").
PoolRecovers == ProviderFairness => []<>FreeConnection

\* Everything the pool and the threads allow is a behaviour of TokenRefresh.
ImplementsTokenRefresh == Spec

=============================================================================
