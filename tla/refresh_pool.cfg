\* Three requests of two users on two connections and one thread, with restarts:
\* when the provider answers, every request ends and the pool recovers; when it
\* does not, only its calls keep the pool exhausted.
SPECIFICATION PooledSpec
CONSTANTS
  a1 = a1
  a2 = a2
  p1 = p1
  Apps = {p1}
  NoRow = NoRow
  Accounts <- TwoAccounts
  AppOf <- AppOfTwo
  Users = {u1, u2}
  Requests = {r1, r2, r3}
  Keys = {k1}
  Env = {"restart"}
  TTL = 1
  MaxTime = 2
  MaxGrants = 4
  Connections = 2
  Workers = 1
INVARIANT PoolTypeOK
PROPERTIES EveryRequestEnds OnlySlowCallsExhaust PoolRecovers
CHECK_DEADLOCK FALSE
