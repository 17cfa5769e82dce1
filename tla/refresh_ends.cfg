\* Handlers of two users, with whatever fails: when the provider answers, every
\* request ends; when it does not, those of the other user end all the same.
SPECIFICATION HandlerSpec
CONSTANTS
  a1 = a1
  a2 = a2
  p1 = p1
  Apps = {p1}
  NoRow = NoRow
  Accounts <- TwoAccounts
  AppOf <- AppOfTwo
  Users = {u1, u2}
  Requests = {r1, r2}
  Keys = {k1}
  Env = {"delete", "unreachable", "lostAnswer", "disconnect", "restart", "busy"}
  TTL = 1
  MaxTime = 2
  MaxGrants = 4
INVARIANTS TypeOK OneRefreshPerUser
PROPERTIES EveryRequestEnds OnlyOwnUserBlocks
CHECK_DEADLOCK FALSE
