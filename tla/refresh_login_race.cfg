\* A login completes while a refresh is under way.
SPECIFICATION Spec
CONSTANTS
  a1 = a1
  a2 = a2
  p1 = p1
  Apps = {p1}
  NoRow = NoRow
  Accounts <- OneAccount
  AppOf <- AppOfOne
  Users = {u1}
  Requests = {r1}
  Keys = {k1}
  Env = {"reauth"}
  TTL = 1
  MaxTime = 2
  MaxGrants = 4
INVARIANTS OneLoginPerRow
CHECK_DEADLOCK FALSE
