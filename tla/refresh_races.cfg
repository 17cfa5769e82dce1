\* Callers of one account against deletions, key rotations and re-logins.
SPECIFICATION Spec
CONSTANTS
  a1 = a1
  a2 = a2
  p1 = p1
  Apps = {p1}
  NoRow = NoRow
  Accounts <- OneAccount
  AppOf <- AppOfOne
  Users = {u1, u2}
  Requests = {r1, r2}
  Keys = {k1, k2}
  Env = {"delete", "rotateKey", "reauth", "sameRefresh", "noRefresh"}
  TTL = 1
  MaxTime = 3
  MaxGrants = 5
SYMMETRY Symmetry
INVARIANTS OneRefreshPerUser StoredRefreshTokenWorks ExpiryNotOverstated
PROPERTIES SealedToCurrentKey AnswerNotExpired ReauthOnlyWhenNeeded ImplementsUserIds
CHECK_DEADLOCK FALSE
