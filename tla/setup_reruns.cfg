\* Three runs over two connections, one after the other, with typos, failing calls,
\* wrong settings, other people's deletions at any time, and their logins except at
\* an app that a run has just rekeyed.
SPECIFICATION Spec
CONSTANTS
  x1 = x1
  x2 = x2
  n1 = n1
  c1 = c1
  c2 = c2
  Runs = {x1, x2, n1}
  Script <- BothScripts
  Names = {c1, c2}
  Settings = {right, wrong}
  Right = {right}
  Env = {"fail", "connect", "delete"}
  MaxUsers = 3
SYMMETRY Interchangeable
CHECK_DEADLOCK FALSE
INVARIANTS
  TypeOK
  SavedUserIsTheLogin
  SecretsLostByConsent
PROPERTIES
  CountedLeaveByConsent
  DoneSecretsWork
