\* Two calls of /oauth/token with one code.
SPECIFICATION Spec
CONSTANTS
  Apps = {p1}
  Hints = {x1}
  Flows = {f1}
  Accounts <- AllAccounts
  AppOf <- AppOfPair
  Users = {u1}
  NoRow = NoRow
  NoFlow = NoFlow
  NoAccount = NoAccount
  Callbacks = {c1}
  Redeemers = {t1, t2}
  Revokers = {}
  Envs = {{}}
  FlowTtl = 3
  CodeTtl = 2
  MaxTime = 4
INVARIANTS CodeIsSingleUse
CHECK_DEADLOCK FALSE
