\* Two authorizations side by side: states that return once, with everything that
\* may be deleted or dropped, and states that return twice while keys are rotated.
SPECIFICATION Spec
CONSTANTS
  Apps = {p1, p2}
  Hints = {x1}
  Flows = {f1, f2}
  Accounts <- AllAccounts
  AppOf <- AppOfPair
  Users = {u1, u2}
  NoRow = NoRow
  NoFlow = NoFlow
  NoAccount = NoAccount
  Callbacks = {c1, c2}
  Redeemers = {t1}
  Revokers = {v1}
  Envs = {{"delete", "revoke", "disconnect", "restart"}, {"rotateKey", "replay"}}
  FlowTtl = 1
  CodeTtl = 1
  MaxTime = 2
SYMMETRY Symmetry
INVARIANTS TypeOK IssuedFlowHasItsUser RedeemsOwnAccount CodeIsSingleUse CodeExpires RevokedStaysGone
PROPERTIES HandedCodeIsStored ImplementsUserIds
CHECK_DEADLOCK FALSE
