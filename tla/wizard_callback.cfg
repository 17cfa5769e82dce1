\* The PATCH that sets redirect_url fails.
SPECIFICATION Spec
CONSTANTS
  w1 = w1
  n1 = n1
  Urls = {w1, w2}
  Names = {n1}
  DefaultUrl = w1
  DefaultName = n1
  KeyPairs = {k1}
  Submits = {s1, s2}
  Env = {"patch"}
  MaxVisits = 1
  MaxNonces = 1
INVARIANTS ShownCallbackIsRegistered
CHECK_DEADLOCK FALSE
