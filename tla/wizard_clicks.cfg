\* Back and repeated submits while calls are under way, failing and edited forms.
SPECIFICATION Spec
CONSTANTS
  w1 = w1
  n1 = n1
  Urls = {w1, w2}
  Names = {n1, n2}
  DefaultUrl = w1
  DefaultName = n1
  KeyPairs = {k1, k2}
  Submits = {s1, s2}
  Env = {"keygen", "create", "patch", "save", "token", "users", "lost", "leave"}
  MaxVisits = 2
  MaxNonces = 2
SYMMETRY Symmetry
INVARIANTS TypeOK OneAppInUse KeptKeyIsTheApps SecretsOpenTokens KeyShownOnce
CHECK_DEADLOCK FALSE
