\* Two apps, two async functions in flight, a patient and an impatient person.
SPECIFICATION Spec
CONSTANTS
  a1 = a1
  a2 = a2
  t1 = t1
  t2 = t2
  Good = Good
  Bad = Bad
  None = None
  Apps = {a1, a2}
  Tasks = {t1, t2}
  Envs <- PatientAndNot
  MaxEvents = 2
CHECK_DEADLOCK FALSE
INVARIANTS
  TypeOK
  UsersBelongToPage
  PageMatchesHash
PROPERTIES
  LoadingEnds
