\* Creations, status and role changes by several callers, overlapping.
SPECIFICATION Spec
CONSTANTS
  People = {f, p1, p2}
  Founder = f
  Calls = {c1, c2, c3}
  MaxStatusCalls = 1
  None = None
SYMMETRY Symmetry
INVARIANTS
  AnsweredAccountsStand
  LoginsHaveEmployees
  StatusAgreesWhenAnswered
  AdminsComeFromOwners
  OwnerOnlyDisabledByRollback
