\* Several setups by two owners, at once and after failures and deaths.
SPECIFICATION Spec
CONSTANTS
  Requests = {r1, r2, r3, r4}
  Employees = {e1, e2}
  None = None
SYMMETRY Symmetry
INVARIANTS
  OneSetupPerOwner
  AnsweredSetupStands
  ClaimAgreesWithAssignment
  OnlyAnsweredTenantsRemain
