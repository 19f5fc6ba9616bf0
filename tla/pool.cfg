\* Calls of every kind share two connections. The service may halt: see OnlyNestingHaltsTheService.
SPECIFICATION FairSpec
CONSTANTS
  Requests = {r1, r2, r3}
  Connections = {c1, c2}
  None = None
CHECK_DEADLOCK FALSE
INVARIANTS
  OnlyNestingHaltsTheService
PROPERTIES
  CallsEndWhileConnectionsSuffice
