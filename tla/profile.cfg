\* Three updates of one profile, overlapping and failing.
SPECIFICATION Spec
CONSTANTS
  Calls = {c1, c2, c3}
  Seed = s
SYMMETRY Symmetry
INVARIANTS
  CopiesAgree
  AnsweredUpdatesLast
  UndoneNamesAreGone
