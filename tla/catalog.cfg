\* Changes of the catalog overlapping quotes and orders on it.
SPECIFICATION Spec
CONSTANTS
  Calls = {c1, c2, c3}
  Seed = s
  Combos = {m, l}
  DefaultCombo = m
  Prices = {1, 2}
  Extras = {0, 2}
  NewPrice = 1
  NewExtra = 0
  None = None
SYMMETRY Symmetry
INVARIANTS
  OneVariantPerCombination
  LinesLostToOverlap
  ActiveQuotesHaveItems
  ItemsHaveTheirVariants
PROPERTIES
  NoOrderOnDraft
  SavedAtCurrentPrices
