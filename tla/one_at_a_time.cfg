\* Calls are served one at a time.
SPECIFICATION Spec
CONSTANTS
  Requests = {r1, r2, r3, r4, r5}
  Quotes = {q1, q2}
  Totals = {1, 2}
  None = None
  Ops <- EveryOp
  MaxInFlight = 1
SYMMETRY Symmetry
INVARIANTS
  TotalIsSumOfDetails
  OneOrderPerQuote
  OrderTotalIsQuoteTotal
PROPERTIES
  ImplementsLifecycle
