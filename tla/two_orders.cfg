\* Two createOrder calls on one quote both pass the check.
SPECIFICATION Spec
CONSTANTS
  Requests = {r1, r2, r3}
  Quotes = {q1}
  Totals = {1, 2}
  None = None
  Ops <- QuoteOps
  MaxInFlight = 3
SYMMETRY Symmetry
INVARIANTS
  OneOrderPerQuote
