\* Creations of orders, edits, cancellations and deletions of one quote overlap.
SPECIFICATION Spec
CONSTANTS
  Requests = {r1, r2, r3, r4, r5}
  Quotes = {q1}
  Totals = {1, 2}
  None = None
  Ops <- QuoteOps
  MaxInFlight = 3
SYMMETRY Symmetry
INVARIANTS
  LocksBelongToOpenTransactions
  OrderedQuoteLeftPending
  OrderPricedByCommittedEdit
  TotalBackedByDetails
  ApprovedHasOrderAtRest
PROPERTIES
  OrderedQuoteIsClosed
