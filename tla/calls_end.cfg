\* Every call ends, whatever it overlaps with.
SPECIFICATION FairSpec
CONSTANTS
  Requests = {r1, r2, r3, r4}
  Quotes = {q1}
  Totals = {1}
  None = None
  Ops <- QuoteOps
  MaxInFlight = 4
PROPERTIES
  EveryCallEnds
