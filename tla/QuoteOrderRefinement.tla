------------------------ MODULE QuoteOrderRefinement ------------------------
(***************************************************************************)
(* The rows that are committed, seen as the rows of QuoteLifecycle.        *)
(***************************************************************************)
EXTENDS QuoteOrder

PlacedOrder(o) ==
  [placed |-> Committed(o),
   quote |-> IF Committed(o) THEN order[o].quote ELSE None,
   total |-> IF Committed(o) THEN order[o].total ELSE None,
   status |-> order[o].status,
   deleted |-> order[o].deleted]

Lifecycle == INSTANCE QuoteLifecycle
  WITH Orders <- Requests, quotes <- quote, orders <- [o \in Requests |-> PlacedOrder(o)]

(* When calls do not overlap, each step of a call is a step of the         *)
(* lifecycle or changes nothing in it: the checks of every handler are     *)
(* enough, whatever fails between its statements.                          *)
ImplementsLifecycle == Lifecycle!Spec
=============================================================================
