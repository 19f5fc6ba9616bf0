--------------------------- MODULE QuoteLifecycle ---------------------------
(***************************************************************************)
(* What the services promise about a quote and its order, with every call  *)
(* a single step: a pending quote can be edited, cancelled, deleted or     *)
(* approved; an approved quote is redeemed by one order, at its price; an  *)
(* order ends done or cancelled, and only a cancelled one is deleted.      *)
(*                                                                         *)
(* An approval that no order redeems is part of the promise: createOrder   *)
(* approves the quote outside the transaction that inserts the order.      *)
(***************************************************************************)
EXTENDS Naturals, FiniteSets

CONSTANTS Quotes, Orders, Totals, None

NoQuoteRow == [status |-> "absent", total |-> None, deleted |-> FALSE]
NoOrderRow == [placed |-> FALSE, quote |-> None, total |-> None,
               status |-> "IN_PRODUCTION", deleted |-> FALSE]

VARIABLES quotes, orders

vars == <<quotes, orders>>

QuoteRows == [status: {"absent", "PENDING", "APPROVED", "CANCELLED"},
              total: Totals \cup {None}, deleted: BOOLEAN]
OrderRows == [placed: BOOLEAN, quote: Quotes \cup {None}, total: Totals \cup {None},
              status: {"IN_PRODUCTION", "DONE", "CANCELLED"}, deleted: BOOLEAN]

(* Type invariant. *)
TypeOK == /\ quotes \in [Quotes -> QuoteRows]
          /\ orders \in [Orders -> OrderRows]

Init == /\ quotes = [q \in Quotes |-> NoQuoteRow]
        /\ orders = [o \in Orders |-> NoOrderRow]

Pending(q)  == quotes[q].status = "PENDING" /\ ~quotes[q].deleted
Approved(q) == quotes[q].status = "APPROVED" /\ ~quotes[q].deleted
Redeemed(q) == \E o \in Orders : orders[o].placed /\ orders[o].quote = q

Create(q, t) ==
  /\ quotes[q].status = "absent"
  /\ quotes' = [quotes EXCEPT ![q] = [@ EXCEPT !.status = "PENDING", !.total = t]]
  /\ UNCHANGED orders

Edit(q, t) ==
  /\ Pending(q)
  /\ quotes' = [quotes EXCEPT ![q].total = t]
  /\ UNCHANGED orders

Decide(q, status) ==
  /\ Pending(q)
  /\ quotes' = [quotes EXCEPT ![q].status = status]
  /\ UNCHANGED orders

Delete(q) ==
  /\ Pending(q) \/ (quotes[q].status = "CANCELLED" /\ ~quotes[q].deleted)
  /\ quotes' = [quotes EXCEPT ![q].deleted = TRUE]
  /\ UNCHANGED orders

Place(o, q) ==
  /\ ~orders[o].placed
  /\ Approved(q)
  /\ ~Redeemed(q)
  /\ orders' = [orders EXCEPT ![o] = [@ EXCEPT !.placed = TRUE, !.quote = q,
                                               !.total = quotes[q].total]]
  /\ UNCHANGED quotes

End(o, status) ==
  /\ orders[o].placed
  /\ orders[o].status = "IN_PRODUCTION"
  /\ orders' = [orders EXCEPT ![o].status = status]
  /\ UNCHANGED quotes

Drop(o) ==
  /\ orders[o].placed
  /\ orders[o].status = "CANCELLED"
  /\ orders' = [orders EXCEPT ![o].deleted = TRUE]
  /\ UNCHANGED quotes

Next ==
  \/ \E q \in Quotes :
       \/ \E t \in Totals : Create(q, t) \/ Edit(q, t)
       \/ \E status \in {"APPROVED", "CANCELLED"} : Decide(q, status)
       \/ Delete(q)
       \/ \E o \in Orders : Place(o, q)
  \/ \E o \in Orders :
       \/ \E status \in {"DONE", "CANCELLED"} : End(o, status)
       \/ Drop(o)

Spec == Init /\ [][Next]_vars
-----------------------------------------------------------------------------
(* A quote is redeemed by at most one order, order.service.ts:50-54. *)
OneOrderPerQuote ==
  \A o, p \in Orders :
     orders[o].placed /\ orders[p].placed /\ orders[o].quote = orders[p].quote
       => o = p

(* The quote of an order is approved, is not deleted and costs what the    *)
(* order costs: order.service.ts:40-54, quote.service.ts:253 and 304.      *)
OrderAgreesWithQuote ==
  \A o \in Orders :
     orders[o].placed =>
       /\ orders[o].quote \in Quotes
       /\ Approved(orders[o].quote)
       /\ orders[o].total = quotes[orders[o].quote].total
=============================================================================
