----------------------------- MODULE QuoteOrder -----------------------------
(***************************************************************************)
(* The life of quotes and of the orders placed on them: QuoteService and   *)
(* OrderService over the tables quote, quote_detail and order.             *)
(*                                                                         *)
(* The API is stateless.  A request is a process whose local state is a    *)
(* program counter and the rows it has read; at every await another        *)
(* request may run, so every awaited statement whose effect or result      *)
(* another request can tell is one action.  Postgres runs at READ          *)
(* COMMITTED: a statement reads the rows committed when it starts, an      *)
(* UPDATE of a quote waits for the transaction that holds the row, and an  *)
(* update outside a transaction commits at once.  No row is ever read      *)
(* FOR UPDATE, and no constraint ties an order to one quote.               *)
(*                                                                         *)
(* Every request serves one call, so the order a createOrder inserts and   *)
(* the set of detail rows a createQuote or an updateQuote inserts are      *)
(* named after the request that inserts them.                              *)
(***************************************************************************)
EXTENDS Naturals, FiniteSets

CONSTANTS
  Requests,     \* the calls the API serves in a behaviour
  Quotes,       \* primary keys of the table quote
  Totals,       \* what the catalog can price a list of details at
  None,         \* no transaction, no quote, no total, no order
  Ops,          \* the operations clients call
  MaxInFlight   \* bound: how many calls are being served at once

AllOps == {"createQuote", "createOrder", "cancelQuote", "updateQuote",
           "deleteQuote", "updateOrderStatus", "cancelOrder", "deleteOrder"}

ASSUME QuoteOrderAssumption ==
  /\ Totals \subseteq Nat \ {0}
  /\ None \notin Requests \cup Quotes
  /\ Ops \subseteq AllOps
  /\ MaxInFlight \in Nat \ {0}

QuoteStatus == {"PENDING", "APPROVED", "REJECTED", "CANCELLED"}
OrderStatus == {"IN_PRODUCTION", "DONE", "CANCELLED"}

NoRow == "absent"   \* the key is not in the table yet

VARIABLES
  quote,     \* committed rows of the table quote
  details,   \* committed rows of quote_detail: the requests that inserted them
  lock,      \* the transaction that has updated the quote and not yet ended
  order,     \* rows of the table order, by the createOrder that inserts them
  req        \* the requests: operation, program counter, arguments, reads

vars == <<quote, details, lock, order, req>>
-----------------------------------------------------------------------------
(* The steps a request can stand before, and how it can end: "ok" is a 2xx *)
(* answer, "rejected" one of the exceptions the service throws, "error" a  *)
(* failure before the last write of the call, "lost" one after it.         *)
CreateOrderSteps ==
  {"insert_order", "approve_read", "approve_write", "approve_reread", "commit_order"}
UpdateQuoteSteps == {"edit_delete", "edit_wait", "edit_total", "edit_commit"}
DeleteQuoteSteps == {"remove_write", "remove_commit"}
OrderSteps == {"status_write", "reason_write", "purge_write"}

Steps == CreateOrderSteps \cup UpdateQuoteSteps \cup DeleteQuoteSteps
           \cup OrderSteps \cup {"cancel_write"}
Outcomes == {"ok", "lost", "rejected", "error"}

QuoteRow == [status: QuoteStatus \cup {NoRow},
             total: Totals \cup {None}, deleted: BOOLEAN]
OrderRow == [tx: {"none", "open", "committed"}, quote: Quotes \cup {None},
             total: Totals \cup {None}, status: OrderStatus,
             reason: BOOLEAN, deleted: BOOLEAN]
Request == [op: AllOps \cup {"none"}, pc: {"idle"} \cup Steps \cup Outcomes,
            quote: Quotes \cup {None}, order: Requests \cup {None},
            total: Totals \cup {None}, status: OrderStatus,
            seen: SUBSET Requests]

NoOrder == [tx |-> "none", quote |-> None, total |-> None,
            status |-> "IN_PRODUCTION", reason |-> FALSE, deleted |-> FALSE]

Init ==
  /\ quote = [q \in Quotes |->
                [status |-> NoRow, total |-> None, deleted |-> FALSE]]
  /\ details = [q \in Quotes |-> {}]
  /\ lock = [q \in Quotes |-> None]
  /\ order = [r \in Requests |-> NoOrder]
  /\ req = [r \in Requests |->
              [op |-> "none", pc |-> "idle", quote |-> None,
               order |-> None, total |-> None,
               status |-> "IN_PRODUCTION", seen |-> {}]]
-----------------------------------------------------------------------------
InFlight == {r \in Requests : req[r].pc \in Steps}

(* findOne hides the rows that a soft delete has stamped with deletedAt. *)
QuoteFound(q) == quote[q].status # NoRow /\ ~quote[q].deleted
OrderFound(o) == order[o].tx = "committed" /\ ~order[o].deleted

At(r, step) == req[r].pc = step
Goto(r, step) == req' = [req EXCEPT ![r].pc = step]

(* The last write has been made; the reread that follows it, or the        *)
(* connection that would carry the answer, may still fail.                 *)
Answer(r) == \E outcome \in {"ok", "lost"} : Goto(r, outcome)

(* A call arrives and its first read passes the checks, or it is refused. *)
Arrive(r, op) ==
  /\ At(r, "idle")
  /\ op \in Ops
  /\ Cardinality(InFlight) < MaxInFlight

FirstStep(allowed, step) == IF allowed THEN step ELSE "rejected"

BeginOnQuote(r, op, q, t, step) ==
  req' = [req EXCEPT ![r] =
            [op |-> op, pc |-> step, quote |-> q, order |-> None, total |-> t,
             status |-> "IN_PRODUCTION", seen |-> {}]]

BeginOnOrder(r, op, o, s, step) ==
  req' = [req EXCEPT ![r] =
            [op |-> op, pc |-> step, quote |-> None, order |-> o, total |-> None,
             status |-> s, seen |-> {}]]

(* Mutant of Rollback: the connection is not released. *)
RollbackWithoutRelease(r, outcome) ==
  /\ order' = [order EXCEPT ![r] = IF @.tx = "open" THEN NoOrder ELSE @]
  /\ Goto(r, outcome)
  /\ UNCHANGED <<quote, details, lock>>

(* catch and finally: what the transaction of r wrote is undone and its    *)
(* locks are released.  What r wrote outside a transaction stays.          *)
Rollback(r, outcome) ==
  /\ order' = [order EXCEPT ![r] = IF @.tx = "open" THEN NoOrder ELSE @]
  /\ lock' = [q \in Quotes |-> IF lock[q] = r THEN None ELSE lock[q]]
  /\ Goto(r, outcome)
  /\ UNCHANGED <<quote, details>>

(* An error of the database, a lost connection or the death of the process *)
(* ends a call at any step.                                                *)
Fail(r) ==
  /\ r \in InFlight
  /\ Rollback(r, "error")
-----------------------------------------------------------------------------
(* createQuote: the quote and its details are inserted in one transaction, *)
(* with a fresh key: nobody can tell anything before its commit.  A        *)
(* createQuote that fails leaves nothing, as if it had never arrived.      *)
CreateQuote(r, q, t) ==
  /\ Arrive(r, "createQuote")
  /\ quote[q].status = NoRow
  /\ quote' = [quote EXCEPT ![q] =
                 [status |-> "PENDING", total |-> t, deleted |-> FALSE]]
  /\ details' = [details EXCEPT ![q] = {r}]
  /\ BeginOnQuote(r, "createQuote", q, t, "ok")
  /\ UNCHANGED <<lock, order>>
-----------------------------------------------------------------------------
(* Mutant of CreateOrder: only cancelled quotes are refused. *)
CreateOrderOnApproved(r, q) ==
  /\ Arrive(r, "createOrder")
  /\ LET allowed == QuoteFound(q) /\ quote[q].status # "CANCELLED"
     IN  BeginOnQuote(r, "createOrder", q, quote[q].total, FirstStep(allowed, "insert_order"))
  /\ UNCHANGED <<quote, details, lock, order>>

(* createOrder reads the quote and its total before its transaction. *)
CreateOrder(r, q) ==
  /\ Arrive(r, "createOrder")
  /\ LET allowed == QuoteFound(q) /\ quote[q].status = "PENDING"
     IN  BeginOnQuote(r, "createOrder", q, quote[q].total, FirstStep(allowed, "insert_order"))
  /\ UNCHANGED <<quote, details, lock, order>>

(* Mutant of InsertOrder: the approval of the quote is forgotten. *)
InsertOrderUnapproved(r) ==
  /\ At(r, "insert_order")
  /\ order' = [order EXCEPT ![r] =
                 [tx |-> "open", quote |-> req[r].quote, total |-> req[r].total,
                  status |-> "IN_PRODUCTION", reason |-> FALSE, deleted |-> FALSE]]
  /\ Goto(r, "commit_order")
  /\ UNCHANGED <<quote, details, lock>>

(* Draft clothes refuse the call; otherwise the address and the order are  *)
(* inserted in the transaction of the call, for the total read before it.  *)
InsertOrder(r) ==
  /\ At(r, "insert_order")
  /\ \/ Goto(r, "rejected") /\ UNCHANGED order
     \/ /\ order' = [order EXCEPT ![r] =
                       [tx |-> "open", quote |-> req[r].quote, total |-> req[r].total,
                        status |-> "IN_PRODUCTION", reason |-> FALSE, deleted |-> FALSE]]
        /\ Goto(r, "approve_read")
  /\ UNCHANGED <<quote, details, lock>>

(* quoteService.updateStatus runs on another connection, outside the       *)
(* transaction, and refuses only a quote it finds cancelled.               *)
ApproveRead(r) ==
  /\ At(r, "approve_read")
  /\ LET q == req[r].quote
     IN  IF QuoteFound(q) /\ quote[q].status # "CANCELLED"
         THEN Goto(r, "approve_write") /\ UNCHANGED <<quote, details, lock, order>>
         ELSE Rollback(r, "rejected")

ApproveWrite(r) ==
  /\ At(r, "approve_write")
  /\ lock[req[r].quote] = None
  /\ quote' = [quote EXCEPT ![req[r].quote].status = "APPROVED"]
  /\ Goto(r, "approve_reread")
  /\ UNCHANGED <<details, lock, order>>

ApproveReread(r) ==
  /\ At(r, "approve_reread")
  /\ IF QuoteFound(req[r].quote)
     THEN Goto(r, "commit_order") /\ UNCHANGED <<quote, details, lock, order>>
     ELSE Rollback(r, "rejected")

(* Mutant of CommitOrder: the connection is released without a commit. *)
CommitOrderForgotten(r) ==
  /\ At(r, "commit_order")
  /\ order' = [order EXCEPT ![r] = NoOrder]
  /\ Answer(r)
  /\ UNCHANGED <<quote, details, lock>>

(* The answer to COMMIT, or to the client, may be lost. *)
CommitOrder(r) ==
  /\ At(r, "commit_order")
  /\ order' = [order EXCEPT ![r].tx = "committed"]
  /\ Answer(r)
  /\ UNCHANGED <<quote, details, lock>>
-----------------------------------------------------------------------------
(* Mutant of CancelQuote: only cancelled quotes are refused. *)
CancelQuoteOnApproved(r, q) ==
  /\ Arrive(r, "cancelQuote")
  /\ LET allowed == QuoteFound(q) /\ quote[q].status # "CANCELLED"
     IN  BeginOnQuote(r, "cancelQuote", q, None, FirstStep(allowed, "cancel_write"))
  /\ UNCHANGED <<quote, details, lock, order>>

(* cancelQuote: a check on the row read, then an update without conditions *)
(* on the status.  The read of the row it returns may fail after it.       *)
CancelQuote(r, q) ==
  /\ Arrive(r, "cancelQuote")
  /\ LET allowed == QuoteFound(q) /\ quote[q].status = "PENDING"
     IN  BeginOnQuote(r, "cancelQuote", q, None, FirstStep(allowed, "cancel_write"))
  /\ UNCHANGED <<quote, details, lock, order>>

CancelWrite(r) ==
  /\ At(r, "cancel_write")
  /\ lock[req[r].quote] = None
  /\ quote' = [quote EXCEPT ![req[r].quote].status = "CANCELLED"]
  /\ Answer(r)
  /\ UNCHANGED <<details, lock, order>>
-----------------------------------------------------------------------------
(* Mutant of UpdateQuote: the status is not checked. *)
UpdateQuoteUnchecked(r, q, t) ==
  /\ Arrive(r, "updateQuote")
  /\ BeginOnQuote(r, "updateQuote", q, t, FirstStep(QuoteFound(q), "edit_delete"))
  /\ UNCHANGED <<quote, details, lock, order>>

(* updateQuote: the status is checked and the details are priced before    *)
(* the transaction; details without a price refuse the call.               *)
UpdateQuote(r, q, t) ==
  /\ Arrive(r, "updateQuote")
  /\ \E priced \in BOOLEAN :
       LET allowed == QuoteFound(q) /\ quote[q].status = "PENDING" /\ priced
       IN  BeginOnQuote(r, "updateQuote", q, t, FirstStep(allowed, "edit_delete"))
  /\ UNCHANGED <<quote, details, lock, order>>

(* DELETE FROM quote_detail sees the rows committed when it starts ...     *)
EditDelete(r) ==
  /\ At(r, "edit_delete")
  /\ req' = [req EXCEPT ![r] = [@ EXCEPT !.pc = "edit_wait",
                                         !.seen = details[req[r].quote]]]
  /\ UNCHANGED <<quote, details, lock, order>>

(* ... and waits for the transactions that have deleted one of them.  The  *)
(* rows such a transaction inserts are not among those it then deletes.    *)
HasDeleted(r) == req[r].pc \in {"edit_total", "edit_commit"}

EditWait(r) ==
  /\ At(r, "edit_wait")
  /\ \A p \in Requests : HasDeleted(p) => req[p].seen \cap req[r].seen = {}
  /\ Goto(r, "edit_total")
  /\ UNCHANGED <<quote, details, lock, order>>

(* Mutant of EditTotal: the update is made outside the transaction. *)
EditTotalAtOnce(r) ==
  /\ At(r, "edit_total")
  /\ lock[req[r].quote] = None
  /\ quote' = [quote EXCEPT ![req[r].quote].total = req[r].total]
  /\ lock' = [lock EXCEPT ![req[r].quote] = r]
  /\ Goto(r, "edit_commit")
  /\ UNCHANGED <<details, order>>

(* UPDATE quote SET total holds the row until the transaction ends. *)
EditTotal(r) ==
  /\ At(r, "edit_total")
  /\ lock[req[r].quote] = None
  /\ lock' = [lock EXCEPT ![req[r].quote] = r]
  /\ Goto(r, "edit_commit")
  /\ UNCHANGED <<quote, details, order>>

(* Mutants of EditCommit: the old details are not deleted ... *)
EditCommitKeepsDetails(r) ==
  /\ At(r, "edit_commit")
  /\ LET q == req[r].quote
     IN  /\ quote' = [quote EXCEPT ![q].total = req[r].total]
         /\ details' = [details EXCEPT ![q] = @ \cup {r}]
         /\ lock' = [lock EXCEPT ![q] = None]
  /\ Answer(r)
  /\ UNCHANGED order

(* ... or they are deleted after the new ones are inserted ...             *)
EditCommitDeletesLast(r) ==
  /\ At(r, "edit_commit")
  /\ LET q == req[r].quote
     IN  /\ quote' = [quote EXCEPT ![q].total = req[r].total]
         /\ details' = [details EXCEPT ![q] = {}]
         /\ lock' = [lock EXCEPT ![q] = None]
  /\ Answer(r)
  /\ UNCHANGED order

(* ... or the call answers with its transaction left open.                 *)
EditCommitKeepsLock(r) ==
  /\ At(r, "edit_commit")
  /\ Answer(r)
  /\ UNCHANGED <<quote, details, lock, order>>

(* The new details are inserted and all of it is committed; the status of  *)
(* the quote is not looked at again.  The read that follows may fail.      *)
EditCommit(r) ==
  /\ At(r, "edit_commit")
  /\ LET q == req[r].quote
     IN  /\ quote' = [quote EXCEPT ![q].total = req[r].total]
         /\ details' = [details EXCEPT ![q] = (@ \ req[r].seen) \cup {r}]
         /\ lock' = [lock EXCEPT ![q] = None]
  /\ Answer(r)
  /\ UNCHANGED order
-----------------------------------------------------------------------------
(* deleteQuote reads, checks and soft-deletes in one transaction; the read *)
(* takes no lock.                                                          *)
DeleteQuote(r, q) ==
  /\ Arrive(r, "deleteQuote")
  /\ LET allowed == QuoteFound(q) /\ quote[q].status # "APPROVED"
     IN  BeginOnQuote(r, "deleteQuote", q, None, FirstStep(allowed, "remove_write"))
  /\ UNCHANGED <<quote, details, lock, order>>

RemoveWrite(r) ==
  /\ At(r, "remove_write")
  /\ lock[req[r].quote] = None
  /\ lock' = [lock EXCEPT ![req[r].quote] = r]
  /\ Goto(r, "remove_commit")
  /\ UNCHANGED <<quote, details, order>>

RemoveCommit(r) ==
  /\ At(r, "remove_commit")
  /\ quote' = [quote EXCEPT ![req[r].quote].deleted = TRUE]
  /\ lock' = [lock EXCEPT ![req[r].quote] = None]
  /\ Answer(r)
  /\ UNCHANGED <<details, order>>
-----------------------------------------------------------------------------
(* updateOrderStatus takes any OrderStatus from the client: CANCELLED too, *)
(* without a reason.  The update does not repeat the check.                *)
UpdateOrderStatus(r, o, s) ==
  /\ Arrive(r, "updateOrderStatus")
  /\ order[o].tx = "committed"
  /\ LET allowed == /\ OrderFound(o)
                    /\ s = "DONE" => order[o].status = "IN_PRODUCTION"
                    /\ order[o].status \notin {"CANCELLED", "DONE"}
     IN  BeginOnOrder(r, "updateOrderStatus", o, s, FirstStep(allowed, "status_write"))
  /\ UNCHANGED <<quote, details, lock, order>>

StatusWrite(r) ==
  /\ At(r, "status_write")
  /\ order' = [order EXCEPT ![req[r].order].status = req[r].status]
  /\ Answer(r)
  /\ UNCHANGED <<quote, details, lock>>

(* cancelOrder records the reason with the status. *)
CancelOrder(r, o) ==
  /\ Arrive(r, "cancelOrder")
  /\ order[o].tx = "committed"
  /\ LET allowed == OrderFound(o) /\ order[o].status = "IN_PRODUCTION"
     IN  BeginOnOrder(r, "cancelOrder", o, "CANCELLED", FirstStep(allowed, "reason_write"))
  /\ UNCHANGED <<quote, details, lock, order>>

ReasonWrite(r) ==
  /\ At(r, "reason_write")
  /\ order' = [order EXCEPT ![req[r].order] =
                 [@ EXCEPT !.status = "CANCELLED", !.reason = TRUE]]
  /\ Answer(r)
  /\ UNCHANGED <<quote, details, lock>>

DeleteOrder(r, o) ==
  /\ Arrive(r, "deleteOrder")
  /\ order[o].tx = "committed"
  /\ LET allowed == OrderFound(o) /\ order[o].status = "CANCELLED"
     IN  BeginOnOrder(r, "deleteOrder", o, "CANCELLED", FirstStep(allowed, "purge_write"))
  /\ UNCHANGED <<quote, details, lock, order>>

PurgeWrite(r) ==
  /\ At(r, "purge_write")
  /\ order' = [order EXCEPT ![req[r].order].deleted = TRUE]
  /\ Answer(r)
  /\ UNCHANGED <<quote, details, lock>>
-----------------------------------------------------------------------------
Call(r) ==
  \/ \E q \in Quotes : \/ CreateOrder(r, q)
                       \/ CancelQuote(r, q)
                       \/ DeleteQuote(r, q)
                       \/ \E t \in Totals : CreateQuote(r, q, t) \/ UpdateQuote(r, q, t)
  \/ \E o \in Requests : \/ CancelOrder(r, o)
                         \/ DeleteOrder(r, o)
                         \/ \E s \in OrderStatus : UpdateOrderStatus(r, o, s)

(* What a call does once it has arrived, failures aside. *)
Continue(r) ==
  \/ InsertOrder(r) \/ ApproveRead(r) \/ ApproveWrite(r) \/ ApproveReread(r)
  \/ CommitOrder(r)
  \/ CancelWrite(r)
  \/ EditDelete(r) \/ EditWait(r) \/ EditTotal(r) \/ EditCommit(r)
  \/ RemoveWrite(r) \/ RemoveCommit(r)
  \/ StatusWrite(r) \/ ReasonWrite(r) \/ PurgeWrite(r)

(* Nothing is being served: the API waits for calls. *)
AtRest == InFlight = {}

Next ==
  \/ \E r \in Requests : Call(r) \/ Continue(r) \/ Fail(r)
  \/ AtRest /\ UNCHANGED vars

Spec == Init /\ [][Next]_vars

(* The event loop runs every resolved promise and Postgres grants a row    *)
(* lock to its waiters in turn, so a call that can go on goes on.  Clients *)
(* owe no call, and nothing has to fail.                                   *)
FairSpec == Spec /\ \A r \in Requests : WF_vars(Continue(r))
-----------------------------------------------------------------------------
(* Type invariant. *)
TypeOK ==
  /\ quote \in [Quotes -> QuoteRow]
  /\ details \in [Quotes -> SUBSET Requests]
  /\ lock \in [Quotes -> Requests \cup {None}]
  /\ order \in [Requests -> OrderRow]
  /\ req \in [Requests -> Request]

Committed(o) == order[o].tx = "committed"
OrdersOf(q) == {o \in Requests : Committed(o) /\ order[o].quote = q}

(***************************************************************************)
(* What holds however calls overlap and whatever fails.                    *)
(***************************************************************************)

(* A row lock is held exactly by the updateQuote or deleteQuote that has   *)
(* updated the quote and not ended: no path of a call leaks a lock, and    *)
(* two transactions never hold one quote.                                  *)
LocksBelongToOpenTransactions ==
  \A q \in Quotes, r \in Requests :
     lock[q] = r <=> /\ req[r].pc \in {"edit_commit", "remove_commit"}
                     /\ req[r].quote = q

(* No client ever sees an order of a quote that still counts as pending:   *)
(* createOrder approves the quote before it commits the order, and nothing *)
(* makes a quote pending again.                                            *)
OrderedQuoteLeftPending ==
  \A o \in Requests :
     Committed(o) => quote[order[o].quote].status \in {"APPROVED", "CANCELLED"}

(* Once an order of a quote is visible, every createOrder, cancelQuote and *)
(* updateQuote that arrives is refused: only calls that were already under *)
(* way can still hurt the order.                                           *)
ClosedOps == {"createOrder", "cancelQuote", "updateQuote"}
OrderedQuoteIsClosed ==
  [][\A r \in Requests :
        /\ At(r, "idle") /\ ~At(r, "idle")'
        /\ req'[r].op \in ClosedOps
        /\ OrdersOf(req'[r].quote) # {}
        => req'[r].pc = "rejected"]_vars

(* The total of an order is one that a committed createQuote or            *)
(* updateQuote gave its quote: never the total of an edit that rolled back.*)
OrderPricedByCommittedEdit ==
  \A o \in Requests :
     Committed(o) =>
       \E b \in Requests : /\ req[b].op \in {"createQuote", "updateQuote"}
                           /\ req[b].pc \in {"ok", "lost"}
                           /\ req[b].quote = order[o].quote
                           /\ req[b].total = order[o].total

(* The total of a quote is always that of details still attached to it:    *)
(* edits that overlap may leave too many details, never a total whose      *)
(* details are all gone.                                                   *)
TotalBackedByDetails ==
  \A q \in Quotes :
     quote[q].status # NoRow =>
       \E b \in details[q] : req[b].quote = q /\ req[b].total = quote[q].total

(* When no call is under way, an approved quote that was not deleted has   *)
(* an order, unless a createOrder on it failed for a reason other than a   *)
(* refusal: the refusals of createOrder undo or precede the approval.      *)
ApprovedHasOrderAtRest ==
  AtRest =>
    \A q \in Quotes :
      /\ quote[q].status = "APPROVED"
      /\ ~quote[q].deleted
      /\ \A r \in Requests : req[r].op = "createOrder" /\ req[r].quote = q
                               => req[r].pc # "error"
      => OrdersOf(q) # {}

(* Every call ends: the row locks and the waits for them never leave one   *)
(* hanging.                                                                *)
EveryCallEnds == \A r \in Requests : r \in InFlight ~> r \notin InFlight

(***************************************************************************)
(* What the services promise of every quote and order.  Their checks are   *)
(* enough for it when calls do not overlap (MaxInFlight = 1), as           *)
(* QuoteOrderRefinement shows, and not enough when they do.                *)
(***************************************************************************)

(* order.service.ts:52: an approved quote yields no further order. *)
OneOrderPerQuote ==
  \A q \in Quotes : Cardinality(OrdersOf(q)) <= 1

(* An order is charged what its quote says: quotes are not edited once     *)
(* approved.                                                               *)
OrderTotalIsQuoteTotal ==
  \A o \in Requests : Committed(o) => order[o].total = quote[order[o].quote].total

(* The details of a quote are those of its last edit and no other: they    *)
(* add up to its total.                                                    *)
TotalIsSumOfDetails ==
  \A q \in Quotes :
     quote[q].status # NoRow =>
       \E b \in Requests : details[q] = {b} /\ req[b].total = quote[q].total

(* An order keeps the reason of its cancellation only as long as it is     *)
(* cancelled: no call that follows takes it up again.                      *)
ReasonMeansCancelled ==
  \A o \in Requests : order[o].reason => order[o].status = "CANCELLED"
=============================================================================
