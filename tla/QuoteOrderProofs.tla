-------------------------- MODULE QuoteOrderProofs --------------------------
(***************************************************************************)
(* Proofs about QuoteOrder, for every set of calls, quotes and totals.     *)
(*                                                                         *)
(* Three inductive invariants, each resting on those before it.            *)
(* IInv: TypeOK is not inductive alone, since a call between two of its    *)
(* steps must name a row.  CallsNameRows adds that, OrdersFollowCalls ties *)
(* an order to the createOrder that inserts it, and ApprovalPrecedesCommit *)
(* says where a createOrder must have left its quote.                      *)
(* PInv: every total was given by a call that is over, and every approval  *)
(* has a createOrder that goes on, placed its order, or failed.            *)
(* SInv, when calls are served one at a time: what a call has read holds   *)
(* until it ends.  From it the refinement of QuoteLifecycle, step by step. *)
(***************************************************************************)
EXTENDS QuoteOrderRefinement, FiniteSetTheorems, TLAPS

QuoteSteps == CreateOrderSteps \cup UpdateQuoteSteps \cup DeleteQuoteSteps
                \cup {"cancel_write"}
OpenSteps == {"approve_read", "approve_write", "approve_reread", "commit_order"}
LockSteps == {"edit_commit", "remove_commit"}
Closed == {"APPROVED", "CANCELLED"}

CallsNameRows ==
  \A r \in Requests :
    /\ req[r].pc \in QuoteSteps => req[r].quote \in Quotes
    /\ req[r].pc \in OrderSteps => /\ req[r].order \in Requests
                                   /\ Committed(req[r].order)

OrdersFollowCalls ==
  \A r \in Requests :
    /\ order[r].tx = "open" <=> req[r].pc \in OpenSteps
    /\ Committed(r) => req[r].pc \in {"ok", "lost"}
    /\ order[r].tx # "none" => /\ order[r].quote = req[r].quote
                               /\ order[r].quote \in Quotes

ApprovalPrecedesCommit ==
  \A r \in Requests :
    /\ req[r].pc \in {"approve_reread", "commit_order"}
         => quote[req[r].quote].status \in Closed
    /\ Committed(r) => quote[order[r].quote].status \in Closed

IInv == /\ TypeOK
        /\ CallsNameRows
        /\ OrdersFollowCalls
        /\ ApprovalPrecedesCommit
        /\ LocksBelongToOpenTransactions
-----------------------------------------------------------------------------
(* The tables start empty and well typed. *)
LEMMA InitTypeOK == Init => TypeOK
<1> SUFFICES ASSUME Init PROVE TypeOK
  OBVIOUS
<1> USE DEF Init
<1>1. quote \in [Quotes -> QuoteRow]
  BY DEF QuoteRow
<1>2. details \in [Quotes -> SUBSET Requests] /\ lock \in [Quotes -> Requests \cup {None}]
  OBVIOUS
<1>3. order \in [Requests -> OrderRow]
  BY DEF OrderRow, NoOrder, OrderStatus
<1>4. req \in [Requests -> Request]
  BY DEF Request, OrderStatus
<1> QED
  BY <1>1, <1>2, <1>3, <1>4 DEF TypeOK

(* Every step keeps the tables and the requests in their types. *)
LEMMA StepTypeOK == TypeOK /\ CallsNameRows /\ [Next]_vars => TypeOK'
<1> SUFFICES ASSUME TypeOK, CallsNameRows, [Next]_vars PROVE TypeOK'
  OBVIOUS
<1> USE DEF TypeOK
<1>s. /\ CreateOrderSteps \subseteq Steps /\ UpdateQuoteSteps \subseteq Steps
      /\ DeleteQuoteSteps \subseteq Steps /\ OrderSteps \subseteq Steps
      /\ "cancel_write" \in Steps
  BY DEF Steps
<1>g. ASSUME NEW r \in Requests, NEW step \in {"idle"} \cup Steps \cup Outcomes,
             Goto(r, step)
      PROVE  req' \in [Requests -> Request]
  BY <1>g DEF Goto, Request
<1>q. ASSUME NEW r \in Requests, NEW op \in AllOps, NEW q \in Quotes,
             NEW t \in Totals \cup {None}, NEW step \in Steps \cup Outcomes,
             BeginOnQuote(r, op, q, t, step)
      PROVE  req' \in [Requests -> Request]
  BY <1>q DEF BeginOnQuote, Request, OrderStatus
<1>o. ASSUME NEW r \in Requests, NEW op \in AllOps, NEW o \in Requests,
             NEW s \in OrderStatus, NEW step \in Steps \cup Outcomes,
             BeginOnOrder(r, op, o, s, step)
      PROVE  req' \in [Requests -> Request]
  BY <1>o DEF BeginOnOrder, Request
<1>b. ASSUME NEW allowed \in BOOLEAN, NEW step \in Steps
      PROVE  FirstStep(allowed, step) \in Steps \cup Outcomes
  BY DEF FirstStep, Outcomes
<1>a. ASSUME NEW r \in Requests, Answer(r) PROVE req' \in [Requests -> Request]
  BY <1>a, <1>g DEF Answer, Outcomes
<1>r. ASSUME NEW r \in Requests, NEW outcome \in Outcomes, Rollback(r, outcome)
      PROVE  TypeOK'
  BY <1>r, <1>g DEF Rollback, OrderRow, NoOrder, OrderStatus
<1>w. ASSUME NEW row \in QuoteRow, NEW s \in QuoteStatus
      PROVE  [row EXCEPT !.status = s] \in QuoteRow /\ [row EXCEPT !.deleted = TRUE] \in QuoteRow
  BY DEF QuoteRow
<1>x. ASSUME NEW row \in OrderRow, NEW s \in OrderStatus
      PROVE  /\ [row EXCEPT !.tx = "committed"] \in OrderRow
             /\ [row EXCEPT !.status = s] \in OrderRow
             /\ [row EXCEPT !.deleted = TRUE] \in OrderRow
  BY DEF OrderRow
<1>1. ASSUME NEW r \in Requests, NEW q \in Quotes, NEW t \in Totals, CreateQuote(r, q, t)
      PROVE  TypeOK'
  <2>1. req' \in [Requests -> Request]
    BY <1>1, <1>q DEF CreateQuote, AllOps, Outcomes
  <2> QED
    BY <1>1, <2>1 DEF CreateQuote, QuoteRow, QuoteStatus
<1>2. ASSUME NEW r \in Requests, NEW q \in Quotes, CreateOrder(r, q)
      PROVE  TypeOK'
  <2>1. quote[q].total \in Totals \cup {None} /\ "insert_order" \in Steps
    BY <1>s DEF QuoteRow, CreateOrderSteps
  <2>2. req' \in [Requests -> Request]
    BY <1>2, <1>q, <1>b, <2>1 DEF CreateOrder, AllOps
  <2> QED
    BY <1>2, <2>2 DEF CreateOrder
<1>3. ASSUME NEW r \in Requests, NEW q \in Quotes, CancelQuote(r, q) \/ DeleteQuote(r, q)
      PROVE  TypeOK'
  <2>1. "cancel_write" \in Steps /\ "remove_write" \in Steps
    BY <1>s DEF DeleteQuoteSteps
  <2>2. req' \in [Requests -> Request]
    BY <1>3, <1>q, <1>b, <2>1 DEF CancelQuote, DeleteQuote, AllOps
  <2> QED
    BY <1>3, <2>2 DEF CancelQuote, DeleteQuote
<1>4. ASSUME NEW r \in Requests, NEW q \in Quotes, NEW t \in Totals, UpdateQuote(r, q, t)
      PROVE  TypeOK'
  <2>1. "edit_delete" \in Steps
    BY <1>s DEF UpdateQuoteSteps
  <2>2. req' \in [Requests -> Request]
    BY <1>4, <1>q, <1>b, <2>1 DEF UpdateQuote, AllOps
  <2> QED
    BY <1>4, <2>2 DEF UpdateQuote
<1>5. ASSUME NEW r \in Requests, NEW o \in Requests, NEW s \in OrderStatus,
             CancelOrder(r, o) \/ DeleteOrder(r, o) \/ UpdateOrderStatus(r, o, s)
      PROVE  TypeOK'
  <2>1. /\ "reason_write" \in Steps /\ "purge_write" \in Steps /\ "status_write" \in Steps
        /\ "CANCELLED" \in OrderStatus
    BY <1>s DEF OrderSteps, OrderStatus
  <2>2. req' \in [Requests -> Request]
    BY <1>5, <1>o, <1>b, <2>1 DEF CancelOrder, DeleteOrder, UpdateOrderStatus, AllOps
  <2> QED
    BY <1>5, <2>2 DEF CancelOrder, DeleteOrder, UpdateOrderStatus
<1>6. ASSUME NEW r \in Requests, InsertOrder(r) PROVE TypeOK'
  <2>1. req' \in [Requests -> Request]
    BY <1>6, <1>g, <1>s DEF InsertOrder, Outcomes, CreateOrderSteps
  <2>2. req[r].quote \in Quotes \cup {None} /\ req[r].total \in Totals \cup {None}
    BY DEF Request
  <2>3. [tx |-> "open", quote |-> req[r].quote, total |-> req[r].total,
         status |-> "IN_PRODUCTION", reason |-> FALSE, deleted |-> FALSE] \in OrderRow
    BY <2>2 DEF OrderRow, OrderStatus
  <2> QED
    BY <1>6, <2>1, <2>3 DEF InsertOrder
<1>7. ASSUME NEW r \in Requests, ApproveRead(r) \/ ApproveReread(r) PROVE TypeOK'
  BY <1>7, <1>r, <1>g, <1>s DEF ApproveRead, ApproveReread, Outcomes, CreateOrderSteps
<1>8. ASSUME NEW r \in Requests, ApproveWrite(r) PROVE TypeOK'
  <2>1. "APPROVED" \in QuoteStatus /\ "approve_reread" \in Steps
    BY <1>s DEF QuoteStatus, CreateOrderSteps
  <2>2. quote' \in [Quotes -> QuoteRow]
    BY <1>8, <2>1, <1>w DEF ApproveWrite
  <2>3. req' \in [Requests -> Request]
    BY <1>8, <2>1, <1>g DEF ApproveWrite
  <2> QED
    BY <1>8, <2>2, <2>3 DEF ApproveWrite
<1>9. ASSUME NEW r \in Requests, CommitOrder(r) PROVE TypeOK'
  <2>1. "DONE" \in OrderStatus
    BY DEF OrderStatus
  <2>2. order' \in [Requests -> OrderRow]
    BY <1>9, <2>1, <1>x DEF CommitOrder
  <2> QED
    BY <1>9, <2>2, <1>a DEF CommitOrder
<1>10. ASSUME NEW r \in Requests, CancelWrite(r) PROVE TypeOK'
  <2>1. "CANCELLED" \in QuoteStatus
    BY DEF QuoteStatus
  <2>2. quote' \in [Quotes -> QuoteRow]
    BY <1>10, <2>1, <1>w DEF CancelWrite
  <2> QED
    BY <1>10, <2>2, <1>a DEF CancelWrite
<1>11. ASSUME NEW r \in Requests, EditDelete(r) PROVE TypeOK'
  <2>1. details[req[r].quote] \in SUBSET Requests
    BY <1>11 DEF EditDelete, At, CallsNameRows, QuoteSteps, UpdateQuoteSteps
  <2>2. "edit_wait" \in Steps
    BY <1>s DEF UpdateQuoteSteps
  <2>3. ASSUME NEW x \in Request, NEW seen \in SUBSET Requests
        PROVE  [x EXCEPT !.pc = "edit_wait", !.seen = seen] \in Request
    BY <2>2 DEF Request
  <2>4. req' \in [Requests -> Request]
    BY <1>11, <2>1, <2>3 DEF EditDelete
  <2> QED
    BY <1>11, <2>4 DEF EditDelete
<1>12. ASSUME NEW r \in Requests, EditWait(r) PROVE TypeOK'
  BY <1>12, <1>g, <1>s DEF EditWait, UpdateQuoteSteps
<1>13. ASSUME NEW r \in Requests, EditTotal(r) \/ RemoveWrite(r) PROVE TypeOK'
  BY <1>13, <1>g, <1>s DEF EditTotal, RemoveWrite, UpdateQuoteSteps, DeleteQuoteSteps
<1>14. ASSUME NEW r \in Requests, EditCommit(r) PROVE TypeOK'
  <2>1. req[r].total \in Totals \cup {None}
    BY DEF Request
  <2>2. quote' \in [Quotes -> QuoteRow]
    BY <1>14, <2>1 DEF EditCommit, QuoteRow
  <2>3. details' \in [Quotes -> SUBSET Requests]
    BY <1>14 DEF EditCommit
  <2> QED
    BY <1>14, <1>a, <2>2, <2>3 DEF EditCommit
<1>15. ASSUME NEW r \in Requests, RemoveCommit(r) PROVE TypeOK'
  <2>1. "CANCELLED" \in QuoteStatus
    BY DEF QuoteStatus
  <2>2. quote' \in [Quotes -> QuoteRow]
    BY <1>15, <2>1, <1>w DEF RemoveCommit
  <2> QED
    BY <1>15, <2>2, <1>a DEF RemoveCommit
<1>16. ASSUME NEW r \in Requests, StatusWrite(r) \/ ReasonWrite(r) \/ PurgeWrite(r)
       PROVE  TypeOK'
  <2>1. req[r].status \in OrderStatus /\ "CANCELLED" \in OrderStatus
    BY DEF Request, OrderStatus
  <2>2. CASE StatusWrite(r)
    <3>1. order' \in [Requests -> OrderRow]
      BY <2>1, <2>2, <1>x DEF StatusWrite
    <3> QED
      BY <2>2, <3>1, <1>a DEF StatusWrite
  <2>3. CASE ReasonWrite(r)
    <3>1. ASSUME NEW x \in OrderRow
          PROVE  [x EXCEPT !.status = "CANCELLED", !.reason = TRUE] \in OrderRow
      BY <2>1 DEF OrderRow
    <3> QED
      BY <2>3, <3>1, <1>a DEF ReasonWrite
  <2>4. CASE PurgeWrite(r)
    <3>1. order' \in [Requests -> OrderRow]
      BY <2>1, <2>4, <1>x DEF PurgeWrite
    <3> QED
      BY <2>4, <3>1, <1>a DEF PurgeWrite
  <2> QED
    BY <1>16, <2>2, <2>3, <2>4
<1>17. ASSUME NEW r \in Requests, Fail(r) PROVE TypeOK'
  BY <1>17, <1>r DEF Fail, Outcomes
<1>18. CASE UNCHANGED vars
  BY <1>18 DEF vars
<1>19. ASSUME NEW r \in Requests, Call(r) PROVE TypeOK'
  <2>1. ASSUME NEW q \in Quotes,
               \/ CreateOrder(r, q) \/ CancelQuote(r, q) \/ DeleteQuote(r, q)
               \/ \E t \in Totals : CreateQuote(r, q, t) \/ UpdateQuote(r, q, t)
        PROVE  TypeOK'
    BY <2>1, <1>1, <1>2, <1>3, <1>4
  <2>2. ASSUME NEW o \in Requests,
               \/ CancelOrder(r, o) \/ DeleteOrder(r, o)
               \/ \E s \in OrderStatus : UpdateOrderStatus(r, o, s)
        PROVE  TypeOK'
    <3>1. "CANCELLED" \in OrderStatus
      BY DEF OrderStatus
    <3> QED
      BY <2>2, <3>1, <1>5
  <2> QED
    BY <1>19, <2>1, <2>2 DEF Call
<1>20. ASSUME NEW r \in Requests, Continue(r) PROVE TypeOK'
  BY <1>20, <1>6, <1>7, <1>8, <1>9, <1>10, <1>11, <1>12, <1>13, <1>14, <1>15, <1>16
     DEF Continue
<1> QED
  BY <1>17, <1>18, <1>19, <1>20 DEF Next
-----------------------------------------------------------------------------
(* The inductive invariant holds before the first call. *)
LEMMA InitIInv == Init => IInv
<1> SUFFICES ASSUME Init PROVE IInv
  OBVIOUS
<1>1. TypeOK
  BY InitTypeOK
<1>2. \A r \in Requests : req[r].pc = "idle" /\ order[r].tx = "none"
  BY DEF Init, NoOrder
<1>3. CallsNameRows /\ OrdersFollowCalls /\ ApprovalPrecedesCommit
  BY <1>2 DEF CallsNameRows, OrdersFollowCalls, ApprovalPrecedesCommit, Committed,
     QuoteSteps, OpenSteps, CreateOrderSteps, UpdateQuoteSteps, DeleteQuoteSteps, OrderSteps
<1>4. LocksBelongToOpenTransactions
  BY <1>2, QuoteOrderAssumption DEF Init, LocksBelongToOpenTransactions
<1> QED
  BY <1>1, <1>3, <1>4 DEF IInv

(* How a step moves the call that takes it. *)
LEMMA GotoMoves ==
  ASSUME TypeOK, NEW r \in Requests, NEW step, Goto(r, step)
  PROVE  \A p \in Requests :
           /\ req'[p].pc = IF p = r THEN step ELSE req[p].pc
           /\ req'[p].quote = req[p].quote
           /\ req'[p].order = req[p].order
           /\ req'[p].op = req[p].op
           /\ req'[p].total = req[p].total
BY DEF Goto, TypeOK, Request

(* How an arrival sets the call that arrives. *)
LEMMA BeginMoves ==
  ASSUME TypeOK, NEW r \in Requests, NEW op, NEW x, NEW t, NEW s, NEW step,
         BeginOnQuote(r, op, x, t, step) \/ BeginOnOrder(r, op, x, s, step)
  PROVE  \A p \in Requests : p # r => req'[p] = req[p]
BY DEF BeginOnQuote, BeginOnOrder, TypeOK

(* The arrival of a call disturbs nothing. *)
LEMMA ArrivalKeepsIInv ==
  ASSUME IInv, TypeOK', NEW r \in Requests, At(r, "idle"),
         UNCHANGED <<quote, details, lock, order>>,
         \A p \in Requests : p # r => req'[p] = req[p],
         \/ req'[r].pc = "rejected"
         \/ req'[r].pc \in QuoteSteps \ (OpenSteps \cup LockSteps) /\ req'[r].quote \in Quotes
         \/ /\ req'[r].pc \in OrderSteps
            /\ req'[r].order \in Requests
            /\ Committed(req'[r].order)
  PROVE  IInv'
<1> USE DEF IInv, At
<1>1. order[r].tx = "none"
  BY DEF OrdersFollowCalls, Committed, OpenSteps, TypeOK, OrderRow
<1>2. CallsNameRows'
  BY DEF CallsNameRows, Committed, QuoteSteps, CreateOrderSteps, UpdateQuoteSteps,
         DeleteQuoteSteps, OrderSteps, OpenSteps, LockSteps
<1>3. OrdersFollowCalls'
  BY <1>1 DEF OrdersFollowCalls, Committed, OpenSteps, QuoteSteps, OrderSteps
<1>4. ApprovalPrecedesCommit'
  BY <1>1 DEF ApprovalPrecedesCommit, Committed, OpenSteps, OrderSteps, QuoteSteps
<1>5. LocksBelongToOpenTransactions'
  BY DEF LocksBelongToOpenTransactions, LockSteps, OrderSteps, QuoteSteps
<1> QED
  BY <1>2, <1>3, <1>4, <1>5

(* The rollback of a call drops its open order and its locks, and nothing  *)
(* that another call relies on.                                            *)
LEMMA RollbackKeepsIInv ==
  ASSUME IInv, TypeOK', NEW r \in Requests, r \in InFlight,
         NEW outcome \in {"rejected", "error"}, Rollback(r, outcome)
  PROVE  IInv'
<1> USE DEF IInv
<1>1. \A p \in Requests : /\ req'[p].pc = IF p = r THEN outcome ELSE req[p].pc
                          /\ req'[p].quote = req[p].quote
                          /\ req'[p].order = req[p].order
  BY GotoMoves DEF Rollback
<1>2. ~Committed(r)
  BY DEF OrdersFollowCalls, InFlight, Steps, CreateOrderSteps, UpdateQuoteSteps,
         DeleteQuoteSteps, OrderSteps
<1>3. \A o \in Requests : /\ o # r => order'[o] = order[o]
                          /\ order'[r].tx = "none"
  BY <1>2 DEF Rollback, Committed, TypeOK, OrderRow, NoOrder
<1>4. CallsNameRows'
  BY <1>1, <1>2, <1>3 DEF CallsNameRows, Committed, QuoteSteps, CreateOrderSteps,
     UpdateQuoteSteps, DeleteQuoteSteps, OrderSteps
<1>5. OrdersFollowCalls'
  BY <1>1, <1>3 DEF OrdersFollowCalls, Committed, OpenSteps
<1>6. ApprovalPrecedesCommit'
  BY <1>1, <1>3 DEF ApprovalPrecedesCommit, Committed, Rollback
<1>7. LocksBelongToOpenTransactions'
  BY <1>1, QuoteOrderAssumption DEF LocksBelongToOpenTransactions, Rollback
<1> QED
  BY <1>4, <1>5, <1>6, <1>7

(* A step inside a call that only moves it on, or ends it. *)
LEMMA MoveKeepsIInv ==
  ASSUME IInv, TypeOK', NEW r \in Requests, NEW step, Goto(r, step),
         UNCHANGED <<quote, details, lock, order>>,
         req[r].pc \notin LockSteps,
         \/ /\ req[r].pc \in OpenSteps
            /\ step \in OpenSteps
            /\ step \in {"approve_reread", "commit_order"}
                 => quote[req[r].quote].status \in Closed
         \/ /\ req[r].pc \in QuoteSteps \ OpenSteps
            /\ step \in {"edit_wait", "edit_total", "rejected"}
  PROVE  IInv'
<1> USE DEF IInv
<1>1. \A p \in Requests : /\ req'[p].pc = IF p = r THEN step ELSE req[p].pc
                          /\ req'[p].quote = req[p].quote
                          /\ req'[p].order = req[p].order
  BY GotoMoves
<1>2. ~Committed(r)
  BY DEF OrdersFollowCalls, OpenSteps, QuoteSteps, CreateOrderSteps, UpdateQuoteSteps,
         DeleteQuoteSteps
<1>3. CallsNameRows'
  BY <1>1 DEF CallsNameRows, Committed, QuoteSteps, CreateOrderSteps, UpdateQuoteSteps,
     DeleteQuoteSteps, OrderSteps, OpenSteps
<1>4. OrdersFollowCalls'
  BY <1>1, <1>2 DEF OrdersFollowCalls, Committed, OpenSteps
<1>5. ApprovalPrecedesCommit'
  BY <1>1 DEF ApprovalPrecedesCommit, Committed, OpenSteps
<1>6. LocksBelongToOpenTransactions'
  BY <1>1 DEF LocksBelongToOpenTransactions, LockSteps, OpenSteps
<1> QED
  BY <1>3, <1>4, <1>5, <1>6

(* Every step keeps the inductive invariant. *)
LEMMA StepIInv == IInv /\ [Next]_vars => IInv'
<1> SUFFICES ASSUME IInv, [Next]_vars PROVE IInv'
  OBVIOUS
<1>t. TypeOK'
  BY StepTypeOK DEF IInv
<1>0. TypeOK
  BY DEF IInv
<1>i. ASSUME NEW r \in Requests, At(r, "idle") PROVE order[r].tx = "none"
  BY <1>i, <1>0 DEF IInv, At, OrdersFollowCalls, Committed, OpenSteps, TypeOK, OrderRow
<1>g. ASSUME NEW r \in Requests, NEW step, Goto(r, step)
      PROVE  \A p \in Requests : /\ req'[p].pc = IF p = r THEN step ELSE req[p].pc
                                 /\ req'[p].quote = req[p].quote
                                 /\ req'[p].order = req[p].order
  BY <1>g, <1>0, GotoMoves
<1>a. ASSUME NEW r \in Requests, Answer(r)
      PROVE  /\ req'[r].pc \in {"ok", "lost"}
             /\ \A p \in Requests : /\ p # r => req'[p].pc = req[p].pc
                                    /\ req'[p].quote = req[p].quote
                                    /\ req'[p].order = req[p].order
  BY <1>a, <1>g DEF Answer
<1>1. ASSUME NEW r \in Requests, NEW q \in Quotes, NEW t \in Totals, CreateQuote(r, q, t)
      PROVE  IInv'
  <2>1. /\ At(r, "idle") /\ req'[r].pc = "ok"
        /\ \A p \in Requests : p # r => req'[p] = req[p]
    BY <1>1, <1>0 DEF CreateQuote, Arrive, BeginOnQuote, TypeOK
  <2>2. quote[q].status \notin Closed
    BY <1>1 DEF CreateQuote, Closed, NoRow
  <2>3. \A p \in Quotes : p # q => quote'[p] = quote[p]
    BY <1>1, <1>0 DEF CreateQuote, TypeOK
  <2>4. /\ UNCHANGED <<lock, order>>
        /\ order[r].tx = "none"
    BY <1>1, <2>1, <1>i DEF CreateQuote
  <2>5. CallsNameRows'
    BY <2>1, <2>4 DEF IInv, CallsNameRows, Committed, QuoteSteps, CreateOrderSteps,
       UpdateQuoteSteps, DeleteQuoteSteps, OrderSteps
  <2>6. OrdersFollowCalls'
    BY <2>1, <2>4 DEF IInv, OrdersFollowCalls, Committed, OpenSteps
  <2>7. ApprovalPrecedesCommit'
    <3>1. ASSUME NEW p \in Requests, p # r,
                 req[p].pc \in {"approve_reread", "commit_order"} \/ Committed(p)
          PROVE  /\ order[p].quote \in Quotes
                 /\ req[p].quote \in Quotes
      BY <3>1 DEF IInv, OrdersFollowCalls, CallsNameRows, Committed, OpenSteps, QuoteSteps,
         CreateOrderSteps
    <3> QED
      BY <2>1, <2>2, <2>3, <2>4, <3>1 DEF IInv, ApprovalPrecedesCommit, Committed
  <2>8. LocksBelongToOpenTransactions'
    BY <2>1, <2>4 DEF IInv, LocksBelongToOpenTransactions, At
  <2> QED
    BY <1>t, <2>5, <2>6, <2>7, <2>8 DEF IInv
<1>2. ASSUME NEW r \in Requests, NEW q \in Quotes,
             \/ CreateOrder(r, q) \/ CancelQuote(r, q) \/ DeleteQuote(r, q)
             \/ \E t \in Totals : UpdateQuote(r, q, t)
      PROVE  IInv'
  <2>1. /\ At(r, "idle") /\ UNCHANGED <<quote, details, lock, order>>
        /\ \A p \in Requests : p # r => req'[p] = req[p]
        /\ req'[r].quote = q
        /\ req'[r].pc \in {"rejected", "insert_order", "cancel_write", "remove_write",
                           "edit_delete"}
    BY <1>2, <1>0 DEF CreateOrder, CancelQuote, DeleteQuote, UpdateQuote, Arrive,
       BeginOnQuote, FirstStep, TypeOK
  <2> QED
    BY <1>t, <2>1, ArrivalKeepsIInv DEF QuoteSteps, OpenSteps, LockSteps, CreateOrderSteps,
       UpdateQuoteSteps, DeleteQuoteSteps
<1>3. ASSUME NEW r \in Requests, NEW o \in Requests,
             \/ CancelOrder(r, o) \/ DeleteOrder(r, o)
             \/ \E s \in OrderStatus : UpdateOrderStatus(r, o, s)
      PROVE  IInv'
  <2>1. /\ At(r, "idle") /\ UNCHANGED <<quote, details, lock, order>>
        /\ \A p \in Requests : p # r => req'[p] = req[p]
        /\ req'[r].order = o
        /\ Committed(o)
        /\ req'[r].pc \in {"rejected", "status_write", "reason_write", "purge_write"}
    BY <1>3, <1>0 DEF CancelOrder, DeleteOrder, UpdateOrderStatus, Arrive, BeginOnOrder,
       FirstStep, Committed, TypeOK
  <2> QED
    BY <1>t, <2>1, ArrivalKeepsIInv DEF OrderSteps
<1>4. ASSUME NEW r \in Requests, InsertOrder(r) PROVE IInv'
  <2>1. CASE Goto(r, "rejected") /\ UNCHANGED order
    BY <1>4, <1>t, <2>1, MoveKeepsIInv DEF InsertOrder, At, LockSteps, OpenSteps,
       QuoteSteps, CreateOrderSteps
  <2>2. CASE /\ order' = [order EXCEPT ![r] =
                 [tx |-> "open", quote |-> req[r].quote, total |-> req[r].total,
                  status |-> "IN_PRODUCTION", reason |-> FALSE, deleted |-> FALSE]]
             /\ Goto(r, "approve_read")
    <3>1. /\ At(r, "insert_order") /\ UNCHANGED <<quote, details, lock>>
          /\ ~Committed(r)
          /\ req[r].quote \in Quotes
      BY <1>4 DEF InsertOrder, At, IInv, OrdersFollowCalls, CallsNameRows, QuoteSteps,
         CreateOrderSteps
    <3>2. /\ \A o \in Requests : o # r => order'[o] = order[o]
          /\ order'[r].tx = "open" /\ order'[r].quote = req[r].quote
      BY <2>2, <1>0 DEF TypeOK
    <3>3. CallsNameRows'
      BY <2>2, <1>g, <3>1, <3>2 DEF IInv, CallsNameRows, Committed, OrderSteps
    <3>4. OrdersFollowCalls'
      BY <2>2, <1>g, <3>1, <3>2 DEF IInv, OrdersFollowCalls, Committed, OpenSteps
    <3>5. ApprovalPrecedesCommit'
      BY <2>2, <1>g, <3>1, <3>2 DEF IInv, ApprovalPrecedesCommit, Committed
    <3>6. LocksBelongToOpenTransactions'
      BY <2>2, <1>g, <3>1 DEF IInv, LocksBelongToOpenTransactions, At
    <3> QED
      BY <1>t, <3>3, <3>4, <3>5, <3>6 DEF IInv
  <2> QED
    BY <1>4, <2>1, <2>2 DEF InsertOrder
<1>5. ASSUME NEW r \in Requests, ApproveRead(r) \/ ApproveReread(r) PROVE IInv'
  <2>1. CASE Rollback(r, "rejected")
    <3>1. r \in InFlight
      BY <1>5 DEF ApproveRead, ApproveReread, At, InFlight, Steps, CreateOrderSteps
    <3> QED
      BY <1>t, <2>1, <3>1, RollbackKeepsIInv
  <2>2. CASE /\ At(r, "approve_read") /\ Goto(r, "approve_write")
             /\ UNCHANGED <<quote, details, lock, order>>
    BY <1>t, <2>2, MoveKeepsIInv DEF At, LockSteps, OpenSteps
  <2>3. CASE /\ At(r, "approve_reread") /\ Goto(r, "commit_order")
             /\ UNCHANGED <<quote, details, lock, order>>
    <3>1. quote[req[r].quote].status \in Closed
      BY <2>3 DEF IInv, ApprovalPrecedesCommit, At
    <3> QED
      BY <1>t, <2>3, <3>1, MoveKeepsIInv DEF At, LockSteps, OpenSteps
  <2> QED
    BY <1>5, <2>1, <2>2, <2>3 DEF ApproveRead, ApproveReread
<1>6. ASSUME NEW r \in Requests, ApproveWrite(r) \/ CancelWrite(r) PROVE IInv'
  <2>1. /\ req[r].pc \in {"approve_write", "cancel_write"}
        /\ UNCHANGED <<details, lock, order>>
        /\ req[r].quote \in Quotes
        /\ \/ req[r].pc = "approve_write" /\ req'[r].pc = "approve_reread"
           \/ req[r].pc = "cancel_write" /\ req'[r].pc \in {"ok", "lost"}
        /\ \A p \in Requests : /\ p # r => req'[p].pc = req[p].pc
                               /\ req'[p].quote = req[p].quote
                               /\ req'[p].order = req[p].order
    BY <1>6, <1>g, <1>a DEF ApproveWrite, CancelWrite, At, IInv, CallsNameRows, QuoteSteps,
       CreateOrderSteps
  <2>2. \A q \in Quotes : \/ quote'[q] = quote[q] /\ q # req[r].quote
                          \/ quote'[q].status \in Closed
    BY <1>6, <1>0 DEF ApproveWrite, CancelWrite, TypeOK, QuoteRow, Closed
  <2>3. CallsNameRows'
    BY <2>1 DEF IInv, CallsNameRows, Committed, QuoteSteps, CreateOrderSteps, OrderSteps
  <2>4. OrdersFollowCalls'
    BY <2>1 DEF IInv, OrdersFollowCalls, Committed, OpenSteps
  <2>5. ApprovalPrecedesCommit'
    <3>1. ASSUME NEW p \in Requests, Committed(p) PROVE order[p].quote \in Quotes
      BY <3>1 DEF IInv, OrdersFollowCalls, Committed
    <3>2. ASSUME NEW p \in Requests, req[p].pc \in {"approve_reread", "commit_order"}
          PROVE  req[p].quote \in Quotes
      BY <3>2 DEF IInv, CallsNameRows, QuoteSteps, CreateOrderSteps
    <3> QED
      BY <2>1, <2>2, <3>1, <3>2 DEF IInv, ApprovalPrecedesCommit, Committed
  <2>6. LocksBelongToOpenTransactions'
    BY <2>1 DEF IInv, LocksBelongToOpenTransactions
  <2> QED
    BY <1>t, <2>3, <2>4, <2>5, <2>6 DEF IInv
<1>7. ASSUME NEW r \in Requests, CommitOrder(r) PROVE IInv'
  <2>1. /\ req[r].pc = "commit_order" /\ order[r].tx = "open"
        /\ UNCHANGED <<quote, details, lock>>
        /\ order'[r].tx = "committed" /\ order'[r].quote = order[r].quote
        /\ \A o \in Requests : o # r => order'[o] = order[o]
    BY <1>7, <1>0 DEF CommitOrder, At, IInv, OrdersFollowCalls, OpenSteps, TypeOK, OrderRow
  <2>2. Answer(r)
    BY <1>7 DEF CommitOrder
  <2>3. CallsNameRows'
    BY <2>1, <2>2, <1>a DEF IInv, CallsNameRows, Committed, QuoteSteps, CreateOrderSteps,
       UpdateQuoteSteps, DeleteQuoteSteps, OrderSteps
  <2>4. OrdersFollowCalls'
    BY <2>1, <2>2, <1>a DEF IInv, OrdersFollowCalls, Committed, OpenSteps
  <2>5. ApprovalPrecedesCommit'
    BY <2>1, <2>2, <1>a DEF IInv, ApprovalPrecedesCommit, OrdersFollowCalls, Committed
  <2>6. LocksBelongToOpenTransactions'
    BY <2>1, <2>2, <1>a DEF IInv, LocksBelongToOpenTransactions
  <2> QED
    BY <1>t, <2>3, <2>4, <2>5, <2>6 DEF IInv
<1>8. ASSUME NEW r \in Requests, EditDelete(r) PROVE IInv'
  <2>1. /\ req[r].pc = "edit_delete" /\ UNCHANGED <<quote, details, lock, order>>
        /\ \A p \in Requests : /\ req'[p].pc = IF p = r THEN "edit_wait" ELSE req[p].pc
                               /\ req'[p].quote = req[p].quote
                               /\ req'[p].order = req[p].order
    BY <1>8, <1>0 DEF EditDelete, At, TypeOK, Request
  <2>2. CallsNameRows'
    BY <2>1 DEF IInv, CallsNameRows, Committed, QuoteSteps, UpdateQuoteSteps, OrderSteps
  <2>3. OrdersFollowCalls'
    BY <2>1 DEF IInv, OrdersFollowCalls, Committed, OpenSteps
  <2>4. ApprovalPrecedesCommit'
    BY <2>1 DEF IInv, ApprovalPrecedesCommit, Committed
  <2>5. LocksBelongToOpenTransactions'
    BY <2>1 DEF IInv, LocksBelongToOpenTransactions
  <2> QED
    BY <1>t, <2>2, <2>3, <2>4, <2>5 DEF IInv
<1>9. ASSUME NEW r \in Requests, EditWait(r) PROVE IInv'
  BY <1>9, <1>t, MoveKeepsIInv DEF EditWait, At, LockSteps, OpenSteps, QuoteSteps,
     UpdateQuoteSteps
<1>10. ASSUME NEW r \in Requests, EditTotal(r) \/ RemoveWrite(r) PROVE IInv'
  <2>1. /\ req[r].pc \in {"edit_total", "remove_write"}
        /\ req'[r].pc \in LockSteps
        /\ UNCHANGED <<quote, details, order>>
        /\ \A p \in Requests : /\ p # r => req'[p].pc = req[p].pc
                               /\ req'[p].quote = req[p].quote
                               /\ req'[p].order = req[p].order
    BY <1>10, <1>g DEF EditTotal, RemoveWrite, At, LockSteps
  <2>2. req[r].quote \in Quotes
    BY <2>1 DEF IInv, CallsNameRows, QuoteSteps, UpdateQuoteSteps, DeleteQuoteSteps
  <2>3. /\ lock[req[r].quote] = None
        /\ \A q \in Quotes : lock'[q] = IF q = req[r].quote THEN r ELSE lock[q]
    BY <1>10, <1>0, <2>2 DEF EditTotal, RemoveWrite, TypeOK
  <2>4. CallsNameRows'
    BY <2>1, <2>2 DEF IInv, CallsNameRows, Committed, QuoteSteps, LockSteps, OrderSteps
  <2>5. OrdersFollowCalls'
    BY <2>1 DEF IInv, OrdersFollowCalls, Committed, OpenSteps, LockSteps
  <2>6. ApprovalPrecedesCommit'
    BY <2>1 DEF IInv, ApprovalPrecedesCommit, Committed, LockSteps
  <2>7. LocksBelongToOpenTransactions'
    BY <2>1, <2>3, QuoteOrderAssumption DEF IInv, LocksBelongToOpenTransactions, LockSteps
  <2> QED
    BY <1>t, <2>4, <2>5, <2>6, <2>7 DEF IInv
<1>11. ASSUME NEW r \in Requests, EditCommit(r) \/ RemoveCommit(r) PROVE IInv'
  <2>1. req[r].pc \in LockSteps /\ UNCHANGED order /\ Answer(r)
    BY <1>11 DEF EditCommit, RemoveCommit, At, LockSteps
  <2>2. req[r].quote \in Quotes
    BY <2>1 DEF IInv, CallsNameRows, QuoteSteps, UpdateQuoteSteps, DeleteQuoteSteps, LockSteps
  <2>3. /\ lock[req[r].quote] = r
        /\ \A q \in Quotes : /\ lock'[q] = IF q = req[r].quote THEN None ELSE lock[q]
                             /\ quote'[q].status = quote[q].status
    BY <1>11, <1>0, <2>1, <2>2 DEF EditCommit, RemoveCommit, TypeOK, QuoteRow, IInv,
       LocksBelongToOpenTransactions, LockSteps
  <2>4. CallsNameRows'
    BY <2>1, <1>a DEF IInv, CallsNameRows, Committed, QuoteSteps, CreateOrderSteps,
       UpdateQuoteSteps, DeleteQuoteSteps, OrderSteps
  <2>5. OrdersFollowCalls'
    BY <2>1, <1>a DEF IInv, OrdersFollowCalls, Committed, OpenSteps, LockSteps
  <2>6. ApprovalPrecedesCommit'
    <3>1. ASSUME NEW p \in Requests, Committed(p) PROVE order[p].quote \in Quotes
      BY <3>1 DEF IInv, OrdersFollowCalls, Committed
    <3>2. ASSUME NEW p \in Requests, req[p].pc \in {"approve_reread", "commit_order"}
          PROVE  req[p].quote \in Quotes
      BY <3>2 DEF IInv, CallsNameRows, QuoteSteps, CreateOrderSteps
    <3> QED
      BY <2>1, <2>3, <1>a, <3>1, <3>2 DEF IInv, ApprovalPrecedesCommit, Committed
  <2>7. LocksBelongToOpenTransactions'
    BY <2>1, <2>3, <1>a, QuoteOrderAssumption DEF IInv, LocksBelongToOpenTransactions, LockSteps
  <2> QED
    BY <1>t, <2>4, <2>5, <2>6, <2>7 DEF IInv
<1>12. ASSUME NEW r \in Requests, StatusWrite(r) \/ ReasonWrite(r) \/ PurgeWrite(r)
       PROVE  IInv'
  <2>1. /\ req[r].pc \in OrderSteps /\ UNCHANGED <<quote, details, lock>> /\ Answer(r)
    BY <1>12 DEF StatusWrite, ReasonWrite, PurgeWrite, At, OrderSteps
  <2>2. \A o \in Requests : order'[o].tx = order[o].tx /\ order'[o].quote = order[o].quote
    <3>1. CASE StatusWrite(r)
      BY <3>1, <1>0 DEF StatusWrite, TypeOK, OrderRow
    <3>2. CASE ReasonWrite(r)
      BY <3>2, <1>0 DEF ReasonWrite, TypeOK, OrderRow
    <3>3. CASE PurgeWrite(r)
      BY <3>3, <1>0 DEF PurgeWrite, TypeOK, OrderRow
    <3> QED
      BY <1>12, <3>1, <3>2, <3>3
  <2>3. CallsNameRows'
    BY <2>1, <2>2, <1>a DEF IInv, CallsNameRows, Committed, QuoteSteps, CreateOrderSteps,
       UpdateQuoteSteps, DeleteQuoteSteps, OrderSteps
  <2>4. OrdersFollowCalls'
    BY <2>1, <2>2, <1>a DEF IInv, OrdersFollowCalls, Committed, OpenSteps, OrderSteps
  <2>5. ApprovalPrecedesCommit'
    BY <2>1, <2>2, <1>a DEF IInv, ApprovalPrecedesCommit, Committed
  <2>6. LocksBelongToOpenTransactions'
    BY <2>1, <1>a DEF IInv, LocksBelongToOpenTransactions, OrderSteps
  <2> QED
    BY <1>t, <2>3, <2>4, <2>5, <2>6 DEF IInv
<1>13. ASSUME NEW r \in Requests, Fail(r) PROVE IInv'
  BY <1>13, <1>t, RollbackKeepsIInv DEF Fail
<1>14. CASE UNCHANGED vars
  <2>1. /\ CallsNameRows' /\ OrdersFollowCalls' /\ ApprovalPrecedesCommit'
        /\ LocksBelongToOpenTransactions'
    BY <1>14 DEF vars, IInv, CallsNameRows, OrdersFollowCalls, ApprovalPrecedesCommit,
       LocksBelongToOpenTransactions, Committed
  <2> QED
    BY <1>t, <2>1 DEF IInv
<1>15. ASSUME NEW r \in Requests, Call(r) PROVE IInv'
  BY <1>15, <1>1, <1>2, <1>3 DEF Call
<1>16. ASSUME NEW r \in Requests, Continue(r) PROVE IInv'
  BY <1>16, <1>4, <1>5, <1>6, <1>7, <1>8, <1>9, <1>10, <1>11, <1>12 DEF Continue
<1> QED
  BY <1>13, <1>14, <1>15, <1>16 DEF Next
-----------------------------------------------------------------------------
(* The inductive invariant holds in every state, however calls overlap and *)
(* fail: the theorems below read their properties off it.                  *)
THEOREM InductiveInvariant == Spec => []IInv
BY InitIInv, StepIInv, PTL DEF Spec

(* The tables and the requests keep their types in every behaviour of the  *)
(* services.                                                               *)
THEOREM TypeCorrect == Spec => []TypeOK
<1>1. IInv => TypeOK
  BY DEF IInv
<1> QED
  BY <1>1, InductiveInvariant, PTL

(* No order is visible while its quote still counts as pending.            *)
THEOREM OrderedQuotesAreClosed == Spec => []OrderedQuoteLeftPending
<1>1. IInv => OrderedQuoteLeftPending
  BY DEF IInv, ApprovalPrecedesCommit, OrderedQuoteLeftPending, Closed
<1> QED
  BY <1>1, InductiveInvariant, PTL

(* A quote's row lock is held exactly by the open transaction that updated *)
(* the quote, so two never hold it and none is leaked.                     *)
THEOREM LocksAreExclusive == Spec => []LocksBelongToOpenTransactions
<1>1. IInv => LocksBelongToOpenTransactions
  BY DEF IInv
<1> QED
  BY <1>1, InductiveInvariant, PTL
-----------------------------------------------------------------------------
(* A call that has not arrived only moves by arriving. *)
LEMMA IdleCallArrives ==
  ASSUME TypeOK, [Next]_vars, NEW r \in Requests, At(r, "idle"), ~At(r, "idle")'
  PROVE  Call(r)
<1>1. ASSUME NEW p \in Requests, NEW step, Goto(p, step)
      PROVE  p # r => req'[r] = req[r]
  BY <1>1 DEF Goto, TypeOK
<1>2. ASSUME NEW p \in Requests, Answer(p) \/ \E outcome \in Outcomes : Rollback(p, outcome)
      PROVE  p # r => req'[r] = req[r]
  BY <1>2, <1>1 DEF Answer, Rollback
<1>3. ASSUME NEW p \in Requests, Call(p) PROVE p # r => req'[r] = req[r]
  <2>1. ASSUME NEW q \in Quotes,
               \/ CreateOrder(p, q) \/ CancelQuote(p, q) \/ DeleteQuote(p, q)
               \/ \E t \in Totals : CreateQuote(p, q, t) \/ UpdateQuote(p, q, t)
        PROVE  p # r => req'[r] = req[r]
    BY <2>1 DEF CreateOrder, CancelQuote, DeleteQuote, CreateQuote, UpdateQuote,
       BeginOnQuote, TypeOK
  <2>2. ASSUME NEW o \in Requests,
               \/ CancelOrder(p, o) \/ DeleteOrder(p, o)
               \/ \E s \in OrderStatus : UpdateOrderStatus(p, o, s)
        PROVE  p # r => req'[r] = req[r]
    BY <2>2 DEF CancelOrder, DeleteOrder, UpdateOrderStatus, BeginOnOrder, TypeOK
  <2> QED
    BY <1>3, <2>1, <2>2 DEF Call
<1>4. ASSUME NEW p \in Requests, Continue(p) PROVE p # r /\ req'[r] = req[r]
  <2>1. p # r
    BY <1>4 DEF Continue, InsertOrder, ApproveRead, ApproveWrite, ApproveReread,
       CommitOrder, CancelWrite, EditDelete, EditWait, EditTotal, EditCommit, RemoveWrite,
       RemoveCommit, StatusWrite, ReasonWrite, PurgeWrite, At
  <2>2. CASE EditDelete(p)
    BY <2>1, <2>2 DEF EditDelete, TypeOK
  <2>3. CASE ~EditDelete(p)
    <3>1. \/ \E step : Goto(p, step)
          \/ Answer(p)
          \/ Rollback(p, "rejected")
      BY <1>4, <2>3 DEF Continue, InsertOrder, ApproveRead, ApproveWrite, ApproveReread,
         CommitOrder, CancelWrite, EditWait, EditTotal, EditCommit, RemoveWrite,
         RemoveCommit, StatusWrite, ReasonWrite, PurgeWrite
    <3> QED
      BY <2>1, <3>1, <1>1, <1>2 DEF Outcomes
  <2> QED
    BY <2>2, <2>3, <2>1
<1>5. ASSUME NEW p \in Requests, Fail(p) PROVE p # r /\ req'[r] = req[r]
  <2>1. p # r
    BY <1>5 DEF Fail, InFlight, At, Steps, CreateOrderSteps, UpdateQuoteSteps,
       DeleteQuoteSteps, OrderSteps
  <2> QED
    BY <1>5, <2>1, <1>2 DEF Fail, Outcomes
<1>6. ~UNCHANGED vars
  BY DEF vars, At
<1> QED
  BY <1>3, <1>4, <1>5, <1>6 DEF Next, At

(* A createOrder, cancelQuote or updateQuote that arrives once an order of *)
(* its quote is visible is refused: what endangers an order was already    *)
(* under way when the order became visible.                                *)
THEOREM LateCallsAreRefused == Spec => OrderedQuoteIsClosed
<1> DEFINE Late(r) == /\ At(r, "idle") /\ ~At(r, "idle")'
                      /\ req'[r].op \in ClosedOps
                      /\ OrdersOf(req'[r].quote) # {}
<1>1. ASSUME IInv, [Next]_vars, NEW r \in Requests, Late(r)
      PROVE  req'[r].pc = "rejected"
  <2>0. TypeOK
    BY <1>1 DEF IInv
  <2>1. Call(r)
    BY <1>1, <2>0, IdleCallArrives
  <2>2. PICK q \in Quotes : CreateOrder(r, q) \/ CancelQuote(r, q)
                              \/ \E t \in Totals : UpdateQuote(r, q, t)
    <3>1. ASSUME NEW q \in Quotes, NEW t \in Totals, CreateQuote(r, q, t)
          PROVE  req'[r].op \notin ClosedOps
      BY <3>1, <2>0 DEF CreateQuote, BeginOnQuote, TypeOK, ClosedOps
    <3>2. ASSUME NEW q \in Quotes, DeleteQuote(r, q) PROVE req'[r].op \notin ClosedOps
      BY <3>2, <2>0 DEF DeleteQuote, BeginOnQuote, TypeOK, ClosedOps
    <3>3. ASSUME NEW o \in Requests,
                 \/ CancelOrder(r, o) \/ DeleteOrder(r, o)
                 \/ \E s \in OrderStatus : UpdateOrderStatus(r, o, s)
          PROVE  req'[r].op \notin ClosedOps
      <4>1. req'[r].op \in {"cancelOrder", "deleteOrder", "updateOrderStatus"}
        <5>1. ASSUME NEW op, NEW s, NEW step, BeginOnOrder(r, op, o, s, step)
              PROVE  req'[r].op = op
          BY <5>1, <2>0 DEF BeginOnOrder, TypeOK
        <5> QED
          BY <3>3, <5>1 DEF CancelOrder, DeleteOrder, UpdateOrderStatus
      <4> QED
        BY <4>1 DEF ClosedOps
    <3> QED
      BY <1>1, <2>1, <3>1, <3>2, <3>3 DEF Call
  <2>3. req'[r].quote = q /\ (quote[q].status # "PENDING" => req'[r].pc = "rejected")
    BY <2>0, <2>2 DEF CreateOrder, CancelQuote, UpdateQuote, BeginOnQuote, FirstStep, TypeOK
  <2>4. PICK o \in Requests : Committed(o) /\ order[o].quote = q
    BY <1>1, <2>3 DEF OrdersOf
  <2>5. quote[q].status \in Closed
    BY <1>1, <2>4 DEF IInv, ApprovalPrecedesCommit
  <2> QED
    BY <2>3, <2>5 DEF Closed
<1>2. IInv /\ [Next]_vars => [\A r \in Requests : Late(r) => req'[r].pc = "rejected"]_vars
  BY <1>1
<1> QED
  BY <1>2, InductiveInvariant, PTL DEF Spec, OrderedQuoteIsClosed
-----------------------------------------------------------------------------
(* What the properties about totals and approvals rest on.  Wrote says that *)
(* a call about a quote has been answered, or lost its answer, after it     *)
(* gave the quote a total; such a call never moves again.                   *)
Wrote(b, q, t) == /\ req[b].op \in {"createQuote", "updateQuote"}
                  /\ req[b].pc \in {"ok", "lost"}
                  /\ req[b].quote = q
                  /\ req[b].total = t

Made(q, t) == \E b \in Requests : Wrote(b, q, t)

CallsKeepTheirOps ==
  \A r \in Requests :
    /\ req[r].pc \in CreateOrderSteps => req[r].op = "createOrder"
    /\ req[r].pc \in UpdateQuoteSteps => req[r].op = "updateQuote"

CallsFoundQuotes ==
  \A r \in Requests : req[r].pc \in QuoteSteps => quote[req[r].quote].status # NoRow

TotalsAreMade ==
  /\ \A q \in Quotes :
       quote[q].status # NoRow => \E b \in details[q] : Wrote(b, q, quote[q].total)
  /\ \A r \in Requests :
       /\ req[r].pc \in CreateOrderSteps => Made(req[r].quote, req[r].total)
       /\ order[r].tx # "none" => Made(order[r].quote, order[r].total)

ApprovalsHaveCalls ==
  \A q \in Quotes :
    quote[q].status = "APPROVED" /\ ~quote[q].deleted =>
      \E r \in Requests :
        /\ req[r].op = "createOrder" /\ req[r].quote = q
        /\ req[r].pc \in {"approve_reread", "commit_order", "error"} \/ Committed(r)

PInv == CallsKeepTheirOps /\ CallsFoundQuotes /\ TotalsAreMade /\ ApprovalsHaveCalls


(* A call that has written a total is over, so no step takes that back.    *)
LEMMA MadeStays ==
  ASSUME NEW r \in Requests, req[r].pc \notin Outcomes,
         \A p \in Requests : p # r => req'[p] = req[p]
  PROVE  /\ \A q, t : \A b \in Requests : Wrote(b, q, t) => Wrote(b, q, t)'
         /\ \A q, t : Made(q, t) => Made(q, t)'
BY DEF Wrote, Made, Outcomes

(* A step that leaves every quote the total its details account for, or    *)
(* gives it the total and the details of the call itself, and takes the    *)
(* total of an order from its quote, keeps TotalsAreMade.                  *)
LEMMA TotalsStayMade ==
  ASSUME IInv, PInv, NEW r \in Requests, req[r].pc \notin Outcomes,
         \A p \in Requests : p # r => req'[p] = req[p],
         \A q \in Quotes :
           \/ /\ quote'[q].status = NoRow <=> quote[q].status = NoRow
              /\ quote'[q].total = quote[q].total /\ details'[q] = details[q]
           \/ /\ quote'[q].status # NoRow /\ r \in details'[q]
              /\ req'[r].op \in {"createQuote", "updateQuote"}
              /\ req'[r].pc \in {"ok", "lost"}
              /\ req'[r].quote = q /\ req'[r].total = quote'[q].total,
         \A o \in Requests :
           order'[o].tx # "none" => Made(order'[o].quote, order'[o].total),
         req'[r].pc \in CreateOrderSteps =>
           req'[r].op = "createOrder" /\ Made(req'[r].quote, req'[r].total),
         req'[r].pc \in UpdateQuoteSteps => req'[r].op = "updateQuote",
         req'[r].pc \in QuoteSteps =>
           req'[r].quote \in Quotes /\ quote[req'[r].quote].status # NoRow
  PROVE  CallsKeepTheirOps' /\ CallsFoundQuotes' /\ TotalsAreMade'
<1>1. CallsKeepTheirOps'
  BY DEF PInv, CallsKeepTheirOps
<1>2. CallsFoundQuotes'
  BY DEF PInv, IInv, CallsFoundQuotes, CallsNameRows
<1>3. ASSUME NEW q \in Quotes, quote'[q].status # NoRow
      PROVE  \E b \in details'[q] : Wrote(b, q, quote[q].total)'
  <2>1. CASE quote'[q].total = quote[q].total /\ details'[q] = details[q] /\ quote[q].status # NoRow
    <3>1. PICK b \in details[q] : Wrote(b, q, quote[q].total)
      BY <2>1 DEF PInv, TotalsAreMade
    <3>2. b \in Requests
      BY DEF IInv, TypeOK
    <3> QED
      BY <2>1, <3>1, <3>2 DEF Wrote, Outcomes
  <2>2. CASE /\ r \in details'[q] /\ req'[r].op \in {"createQuote", "updateQuote"}
             /\ req'[r].pc \in {"ok", "lost"}
             /\ req'[r].quote = q /\ req'[r].total = quote'[q].total
    BY <2>2 DEF Wrote
  <2> QED
    BY <1>3, <2>1, <2>2
<1>4. ASSUME NEW p \in Requests, req'[p].pc \in CreateOrderSteps
      PROVE  Made(req[p].quote, req[p].total)'
  <2>1. Made(req'[p].quote, req'[p].total)
    BY <1>4 DEF PInv, TotalsAreMade
  <2> QED
    BY <2>1 DEF Made, Wrote, Outcomes
<1>5. ASSUME NEW o \in Requests, order'[o].tx # "none"
      PROVE  Made(order[o].quote, order[o].total)'
  <2>1. Made(order'[o].quote, order'[o].total)
    BY <1>5
  <2> QED
    BY <2>1 DEF Made, Wrote, Outcomes
<1> QED
  BY <1>1, <1>2, <1>3, <1>4, <1>5 DEF TotalsAreMade

(* A step that approves no quote but the one its createOrder stands before *)
(* keeps ApprovalsHaveCalls, unless it takes the createOrder away from a   *)
(* quote that is still approved.                                           *)
LEMMA ApprovalsStay ==
  ASSUME IInv, PInv, NEW r \in Requests, req[r].pc \notin Outcomes,
         \A p \in Requests : p # r => req'[p] = req[p],
         \A o \in Requests : Committed(o) => Committed(o)',
         \A q \in Quotes :
           quote'[q].status = "APPROVED" /\ ~quote'[q].deleted =>
             \/ /\ quote[q].status = "APPROVED" /\ ~quote[q].deleted
                /\ req[r].quote = q => req[r].pc \notin {"approve_reread", "commit_order"}
             \/ /\ req'[r].op = "createOrder" /\ req'[r].quote = q
                /\ \/ req'[r].pc \in {"approve_reread", "commit_order", "error"}
                   \/ Committed(r)'
  PROVE  ApprovalsHaveCalls'
<1> SUFFICES ASSUME NEW q \in Quotes, quote'[q].status = "APPROVED", ~quote'[q].deleted
             PROVE  \E p \in Requests :
                      /\ req'[p].op = "createOrder" /\ req'[p].quote = q
                      /\ \/ req'[p].pc \in {"approve_reread", "commit_order", "error"}
                         \/ Committed(p)'
  BY DEF ApprovalsHaveCalls
<1>1. CASE /\ quote[q].status = "APPROVED" /\ ~quote[q].deleted
           /\ req[r].quote = q => req[r].pc \notin {"approve_reread", "commit_order"}
  <2>1. PICK p \in Requests :
          /\ req[p].op = "createOrder" /\ req[p].quote = q
          /\ req[p].pc \in {"approve_reread", "commit_order", "error"} \/ Committed(p)
    BY <1>1 DEF PInv, ApprovalsHaveCalls
  <2>2. p # r
    BY <1>1, <2>1 DEF Outcomes, IInv, OrdersFollowCalls
  <2> QED
    BY <2>1, <2>2
<1>2. CASE /\ req'[r].op = "createOrder" /\ req'[r].quote = q
           /\ \/ req'[r].pc \in {"approve_reread", "commit_order", "error"}
              \/ Committed(r)'
  BY <1>2
<1> QED
  BY <1>1, <1>2

(* What Goto, Answer and an arrival do to the calls. *)
LEMMA CallMoves ==
  ASSUME TypeOK, NEW r \in Requests
  PROVE  /\ \A step : Goto(r, step) =>
              /\ \A p \in Requests : p # r => req'[p] = req[p]
              /\ req'[r] = [req[r] EXCEPT !.pc = step]
              /\ req'[r].pc = step /\ req'[r].op = req[r].op
              /\ req'[r].quote = req[r].quote /\ req'[r].order = req[r].order
              /\ req'[r].total = req[r].total /\ req'[r].seen = req[r].seen
         /\ Answer(r) =>
              /\ \A p \in Requests : p # r => req'[p] = req[p]
              /\ req'[r].pc \in {"ok", "lost"} /\ req'[r].op = req[r].op
              /\ req'[r].quote = req[r].quote /\ req'[r].order = req[r].order
              /\ req'[r].total = req[r].total
         /\ \A op, q, t, step : BeginOnQuote(r, op, q, t, step) =>
              /\ \A p \in Requests : p # r => req'[p] = req[p]
              /\ req'[r].op = op /\ req'[r].pc = step
              /\ req'[r].quote = q /\ req'[r].total = t
         /\ \A op, o, s, step : BeginOnOrder(r, op, o, s, step) =>
              /\ \A p \in Requests : p # r => req'[p] = req[p]
              /\ req'[r].op = op /\ req'[r].pc = step
              /\ req'[r].order = o /\ req'[r].status = s
<1>1. ASSUME NEW step, Goto(r, step)
      PROVE  /\ \A p \in Requests : p # r => req'[p] = req[p]
             /\ req'[r] = [req[r] EXCEPT !.pc = step]
             /\ req'[r].pc = step /\ req'[r].op = req[r].op
             /\ req'[r].quote = req[r].quote /\ req'[r].order = req[r].order
             /\ req'[r].total = req[r].total /\ req'[r].seen = req[r].seen
  BY <1>1 DEF Goto, TypeOK, Request
<1>2. ASSUME Answer(r)
      PROVE  /\ \A p \in Requests : p # r => req'[p] = req[p]
             /\ req'[r].pc \in {"ok", "lost"} /\ req'[r].op = req[r].op
             /\ req'[r].quote = req[r].quote /\ req'[r].order = req[r].order
             /\ req'[r].total = req[r].total
  BY <1>1, <1>2 DEF Answer
<1>3. ASSUME NEW op, NEW q, NEW t, NEW step, BeginOnQuote(r, op, q, t, step)
      PROVE  /\ \A p \in Requests : p # r => req'[p] = req[p]
             /\ req'[r].op = op /\ req'[r].pc = step
             /\ req'[r].quote = q /\ req'[r].total = t
  BY <1>3 DEF BeginOnQuote, TypeOK
<1>4. ASSUME NEW op, NEW o, NEW s, NEW step, BeginOnOrder(r, op, o, s, step)
      PROVE  /\ \A p \in Requests : p # r => req'[p] = req[p]
             /\ req'[r].op = op /\ req'[r].pc = step
             /\ req'[r].order = o /\ req'[r].status = s
  BY <1>4 DEF BeginOnOrder, TypeOK
<1> QED
  BY <1>1, <1>2, <1>3, <1>4

(* No quote and no call exists yet. *)
LEMMA InitPInv == Init => PInv
<1> SUFFICES ASSUME Init PROVE PInv
  OBVIOUS
<1>1. /\ \A r \in Requests : req[r].pc = "idle" /\ order[r].tx = "none"
      /\ \A q \in Quotes : quote[q].status = NoRow
  BY DEF Init, NoOrder
<1> QED
  BY <1>1 DEF PInv, CallsKeepTheirOps, CallsFoundQuotes, TotalsAreMade, ApprovalsHaveCalls,
     QuoteSteps, CreateOrderSteps, UpdateQuoteSteps, DeleteQuoteSteps, NoRow

(* An arrival that is refused, or that starts with what it has just read.  *)
LEMMA ArrivalKeepsPInv ==
  ASSUME IInv, PInv, NEW r \in Requests, At(r, "idle"),
         UNCHANGED <<quote, details, lock, order>>,
         \A p \in Requests : p # r => req'[p] = req[p],
         \/ req'[r].pc \in {"rejected", "status_write", "reason_write", "purge_write"}
         \/ /\ req'[r].quote \in Quotes
            /\ QuoteFound(req'[r].quote)
            /\ \/ req'[r].pc \in {"cancel_write", "remove_write"}
               \/ req'[r].pc = "edit_delete" /\ req'[r].op = "updateQuote"
               \/ /\ req'[r].pc = "insert_order" /\ req'[r].op = "createOrder"
                  /\ req'[r].total = quote[req'[r].quote].total
  PROVE  PInv'
<1>1. req[r].pc \notin Outcomes
  BY DEF At, Outcomes
<1>2. \A o \in Requests : order'[o].tx # "none" => Made(order'[o].quote, order'[o].total)
  BY DEF PInv, TotalsAreMade
<1>3. req'[r].pc \in QuoteSteps => req'[r].quote \in Quotes /\ quote[req'[r].quote].status # NoRow
  BY DEF QuoteSteps, CreateOrderSteps, UpdateQuoteSteps, DeleteQuoteSteps, QuoteFound
<1>4. req'[r].pc \in UpdateQuoteSteps => req'[r].op = "updateQuote"
  BY DEF UpdateQuoteSteps
<1>5. ASSUME req'[r].pc \in CreateOrderSteps
      PROVE  req'[r].op = "createOrder" /\ Made(req'[r].quote, req'[r].total)
  <2>1. /\ req'[r].op = "createOrder" /\ req'[r].quote \in Quotes
        /\ quote[req'[r].quote].status # NoRow
        /\ req'[r].total = quote[req'[r].quote].total
    BY <1>5 DEF CreateOrderSteps, QuoteFound
  <2>2. PICK b \in details[req'[r].quote] : Wrote(b, req'[r].quote, quote[req'[r].quote].total)
    BY <2>1 DEF PInv, TotalsAreMade
  <2>3. b \in Requests
    BY <2>1 DEF IInv, TypeOK
  <2> QED
    BY <2>1, <2>2, <2>3 DEF Made
<1>6. CallsKeepTheirOps' /\ CallsFoundQuotes' /\ TotalsAreMade'
  BY <1>1, <1>2, <1>3, <1>4, <1>5, TotalsStayMade
<1>7. ApprovalsHaveCalls'
  BY <1>1, ApprovalsStay DEF At, Committed
<1> QED
  BY <1>6, <1>7 DEF PInv

(* A step that writes no quote, or no total and no approval of a quote.    *)
LEMMA StepWithoutApprovalKeepsPInv ==
  ASSUME IInv, PInv, NEW r \in Requests, r \in InFlight,
         \A p \in Requests : p # r => req'[p] = req[p],
         req'[r].op = req[r].op /\ req'[r].quote = req[r].quote /\ req'[r].total = req[r].total,
         \A q \in Quotes :
           /\ quote'[q].status = NoRow <=> quote[q].status = NoRow
           /\ quote'[q].total = quote[q].total /\ details'[q] = details[q]
           /\ quote'[q].status = "APPROVED" /\ ~quote'[q].deleted =>
                /\ quote[q].status = "APPROVED" /\ ~quote[q].deleted
                /\ req[r].quote = q /\ req[r].pc \in {"approve_reread", "commit_order"} =>
                     \/ req'[r].pc \in {"approve_reread", "commit_order", "error"}
                     \/ Committed(r)',
         \A o \in Requests :
           order'[o].tx # "none" =>
             \/ /\ order[o].tx # "none"
                /\ order'[o].quote = order[o].quote /\ order'[o].total = order[o].total
             \/ o = r /\ req[r].pc = "insert_order"
                /\ order'[o].quote = req[r].quote /\ order'[o].total = req[r].total,
         \A o \in Requests : Committed(o) => Committed(o)',
         req'[r].pc \in CreateOrderSteps => req[r].pc \in CreateOrderSteps,
         req'[r].pc \in UpdateQuoteSteps => req[r].pc \in UpdateQuoteSteps,
         req'[r].pc \in QuoteSteps => req[r].pc \in QuoteSteps
  PROVE  PInv'
<1>1. req[r].pc \notin Outcomes
  BY DEF InFlight, Outcomes, Steps, CreateOrderSteps, UpdateQuoteSteps, DeleteQuoteSteps,
     OrderSteps
<1>2. \A o \in Requests : order'[o].tx # "none" => Made(order'[o].quote, order'[o].total)
  BY DEF PInv, TotalsAreMade, CreateOrderSteps
<1>3. req'[r].pc \in QuoteSteps => req'[r].quote \in Quotes /\ quote[req'[r].quote].status # NoRow
  BY DEF PInv, IInv, CallsNameRows, CallsFoundQuotes
<1>4. req'[r].pc \in UpdateQuoteSteps => req'[r].op = "updateQuote"
  BY DEF PInv, CallsKeepTheirOps
<1>5. req'[r].pc \in CreateOrderSteps => req'[r].op = "createOrder" /\ Made(req'[r].quote, req'[r].total)
  BY DEF PInv, CallsKeepTheirOps, TotalsAreMade
<1>6. CallsKeepTheirOps' /\ CallsFoundQuotes' /\ TotalsAreMade'
  BY <1>1, <1>2, <1>3, <1>4, <1>5, TotalsStayMade
<1>7. ApprovalsHaveCalls'
  <2>1. req[r].pc \in {"approve_reread", "commit_order"} => req[r].op = "createOrder"
    BY DEF PInv, CallsKeepTheirOps, CreateOrderSteps
  <2> QED
    BY <1>1, <2>1, ApprovalsStay
<1> QED
  BY <1>6, <1>7 DEF PInv

(* The end of a call that is rolled back. *)
LEMMA RollbackKeepsPInv ==
  ASSUME IInv, PInv, NEW r \in Requests, r \in InFlight,
         NEW outcome \in {"rejected", "error"}, Rollback(r, outcome),
         outcome = "rejected" => req[r].pc = "approve_read" \/ ~QuoteFound(req[r].quote)
  PROVE  PInv'
<1>0. TypeOK
  BY DEF IInv
<1>1. Goto(r, outcome) /\ UNCHANGED <<quote, details>>
  BY DEF Rollback
<1>2. \A o \in Requests : order'[o] = IF o = r /\ order[o].tx = "open" THEN NoOrder ELSE order[o]
  BY <1>0 DEF Rollback, TypeOK
<1>3. \A o \in Requests : /\ Committed(o) => Committed(o)'
                          /\ order'[o].tx # "none" => /\ order[o].tx # "none"
                                                      /\ order'[o] = order[o]
  BY <1>2 DEF Committed, NoOrder
<1>4. req'[r].pc \notin CreateOrderSteps \cup UpdateQuoteSteps \cup QuoteSteps
  BY <1>0, <1>1, CallMoves DEF CreateOrderSteps, UpdateQuoteSteps, QuoteSteps, DeleteQuoteSteps
<1>5. ASSUME NEW q \in Quotes, quote'[q].status = "APPROVED", ~quote'[q].deleted,
             req[r].quote = q, req[r].pc \in {"approve_reread", "commit_order"}
      PROVE  req'[r].pc = "error"
  BY <1>0, <1>1, <1>5, CallMoves DEF QuoteFound, NoRow
<1>6. /\ \A p \in Requests : p # r => req'[p] = req[p]
      /\ req'[r].op = req[r].op /\ req'[r].quote = req[r].quote /\ req'[r].total = req[r].total
  BY <1>0, <1>1, CallMoves
<1>7. \A q \in Quotes :
        /\ quote'[q].status = NoRow <=> quote[q].status = NoRow
        /\ quote'[q].total = quote[q].total /\ details'[q] = details[q]
        /\ quote'[q].status = "APPROVED" /\ ~quote'[q].deleted =>
             /\ quote[q].status = "APPROVED" /\ ~quote[q].deleted
             /\ req[r].quote = q /\ req[r].pc \in {"approve_reread", "commit_order"} =>
                  req'[r].pc = "error"
  BY <1>1, <1>5
<1> QED
  BY <1>3, <1>4, <1>6, <1>7, StepWithoutApprovalKeepsPInv

(* Every step keeps the totals accounted for and the approvals explained.  *)
LEMMA StepPInv == IInv /\ PInv /\ [Next]_vars => PInv'
<1> SUFFICES ASSUME IInv, PInv, [Next]_vars PROVE PInv'
  OBVIOUS
<1>0. TypeOK
  BY DEF IInv
<1>f. ASSUME NEW r \in Requests, req[r].pc \in Steps PROVE r \in InFlight
  BY <1>f DEF InFlight
<1>s. /\ CreateOrderSteps \subseteq Steps /\ UpdateQuoteSteps \subseteq Steps
      /\ DeleteQuoteSteps \subseteq Steps /\ OrderSteps \subseteq Steps
      /\ "cancel_write" \in Steps
  BY DEF Steps
<1>q. ASSUME NEW r \in Requests, req[r].pc \in QuoteSteps
      PROVE  req[r].quote \in Quotes /\ quote[req[r].quote].status # NoRow
  BY <1>q DEF IInv, PInv, CallsNameRows, CallsFoundQuotes
<1>m. ASSUME NEW r \in Requests, NEW step, Goto(r, step)
      PROVE  /\ \A p \in Requests : p # r => req'[p] = req[p]
             /\ req'[r].op = req[r].op /\ req'[r].quote = req[r].quote
             /\ req'[r].total = req[r].total /\ req'[r].pc = step
  BY <1>0, <1>m, CallMoves
<1>1. ASSUME NEW r \in Requests, NEW q \in Quotes, NEW t \in Totals, CreateQuote(r, q, t)
      PROVE  PInv'
  <2>1. /\ At(r, "idle") /\ UNCHANGED <<lock, order>>
        /\ quote[q].status = NoRow
        /\ \A p \in Requests : p # r => req'[p] = req[p]
        /\ req'[r].op = "createQuote" /\ req'[r].pc = "ok"
        /\ req'[r].quote = q /\ req'[r].total = t
    BY <1>1, <1>0, CallMoves DEF CreateQuote, Arrive
  <2>2. /\ quote'[q].status = "PENDING" /\ quote'[q].total = t
        /\ ~quote'[q].deleted /\ r \in details'[q]
        /\ \A p \in Quotes : p # q => quote'[p] = quote[p] /\ details'[p] = details[p]
    BY <1>1, <1>0 DEF CreateQuote, TypeOK
  <2>3. req[r].pc \notin Outcomes
    BY <2>1 DEF At, Outcomes
  <2>4. req'[r].pc \notin CreateOrderSteps \cup UpdateQuoteSteps \cup QuoteSteps
    BY <2>1 DEF CreateOrderSteps, UpdateQuoteSteps, QuoteSteps, DeleteQuoteSteps
  <2>5. \A o \in Requests : order'[o].tx # "none" => Made(order'[o].quote, order'[o].total)
    BY <2>1 DEF PInv, TotalsAreMade
  <2>6. \A p \in Quotes :
          \/ /\ quote'[p].status = NoRow <=> quote[p].status = NoRow
             /\ quote'[p].total = quote[p].total /\ details'[p] = details[p]
          \/ /\ quote'[p].status # NoRow /\ r \in details'[p]
             /\ req'[r].op \in {"createQuote", "updateQuote"}
             /\ req'[r].pc \in {"ok", "lost"}
             /\ req'[r].quote = p /\ req'[r].total = quote'[p].total
    BY <2>1, <2>2 DEF NoRow
  <2>7. CallsKeepTheirOps' /\ CallsFoundQuotes' /\ TotalsAreMade'
    BY <2>1, <2>3, <2>4, <2>5, <2>6, TotalsStayMade
  <2>8. ApprovalsHaveCalls'
    BY <2>1, <2>2, <2>3, ApprovalsStay DEF At, Committed
  <2> QED
    BY <2>7, <2>8 DEF PInv
<1>2. ASSUME NEW r \in Requests, NEW q \in Quotes,
             \/ CreateOrder(r, q) \/ CancelQuote(r, q) \/ DeleteQuote(r, q)
             \/ \E t \in Totals : UpdateQuote(r, q, t)
      PROVE  PInv'
  <2>1. /\ At(r, "idle") /\ UNCHANGED <<quote, details, lock, order>>
        /\ \A p \in Requests : p # r => req'[p] = req[p]
        /\ req'[r].quote = q
        /\ \/ req'[r].pc = "rejected"
           \/ /\ QuoteFound(q)
              /\ \/ req'[r].pc \in {"cancel_write", "remove_write"}
                 \/ req'[r].pc = "edit_delete" /\ req'[r].op = "updateQuote"
                 \/ /\ req'[r].pc = "insert_order" /\ req'[r].op = "createOrder"
                    /\ req'[r].total = quote[q].total
    BY <1>2, <1>0, CallMoves DEF CreateOrder, CancelQuote, DeleteQuote, UpdateQuote, Arrive,
       FirstStep
  <2> QED
    BY <2>1, ArrivalKeepsPInv
<1>3. ASSUME NEW r \in Requests, NEW o \in Requests,
             \/ CancelOrder(r, o) \/ DeleteOrder(r, o)
             \/ \E s \in OrderStatus : UpdateOrderStatus(r, o, s)
      PROVE  PInv'
  <2>1. /\ At(r, "idle") /\ UNCHANGED <<quote, details, lock, order>>
        /\ \A p \in Requests : p # r => req'[p] = req[p]
        /\ req'[r].pc \in {"rejected", "status_write", "reason_write", "purge_write"}
    BY <1>3, <1>0, CallMoves DEF CancelOrder, DeleteOrder, UpdateOrderStatus, Arrive, FirstStep
  <2> QED
    BY <2>1, ArrivalKeepsPInv
<1>4. ASSUME NEW r \in Requests, InsertOrder(r) PROVE PInv'
  <2>1. /\ req[r].pc = "insert_order" /\ r \in InFlight /\ req[r].pc \in CreateOrderSteps
        /\ req[r].pc \in QuoteSteps /\ UNCHANGED <<quote, details, lock>>
        /\ Goto(r, "rejected") \/ Goto(r, "approve_read")
        /\ \/ UNCHANGED order
           \/ order' = [order EXCEPT ![r] =
                 [tx |-> "open", quote |-> req[r].quote, total |-> req[r].total,
                  status |-> "IN_PRODUCTION", reason |-> FALSE, deleted |-> FALSE]]
    BY <1>4, <1>f, <1>s DEF InsertOrder, At, CreateOrderSteps, QuoteSteps
  <2>2. ~Committed(r)
    BY <2>1 DEF IInv, OrdersFollowCalls
  <2>3. \A o \in Requests :
          /\ order'[o].tx # "none" =>
               \/ /\ order[o].tx # "none"
                  /\ order'[o].quote = order[o].quote /\ order'[o].total = order[o].total
               \/ o = r /\ req[r].pc = "insert_order"
                  /\ order'[o].quote = req[r].quote /\ order'[o].total = req[r].total
          /\ Committed(o) => Committed(o)'
    BY <2>1, <2>2, <1>0 DEF Committed, TypeOK
  <2>4. /\ \A p \in Requests : p # r => req'[p] = req[p]
        /\ req'[r].op = req[r].op /\ req'[r].quote = req[r].quote /\ req'[r].total = req[r].total
        /\ req'[r].pc \in {"rejected", "approve_read"}
    BY <2>1, <1>m
  <2>5. req'[r].pc \notin UpdateQuoteSteps
    BY <2>4 DEF UpdateQuoteSteps
  <2> QED
    BY <2>1, <2>3, <2>4, <2>5, StepWithoutApprovalKeepsPInv
<1>5. ASSUME NEW r \in Requests, ApproveRead(r) \/ ApproveReread(r) PROVE PInv'
  <2>1. /\ r \in InFlight /\ req[r].pc \in {"approve_read", "approve_reread"}
        /\ req[r].pc \in CreateOrderSteps /\ req[r].pc \in QuoteSteps
    BY <1>5, <1>f, <1>s DEF ApproveRead, ApproveReread, At, CreateOrderSteps, QuoteSteps
  <2>2. CASE Rollback(r, "rejected") /\ (req[r].pc = "approve_read" \/ ~QuoteFound(req[r].quote))
    BY <2>1, <2>2, RollbackKeepsPInv
  <2>3. CASE /\ UNCHANGED <<quote, details, lock, order>>
             /\ \/ req[r].pc = "approve_read" /\ Goto(r, "approve_write")
                \/ req[r].pc = "approve_reread" /\ Goto(r, "commit_order")
    <3>1. /\ \A p \in Requests : p # r => req'[p] = req[p]
          /\ req'[r].op = req[r].op /\ req'[r].quote = req[r].quote /\ req'[r].total = req[r].total
          /\ \/ req[r].pc = "approve_read" /\ req'[r].pc = "approve_write"
             \/ req[r].pc = "approve_reread" /\ req'[r].pc = "commit_order"
      BY <2>3, <1>m
    <3>2. req'[r].pc \notin UpdateQuoteSteps
      BY <3>1 DEF UpdateQuoteSteps
    <3> QED
      BY <2>1, <2>3, <3>1, <3>2, StepWithoutApprovalKeepsPInv DEF Committed
  <2> QED
    BY <1>5, <2>2, <2>3 DEF ApproveRead, ApproveReread, At
<1>6. ASSUME NEW r \in Requests, ApproveWrite(r) PROVE PInv'
  <2>1. /\ req[r].pc = "approve_write" /\ UNCHANGED <<details, lock, order>>
        /\ req[r].op = "createOrder"
        /\ req[r].quote \in Quotes /\ quote[req[r].quote].status # NoRow
        /\ Goto(r, "approve_reread")
        /\ Made(req[r].quote, req[r].total)
    BY <1>6, <1>q DEF ApproveWrite, At, CreateOrderSteps, QuoteSteps, PInv, CallsKeepTheirOps,
       TotalsAreMade
  <2>2. \A q \in Quotes :
          /\ quote'[q].total = quote[q].total /\ quote'[q].deleted = quote[q].deleted
          /\ quote'[q].status = IF q = req[r].quote THEN "APPROVED" ELSE quote[q].status
    BY <1>6, <2>1, <1>0 DEF ApproveWrite, TypeOK, QuoteRow
  <2>3. /\ req[r].pc \notin Outcomes /\ req'[r].pc \notin UpdateQuoteSteps
        /\ req'[r].pc = "approve_reread" /\ req'[r].op = "createOrder"
        /\ req'[r].quote = req[r].quote /\ req'[r].total = req[r].total
        /\ \A p \in Requests : p # r => req'[p] = req[p]
    BY <2>1, <1>m DEF Outcomes, UpdateQuoteSteps
  <2>4. \A o \in Requests : order'[o].tx # "none" => Made(order'[o].quote, order'[o].total)
    BY <2>1 DEF PInv, TotalsAreMade
  <2>5. CallsKeepTheirOps' /\ CallsFoundQuotes' /\ TotalsAreMade'
    BY <2>1, <2>2, <2>3, <2>4, TotalsStayMade DEF NoRow
  <2>6. ApprovalsHaveCalls'
    BY <2>1, <2>2, <2>3, ApprovalsStay DEF Committed
  <2> QED
    BY <2>5, <2>6 DEF PInv
<1>7. ASSUME NEW r \in Requests, CommitOrder(r) PROVE PInv'
  <2>1. /\ req[r].pc = "commit_order" /\ UNCHANGED <<quote, details, lock>>
        /\ r \in InFlight /\ Answer(r) /\ order[r].tx = "open"
    BY <1>7, <1>f, <1>s DEF CommitOrder, At, CreateOrderSteps, IInv, OrdersFollowCalls, OpenSteps
  <2>2. /\ \A o \in Requests : /\ order'[o].tx # "none" => order[o].tx # "none"
                               /\ order'[o].quote = order[o].quote
                               /\ order'[o].total = order[o].total
                               /\ Committed(o) => Committed(o)'
        /\ Committed(r)'
    BY <1>7, <2>1, <1>0 DEF CommitOrder, Committed, TypeOK, OrderRow
  <2>3. req'[r].pc \notin CreateOrderSteps \cup UpdateQuoteSteps \cup QuoteSteps
    BY <2>1, <1>0, CallMoves DEF CreateOrderSteps, UpdateQuoteSteps, QuoteSteps, DeleteQuoteSteps
  <2> QED
    BY <2>1, <2>2, <2>3, <1>0, CallMoves, StepWithoutApprovalKeepsPInv
<1>8. ASSUME NEW r \in Requests, CancelWrite(r) PROVE PInv'
  <2>1. /\ req[r].pc = "cancel_write" /\ UNCHANGED <<details, lock, order>>
        /\ r \in InFlight /\ Answer(r)
        /\ req[r].quote \in Quotes /\ quote[req[r].quote].status # NoRow
    BY <1>8, <1>q, <1>f, <1>s DEF CancelWrite, At, QuoteSteps
  <2>2. \A q \in Quotes :
          /\ quote'[q].total = quote[q].total /\ quote'[q].deleted = quote[q].deleted
          /\ quote'[q].status = IF q = req[r].quote THEN "CANCELLED" ELSE quote[q].status
    BY <1>8, <2>1, <1>0 DEF CancelWrite, TypeOK, QuoteRow
  <2>3. req'[r].pc \notin CreateOrderSteps \cup UpdateQuoteSteps \cup QuoteSteps
    BY <2>1, <1>0, CallMoves DEF CreateOrderSteps, UpdateQuoteSteps, QuoteSteps, DeleteQuoteSteps
  <2>4. \A q \in Quotes : quote'[q].status = NoRow <=> quote[q].status = NoRow
    BY <2>1, <2>2 DEF NoRow
  <2> QED
    BY <2>1, <2>2, <2>3, <2>4, <1>0, CallMoves, StepWithoutApprovalKeepsPInv DEF Committed
<1>9. ASSUME NEW r \in Requests, EditDelete(r) PROVE PInv'
  <2>1. /\ req[r].pc = "edit_delete" /\ UNCHANGED <<quote, details, lock, order>>
        /\ r \in InFlight /\ req[r].pc \in UpdateQuoteSteps /\ req[r].pc \in QuoteSteps
    BY <1>9, <1>f, <1>s DEF EditDelete, At, UpdateQuoteSteps, QuoteSteps
  <2>2. /\ \A p \in Requests : p # r => req'[p] = req[p]
        /\ req'[r].pc = "edit_wait" /\ req'[r].op = req[r].op
        /\ req'[r].quote = req[r].quote /\ req'[r].total = req[r].total
    BY <1>9, <1>0 DEF EditDelete, TypeOK, Request
  <2>3. req'[r].pc \notin CreateOrderSteps
    BY <2>2 DEF CreateOrderSteps
  <2> QED
    BY <2>1, <2>2, <2>3, StepWithoutApprovalKeepsPInv DEF Committed
<1>10. ASSUME NEW r \in Requests, EditWait(r) \/ EditTotal(r) PROVE PInv'
  <2>1. /\ req[r].pc \in {"edit_wait", "edit_total"} /\ UNCHANGED <<quote, details, order>>
        /\ r \in InFlight /\ req[r].pc \in UpdateQuoteSteps /\ req[r].pc \in QuoteSteps
        /\ Goto(r, "edit_total") \/ Goto(r, "edit_commit")
    BY <1>10, <1>f, <1>s DEF EditWait, EditTotal, At, UpdateQuoteSteps, QuoteSteps
  <2>2. /\ \A p \in Requests : p # r => req'[p] = req[p]
        /\ req'[r].op = req[r].op /\ req'[r].quote = req[r].quote /\ req'[r].total = req[r].total
        /\ req'[r].pc \in {"edit_total", "edit_commit"}
    BY <2>1, <1>m
  <2>3. req'[r].pc \notin CreateOrderSteps
    BY <2>2 DEF CreateOrderSteps
  <2> QED
    BY <2>1, <2>2, <2>3, StepWithoutApprovalKeepsPInv DEF Committed
<1>11. ASSUME NEW r \in Requests, EditCommit(r) PROVE PInv'
  <2>1. /\ req[r].pc = "edit_commit" /\ UNCHANGED order /\ Answer(r)
        /\ req[r].op = "updateQuote"
        /\ req[r].quote \in Quotes /\ quote[req[r].quote].status # NoRow
    BY <1>11, <1>q DEF EditCommit, At, UpdateQuoteSteps, QuoteSteps, PInv, CallsKeepTheirOps
  <2>2. \A q \in Quotes :
          /\ quote'[q].status = quote[q].status /\ quote'[q].deleted = quote[q].deleted
          /\ quote'[q].total = IF q = req[r].quote THEN req[r].total ELSE quote[q].total
          /\ q # req[r].quote => details'[q] = details[q]
          /\ r \in details'[req[r].quote]
    BY <1>11, <2>1, <1>0 DEF EditCommit, TypeOK, QuoteRow
  <2>3. /\ req[r].pc \notin Outcomes /\ req'[r].op = "updateQuote"
        /\ req'[r].pc \in {"ok", "lost"}
        /\ req'[r].quote = req[r].quote /\ req'[r].total = req[r].total
        /\ \A p \in Requests : p # r => req'[p] = req[p]
        /\ req'[r].pc \notin CreateOrderSteps \cup UpdateQuoteSteps \cup QuoteSteps
    BY <2>1, <1>0, CallMoves DEF Outcomes, CreateOrderSteps, UpdateQuoteSteps, QuoteSteps,
       DeleteQuoteSteps
  <2>4. \A o \in Requests : order'[o].tx # "none" => Made(order'[o].quote, order'[o].total)
    BY <2>1 DEF PInv, TotalsAreMade
  <2>5. CallsKeepTheirOps' /\ CallsFoundQuotes' /\ TotalsAreMade'
    BY <2>1, <2>2, <2>3, <2>4, TotalsStayMade
  <2>6. ApprovalsHaveCalls'
    BY <2>1, <2>2, <2>3, ApprovalsStay DEF Committed
  <2> QED
    BY <2>5, <2>6 DEF PInv
<1>12. ASSUME NEW r \in Requests, RemoveWrite(r) \/ RemoveCommit(r) PROVE PInv'
  <2>1. /\ req[r].pc \in {"remove_write", "remove_commit"} /\ UNCHANGED <<details, order>>
        /\ r \in InFlight /\ req[r].quote \in Quotes /\ req[r].pc \in QuoteSteps
        /\ Goto(r, "remove_commit") \/ Answer(r)
    BY <1>12, <1>q, <1>f, <1>s DEF RemoveWrite, RemoveCommit, At, DeleteQuoteSteps, QuoteSteps
  <2>2. \A q \in Quotes :
          /\ quote'[q].total = quote[q].total /\ quote'[q].status = quote[q].status
          /\ ~quote'[q].deleted => ~quote[q].deleted
    BY <1>12, <2>1, <1>0 DEF RemoveWrite, RemoveCommit, TypeOK, QuoteRow
  <2>3. /\ \A p \in Requests : p # r => req'[p] = req[p]
        /\ req'[r].op = req[r].op /\ req'[r].quote = req[r].quote /\ req'[r].total = req[r].total
        /\ req'[r].pc \in {"remove_commit", "ok", "lost"}
    BY <2>1, <1>m DEF Answer
  <2>4. req'[r].pc \notin CreateOrderSteps \cup UpdateQuoteSteps
    BY <2>3 DEF CreateOrderSteps, UpdateQuoteSteps
  <2> QED
    BY <2>1, <2>2, <2>3, <2>4, StepWithoutApprovalKeepsPInv DEF Committed
<1>13. ASSUME NEW r \in Requests, StatusWrite(r) \/ ReasonWrite(r) \/ PurgeWrite(r)
       PROVE  PInv'
  <2>1. /\ req[r].pc \in {"status_write", "reason_write", "purge_write"}
        /\ UNCHANGED <<quote, details, lock>> /\ Answer(r) /\ r \in InFlight
    BY <1>13, <1>f, <1>s DEF StatusWrite, ReasonWrite, PurgeWrite, At, OrderSteps
  <2>2. \A o \in Requests : /\ order'[o].tx = order[o].tx /\ order'[o].quote = order[o].quote
                            /\ order'[o].total = order[o].total
    <3>1. CASE StatusWrite(r)
      BY <3>1, <1>0 DEF StatusWrite, TypeOK, OrderRow
    <3>2. CASE ReasonWrite(r)
      BY <3>2, <1>0 DEF ReasonWrite, TypeOK, OrderRow
    <3>3. CASE PurgeWrite(r)
      BY <3>3, <1>0 DEF PurgeWrite, TypeOK, OrderRow
    <3> QED
      BY <1>13, <3>1, <3>2, <3>3
  <2>3. req'[r].pc \notin CreateOrderSteps \cup UpdateQuoteSteps \cup QuoteSteps
    BY <2>1, <1>0, CallMoves DEF CreateOrderSteps, UpdateQuoteSteps, QuoteSteps, DeleteQuoteSteps
  <2> QED
    BY <2>1, <2>2, <2>3, <1>0, CallMoves, StepWithoutApprovalKeepsPInv DEF Committed
<1>14. ASSUME NEW r \in Requests, Fail(r) PROVE PInv'
  BY <1>14, RollbackKeepsPInv DEF Fail
<1>15. CASE UNCHANGED vars
  BY <1>15 DEF vars, PInv, CallsKeepTheirOps, CallsFoundQuotes, TotalsAreMade,
     ApprovalsHaveCalls, Made, Wrote, Committed
<1>16. ASSUME NEW r \in Requests, Call(r) PROVE PInv'
  BY <1>16, <1>1, <1>2, <1>3 DEF Call
<1>17. ASSUME NEW r \in Requests, Continue(r) PROVE PInv'
  BY <1>17, <1>4, <1>5, <1>6, <1>7, <1>8, <1>9, <1>10, <1>11, <1>12, <1>13 DEF Continue
<1> QED
  BY <1>14, <1>15, <1>16, <1>17 DEF Next

(* PInv holds in every state of the services. *)
LEMMA PricesInvariant == Spec => []PInv
BY InductiveInvariant, InitPInv, StepPInv, PTL DEF Spec

(* The total an order charges is one that a committed createQuote or       *)
(* updateQuote gave its quote, whatever edits were rolled back meanwhile.  *)
THEOREM OrdersPricedByEdits == Spec => []OrderPricedByCommittedEdit
<1>1. PInv => OrderPricedByCommittedEdit
  BY DEF PInv, TotalsAreMade, Made, Wrote, Committed, OrderPricedByCommittedEdit
<1> QED
  BY <1>1, PricesInvariant, PTL

(* However edits overlap, a quote keeps the details of the call that gave  *)
(* it its total.                                                           *)
THEOREM TotalsStayBacked == Spec => []TotalBackedByDetails
<1>1. PInv => TotalBackedByDetails
  BY DEF PInv, TotalsAreMade, Wrote, TotalBackedByDetails
<1> QED
  BY <1>1, PricesInvariant, PTL

(* At rest, only a createOrder that failed leaves an approved quote        *)
(* without an order.                                                       *)
THEOREM ApprovalsAreExplained == Spec => []ApprovedHasOrderAtRest
<1>1. IInv /\ PInv => ApprovedHasOrderAtRest
  <2> SUFFICES ASSUME IInv, PInv, AtRest, NEW q \in Quotes,
                      quote[q].status = "APPROVED", ~quote[q].deleted,
                      \A r \in Requests : req[r].op = "createOrder" /\ req[r].quote = q
                                            => req[r].pc # "error"
               PROVE  OrdersOf(q) # {}
    BY DEF ApprovedHasOrderAtRest
  <2>1. PICK r \in Requests :
          /\ req[r].op = "createOrder" /\ req[r].quote = q
          /\ req[r].pc \in {"approve_reread", "commit_order", "error"} \/ Committed(r)
    BY DEF PInv, ApprovalsHaveCalls
  <2>2. Committed(r)
    BY <2>1 DEF AtRest, InFlight, Steps, CreateOrderSteps
  <2> QED
    BY <2>1, <2>2 DEF OrdersOf, IInv, OrdersFollowCalls, Committed
<1> QED
  BY <1>1, InductiveInvariant, PricesInvariant, PTL
-----------------------------------------------------------------------------
(* Calls that are served one at a time.  What a call has read then holds   *)
(* until it ends: WhatCallsRead has one line for each check, and           *)
(* QuotesAddUp and OrdersKeepTheirQuotes are what the checks protect.      *)
Alone == \A r, p \in InFlight : r = p

PendingQuote(q) == quote[q].status = "PENDING" /\ ~quote[q].deleted
ApprovedQuote(q) == quote[q].status = "APPROVED" /\ ~quote[q].deleted
Unordered(q) == \A o \in Requests : Committed(o) => order[o].quote # q

ReadHolds(r) ==
  /\ req[r].pc \in {"insert_order", "approve_read", "approve_write"}
       => PendingQuote(req[r].quote)
  /\ req[r].pc \in {"approve_reread", "commit_order"} => ApprovedQuote(req[r].quote)
  /\ req[r].pc \in CreateOrderSteps => /\ Unordered(req[r].quote)
                                       /\ req[r].total = quote[req[r].quote].total
  /\ req[r].pc \in UpdateQuoteSteps => PendingQuote(req[r].quote) /\ req[r].total \in Totals
  /\ req[r].pc \in UpdateQuoteSteps \ {"edit_delete"} => req[r].seen = details[req[r].quote]
  /\ req[r].pc = "cancel_write" => PendingQuote(req[r].quote)
  /\ req[r].pc \in DeleteQuoteSteps => /\ quote[req[r].quote].status \in {"PENDING", "CANCELLED"}
                                       /\ ~quote[req[r].quote].deleted
  /\ req[r].pc \in {"status_write", "reason_write"}
       => order[req[r].order].status = "IN_PRODUCTION"
  /\ req[r].pc = "purge_write" => order[req[r].order].status = "CANCELLED"

WhatCallsRead == \A r \in Requests : ReadHolds(r)

QuotesAddUp ==
  \A q \in Quotes :
    IF quote[q].status = NoRow THEN ~quote[q].deleted
    ELSE \E b \in Requests : details[q] = {b} /\ Wrote(b, q, quote[q].total)

OrdersKeepTheirQuotes ==
  /\ \A o \in Requests :
       IF Committed(o) THEN /\ ApprovedQuote(order[o].quote)
                            /\ order[o].total = quote[order[o].quote].total
       ELSE order[o].status = "IN_PRODUCTION" /\ ~order[o].deleted
  /\ \A o \in Requests : order[o].tx = "open" => order[o].total = req[o].total
  /\ \A o, p \in Requests :
       Committed(o) /\ Committed(p) /\ order[o].quote = order[p].quote => o = p

NeverRejected == \A q \in Quotes : quote[q].status # "REJECTED"

SInv == /\ Alone
        /\ WhatCallsRead
        /\ QuotesAddUp
        /\ OrdersKeepTheirQuotes
        /\ ReasonMeansCancelled
        /\ NeverRejected

(* A call arrives when no other is served. *)
LEMMA ArrivesAlone ==
  ASSUME MaxInFlight = 1, IsFiniteSet(Requests), NEW r \in Requests, NEW op, Arrive(r, op)
  PROVE  InFlight = {}
<1>1. IsFiniteSet(InFlight)
  BY FS_Subset DEF InFlight
<1>2. Cardinality(InFlight) \in Nat /\ Cardinality(InFlight) < 1
  BY <1>1, FS_CardinalityType DEF Arrive
<1> QED
  BY <1>1, <1>2, FS_EmptySet

(* Only the call that moves can be served after its step. *)
LEMMA StaysAlone ==
  ASSUME NEW r \in Requests, \A p \in Requests : p # r => req'[p] = req[p],
         \A p \in InFlight : p = r
  PROVE  Alone' /\ \A p \in Requests : req'[p].pc \in Steps => p = r
BY DEF Alone, InFlight

(* Only a call that is being served relies on what it has read. *)
LEMMA ReadsOfOne ==
  ASSUME NEW r \in Requests, \A p \in Requests : req'[p].pc \in Steps => p = r, ReadHolds(r)'
  PROVE  WhatCallsRead'
BY DEF WhatCallsRead, ReadHolds, Steps, CreateOrderSteps, UpdateQuoteSteps, DeleteQuoteSteps,
       OrderSteps

(* A quote that keeps its total and its details still adds up. *)
LEMMA AddsUpStill ==
  ASSUME IInv, QuotesAddUp, NEW r \in Requests, req[r].pc \notin Outcomes,
         \A p \in Requests : p # r => req'[p] = req[p],
         \A q \in Quotes :
           \/ /\ quote'[q].status = NoRow <=> quote[q].status = NoRow
              /\ quote'[q].total = quote[q].total /\ details'[q] = details[q]
              /\ quote[q].status = NoRow => quote'[q].deleted = quote[q].deleted
           \/ /\ quote'[q].status # NoRow /\ details'[q] = {r}
              /\ req'[r].op \in {"createQuote", "updateQuote"}
              /\ req'[r].pc \in {"ok", "lost"}
              /\ req'[r].quote = q /\ req'[r].total = quote'[q].total
  PROVE  QuotesAddUp'
<1> SUFFICES ASSUME NEW q \in Quotes
             PROVE  IF quote'[q].status = NoRow THEN ~quote'[q].deleted
                    ELSE \E b \in Requests : /\ details'[q] = {b}
                                             /\ Wrote(b, q, quote[q].total)'
  BY DEF QuotesAddUp
<1>1. CASE /\ quote'[q].status = NoRow <=> quote[q].status = NoRow
           /\ quote'[q].total = quote[q].total /\ details'[q] = details[q]
           /\ quote[q].status = NoRow => quote'[q].deleted = quote[q].deleted
  BY <1>1 DEF QuotesAddUp, Wrote, Outcomes
<1>2. CASE /\ quote'[q].status # NoRow /\ details'[q] = {r}
           /\ req'[r].op \in {"createQuote", "updateQuote"}
           /\ req'[r].pc \in {"ok", "lost"}
           /\ req'[r].quote = q /\ req'[r].total = quote'[q].total
  BY <1>2 DEF Wrote
<1> QED
  BY <1>1, <1>2

(* The arrival of a call that finds what its checks ask for. *)
LEMMA ArrivalKeepsSInv ==
  ASSUME IInv, SInv, NEW r \in Requests, At(r, "idle"), InFlight = {},
         UNCHANGED <<quote, details, lock, order>>,
         \A p \in Requests : p # r => req'[p] = req[p],
         \/ req'[r].pc = "rejected"
         \/ /\ req'[r].pc \in {"cancel_write", "edit_delete", "insert_order"}
            /\ req'[r].quote \in Quotes /\ PendingQuote(req'[r].quote)
            /\ req'[r].pc = "edit_delete" => req'[r].total \in Totals
            /\ req'[r].pc = "insert_order" => req'[r].total = quote[req'[r].quote].total
         \/ /\ req'[r].pc = "remove_write"
            /\ quote[req'[r].quote].status \in {"PENDING", "CANCELLED"}
            /\ ~quote[req'[r].quote].deleted
         \/ /\ req'[r].pc \in {"status_write", "reason_write"}
            /\ order[req'[r].order].status = "IN_PRODUCTION"
         \/ req'[r].pc = "purge_write" /\ order[req'[r].order].status = "CANCELLED"
  PROVE  SInv'
<1>1. Alone' /\ \A p \in Requests : req'[p].pc \in Steps => p = r
  BY StaysAlone
<1>2. req[r].pc \notin Outcomes /\ order[r].tx = "none"
  BY DEF At, Outcomes, IInv, OrdersFollowCalls, OpenSteps, Committed, TypeOK, OrderRow
<1>3. QuotesAddUp'
  BY <1>2, AddsUpStill DEF SInv
<1>4. OrdersKeepTheirQuotes'
  BY <1>2 DEF SInv, OrdersKeepTheirQuotes, ApprovedQuote, Committed
<1>5. ReasonMeansCancelled' /\ NeverRejected'
  BY DEF SInv, ReasonMeansCancelled, NeverRejected
<1>6. ASSUME req'[r].pc = "insert_order" PROVE Unordered(req[r].quote)'
  BY <1>6 DEF SInv, OrdersKeepTheirQuotes, PendingQuote, ApprovedQuote, Unordered, Committed
<1>7. ReadHolds(r)'
  BY <1>6 DEF ReadHolds, PendingQuote, CreateOrderSteps, UpdateQuoteSteps, DeleteQuoteSteps
<1>8. WhatCallsRead'
  BY <1>1, <1>7, ReadsOfOne
<1> QED
  BY <1>1, <1>3, <1>4, <1>5, <1>8 DEF SInv

(* Nothing is there before the first call. *)
LEMMA InitSInv == Init => SInv
<1> SUFFICES ASSUME Init PROVE SInv
  OBVIOUS
<1>1. /\ \A r \in Requests : /\ req[r].pc = "idle" /\ order[r].tx = "none"
                             /\ order[r].status = "IN_PRODUCTION"
                             /\ ~order[r].deleted /\ ~order[r].reason
      /\ \A q \in Quotes : quote[q].status = NoRow /\ ~quote[q].deleted
  BY DEF Init, NoOrder
<1>2. Alone /\ WhatCallsRead
  BY <1>1 DEF Alone, WhatCallsRead, ReadHolds, InFlight, Steps, CreateOrderSteps,
     UpdateQuoteSteps, DeleteQuoteSteps, OrderSteps
<1>3. QuotesAddUp /\ OrdersKeepTheirQuotes /\ ReasonMeansCancelled /\ NeverRejected
  BY <1>1 DEF QuotesAddUp, OrdersKeepTheirQuotes, ReasonMeansCancelled, NeverRejected, Committed,
     NoRow
<1> QED
  BY <1>2, <1>3 DEF SInv

(* A rollback takes back what no other call has seen. *)
LEMMA RollbackKeepsSInv ==
  ASSUME IInv, SInv, NEW r \in Requests, r \in InFlight,
         NEW outcome \in {"rejected", "error"}, Rollback(r, outcome)
  PROVE  SInv'
<1>0. TypeOK
  BY DEF IInv
<1>1. /\ UNCHANGED <<quote, details>> /\ req'[r].pc = outcome
      /\ \A p \in Requests : p # r => req'[p] = req[p]
  BY <1>0, CallMoves DEF Rollback
<1>2. \A o \in Requests : order'[o] = IF o = r /\ order[o].tx = "open" THEN NoOrder ELSE order[o]
  BY <1>0 DEF Rollback, TypeOK
<1>3. req[r].pc \notin Outcomes
  BY DEF InFlight, Outcomes, Steps, CreateOrderSteps, UpdateQuoteSteps, DeleteQuoteSteps,
     OrderSteps
<1>4. Alone' /\ \A p \in Requests : req'[p].pc \in Steps => p = r
  BY <1>1, StaysAlone DEF SInv, Alone
<1>5. ReadHolds(r)'
  BY <1>1 DEF ReadHolds, CreateOrderSteps, UpdateQuoteSteps, DeleteQuoteSteps
<1>6. WhatCallsRead'
  BY <1>4, <1>5, ReadsOfOne
<1>7. QuotesAddUp'
  BY <1>1, <1>3, AddsUpStill DEF SInv
<1>8. \A o \in Requests : /\ Committed(o)' <=> Committed(o)
                          /\ Committed(o) => order'[o] = order[o]
                          /\ ~Committed(o) => /\ order'[o].status = "IN_PRODUCTION"
                                              /\ ~order'[o].deleted
                          /\ order'[o].tx = "open" => order[o].tx = "open" /\ o # r
                                                      /\ order'[o] = order[o]
  BY <1>2 DEF NoOrder, Committed, SInv, OrdersKeepTheirQuotes, IInv, TypeOK, OrderRow
<1>9. OrdersKeepTheirQuotes'
  BY <1>1, <1>8 DEF SInv, OrdersKeepTheirQuotes, ApprovedQuote, Committed
<1>10. ReasonMeansCancelled' /\ NeverRejected'
  BY <1>1, <1>2 DEF SInv, ReasonMeansCancelled, NeverRejected, NoOrder
<1> QED
  BY <1>4, <1>6, <1>7, <1>9, <1>10 DEF SInv

(* A step of the only call served that writes neither a quote nor an order.*)
LEMMA MoveKeepsSInv ==
  ASSUME IInv, SInv, NEW r \in Requests, r \in InFlight,
         UNCHANGED <<quote, details, order>>,
         \A p \in Requests : p # r => req'[p] = req[p],
         req'[r].total = req[r].total,
         ReadHolds(r)'
  PROVE  SInv'
<1>1. Alone' /\ \A p \in Requests : req'[p].pc \in Steps => p = r
  BY StaysAlone DEF SInv, Alone
<1>2. WhatCallsRead'
  BY <1>1, ReadsOfOne
<1>3. req[r].pc \notin Outcomes
  BY DEF InFlight, Outcomes, Steps, CreateOrderSteps, UpdateQuoteSteps, DeleteQuoteSteps,
     OrderSteps
<1>4. QuotesAddUp'
  BY <1>3, AddsUpStill DEF SInv
<1>5. OrdersKeepTheirQuotes' /\ ReasonMeansCancelled' /\ NeverRejected'
  BY DEF SInv, OrdersKeepTheirQuotes, ReasonMeansCancelled, NeverRejected, ApprovedQuote, Committed
<1> QED
  BY <1>1, <1>2, <1>4, <1>5 DEF SInv

(* Served one at a time, calls keep what they have read until they end.    *)
LEMMA StepSInv ==
  ASSUME MaxInFlight = 1, IsFiniteSet(Requests)
  PROVE  IInv /\ PInv /\ SInv /\ [Next]_vars => SInv'
<1> SUFFICES ASSUME IInv, PInv, SInv, [Next]_vars PROVE SInv'
  OBVIOUS
<1>0. TypeOK
  BY DEF IInv
<1>s. /\ CreateOrderSteps \subseteq Steps /\ UpdateQuoteSteps \subseteq Steps
      /\ DeleteQuoteSteps \subseteq Steps /\ OrderSteps \subseteq Steps
      /\ "cancel_write" \in Steps
  BY DEF Steps
<1>q. ASSUME NEW r \in Requests, req[r].pc \in QuoteSteps
      PROVE  /\ req[r].quote \in Quotes /\ quote[req[r].quote].status # NoRow
             /\ r \in InFlight
  BY <1>q, <1>s DEF IInv, PInv, CallsNameRows, CallsFoundQuotes, QuoteSteps, InFlight
<1>m. ASSUME NEW r \in Requests, NEW step, Goto(r, step)
      PROVE  /\ \A p \in Requests : p # r => req'[p] = req[p]
             /\ req'[r].op = req[r].op /\ req'[r].quote = req[r].quote
             /\ req'[r].total = req[r].total /\ req'[r].seen = req[r].seen
             /\ req'[r].pc = step
  BY <1>0, <1>m, CallMoves
<1>a. ASSUME NEW r \in Requests, r \in InFlight, Answer(r)
      PROVE  /\ \A p \in Requests : p # r => req'[p] = req[p]
             /\ req'[r].op = req[r].op /\ req'[r].quote = req[r].quote
             /\ req'[r].total = req[r].total
             /\ req'[r].pc \in {"ok", "lost"} /\ req[r].pc \notin Outcomes
             /\ Alone' /\ WhatCallsRead'
  <2>1. /\ \A p \in Requests : p # r => req'[p] = req[p]
        /\ req'[r].op = req[r].op /\ req'[r].quote = req[r].quote
        /\ req'[r].total = req[r].total
        /\ req'[r].pc \in {"ok", "lost"}
    BY <1>a, <1>m DEF Answer
  <2>2. req[r].pc \notin Outcomes
    BY <1>a DEF InFlight, Outcomes, Steps, CreateOrderSteps, UpdateQuoteSteps,
       DeleteQuoteSteps, OrderSteps
  <2>3. Alone' /\ \A p \in Requests : req'[p].pc \in Steps => p = r
    BY <1>a, <2>1, StaysAlone DEF SInv, Alone
  <2>4. ReadHolds(r)'
    BY <2>1 DEF ReadHolds, CreateOrderSteps, UpdateQuoteSteps, DeleteQuoteSteps
  <2> QED
    BY <2>1, <2>2, <2>3, <2>4, ReadsOfOne
<1>1. ASSUME NEW r \in Requests, NEW q \in Quotes, NEW t \in Totals, CreateQuote(r, q, t)
      PROVE  SInv'
  <2>1. /\ At(r, "idle") /\ UNCHANGED <<lock, order>> /\ InFlight = {}
        /\ quote[q].status = NoRow
        /\ \A p \in Requests : p # r => req'[p] = req[p]
        /\ req'[r].op = "createQuote" /\ req'[r].pc = "ok"
        /\ req'[r].quote = q /\ req'[r].total = t
    BY <1>1, <1>0, CallMoves, ArrivesAlone DEF CreateQuote, Arrive
  <2>2. /\ quote'[q].status = "PENDING" /\ quote'[q].total = t
        /\ ~quote'[q].deleted /\ details'[q] = {r}
        /\ \A p \in Quotes : p # q => quote'[p] = quote[p] /\ details'[p] = details[p]
    BY <1>1, <1>0 DEF CreateQuote, TypeOK
  <2>3. req[r].pc \notin Outcomes /\ order[r].tx = "none"
    BY <2>1, <1>0 DEF At, Outcomes, IInv, OrdersFollowCalls, OpenSteps, Committed, TypeOK, OrderRow
  <2>4. Alone' /\ \A p \in Requests : req'[p].pc \in Steps => p = r
    BY <2>1, StaysAlone
  <2>5. ReadHolds(r)'
    BY <2>1 DEF ReadHolds, CreateOrderSteps, UpdateQuoteSteps, DeleteQuoteSteps
  <2>6. WhatCallsRead'
    BY <2>4, <2>5, ReadsOfOne
  <2>7. \A p \in Quotes :
          \/ /\ quote'[p].status = NoRow <=> quote[p].status = NoRow
             /\ quote'[p].total = quote[p].total /\ details'[p] = details[p]
             /\ quote[p].status = NoRow => quote'[p].deleted = quote[p].deleted
          \/ /\ quote'[p].status # NoRow /\ details'[p] = {r}
             /\ req'[r].op \in {"createQuote", "updateQuote"}
             /\ req'[r].pc \in {"ok", "lost"}
             /\ req'[r].quote = p /\ req'[r].total = quote'[p].total
    BY <2>1, <2>2 DEF NoRow
  <2>8. QuotesAddUp'
    BY <2>1, <2>3, <2>7, AddsUpStill DEF SInv
  <2>9. \A o \in Requests : Committed(o) => order[o].quote \in Quotes /\ order[o].quote # q
    BY <2>1 DEF SInv, OrdersKeepTheirQuotes, ApprovedQuote, NoRow, IInv, OrdersFollowCalls, Committed
  <2>10. OrdersKeepTheirQuotes'
    BY <2>1, <2>2, <2>3, <2>9 DEF SInv, OrdersKeepTheirQuotes, ApprovedQuote, Committed
  <2>11. ReasonMeansCancelled' /\ NeverRejected'
    BY <2>1, <2>2 DEF SInv, ReasonMeansCancelled, NeverRejected
  <2> QED
    BY <2>4, <2>6, <2>8, <2>10, <2>11 DEF SInv
<1>2. ASSUME NEW r \in Requests, NEW q \in Quotes,
             \/ CreateOrder(r, q) \/ CancelQuote(r, q) \/ DeleteQuote(r, q)
             \/ \E t \in Totals : UpdateQuote(r, q, t)
      PROVE  SInv'
  <2>1. /\ At(r, "idle") /\ UNCHANGED <<quote, details, lock, order>>
        /\ \E op : Arrive(r, op)
        /\ \A p \in Requests : p # r => req'[p] = req[p]
        /\ req'[r].quote = q
        /\ \/ req'[r].pc = "rejected"
           \/ req'[r].pc = "cancel_write" /\ PendingQuote(q)
           \/ /\ req'[r].pc = "remove_write" /\ quote[q].status # "APPROVED"
              /\ QuoteFound(q)
           \/ req'[r].pc = "edit_delete" /\ PendingQuote(q) /\ req'[r].total \in Totals
           \/ /\ req'[r].pc = "insert_order" /\ PendingQuote(q)
              /\ req'[r].total = quote[q].total
    BY <1>2, <1>0, CallMoves DEF CreateOrder, CancelQuote, DeleteQuote, UpdateQuote, Arrive,
       FirstStep, QuoteFound, PendingQuote
  <2>2. InFlight = {}
    BY <2>1, ArrivesAlone
  <2>3. QuoteFound(q) /\ quote[q].status # "APPROVED"
          => quote[q].status \in {"PENDING", "CANCELLED"} /\ ~quote[q].deleted
    BY <1>0 DEF QuoteFound, TypeOK, QuoteRow, QuoteStatus, SInv, NeverRejected
  <2> QED
    BY <2>1, <2>2, <2>3, ArrivalKeepsSInv
<1>3. ASSUME NEW r \in Requests, NEW o \in Requests,
             \/ CancelOrder(r, o) \/ DeleteOrder(r, o)
             \/ \E s \in OrderStatus : UpdateOrderStatus(r, o, s)
      PROVE  SInv'
  <2>0. order[o].status \in OrderStatus
    BY <1>0 DEF TypeOK, OrderRow
  <2>1. /\ At(r, "idle") /\ UNCHANGED <<quote, details, lock, order>>
        /\ \E op : Arrive(r, op)
        /\ \A p \in Requests : p # r => req'[p] = req[p]
        /\ req'[r].order = o
        /\ \/ req'[r].pc = "rejected"
           \/ /\ req'[r].pc \in {"status_write", "reason_write"}
              /\ order[o].status = "IN_PRODUCTION"
           \/ req'[r].pc = "purge_write" /\ order[o].status = "CANCELLED"
    BY <1>3, <1>0, <2>0, CallMoves DEF CancelOrder, DeleteOrder, UpdateOrderStatus, Arrive,
       FirstStep, OrderStatus
  <2>2. InFlight = {}
    BY <2>1, ArrivesAlone
  <2> QED
    BY <2>1, <2>2, ArrivalKeepsSInv
<1>4. ASSUME NEW r \in Requests, InsertOrder(r) PROVE SInv'
  <2>1. /\ req[r].pc = "insert_order" /\ UNCHANGED <<quote, details, lock>>
        /\ req[r].quote \in Quotes /\ r \in InFlight /\ ~Committed(r)
    BY <1>4, <1>q DEF InsertOrder, At, CreateOrderSteps, QuoteSteps, IInv, OrdersFollowCalls
  <2>2. ReadHolds(r) /\ PendingQuote(req[r].quote) /\ Unordered(req[r].quote)
        /\ req[r].total = quote[req[r].quote].total
    BY <2>1 DEF SInv, WhatCallsRead, ReadHolds, CreateOrderSteps
  <2>3. CASE Goto(r, "rejected") /\ UNCHANGED order
    <3>1. ReadHolds(r)'
      BY <2>3, <1>m DEF ReadHolds, CreateOrderSteps, UpdateQuoteSteps, DeleteQuoteSteps
    <3> QED
      BY <2>1, <2>3, <3>1, <1>m, MoveKeepsSInv
  <2>4. CASE /\ order' = [order EXCEPT ![r] =
                 [tx |-> "open", quote |-> req[r].quote, total |-> req[r].total,
                  status |-> "IN_PRODUCTION", reason |-> FALSE, deleted |-> FALSE]]
             /\ Goto(r, "approve_read")
    <3>1. /\ order'[r].tx = "open" /\ order'[r].total = req[r].total /\ ~order'[r].reason
          /\ order'[r].status = "IN_PRODUCTION" /\ ~order'[r].deleted
          /\ \A o \in Requests : o # r => order'[o] = order[o]
      BY <2>4, <1>0 DEF TypeOK
    <3>2. /\ \A p \in Requests : p # r => req'[p] = req[p]
          /\ req'[r].pc = "approve_read" /\ req'[r].quote = req[r].quote
          /\ req'[r].total = req[r].total
      BY <2>4, <1>m
    <3>3. Alone' /\ \A p \in Requests : req'[p].pc \in Steps => p = r
      BY <2>1, <3>2, StaysAlone DEF SInv, Alone
    <3>4. Unordered(req[r].quote)'
      BY <2>2, <3>1, <3>2 DEF Unordered, Committed
    <3>5. ReadHolds(r)'
      BY <2>1, <2>2, <3>2, <3>4 DEF ReadHolds, PendingQuote, CreateOrderSteps, UpdateQuoteSteps,
         DeleteQuoteSteps
    <3>6. WhatCallsRead'
      BY <3>3, <3>5, ReadsOfOne
    <3>7. QuotesAddUp'
      BY <2>1, <3>2, AddsUpStill DEF SInv, Outcomes
    <3>8. OrdersKeepTheirQuotes'
      BY <2>1, <3>1, <3>2 DEF SInv, OrdersKeepTheirQuotes, ApprovedQuote, Committed
    <3>9. ReasonMeansCancelled' /\ NeverRejected'
      BY <2>1, <3>1 DEF SInv, ReasonMeansCancelled, NeverRejected
    <3> QED
      BY <3>3, <3>6, <3>7, <3>8, <3>9 DEF SInv
  <2> QED
    BY <1>4, <2>3, <2>4 DEF InsertOrder
<1>5. ASSUME NEW r \in Requests, ApproveRead(r) \/ ApproveReread(r) PROVE SInv'
  <2>1. /\ req[r].pc \in {"approve_read", "approve_reread"} /\ r \in InFlight
    BY <1>5, <1>q DEF ApproveRead, ApproveReread, At, CreateOrderSteps, QuoteSteps
  <2>2. ReadHolds(r)
    BY DEF SInv, WhatCallsRead
  <2>3. CASE Rollback(r, "rejected")
    BY <2>1, <2>3, RollbackKeepsSInv
  <2>4. CASE /\ UNCHANGED <<quote, details, lock, order>>
             /\ \/ req[r].pc = "approve_read" /\ Goto(r, "approve_write")
                \/ req[r].pc = "approve_reread" /\ Goto(r, "commit_order")
    <3>1. /\ \A p \in Requests : p # r => req'[p] = req[p]
          /\ req'[r].quote = req[r].quote /\ req'[r].total = req[r].total
          /\ \/ req[r].pc = "approve_read" /\ req'[r].pc = "approve_write"
             \/ req[r].pc = "approve_reread" /\ req'[r].pc = "commit_order"
      BY <2>4, <1>m
    <3>2. ReadHolds(r)'
      BY <2>2, <2>4, <3>1 DEF ReadHolds, PendingQuote, ApprovedQuote, Unordered, Committed,
         CreateOrderSteps, UpdateQuoteSteps, DeleteQuoteSteps
    <3> QED
      BY <2>1, <2>4, <3>1, <3>2, MoveKeepsSInv
  <2> QED
    BY <1>5, <2>3, <2>4 DEF ApproveRead, ApproveReread, At
<1>6. ASSUME NEW r \in Requests, ApproveWrite(r) PROVE SInv'
  <2>1. /\ req[r].pc = "approve_write" /\ UNCHANGED <<details, lock, order>>
        /\ req[r].quote \in Quotes /\ r \in InFlight /\ quote[req[r].quote].status # NoRow
    BY <1>6, <1>q DEF ApproveWrite, At, CreateOrderSteps, QuoteSteps
  <2>2. ReadHolds(r) /\ PendingQuote(req[r].quote) /\ Unordered(req[r].quote)
        /\ req[r].total = quote[req[r].quote].total
    BY <2>1 DEF SInv, WhatCallsRead, ReadHolds, CreateOrderSteps
  <2>3. \A q \in Quotes :
          /\ quote'[q].total = quote[q].total /\ quote'[q].deleted = quote[q].deleted
          /\ quote'[q].status = IF q = req[r].quote THEN "APPROVED" ELSE quote[q].status
    BY <1>6, <2>1, <1>0 DEF ApproveWrite, TypeOK, QuoteRow
  <2>4. /\ \A p \in Requests : p # r => req'[p] = req[p]
        /\ req'[r].pc = "approve_reread" /\ req'[r].quote = req[r].quote
        /\ req'[r].total = req[r].total
    BY <1>6, <1>m DEF ApproveWrite
  <2>5. Alone' /\ \A p \in Requests : req'[p].pc \in Steps => p = r
    BY <2>1, <2>4, StaysAlone DEF SInv, Alone
  <2>6. Unordered(req[r].quote)'
    BY <2>1, <2>2, <2>4 DEF Unordered, Committed
  <2>7. ReadHolds(r)'
    BY <2>1, <2>2, <2>3, <2>4, <2>6 DEF ReadHolds, PendingQuote, ApprovedQuote,
       CreateOrderSteps, UpdateQuoteSteps, DeleteQuoteSteps
  <2>8. WhatCallsRead'
    BY <2>5, <2>7, ReadsOfOne
  <2>9. \A q \in Quotes : quote'[q].status = NoRow <=> quote[q].status = NoRow
    BY <2>1, <2>3 DEF NoRow
  <2>10. QuotesAddUp'
    BY <2>1, <2>3, <2>4, <2>9, AddsUpStill DEF SInv, Outcomes
  <2>11. \A o \in Requests : Committed(o) => order[o].quote \in Quotes
    BY DEF IInv, OrdersFollowCalls, Committed
  <2>12. OrdersKeepTheirQuotes'
    BY <2>1, <2>3, <2>4, <2>11 DEF SInv, OrdersKeepTheirQuotes, ApprovedQuote, Committed
  <2>13. ReasonMeansCancelled' /\ NeverRejected'
    BY <2>1, <2>3 DEF SInv, ReasonMeansCancelled, NeverRejected
  <2> QED
    BY <2>5, <2>8, <2>10, <2>12, <2>13 DEF SInv
<1>7. ASSUME NEW r \in Requests, CommitOrder(r) PROVE SInv'
  <2>1. /\ req[r].pc = "commit_order" /\ UNCHANGED <<quote, details, lock>>
        /\ req[r].quote \in Quotes /\ r \in InFlight /\ Answer(r) /\ order[r].tx = "open"
        /\ order[r].quote = req[r].quote
    BY <1>7, <1>q DEF CommitOrder, At, CreateOrderSteps, QuoteSteps, IInv, OrdersFollowCalls,
       OpenSteps
  <2>2. /\ ApprovedQuote(req[r].quote) /\ Unordered(req[r].quote)
        /\ req[r].total = quote[req[r].quote].total
    BY <2>1 DEF SInv, WhatCallsRead, ReadHolds, CreateOrderSteps
  <2>3. /\ order'[r].tx = "committed" /\ order'[r].quote = req[r].quote
        /\ order'[r].total = order[r].total /\ order'[r].status = order[r].status
        /\ order'[r].reason = order[r].reason
        /\ \A o \in Requests : o # r => order'[o] = order[o]
    BY <1>7, <2>1, <1>0 DEF CommitOrder, TypeOK, OrderRow
  <2>4. QuotesAddUp'
    BY <2>1, <1>a, AddsUpStill DEF SInv
  <2>5. order[r].total = req[r].total
    BY <2>1 DEF SInv, OrdersKeepTheirQuotes
  <2>6. OrdersKeepTheirQuotes'
    BY <2>1, <2>2, <2>3, <2>5, <1>a
       DEF SInv, OrdersKeepTheirQuotes, ApprovedQuote, Unordered, Committed
  <2>7. ReasonMeansCancelled' /\ NeverRejected'
    BY <2>1, <2>3 DEF SInv, ReasonMeansCancelled, NeverRejected
  <2> QED
    BY <2>1, <2>4, <2>6, <2>7, <1>a DEF SInv
<1>8. ASSUME NEW r \in Requests, CancelWrite(r) PROVE SInv'
  <2>1. /\ req[r].pc = "cancel_write" /\ UNCHANGED <<details, lock, order>>
        /\ req[r].quote \in Quotes /\ r \in InFlight /\ Answer(r)
        /\ quote[req[r].quote].status # NoRow
    BY <1>8, <1>q DEF CancelWrite, At, QuoteSteps
  <2>2. PendingQuote(req[r].quote)
    BY <2>1 DEF SInv, WhatCallsRead, ReadHolds
  <2>3. \A q \in Quotes :
          /\ quote'[q].total = quote[q].total /\ quote'[q].deleted = quote[q].deleted
          /\ quote'[q].status = IF q = req[r].quote THEN "CANCELLED" ELSE quote[q].status
    BY <1>8, <2>1, <1>0 DEF CancelWrite, TypeOK, QuoteRow
  <2>4. \A q \in Quotes : quote'[q].status = NoRow <=> quote[q].status = NoRow
    BY <2>1, <2>3 DEF NoRow
  <2>5. QuotesAddUp'
    BY <2>1, <2>3, <2>4, <1>a, AddsUpStill DEF SInv
  <2>6. \A o \in Requests : Committed(o) => order[o].quote \in Quotes /\ order[o].quote # req[r].quote
    BY <2>2 DEF SInv, OrdersKeepTheirQuotes, PendingQuote, ApprovedQuote, IInv,
       OrdersFollowCalls, Committed
  <2>7. \A o \in Requests : order[o].tx = "open" => o # r
    BY <2>1 DEF IInv, OrdersFollowCalls, OpenSteps
  <2>8. OrdersKeepTheirQuotes'
    BY <2>1, <2>3, <2>6, <2>7, <1>a DEF SInv, OrdersKeepTheirQuotes, ApprovedQuote, Committed
  <2>9. ReasonMeansCancelled' /\ NeverRejected'
    BY <2>1, <2>3 DEF SInv, ReasonMeansCancelled, NeverRejected
  <2> QED
    BY <2>1, <2>5, <2>8, <2>9, <1>a DEF SInv
<1>9. ASSUME NEW r \in Requests, EditDelete(r) PROVE SInv'
  <2>1. /\ req[r].pc = "edit_delete" /\ UNCHANGED <<quote, details, lock, order>>
        /\ r \in InFlight
    BY <1>9, <1>q DEF EditDelete, At, UpdateQuoteSteps, QuoteSteps
  <2>2. /\ \A p \in Requests : p # r => req'[p] = req[p]
        /\ req'[r].pc = "edit_wait" /\ req'[r].seen = details[req[r].quote]
        /\ req'[r].quote = req[r].quote /\ req'[r].total = req[r].total
    BY <1>9, <1>0 DEF EditDelete, TypeOK, Request
  <2>3. ReadHolds(r)'
    BY <2>1, <2>2 DEF SInv, WhatCallsRead, ReadHolds, PendingQuote, CreateOrderSteps,
       UpdateQuoteSteps, DeleteQuoteSteps
  <2> QED
    BY <2>1, <2>2, <2>3, MoveKeepsSInv
<1>10. ASSUME NEW r \in Requests, EditWait(r) \/ EditTotal(r) \/ RemoveWrite(r) PROVE SInv'
  <2>1. /\ req[r].pc \in {"edit_wait", "edit_total", "remove_write"}
        /\ UNCHANGED <<quote, details, order>> /\ r \in InFlight
    BY <1>10, <1>q DEF EditWait, EditTotal, RemoveWrite, At, UpdateQuoteSteps,
       DeleteQuoteSteps, QuoteSteps
  <2>2. /\ \A p \in Requests : p # r => req'[p] = req[p]
        /\ \/ /\ req[r].pc \in {"edit_wait", "edit_total"}
              /\ req'[r].pc \in {"edit_total", "edit_commit"}
           \/ req[r].pc = "remove_write" /\ req'[r].pc = "remove_commit"
        /\ req'[r].quote = req[r].quote /\ req'[r].total = req[r].total
        /\ req'[r].seen = req[r].seen
    BY <1>10, <1>m DEF EditWait, EditTotal, RemoveWrite, At
  <2>3. ReadHolds(r)
    BY DEF SInv, WhatCallsRead
  <2>4. ReadHolds(r)'
    BY <2>1, <2>2, <2>3 DEF ReadHolds, PendingQuote, CreateOrderSteps, UpdateQuoteSteps,
       DeleteQuoteSteps
  <2> QED
    BY <2>1, <2>2, <2>4, MoveKeepsSInv
<1>11. ASSUME NEW r \in Requests, EditCommit(r) PROVE SInv'
  <2>1. /\ req[r].pc = "edit_commit" /\ UNCHANGED order /\ Answer(r)
        /\ req[r].op = "updateQuote" /\ r \in InFlight
        /\ req[r].quote \in Quotes /\ quote[req[r].quote].status # NoRow
    BY <1>11, <1>q DEF EditCommit, At, UpdateQuoteSteps, QuoteSteps, PInv, CallsKeepTheirOps
  <2>2. PendingQuote(req[r].quote) /\ req[r].seen = details[req[r].quote]
    BY <2>1 DEF SInv, WhatCallsRead, ReadHolds, UpdateQuoteSteps
  <2>3. \A q \in Quotes :
          /\ quote'[q].status = quote[q].status /\ quote'[q].deleted = quote[q].deleted
          /\ quote'[q].total = IF q = req[r].quote THEN req[r].total ELSE quote[q].total
          /\ q # req[r].quote => details'[q] = details[q]
          /\ details'[req[r].quote] = {r}
    BY <1>11, <2>1, <2>2, <1>0 DEF EditCommit, TypeOK, QuoteRow
  <2>4. QuotesAddUp'
    BY <2>1, <2>3, <1>a, AddsUpStill DEF SInv
  <2>5. \A o \in Requests : Committed(o) => order[o].quote \in Quotes /\ order[o].quote # req[r].quote
    BY <2>2 DEF SInv, OrdersKeepTheirQuotes, PendingQuote, ApprovedQuote, IInv,
       OrdersFollowCalls, Committed
  <2>6. \A o \in Requests : order[o].tx = "open" => o # r
    BY <2>1 DEF IInv, OrdersFollowCalls, OpenSteps
  <2>7. OrdersKeepTheirQuotes'
    BY <2>1, <2>3, <2>5, <2>6, <1>a DEF SInv, OrdersKeepTheirQuotes, ApprovedQuote, Committed
  <2>8. ReasonMeansCancelled' /\ NeverRejected'
    BY <2>1, <2>3 DEF SInv, ReasonMeansCancelled, NeverRejected
  <2> QED
    BY <2>1, <2>4, <2>7, <2>8, <1>a DEF SInv
<1>12. ASSUME NEW r \in Requests, RemoveCommit(r) PROVE SInv'
  <2>1. /\ req[r].pc = "remove_commit" /\ UNCHANGED <<details, order>> /\ Answer(r)
        /\ r \in InFlight
        /\ req[r].quote \in Quotes /\ quote[req[r].quote].status # NoRow
    BY <1>12, <1>q DEF RemoveCommit, At, DeleteQuoteSteps, QuoteSteps
  <2>2. quote[req[r].quote].status \in {"PENDING", "CANCELLED"}
    BY <2>1 DEF SInv, WhatCallsRead, ReadHolds, DeleteQuoteSteps
  <2>3. \A q \in Quotes :
          /\ quote'[q].status = quote[q].status /\ quote'[q].total = quote[q].total
          /\ q # req[r].quote => quote'[q].deleted = quote[q].deleted
    BY <1>12, <2>1, <1>0 DEF RemoveCommit, TypeOK, QuoteRow
  <2>4. QuotesAddUp'
    BY <2>1, <2>3, <1>a, AddsUpStill DEF SInv
  <2>5. \A o \in Requests : Committed(o) => order[o].quote \in Quotes /\ order[o].quote # req[r].quote
    BY <2>2 DEF SInv, OrdersKeepTheirQuotes, ApprovedQuote, IInv, OrdersFollowCalls, Committed
  <2>6. \A o \in Requests : order[o].tx = "open" => o # r
    BY <2>1 DEF IInv, OrdersFollowCalls, OpenSteps
  <2>7. OrdersKeepTheirQuotes'
    BY <2>1, <2>3, <2>5, <2>6, <1>a DEF SInv, OrdersKeepTheirQuotes, ApprovedQuote, Committed
  <2>8. ReasonMeansCancelled' /\ NeverRejected'
    BY <2>1, <2>3 DEF SInv, ReasonMeansCancelled, NeverRejected
  <2> QED
    BY <2>1, <2>4, <2>7, <2>8, <1>a DEF SInv
<1>13. ASSUME NEW r \in Requests, StatusWrite(r) \/ ReasonWrite(r) \/ PurgeWrite(r)
       PROVE  SInv'
  <2>1. /\ req[r].pc \in {"status_write", "reason_write", "purge_write"}
        /\ UNCHANGED <<quote, details, lock>> /\ Answer(r) /\ r \in InFlight
        /\ req[r].order \in Requests /\ Committed(req[r].order)
    BY <1>13, <1>s DEF StatusWrite, ReasonWrite, PurgeWrite, At, OrderSteps, InFlight, IInv,
       CallsNameRows
  <2>2. /\ req[r].pc \in {"status_write", "reason_write"}
             => order[req[r].order].status = "IN_PRODUCTION"
        /\ req[r].pc = "purge_write" => order[req[r].order].status = "CANCELLED"
    BY DEF SInv, WhatCallsRead, ReadHolds
  <2>3. /\ \A o \in Requests : o # req[r].order => order'[o] = order[o]
        /\ order'[req[r].order].tx = order[req[r].order].tx
        /\ order'[req[r].order].quote = order[req[r].order].quote
        /\ order'[req[r].order].total = order[req[r].order].total
        /\ \/ order'[req[r].order].status = "CANCELLED"
           \/ order'[req[r].order].reason = order[req[r].order].reason
              /\ order[req[r].order].status = "IN_PRODUCTION"
    <3>1. CASE StatusWrite(r)
      BY <3>1, <2>1, <2>2, <1>0 DEF StatusWrite, At, TypeOK, OrderRow
    <3>2. CASE ReasonWrite(r)
      <4>1. ASSUME NEW x \in OrderRow, NEW y, y = [x EXCEPT !.status = "CANCELLED", !.reason = TRUE]
            PROVE  y.tx = x.tx /\ y.quote = x.quote /\ y.total = x.total /\ y.status = "CANCELLED"
        BY <4>1 DEF OrderRow
      <4>2. /\ order'[req[r].order] =
                 [order[req[r].order] EXCEPT !.status = "CANCELLED", !.reason = TRUE]
            /\ \A o \in Requests : o # req[r].order => order'[o] = order[o]
        BY <3>2, <2>1, <1>0 DEF ReasonWrite, TypeOK
      <4>3. order[req[r].order] \in OrderRow
        BY <2>1, <1>0 DEF TypeOK
      <4> QED
        BY <4>1, <4>2, <4>3
    <3>3. CASE PurgeWrite(r)
      BY <3>3, <2>1, <2>2, <1>0 DEF PurgeWrite, At, TypeOK, OrderRow
    <3> QED
      BY <1>13, <3>1, <3>2, <3>3
  <2>4. QuotesAddUp'
    BY <2>1, <1>a, AddsUpStill DEF SInv
  <2>5. \A o \in Requests : order[o].tx = "open" => o # r
    BY <2>1 DEF IInv, OrdersFollowCalls, OpenSteps
  <2>6. OrdersKeepTheirQuotes'
    BY <2>1, <2>3, <2>5, <1>a DEF SInv, OrdersKeepTheirQuotes, ApprovedQuote, Committed
  <2>7. ReasonMeansCancelled' /\ NeverRejected'
    BY <2>1, <2>3 DEF SInv, ReasonMeansCancelled, NeverRejected
  <2> QED
    BY <2>1, <2>4, <2>6, <2>7, <1>a DEF SInv
<1>14. ASSUME NEW r \in Requests, Fail(r) PROVE SInv'
  BY <1>14, RollbackKeepsSInv DEF Fail
<1>15. CASE UNCHANGED vars
  BY <1>15 DEF vars, SInv, Alone, WhatCallsRead, ReadHolds, QuotesAddUp, OrdersKeepTheirQuotes,
     ReasonMeansCancelled, NeverRejected, Wrote, InFlight, Committed, PendingQuote,
     ApprovedQuote, Unordered
<1>16. ASSUME NEW r \in Requests, Call(r) PROVE SInv'
  BY <1>16, <1>1, <1>2, <1>3 DEF Call
<1>17. ASSUME NEW r \in Requests, Continue(r) PROVE SInv'
  BY <1>17, <1>4, <1>5, <1>6, <1>7, <1>8, <1>9, <1>10, <1>11, <1>12, <1>13 DEF Continue
<1> QED
  BY <1>14, <1>15, <1>16, <1>17 DEF Next

(* Served one at a time, the calls keep SInv in every state. *)
THEOREM SerialInvariant ==
  ASSUME MaxInFlight = 1, IsFiniteSet(Requests)
  PROVE  Spec => []SInv
BY InductiveInvariant, PricesInvariant, InitSInv, StepSInv, PTL DEF Spec

(* Without overlap a quote yields at most one order: the check of          *)
(* createOrder is enough.                                                  *)
THEOREM OneOrderWhenServedAlone ==
  ASSUME MaxInFlight = 1, IsFiniteSet(Requests)
  PROVE  Spec => []OneOrderPerQuote
<1>1. SInv => OneOrderPerQuote
  <2> SUFFICES ASSUME SInv, NEW q \in Quotes PROVE Cardinality(OrdersOf(q)) <= 1
    BY DEF OneOrderPerQuote
  <2>1. \A o, p \in OrdersOf(q) : o = p
    BY DEF SInv, OrdersKeepTheirQuotes, OrdersOf
  <2>2. CASE OrdersOf(q) = {}
    BY <2>2, FS_EmptySet
  <2>3. CASE OrdersOf(q) # {}
    <3>1. PICK o : OrdersOf(q) = {o}
      BY <2>1, <2>3
    <3>2. Cardinality({o}) = 1
      BY FS_Singleton
    <3> QED
      BY <3>1, <3>2
  <2> QED
    BY <2>2, <2>3
<1> QED
  BY <1>1, SerialInvariant, PTL

(* Without overlap an order is charged what its quote says.                *)
THEOREM OrdersChargeTheirQuotes ==
  ASSUME MaxInFlight = 1, IsFiniteSet(Requests)
  PROVE  Spec => []OrderTotalIsQuoteTotal
<1>1. SInv => OrderTotalIsQuoteTotal
  BY DEF SInv, OrdersKeepTheirQuotes, OrderTotalIsQuoteTotal
<1> QED
  BY <1>1, SerialInvariant, PTL

(* Without overlap the details of a quote are those of its last edit.      *)
THEOREM QuotesAddUpWhenServedAlone ==
  ASSUME MaxInFlight = 1, IsFiniteSet(Requests)
  PROVE  Spec => []TotalIsSumOfDetails
<1>1. SInv => TotalIsSumOfDetails
  BY DEF SInv, QuotesAddUp, Wrote, TotalIsSumOfDetails
<1> QED
  BY <1>1, SerialInvariant, PTL

(* Without overlap no call takes up a cancelled order again.               *)
THEOREM ReasonsStand ==
  ASSUME MaxInFlight = 1, IsFiniteSet(Requests)
  PROVE  Spec => []ReasonMeansCancelled
<1>1. SInv => ReasonMeansCancelled
  BY DEF SInv
<1> QED
  BY <1>1, SerialInvariant, PTL
-----------------------------------------------------------------------------
(* The empty tables are the empty lifecycle. *)
LEMMA InitRefines == Init => Lifecycle!Init
<1> SUFFICES ASSUME Init PROVE Lifecycle!Init
  OBVIOUS
<1>1. quote = [q \in Quotes |-> Lifecycle!NoQuoteRow]
  BY DEF Init, Lifecycle!NoQuoteRow, NoRow
<1>2. ASSUME NEW o \in Requests PROVE PlacedOrder(o) = Lifecycle!NoOrderRow
  BY DEF Init, PlacedOrder, Committed, NoOrder, Lifecycle!NoOrderRow
<1> QED
  BY <1>1, <1>2 DEF Lifecycle!Init

OrderRows == Lifecycle!OrderRows

(* A row of an order that differs from another in the fields of an edit is *)
(* that edit of it.                                                        *)
LEMMA RowsAreTheirFields ==
  ASSUME NEW x \in OrderRows, NEW y \in OrderRows
  PROVE  /\ (/\ y.placed = x.placed /\ y.quote = x.quote /\ y.total = x.total
             /\ y.deleted = x.deleted)
              => y = [x EXCEPT !.status = y.status]
         /\ (/\ y.placed = x.placed /\ y.quote = x.quote /\ y.total = x.total
             /\ y.status = x.status)
              => y = [x EXCEPT !.deleted = y.deleted]
         /\ y.status = x.status /\ y.deleted = x.deleted
              => y = [x EXCEPT !.placed = y.placed, !.quote = y.quote, !.total = y.total]
<1> USE DEF OrderRows, Lifecycle!OrderRows
<1>1. ASSUME /\ y.placed = x.placed /\ y.quote = x.quote /\ y.total = x.total
             /\ y.deleted = x.deleted
      PROVE  y = [x EXCEPT !.status = y.status]
  BY <1>1
<1>2. ASSUME /\ y.placed = x.placed /\ y.quote = x.quote /\ y.total = x.total
             /\ y.status = x.status
      PROVE  y = [x EXCEPT !.deleted = y.deleted]
  BY <1>2
<1>3. ASSUME y.status = x.status, y.deleted = x.deleted
      PROVE  y = [x EXCEPT !.placed = y.placed, !.quote = y.quote, !.total = y.total]
  BY <1>3
<1> QED
  BY <1>1, <1>2, <1>3

(* So is a row of a quote. *)
LEMMA QuoteRowsAreTheirFields ==
  ASSUME NEW x \in QuoteRow, NEW y \in QuoteRow, y.deleted = x.deleted
  PROVE  y = [x EXCEPT !.status = y.status, !.total = y.total]
BY DEF QuoteRow

(* A placed order is a row of the lifecycle. *)
LEMMA PlacedRow == TypeOK => \A o \in Requests : PlacedOrder(o) \in OrderRows
<1> SUFFICES ASSUME TypeOK, NEW o \in Requests PROVE PlacedOrder(o) \in OrderRows
  OBVIOUS
<1>1. order[o] \in OrderRow
  BY DEF TypeOK
<1>2. /\ order[o].quote \in Quotes \cup {None} /\ order[o].total \in Totals \cup {None}
      /\ order[o].status \in {"IN_PRODUCTION", "DONE", "CANCELLED"}
      /\ order[o].deleted \in BOOLEAN
  BY <1>1 DEF OrderRow, OrderStatus
<1> QED
  BY <1>2 DEF PlacedOrder, Committed, OrderRows, Lifecycle!OrderRows

(* Placed is the table of orders as the lifecycle sees it. *)
Placed == [o \in Requests |-> PlacedOrder(o)]

(* What is not committed is not seen. *)
LEMMA OpenOrdersAreUnseen ==
  ASSUME \A o \in Requests :
           /\ Committed(o)' <=> Committed(o)
           /\ Committed(o) => order'[o] = order[o]
           /\ order'[o].status = order[o].status /\ order'[o].deleted = order[o].deleted
  PROVE  Placed' = Placed
<1>1. ASSUME NEW o \in Requests PROVE PlacedOrder(o)' = PlacedOrder(o)
  BY DEF PlacedOrder, Committed
<1> QED
  BY <1>1 DEF Placed

(* The only order that changes is the one a step of the lifecycle writes.  *)
LEMMA PlacedChanges ==
  ASSUME NEW o \in Requests, NEW row,
         \A p \in Requests : p # o => order'[p] = order[p],
         PlacedOrder(o)' = row
  PROVE  Placed' = [Placed EXCEPT ![o] = row]
<1>1. ASSUME NEW p \in Requests, p # o PROVE PlacedOrder(p)' = PlacedOrder(p)
  BY <1>1 DEF PlacedOrder, Committed
<1> QED
  BY <1>1 DEF Placed

(* A rollback is not seen. *)
LEMMA RollbackIsUnseen ==
  ASSUME IInv, SInv, NEW r \in Requests, NEW outcome, Rollback(r, outcome)
  PROVE  UNCHANGED quote /\ Placed' = Placed
<1>1. \A o \in Requests : order'[o] = IF o = r /\ order[o].tx = "open" THEN NoOrder ELSE order[o]
  BY DEF Rollback, IInv, TypeOK
<1>2. \A o \in Requests :
        /\ Committed(o)' <=> Committed(o)
        /\ Committed(o) => order'[o] = order[o]
        /\ order'[o].status = order[o].status /\ order'[o].deleted = order[o].deleted
  <2>1. ASSUME NEW o \in Requests, ~Committed(o)
        PROVE  order[o].status = "IN_PRODUCTION" /\ order[o].deleted = FALSE
    BY <2>1 DEF SInv, OrdersKeepTheirQuotes, IInv, TypeOK, OrderRow
  <2>2. NoOrder.tx = "none" /\ NoOrder.status = "IN_PRODUCTION" /\ NoOrder.deleted = FALSE
    BY DEF NoOrder
  <2> QED
    BY <1>1, <2>1, <2>2 DEF Committed
<1> QED
  BY <1>2, OpenOrdersAreUnseen DEF Rollback

(* Each step of a call that is served alone is a step of the lifecycle, or *)
(* changes nothing that the lifecycle sees.                                *)
LEMMA StepRefines ==
  ASSUME IInv, PInv, SInv, [Next]_vars
  PROVE  [Lifecycle!Next]_(Lifecycle!vars)
<1> DEFINE Goal == [Lifecycle!Next]_(Lifecycle!vars)
<1>0. TypeOK
  BY DEF IInv
<1>t. TypeOK'
  BY StepTypeOK DEF IInv
<1>p. \A o \in Requests : PlacedOrder(o) \in OrderRows /\ PlacedOrder(o)' \in OrderRows
  <2>1. (\A o \in Requests : PlacedOrder(o) \in OrderRows)'
    BY <1>t, PlacedRow, PTL
  <2> QED
    BY <1>0, <2>1, PlacedRow
<1>u. ASSUME UNCHANGED quote, Placed' = Placed PROVE Goal
  BY <1>u DEF Lifecycle!vars, Placed
<1>o. ASSUME UNCHANGED order PROVE Placed' = Placed
  BY <1>o, OpenOrdersAreUnseen DEF Committed
<1>q. ASSUME NEW r \in Requests, req[r].pc \in QuoteSteps PROVE req[r].quote \in Quotes
  BY <1>q DEF IInv, CallsNameRows
<1>r. ASSUME NEW r \in Requests PROVE ReadHolds(r)
  BY DEF SInv, WhatCallsRead
<1>1. ASSUME NEW r \in Requests, NEW q \in Quotes, NEW t \in Totals, CreateQuote(r, q, t)
      PROVE  Goal
  <2>1. quote[q] \in QuoteRow /\ quote[q].status = NoRow /\ ~quote[q].deleted
    BY <1>1, <1>0 DEF CreateQuote, TypeOK, SInv, QuotesAddUp
  <2>2. [status |-> "PENDING", total |-> t, deleted |-> FALSE]
          = [quote[q] EXCEPT !.status = "PENDING", !.total = t]
    <3>1. /\ quote[q].deleted = FALSE
          /\ [status |-> "PENDING", total |-> t, deleted |-> FALSE] \in QuoteRow
      BY <2>1 DEF QuoteRow, QuoteStatus
    <3> QED
      BY <2>1, <3>1, QuoteRowsAreTheirFields
  <2>3. quote' = [quote EXCEPT ![q] = [@ EXCEPT !.status = "PENDING", !.total = t]]
    BY <1>1, <2>1, <2>2 DEF CreateQuote
  <2>4. Placed' = Placed
    BY <1>1, <1>o DEF CreateQuote
  <2>5. Lifecycle!Create(q, t)
    BY <2>1, <2>3, <2>4 DEF Lifecycle!Create, Placed, NoRow
  <2> QED
    BY <2>5 DEF Lifecycle!Next
<1>2. ASSUME NEW r \in Requests, UNCHANGED <<quote, order>> PROVE Goal
  BY <1>2, <1>o, <1>u
<1>3. ASSUME NEW r \in Requests, Call(r) PROVE Goal
  <2>1. \/ UNCHANGED <<quote, order>>
        \/ \E q \in Quotes, t \in Totals : CreateQuote(r, q, t)
    BY <1>3 DEF Call, CreateOrder, CancelQuote, DeleteQuote, UpdateQuote, CancelOrder,
       DeleteOrder, UpdateOrderStatus
  <2> QED
    BY <2>1, <1>1, <1>2
<1>4. ASSUME NEW r \in Requests, InsertOrder(r) PROVE Goal
  <2>1. ~Committed(r) /\ UNCHANGED quote
    BY <1>4 DEF InsertOrder, At, IInv, OrdersFollowCalls
  <2>2. CASE UNCHANGED order
    BY <2>1, <2>2, <1>2
  <2>3. CASE order' = [order EXCEPT ![r] =
                 [tx |-> "open", quote |-> req[r].quote, total |-> req[r].total,
                  status |-> "IN_PRODUCTION", reason |-> FALSE, deleted |-> FALSE]]
    <3>1. /\ order'[r].tx = "open" /\ order'[r].status = "IN_PRODUCTION" /\ ~order'[r].deleted
          /\ \A o \in Requests : o # r => order'[o] = order[o]
      BY <2>3, <1>0 DEF TypeOK
    <3>2. order[r].status = "IN_PRODUCTION" /\ ~order[r].deleted
      BY <2>1 DEF SInv, OrdersKeepTheirQuotes
    <3>3. order[r].deleted \in BOOLEAN /\ order'[r].deleted \in BOOLEAN
      BY <2>3, <1>0 DEF TypeOK, OrderRow
    <3> QED
      BY <2>1, <3>1, <3>2, <3>3, OpenOrdersAreUnseen, <1>u DEF Committed
  <2> QED
    BY <1>4, <2>2, <2>3 DEF InsertOrder
<1>5. ASSUME NEW r \in Requests, ApproveRead(r) \/ ApproveReread(r) PROVE Goal
  <2>1. UNCHANGED <<quote, order>> \/ Rollback(r, "rejected")
    BY <1>5 DEF ApproveRead, ApproveReread
  <2> QED
    BY <2>1, <1>2, <1>u, RollbackIsUnseen
<1>6. ASSUME NEW r \in Requests, ApproveWrite(r) PROVE Goal
  <2>1. req[r].quote \in Quotes /\ PendingQuote(req[r].quote)
    BY <1>6, <1>q, <1>r DEF ApproveWrite, At, QuoteSteps, CreateOrderSteps, ReadHolds
  <2>2. Lifecycle!Decide(req[r].quote, "APPROVED")
    BY <1>6, <2>1, <1>o DEF ApproveWrite, Lifecycle!Decide, Lifecycle!Pending, PendingQuote, Placed
  <2> QED
    BY <2>1, <2>2 DEF Lifecycle!Next
<1>7. ASSUME NEW r \in Requests, CancelWrite(r) PROVE Goal
  <2>1. req[r].quote \in Quotes /\ PendingQuote(req[r].quote)
    BY <1>7, <1>q, <1>r DEF CancelWrite, At, QuoteSteps, ReadHolds
  <2>2. Lifecycle!Decide(req[r].quote, "CANCELLED")
    BY <1>7, <2>1, <1>o DEF CancelWrite, Lifecycle!Decide, Lifecycle!Pending, PendingQuote, Placed
  <2> QED
    BY <2>1, <2>2 DEF Lifecycle!Next
<1>8. ASSUME NEW r \in Requests, CommitOrder(r) PROVE Goal
  <2>1. /\ req[r].pc = "commit_order" /\ order[r].tx = "open" /\ order[r].quote = req[r].quote
        /\ req[r].quote \in Quotes /\ UNCHANGED quote
    BY <1>8, <1>q DEF CommitOrder, At, IInv, OrdersFollowCalls, OpenSteps, QuoteSteps,
       CreateOrderSteps
  <2>2. /\ ApprovedQuote(req[r].quote) /\ Unordered(req[r].quote)
        /\ req[r].total = quote[req[r].quote].total
    BY <2>1, <1>r DEF ReadHolds, CreateOrderSteps
  <2>3. order[r].total = req[r].total
    BY <2>1 DEF SInv, OrdersKeepTheirQuotes
  <2>4. /\ order'[r].tx = "committed" /\ order'[r].quote = order[r].quote
        /\ order'[r].total = order[r].total /\ order'[r].status = order[r].status
        /\ order'[r].deleted = order[r].deleted
        /\ \A o \in Requests : o # r => order'[o] = order[o]
    BY <1>8, <2>1, <1>0 DEF CommitOrder, TypeOK, OrderRow
  <2>5. PlacedOrder(r)' = [PlacedOrder(r) EXCEPT !.placed = TRUE, !.quote = req[r].quote,
                                                !.total = quote[req[r].quote].total]
    <3>1. PlacedOrder(r) \in OrderRows /\ PlacedOrder(r)' \in OrderRows
      BY <1>p
    <3>2. LET y == PlacedOrder(r)'
          IN  /\ y.placed = TRUE /\ y.quote = req[r].quote
              /\ y.total = quote[req[r].quote].total
              /\ y.status = PlacedOrder(r).status /\ y.deleted = PlacedOrder(r).deleted
      BY <2>1, <2>2, <2>3, <2>4 DEF PlacedOrder, Committed
    <3> QED
      BY <3>1, <3>2, RowsAreTheirFields
  <2>6. Placed' = [Placed EXCEPT ![r] =
                     [@ EXCEPT !.placed = TRUE, !.quote = req[r].quote,
                               !.total = quote[req[r].quote].total]]
    <3>1. Placed[r] = PlacedOrder(r)
      BY DEF Placed
    <3>2. Placed' = [Placed EXCEPT ![r] = [PlacedOrder(r) EXCEPT !.placed = TRUE,
                       !.quote = req[r].quote, !.total = quote[req[r].quote].total]]
      BY <2>4, <2>5, PlacedChanges
    <3> QED
      BY <3>1, <3>2
  <2>7. ~Placed[r].placed /\ \A o \in Requests : ~(Placed[o].placed /\ Placed[o].quote = req[r].quote)
    BY <2>1, <2>2 DEF Placed, PlacedOrder, Unordered, Committed
  <2>8. Lifecycle!Place(r, req[r].quote)
    BY <2>1, <2>2, <2>6, <2>7 DEF Lifecycle!Place, Lifecycle!Approved, Lifecycle!Redeemed,
       ApprovedQuote, Placed
  <2> QED
    BY <2>1, <2>8 DEF Lifecycle!Next
<1>9. ASSUME NEW r \in Requests,
             \/ EditDelete(r) \/ EditWait(r) \/ EditTotal(r) \/ RemoveWrite(r)
      PROVE  Goal
  BY <1>9, <1>2 DEF EditDelete, EditWait, EditTotal, RemoveWrite
<1>10. ASSUME NEW r \in Requests, EditCommit(r) PROVE Goal
  <2>1. req[r].quote \in Quotes /\ PendingQuote(req[r].quote) /\ req[r].total \in Totals
    BY <1>10, <1>q, <1>r DEF EditCommit, At, QuoteSteps, UpdateQuoteSteps, ReadHolds
  <2>2. Lifecycle!Edit(req[r].quote, req[r].total)
    BY <1>10, <2>1, <1>o DEF EditCommit, Lifecycle!Edit, Lifecycle!Pending, PendingQuote, Placed
  <2> QED
    BY <2>1, <2>2 DEF Lifecycle!Next
<1>11. ASSUME NEW r \in Requests, RemoveCommit(r) PROVE Goal
  <2>1. /\ req[r].quote \in Quotes /\ ~quote[req[r].quote].deleted
        /\ quote[req[r].quote].status \in {"PENDING", "CANCELLED"}
    BY <1>11, <1>q, <1>r DEF RemoveCommit, At, QuoteSteps, DeleteQuoteSteps, ReadHolds
  <2>2. Lifecycle!Delete(req[r].quote)
    BY <1>11, <2>1, <1>o DEF RemoveCommit, Lifecycle!Delete, Lifecycle!Pending, Placed
  <2> QED
    BY <2>1, <2>2 DEF Lifecycle!Next
<1>12. ASSUME NEW r \in Requests, StatusWrite(r) \/ ReasonWrite(r) PROVE Goal
  <2>0. PICK o, s : o = req[r].order /\ s = IF StatusWrite(r) THEN req[r].status ELSE "CANCELLED"
    OBVIOUS
  <2>1. /\ o \in Requests /\ Committed(o) /\ order[o].status = "IN_PRODUCTION"
        /\ UNCHANGED quote /\ s \in OrderStatus
    BY <2>0, <1>12, <1>r, <1>0 DEF StatusWrite, ReasonWrite, At, IInv, CallsNameRows, OrderSteps,
       ReadHolds, TypeOK, Request, OrderStatus
  <2>2. /\ \A p \in Requests : p # o => order'[p] = order[p]
        /\ order'[o].tx = order[o].tx /\ order'[o].quote = order[o].quote
        /\ order'[o].total = order[o].total /\ order'[o].status = s
        /\ order'[o].deleted = order[o].deleted
    <3>1. CASE StatusWrite(r)
      BY <3>1, <2>0, <2>1, <1>0 DEF StatusWrite, TypeOK, OrderRow
    <3>2. CASE ReasonWrite(r) /\ ~StatusWrite(r)
      <4>1. ASSUME NEW x \in OrderRow, NEW y, y = [x EXCEPT !.status = "CANCELLED", !.reason = TRUE]
            PROVE  /\ y.tx = x.tx /\ y.quote = x.quote /\ y.total = x.total
                   /\ y.status = "CANCELLED" /\ y.deleted = x.deleted
        BY <4>1 DEF OrderRow
      <4>2. /\ order'[o] = [order[o] EXCEPT !.status = "CANCELLED", !.reason = TRUE]
            /\ \A p \in Requests : p # o => order'[p] = order[p]
        BY <3>2, <2>0, <2>1, <1>0 DEF ReasonWrite, TypeOK
      <4>3. order[o] \in OrderRow
        BY <2>1, <1>0 DEF TypeOK
      <4> QED
        BY <3>2, <2>0, <4>1, <4>2, <4>3
    <3> QED
      BY <1>12, <3>1, <3>2
  <2>3. PlacedOrder(o)' = [PlacedOrder(o) EXCEPT !.status = s]
    <3>1. PlacedOrder(o) \in OrderRows /\ PlacedOrder(o)' \in OrderRows
      BY <2>1, <1>p
    <3>2. LET y == PlacedOrder(o)'
          IN  /\ y.placed = PlacedOrder(o).placed /\ y.quote = PlacedOrder(o).quote
              /\ y.total = PlacedOrder(o).total
              /\ y.status = s /\ y.deleted = PlacedOrder(o).deleted
      BY <2>1, <2>2 DEF PlacedOrder, Committed
    <3> QED
      BY <3>1, <3>2, RowsAreTheirFields
  <2>4. Placed' = [Placed EXCEPT ![o].status = s]
    <3>1. Placed' = [Placed EXCEPT ![o] = [PlacedOrder(o) EXCEPT !.status = s]]
      BY <2>1, <2>2, <2>3, PlacedChanges
    <3> QED
      BY <2>1, <3>1 DEF Placed
  <2>5. Placed[o].placed /\ Placed[o].status = "IN_PRODUCTION"
    BY <2>1 DEF Placed, PlacedOrder
  <2>6. CASE s = "IN_PRODUCTION"
    <3>1. \A p \in Requests : /\ Committed(p)' <=> Committed(p)
                              /\ order'[p].status = order[p].status
                              /\ order'[p].deleted = order[p].deleted
                              /\ order'[p].quote = order[p].quote
                              /\ order'[p].total = order[p].total
      BY <2>1, <2>2, <2>6 DEF Committed
    <3>2. ASSUME NEW p \in Requests PROVE PlacedOrder(p)' = PlacedOrder(p)
      BY <3>1 DEF PlacedOrder, Committed
    <3> QED
      BY <2>1, <3>2, <1>u DEF Placed
  <2>7. CASE s \in {"DONE", "CANCELLED"}
    <3>1. Lifecycle!End(o, s)
      BY <2>1, <2>4, <2>5 DEF Lifecycle!End, Placed
    <3> QED
      BY <2>1, <2>7, <3>1 DEF Lifecycle!Next
  <2> QED
    BY <2>1, <2>6, <2>7 DEF OrderStatus
<1>13. ASSUME NEW r \in Requests, PurgeWrite(r) PROVE Goal
  <2>0. PICK o : o = req[r].order
    OBVIOUS
  <2>1. /\ o \in Requests /\ Committed(o) /\ order[o].status = "CANCELLED" /\ UNCHANGED quote
    BY <2>0, <1>13, <1>r DEF PurgeWrite, At, IInv, CallsNameRows, OrderSteps, ReadHolds
  <2>2. /\ \A p \in Requests : p # o => order'[p] = order[p]
        /\ order'[o].tx = order[o].tx /\ order'[o].quote = order[o].quote
        /\ order'[o].total = order[o].total /\ order'[o].status = order[o].status
        /\ order'[o].deleted = TRUE
    BY <2>0, <1>13, <2>1, <1>0 DEF PurgeWrite, TypeOK, OrderRow
  <2>3. PlacedOrder(o)' = [PlacedOrder(o) EXCEPT !.deleted = TRUE]
    <3>1. PlacedOrder(o) \in OrderRows /\ PlacedOrder(o)' \in OrderRows
      BY <2>1, <1>p
    <3>2. LET y == PlacedOrder(o)'
          IN  /\ y.placed = PlacedOrder(o).placed /\ y.quote = PlacedOrder(o).quote
              /\ y.total = PlacedOrder(o).total
              /\ y.status = PlacedOrder(o).status /\ y.deleted = TRUE
      BY <2>1, <2>2 DEF PlacedOrder, Committed
    <3> QED
      BY <3>1, <3>2, RowsAreTheirFields
  <2>4. Placed' = [Placed EXCEPT ![o].deleted = TRUE]
    <3>1. Placed' = [Placed EXCEPT ![o] = [PlacedOrder(o) EXCEPT !.deleted = TRUE]]
      BY <2>1, <2>2, <2>3, PlacedChanges
    <3> QED
      BY <2>1, <3>1 DEF Placed
  <2>5. Placed[o].placed /\ Placed[o].status = "CANCELLED"
    BY <2>1 DEF Placed, PlacedOrder
  <2>6. Lifecycle!Drop(o)
    BY <2>1, <2>4, <2>5 DEF Lifecycle!Drop, Placed
  <2> QED
    BY <2>1, <2>6 DEF Lifecycle!Next
<1>14. ASSUME NEW r \in Requests, Fail(r) PROVE Goal
  BY <1>14, <1>u, RollbackIsUnseen DEF Fail
<1>15. CASE UNCHANGED vars
  BY <1>15, <1>o, <1>u DEF vars
<1>16. ASSUME NEW r \in Requests, Continue(r) PROVE Goal
  BY <1>16, <1>4, <1>5, <1>6, <1>7, <1>8, <1>9, <1>10, <1>11, <1>12, <1>13 DEF Continue
<1> QED
  BY <1>3, <1>14, <1>15, <1>16 DEF Next

(* When calls are served one at a time, quotes and orders live the life    *)
(* that QuoteLifecycle promises, whatever fails between two statements.    *)
THEOREM ServedAloneImplementsLifecycle ==
  ASSUME MaxInFlight = 1, IsFiniteSet(Requests)
  PROVE  Spec => ImplementsLifecycle
<1>1. Spec => [](IInv /\ PInv /\ SInv)
  BY InductiveInvariant, PricesInvariant, SerialInvariant, PTL
<1>2. IInv /\ PInv /\ SInv /\ [Next]_vars => [Lifecycle!Next]_(Lifecycle!vars)
  BY StepRefines
<1> QED
  BY <1>1, <1>2, InitRefines, PTL DEF Spec, ImplementsLifecycle, Lifecycle!Spec

(* So the order and the quote of the services agree as the lifecycle says: *)
(* what was ordered is never edited, cancelled or deleted afterwards.      *)
THEOREM OrdersAgreeWhenServedAlone ==
  ASSUME MaxInFlight = 1, IsFiniteSet(Requests)
  PROVE  Spec => [](Lifecycle!OneOrderPerQuote /\ Lifecycle!OrderAgreesWithQuote)
<1>1. ASSUME IInv, SInv
      PROVE  Lifecycle!OneOrderPerQuote /\ Lifecycle!OrderAgreesWithQuote
  <2>1. \A o \in Requests :
          /\ Placed[o].placed <=> Committed(o)
          /\ Committed(o) => Placed[o].quote = order[o].quote /\ Placed[o].total = order[o].total
    BY DEF Placed, PlacedOrder
  <2>2. \A o \in Requests : Committed(o) =>
          /\ order[o].quote \in Quotes /\ ApprovedQuote(order[o].quote)
          /\ order[o].total = quote[order[o].quote].total
    BY <1>1 DEF IInv, OrdersFollowCalls, SInv, OrdersKeepTheirQuotes, Committed
  <2>3. \A o, p \in Requests :
          Committed(o) /\ Committed(p) /\ order[o].quote = order[p].quote => o = p
    BY <1>1 DEF SInv, OrdersKeepTheirQuotes
  <2>4. Lifecycle!OneOrderPerQuote
    BY <2>1, <2>3 DEF Lifecycle!OneOrderPerQuote, Placed
  <2>5. Lifecycle!OrderAgreesWithQuote
    BY <2>1, <2>2 DEF Lifecycle!OrderAgreesWithQuote, Lifecycle!Approved, ApprovedQuote, Placed
  <2> QED
    BY <2>4, <2>5
<1> QED
  BY <1>1, InductiveInvariant, SerialInvariant, PTL
-----------------------------------------------------------------------------
(* The lifecycle by itself, over rows of its own, for any quotes, orders   *)
(* and totals.                                                             *)
VARIABLES quotes, orders

Abstract == INSTANCE QuoteLifecycle WITH Orders <- Requests

(* Both invariants are needed at once: an order agrees with its quote only *)
(* because an approved quote is neither edited nor cancelled.              *)
AOrders == Abstract!OneOrderPerQuote /\ Abstract!OrderAgreesWithQuote

AInv == Abstract!TypeOK /\ AOrders

AStep == [Abstract!Next]_(Abstract!vars)

(* No quote and no order exists yet. *)
LEMMA InitAInv == Abstract!Init => AInv
<1> SUFFICES ASSUME Abstract!Init PROVE AInv
  OBVIOUS
<1>1. Abstract!NoQuoteRow \in Abstract!QuoteRows
  BY DEF Abstract!NoQuoteRow, Abstract!QuoteRows
<1>2. Abstract!NoOrderRow \in Abstract!OrderRows
  BY DEF Abstract!NoOrderRow, Abstract!OrderRows
<1>3. Abstract!TypeOK
  BY <1>1, <1>2 DEF Abstract!Init, Abstract!TypeOK
<1>4. \A o \in Requests : ~orders[o].placed
  BY DEF Abstract!Init, Abstract!NoOrderRow
<1>. QED
  BY <1>3, <1>4 DEF AInv, AOrders, Abstract!OneOrderPerQuote, Abstract!OrderAgreesWithQuote

(* Every step keeps the types of the rows. *)
LEMMA AbstractTypeOK == Abstract!TypeOK /\ AStep => Abstract!TypeOK'
<1> SUFFICES ASSUME Abstract!TypeOK, AStep PROVE Abstract!TypeOK'
  OBVIOUS
<1> USE DEF Abstract!TypeOK
<1>q. ASSUME NEW row \in Abstract!QuoteRows, NEW t \in Totals
      PROVE  /\ [row EXCEPT !.status = "PENDING", !.total = t] \in Abstract!QuoteRows
             /\ [row EXCEPT !.total = t] \in Abstract!QuoteRows
  BY DEF Abstract!QuoteRows
<1>d. ASSUME NEW row \in Abstract!QuoteRows, NEW s \in {"APPROVED", "CANCELLED"}
      PROVE  /\ [row EXCEPT !.status = s] \in Abstract!QuoteRows
             /\ [row EXCEPT !.deleted = TRUE] \in Abstract!QuoteRows
  BY DEF Abstract!QuoteRows
<1>o. ASSUME NEW row \in Abstract!OrderRows, NEW s \in {"DONE", "CANCELLED"}
      PROVE  /\ [row EXCEPT !.status = s] \in Abstract!OrderRows
             /\ [row EXCEPT !.deleted = TRUE] \in Abstract!OrderRows
  BY DEF Abstract!OrderRows
<1>p. ASSUME NEW row \in Abstract!OrderRows, NEW q \in Quotes
      PROVE  [row EXCEPT !.placed = TRUE, !.quote = q, !.total = quotes[q].total]
               \in Abstract!OrderRows
  BY DEF Abstract!QuoteRows, Abstract!OrderRows
<1>1. ASSUME NEW q \in Quotes, NEW t \in Totals, Abstract!Create(q, t) PROVE Abstract!TypeOK'
  BY <1>1, <1>q DEF Abstract!Create
<1>2. ASSUME NEW q \in Quotes, NEW t \in Totals, Abstract!Edit(q, t) PROVE Abstract!TypeOK'
  BY <1>2, <1>q DEF Abstract!Edit
<1>3. ASSUME NEW q \in Quotes, NEW status \in {"APPROVED", "CANCELLED"}, Abstract!Decide(q, status)
      PROVE Abstract!TypeOK'
  BY <1>3, <1>d DEF Abstract!Decide
<1>4. ASSUME NEW q \in Quotes, Abstract!Delete(q) PROVE Abstract!TypeOK'
  BY <1>4, <1>d DEF Abstract!Delete
<1>5. ASSUME NEW q \in Quotes, NEW o \in Requests, Abstract!Place(o, q) PROVE Abstract!TypeOK'
  BY <1>5, <1>p DEF Abstract!Place
<1>6. ASSUME NEW o \in Requests, NEW status \in {"DONE", "CANCELLED"}, Abstract!End(o, status)
      PROVE Abstract!TypeOK'
  BY <1>6, <1>o DEF Abstract!End
<1>7. ASSUME NEW o \in Requests, Abstract!Drop(o) PROVE Abstract!TypeOK'
  BY <1>7, <1>o DEF Abstract!Drop
<1>8. CASE UNCHANGED Abstract!vars
  BY <1>8 DEF Abstract!vars
<1>. QED
  BY <1>1, <1>2, <1>3, <1>4, <1>5, <1>6, <1>7, <1>8 DEF AStep, Abstract!Next

(* An edit, a decision or a deletion leaves approved quotes as they are.   *)
LEMMA ApprovedStays ==
  ASSUME Abstract!TypeOK, Abstract!OrderAgreesWithQuote, UNCHANGED orders,
         \A q \in Quotes : Abstract!Approved(q) => quotes'[q] = quotes[q]
  PROVE  Abstract!OrderAgreesWithQuote'
  BY DEF Abstract!OrderAgreesWithQuote, Abstract!Approved

(* A step on a pending quote disturbs no order, whose quote is approved; a *)
(* new order is placed on a quote that no other redeems.                   *)
LEMMA AbstractAgrees == AInv /\ AStep => AOrders'
<1> SUFFICES ASSUME AInv, AStep PROVE AOrders'
  OBVIOUS
<1> USE DEF AInv, Abstract!TypeOK, Abstract!Approved
<1>0. ASSUME UNCHANGED orders,
             \A q \in Quotes : Abstract!Approved(q) => quotes'[q] = quotes[q]
      PROVE  AOrders'
  BY <1>0, ApprovedStays DEF AOrders, Abstract!OneOrderPerQuote
<1>1. ASSUME NEW q \in Quotes, NEW t \in Totals, Abstract!Create(q, t) PROVE AOrders'
  BY <1>0, <1>1 DEF Abstract!Create
<1>2. ASSUME NEW q \in Quotes, NEW t \in Totals, Abstract!Edit(q, t) PROVE AOrders'
  BY <1>0, <1>2 DEF Abstract!Edit, Abstract!Pending
<1>3. ASSUME NEW q \in Quotes, NEW status \in {"APPROVED", "CANCELLED"}, Abstract!Decide(q, status)
      PROVE AOrders'
  BY <1>0, <1>3 DEF Abstract!Decide, Abstract!Pending
<1>4. ASSUME NEW q \in Quotes, Abstract!Delete(q) PROVE AOrders'
  BY <1>0, <1>4 DEF Abstract!Delete, Abstract!Pending
<1>5. ASSUME NEW q \in Quotes, NEW o \in Requests, Abstract!Place(o, q) PROVE AOrders'
  <2>1. /\ orders'[o].placed
        /\ orders'[o].quote = q
        /\ orders'[o].total = quotes[q].total
        /\ \A p \in Requests \ {o} : orders'[p] = orders[p]
        /\ UNCHANGED quotes
    BY <1>5 DEF AOrders, Abstract!Place, Abstract!OrderRows
  <2>2. Abstract!Approved(q) /\ \A p \in Requests : orders[p].placed => orders[p].quote # q
    BY <1>5 DEF Abstract!Place, Abstract!Redeemed
  <2>3. Abstract!OneOrderPerQuote'
    BY <2>1, <2>2 DEF AOrders, Abstract!OneOrderPerQuote
  <2>4. Abstract!OrderAgreesWithQuote'
    BY <2>1, <2>2 DEF AOrders, Abstract!OrderAgreesWithQuote
  <2>. QED
    BY <2>3, <2>4 DEF AOrders
<1>6. ASSUME NEW o \in Requests,
             \/ \E status \in {"DONE", "CANCELLED"} : Abstract!End(o, status)
             \/ Abstract!Drop(o)
      PROVE AOrders'
  <2>1. /\ \A p \in Requests : /\ orders'[p].placed = orders[p].placed
                            /\ orders'[p].quote = orders[p].quote
                            /\ orders'[p].total = orders[p].total
        /\ UNCHANGED quotes
    BY <1>6 DEF Abstract!End, Abstract!Drop, Abstract!OrderRows
  <2>. QED
    BY <2>1 DEF AOrders, Abstract!OneOrderPerQuote, Abstract!OrderAgreesWithQuote
<1>7. CASE UNCHANGED Abstract!vars
  BY <1>0, <1>7 DEF Abstract!vars
<1>. QED
  BY <1>1, <1>2, <1>3, <1>4, <1>5, <1>6, <1>7 DEF AStep, Abstract!Next

(* The three parts hold together in every state of the lifecycle. *)
THEOREM LifecycleInvariant == Abstract!Spec => []AInv
<1>1. AInv /\ [Abstract!Next]_(Abstract!vars) => AInv'
  BY AbstractTypeOK, AbstractAgrees DEF AInv, AStep
<1>. QED
  BY InitAInv, <1>1, PTL DEF Abstract!Spec

(* A quote is redeemed by at most one order. *)
THEOREM OneOrder == Abstract!Spec => []Abstract!OneOrderPerQuote
<1>1. AInv => Abstract!OneOrderPerQuote
  BY DEF AInv, AOrders
<1>. QED
  BY LifecycleInvariant, <1>1, PTL

(* An order and its quote never part: the quote stays approved and costs   *)
(* what the order costs.                                                   *)
THEOREM OrdersAgree == Abstract!Spec => []Abstract!OrderAgreesWithQuote
<1>1. AInv => Abstract!OrderAgreesWithQuote
  BY DEF AInv, AOrders
<1>. QED
  BY LifecycleInvariant, <1>1, PTL
=============================================================================
