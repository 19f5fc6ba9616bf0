--------------------------- MODULE ConnectionPool ---------------------------
(***************************************************************************)
(* The connections of the database pool and the calls that share them.     *)
(*                                                                         *)
(* A repository takes a connection for one statement and gives it back; a  *)
(* query runner takes one at connect() and gives it back at release().     *)
(* createOrder and updateQuote run repository statements, on a second      *)
(* connection, while their query runner keeps the first: createOrder the   *)
(* three statements of quoteService.updateStatus, updateQuote the read of  *)
(* the quote it answers with.  The data source sets neither the size of    *)
(* the pool nor a time limit, so a call waits for a connection for ever.   *)
(***************************************************************************)
EXTENDS Naturals, FiniteSets

CONSTANTS
  Requests,      \* the calls the API serves in a behaviour
  Connections,   \* the connections of the pool (10 of them by default)
  None           \* nobody

(* What a call does with connections: the operations of one statement at a *)
(* time, those with a transaction, and those that nest.                    *)
Ops == {"statements", "deleteQuote", "createQuote", "updateQuote", "createOrder"}
Nesting == {"createOrder", "updateQuote"}

(* The statements a call runs elsewhere while it holds its query runner. *)
NestedInEveryTransaction == [o \in Ops |-> IF o = "statements" THEN 0 ELSE 1]   \* mutant
Nested == [o \in Ops |-> CASE o = "createOrder" -> 3
                           [] o = "updateQuote" -> 1
                           [] OTHER -> 0]

Users == {None} \cup (Requests \X {"tx", "statement"})

ASSUME ConnectionPoolAssumption == None \notin Requests \X {"tx", "statement"}

VARIABLES
  holder,   \* who uses each connection, and for what
  op,       \* what each call does
  pc,       \* where it stands
  left      \* the nested statements it has still to run

vars == <<holder, op, pc, left>>

(* "read", "begin" and "ask" wait for a connection. *)
Waits == {"read", "begin", "ask"}
Steps == Waits \cup {"reading", "open", "nested"}
InFlight == {r \in Requests : pc[r] \in Steps}

Init == /\ holder = [c \in Connections |-> None]
        /\ op = [r \in Requests |-> "statements"]
        /\ pc = [r \in Requests |-> "idle"]
        /\ left = [r \in Requests |-> 0]

Free == {c \in Connections : holder[c] = None}

(* The pool lends r a connection that nobody uses; it takes one back.      *)
Lend(r, use) == \E c \in Free : holder' = [holder EXCEPT ![c] = <<r, use>>]
GiveBack(uses) ==
  holder' = [c \in Connections |-> IF holder[c] \in uses THEN None ELSE holder[c]]

Goto(r, step) == pc' = [pc EXCEPT ![r] = step]
-----------------------------------------------------------------------------
(* deleteQuote reads inside its transaction; every other call reads first. *)
Arrive(r, k) ==
  /\ pc[r] = "idle"
  /\ op' = [op EXCEPT ![r] = k]
  /\ left' = [left EXCEPT ![r] = Nested[k]]
  /\ Goto(r, IF k = "deleteQuote" THEN "begin" ELSE "read")
  /\ UNCHANGED holder

Read(r) ==
  /\ pc[r] = "read"
  /\ Lend(r, "statement")
  /\ Goto(r, "reading")
  /\ UNCHANGED <<op, left>>

(* What was read refuses the call, or the transaction is next.  One read   *)
(* stands for all: between two of them the call holds nothing.             *)
EndRead(r) ==
  /\ pc[r] = "reading"
  /\ GiveBack({<<r, "statement">>})
  /\ \/ Goto(r, "done")
     \/ op[r] # "statements" /\ Goto(r, "begin")
  /\ UNCHANGED <<op, left>>

(* queryRunner.connect() *)
Begin(r) ==
  /\ pc[r] = "begin"
  /\ Lend(r, "tx")
  /\ Goto(r, "open")
  /\ UNCHANGED <<op, left>>

(* A repository is called before the query runner is released. *)
Nest(r) ==
  /\ pc[r] = "open"
  /\ left[r] > 0
  /\ Goto(r, "ask")
  /\ UNCHANGED <<holder, op, left>>

Ask(r) ==
  /\ pc[r] = "ask"
  /\ Lend(r, "statement")
  /\ Goto(r, "nested")
  /\ UNCHANGED <<op, left>>

EndNested(r) ==
  /\ pc[r] = "nested"
  /\ GiveBack({<<r, "statement">>})
  /\ left' = [left EXCEPT ![r] = @ - 1]
  /\ Goto(r, "open")
  /\ UNCHANGED op

(* finally { await queryRunner.release() } *)
Release(r) ==
  /\ pc[r] = "open"
  /\ left[r] = 0
  /\ GiveBack({<<r, "tx">>})
  /\ Goto(r, "done")
  /\ UNCHANGED <<op, left>>

(* Mutant of Fail: release() is not in a finally block. *)
FailWithoutRelease(r) ==
  /\ pc[r] \in {"reading", "open", "nested"}
  /\ GiveBack({<<r, "statement">>})
  /\ Goto(r, "done")
  /\ UNCHANGED <<op, left>>

(* A statement throws: its connection returns to the pool, the catch block *)
(* rolls back and the finally block releases the query runner.  To wait    *)
(* for a connection is no statement and never throws.                      *)
Fail(r) ==
  /\ pc[r] \in {"reading", "open", "nested"}
  /\ GiveBack({<<r, "tx">>, <<r, "statement">>})
  /\ Goto(r, "done")
  /\ UNCHANGED <<op, left>>

Continue(r) ==
  Read(r) \/ EndRead(r) \/ Begin(r) \/ Nest(r) \/ Ask(r) \/ EndNested(r) \/ Release(r)

Next ==
  \E r \in Requests : \/ \E k \in Ops : Arrive(r, k)
                      \/ Continue(r)
                      \/ Fail(r)

Spec == Init /\ [][Next]_vars

(* Statements end, and the pool serves its queue in order.  A behaviour    *)
(* has finitely many calls, so weak fairness of each one says as much.     *)
FairSpec == Spec /\ \A r \in Requests : WF_vars(Continue(r))
-----------------------------------------------------------------------------
(* Type invariant. *)
TypeOK ==
  /\ holder \in [Connections -> Users]
  /\ op \in [Requests -> Ops]
  /\ pc \in [Requests -> {"idle", "done"} \cup Steps]
  /\ left \in [Requests -> 0..3]

(* No path of a call, failures included, leaks a connection or takes one   *)
(* twice: a call uses one for its transaction exactly while the query      *)
(* runner is connected, and one for a statement exactly while that runs.   *)
ConnectionsBelongToCalls ==
  /\ \A r \in Requests :
       /\ pc[r] \in {"open", "ask", "nested"} <=> \E c \in Connections : holder[c] = <<r, "tx">>
       /\ pc[r] \in {"reading", "nested"} <=> \E c \in Connections : holder[c] = <<r, "statement">>
  /\ \A c, d \in Connections : holder[c] # None /\ holder[c] = holder[d] => c = d

(* Calls that cannot go on wait for a connection of a pool that has none.  *)
Stuck(r) == pc[r] \in Waits /\ Free = {}

(* When every call is stuck, the whole pool is in the hands of createOrder *)
(* and updateQuote calls that each ask for a second connection: no other   *)
(* operation, and no failure, can bring the service to a halt.             *)
OnlyNestingHaltsTheService ==
  InFlight # {} /\ (\A r \in InFlight : Stuck(r)) =>
    \A c \in Connections :
      \E r \in Requests : /\ holder[c] = <<r, "tx">>
                          /\ pc[r] = "ask"
                          /\ op[r] \in Nesting

(* As long as fewer createOrder and updateQuote calls are under way than   *)
(* the pool has connections, every call ends.                              *)
EnoughConnections ==
  Cardinality({r \in InFlight : op[r] \in Nesting}) < Cardinality(Connections)
CallsEndWhileConnectionsSuffice ==
  []EnoughConnections => \A r \in Requests : r \in InFlight ~> r \notin InFlight
=============================================================================
