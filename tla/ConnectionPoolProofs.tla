------------------------ MODULE ConnectionPoolProofs ------------------------
(***************************************************************************)
(* No call leaks a connection, and only createOrder and updateQuote can    *)
(* bring the service to a halt, whatever the size of the pool.             *)
(***************************************************************************)
EXTENDS ConnectionPool, TLAPS

(* Only an operation that nests ever asks for a second connection: it has  *)
(* a statement left to run, and the others have none from the start.       *)
OnlyNestingAsks ==
  \A r \in Requests : /\ left[r] > 0 => op[r] \in Nesting
                      /\ pc[r] \in {"ask", "nested"} => left[r] > 0

IInv == TypeOK /\ ConnectionsBelongToCalls /\ OnlyNestingAsks

(* The operations that nest are those with nested statements. *)
LEMMA NestedType ==
  \A k \in Ops : Nested[k] \in 0..3 /\ (Nested[k] > 0 => k \in Nesting)
<1> SUFFICES ASSUME NEW k \in Ops
             PROVE  Nested[k] \in 0..3 /\ (Nested[k] > 0 => k \in Nesting)
  OBVIOUS
<1>1. Nested[k] = CASE k = "createOrder" -> 3 [] k = "updateQuote" -> 1 [] OTHER -> 0
  BY DEF Nested
<1>2. CASE k = "createOrder"
  BY <1>1, <1>2 DEF Nesting
<1>3. CASE k = "updateQuote"
  BY <1>1, <1>3 DEF Nesting
<1>4. CASE k \notin {"createOrder", "updateQuote"}
  BY <1>1, <1>4 DEF Nesting
<1>. QED
  BY <1>2, <1>3, <1>4

(* Nobody uses a connection before the first call. *)
LEMMA InitIInv == Init => IInv
  BY ConnectionPoolAssumption
     DEF Init, IInv, TypeOK, Users, Ops, Steps, Waits, ConnectionsBelongToCalls, OnlyNestingAsks

(* Every step keeps the types. *)
LEMMA NextTypeOK == IInv /\ [Next]_vars => TypeOK'
<1> SUFFICES ASSUME IInv, [Next]_vars PROVE TypeOK'
  OBVIOUS
<1> USE DEF IInv, TypeOK, Users, Steps, Waits, Goto
<1>1. ASSUME NEW r \in Requests, NEW k \in Ops, Arrive(r, k) PROVE TypeOK'
  BY <1>1, NestedType DEF Arrive
<1>2. ASSUME NEW r \in Requests, Read(r) PROVE TypeOK'
  BY <1>2 DEF Read, Lend, Free
<1>3. ASSUME NEW r \in Requests, EndRead(r) PROVE TypeOK'
  BY <1>3 DEF EndRead, GiveBack
<1>4. ASSUME NEW r \in Requests, Begin(r) PROVE TypeOK'
  BY <1>4 DEF Begin, Lend, Free
<1>5. ASSUME NEW r \in Requests, Nest(r) PROVE TypeOK'
  BY <1>5 DEF Nest
<1>6. ASSUME NEW r \in Requests, Ask(r) PROVE TypeOK'
  BY <1>6 DEF Ask, Lend, Free
<1>7. ASSUME NEW r \in Requests, EndNested(r) PROVE TypeOK'
  BY <1>7 DEF EndNested, GiveBack, OnlyNestingAsks
<1>8. ASSUME NEW r \in Requests, Release(r) PROVE TypeOK'
  BY <1>8 DEF Release, GiveBack
<1>9. ASSUME NEW r \in Requests, Fail(r) PROVE TypeOK'
  BY <1>9 DEF Fail, GiveBack
<1>10. CASE UNCHANGED vars
  BY <1>10 DEF vars
<1>. QED
  BY <1>1, <1>2, <1>3, <1>4, <1>5, <1>6, <1>7, <1>8, <1>9, <1>10 DEF Next, Continue

(* A statement is left only to a call that nests. *)
LEMMA NextOnlyNestingAsks == IInv /\ [Next]_vars => OnlyNestingAsks'
<1> SUFFICES ASSUME IInv, [Next]_vars PROVE OnlyNestingAsks'
  OBVIOUS
<1> USE DEF IInv, TypeOK, OnlyNestingAsks, Goto
<1>1. ASSUME NEW r \in Requests, NEW k \in Ops, Arrive(r, k) PROVE OnlyNestingAsks'
  BY <1>1, NestedType DEF Arrive
<1>2. ASSUME NEW r \in Requests, Nest(r) PROVE OnlyNestingAsks'
  BY <1>2 DEF Nest
<1>3. ASSUME NEW r \in Requests, EndNested(r) PROVE OnlyNestingAsks'
  BY <1>3 DEF EndNested
<1>4. ASSUME NEW r \in Requests, Ask(r) PROVE OnlyNestingAsks'
  BY <1>4 DEF Ask
<1>5. ASSUME NEW r \in Requests,
             Read(r) \/ EndRead(r) \/ Begin(r) \/ Release(r) \/ Fail(r)
      PROVE OnlyNestingAsks'
  BY <1>5 DEF Read, EndRead, Begin, Release, Fail
<1>6. CASE UNCHANGED vars
  BY <1>6 DEF vars
<1>. QED
  BY <1>1, <1>2, <1>3, <1>4, <1>5, <1>6 DEF Next, Continue

(* What ConnectionsBelongToCalls says of one call, and of two connections. *)
HoldsTx(r) == \E c \in Connections : holder[c] = <<r, "tx">>
HoldsStatement(r) == \E c \in Connections : holder[c] = <<r, "statement">>
Belongs(r) == /\ pc[r] \in {"open", "ask", "nested"} <=> HoldsTx(r)
              /\ pc[r] \in {"reading", "nested"} <=> HoldsStatement(r)
Alone == \A c, d \in Connections : holder[c] # None /\ holder[c] = holder[d] => c = d

(* ConnectionsBelongToCalls is the conjunction of the two. *)
LEMMA BelongParts == ConnectionsBelongToCalls <=> (\A r \in Requests : Belongs(r)) /\ Alone
  BY DEF ConnectionsBelongToCalls, Belongs, Alone, HoldsTx, HoldsStatement

(* A connection lent to r for a use that r had none for: r has it now, and *)
(* no other use changes.                                                   *)
LEMMA LendGives ==
  ASSUME TypeOK, Alone, NEW r \in Requests, NEW use \in {"tx", "statement"}, Lend(r, use),
         \A c \in Connections : holder[c] # <<r, use>>
  PROVE  /\ Alone'
         /\ \E c \in Connections : holder'[c] = <<r, use>>
         /\ \A s \in Requests, u \in {"tx", "statement"} :
              <<s, u>> # <<r, use>> =>
                ((\E c \in Connections : holder'[c] = <<s, u>>)
                   <=> \E c \in Connections : holder[c] = <<s, u>>)
<1>1. PICK c \in Connections : holder[c] = None /\ holder' = [holder EXCEPT ![c] = <<r, use>>]
  BY DEF Lend, Free
<1>2. holder'[c] = <<r, use>> /\ \A d \in Connections \ {c} : holder'[d] = holder[d]
  BY <1>1 DEF TypeOK
<1>3. Alone'
  BY <1>2 DEF Alone
<1>4. ASSUME NEW s \in Requests, NEW u \in {"tx", "statement"}, <<s, u>> # <<r, use>>
      PROVE  (\E d \in Connections : holder'[d] = <<s, u>>)
               <=> \E d \in Connections : holder[d] = <<s, u>>
  <2>1. None # <<s, u>>
    BY ConnectionPoolAssumption
  <2>. QED
    BY <1>1, <1>2, <1>4, <2>1
<1>. QED
  BY <1>2, <1>3, <1>4

(* What is given back is used no more, and no other use changes. *)
LEMMA GiveBackTakes ==
  ASSUME TypeOK, Alone, NEW uses \in SUBSET (Requests \X {"tx", "statement"}), GiveBack(uses)
  PROVE  /\ Alone'
         /\ \A s \in Requests, u \in {"tx", "statement"} :
              (\E c \in Connections : holder'[c] = <<s, u>>)
                <=> /\ <<s, u>> \notin uses
                    /\ \E c \in Connections : holder[c] = <<s, u>>
<1>1. \A c \in Connections : holder'[c] = IF holder[c] \in uses THEN None ELSE holder[c]
  BY DEF GiveBack
<1>2. Alone'
  BY <1>1 DEF Alone
<1>3. \A s \in Requests, u \in {"tx", "statement"} : None # <<s, u>>
  BY ConnectionPoolAssumption
<1>. QED
  BY <1>1, <1>2, <1>3

(* A step of r that moves no other call and leaves the uses of the others  *)
(* alone only has to be looked at for r.                                   *)
LEMMA OthersBelong ==
  ASSUME \A s \in Requests : Belongs(s), NEW r \in Requests, Belongs(r)',
         \A s \in Requests \ {r} : /\ pc'[s] = pc[s]
                                   /\ HoldsTx(s)' <=> HoldsTx(s)
                                   /\ HoldsStatement(s)' <=> HoldsStatement(s)
  PROVE  (\A s \in Requests : Belongs(s))'
<1> SUFFICES ASSUME NEW s \in Requests PROVE Belongs(s)'
  OBVIOUS
<1>1. CASE s = r
  BY <1>1
<1>2. CASE s # r
  BY <1>2 DEF Belongs
<1>. QED
  BY <1>1, <1>2

(* A connection changes hands with the step that needs it or is done with  *)
(* it, a failure included.                                                 *)
LEMMA NextBelong == IInv /\ [Next]_vars => ConnectionsBelongToCalls'
<1> SUFFICES ASSUME IInv, [Next]_vars PROVE (\A s \in Requests : Belongs(s))' /\ Alone'
  BY DEF ConnectionsBelongToCalls, Belongs, Alone, HoldsTx, HoldsStatement
<1>0. TypeOK /\ (\A s \in Requests : Belongs(s)) /\ Alone
  BY BelongParts DEF IInv
<1> USE <1>0 DEF Goto
<1> DEFINE Goal == (\A s \in Requests : Belongs(s))' /\ Alone'
<1>1. ASSUME NEW r \in Requests, NEW k \in Ops, Arrive(r, k) PROVE Goal
  BY <1>1 DEF Arrive, Belongs, Alone, HoldsTx, HoldsStatement, TypeOK
<1>2. ASSUME NEW r \in Requests, Read(r) PROVE Goal
  <2>1. pc[r] = "read" /\ Lend(r, "statement") /\ pc' = [pc EXCEPT ![r] = "reading"]
    BY <1>2 DEF Read
  <2>2. \A c \in Connections : holder[c] # <<r, "statement">>
    BY <2>1 DEF Belongs, HoldsStatement
  <2>3. Alone' /\ HoldsStatement(r)' /\ (HoldsTx(r)' <=> HoldsTx(r))
    BY <2>1, <2>2, LendGives DEF HoldsTx, HoldsStatement
  <2>4. \A s \in Requests \ {r} : (HoldsTx(s)' <=> HoldsTx(s)) /\ (HoldsStatement(s)' <=> HoldsStatement(s))
    BY <2>1, <2>2, LendGives DEF HoldsTx, HoldsStatement
  <2>. QED
    BY <2>1, <2>3, <2>4, OthersBelong DEF Belongs, TypeOK
<1>3. ASSUME NEW r \in Requests, EndRead(r) PROVE Goal
  <2> DEFINE Uses == {<<r, "statement">>}
  <2>1. GiveBack(Uses) /\ Uses \in SUBSET (Requests \X {"tx", "statement"})
    BY <1>3 DEF EndRead
  <2>2. /\ Alone'
        /\ \A s \in Requests, u \in {"tx", "statement"} :
              (\E c \in Connections : holder'[c] = <<s, u>>)
                <=> /\ <<s, u>> \notin Uses
                    /\ \E c \in Connections : holder[c] = <<s, u>>
    BY <2>1, GiveBackTakes
  <2>3. (HoldsTx(r)' <=> HoldsTx(r)) /\ ~HoldsStatement(r)'
    BY <2>2 DEF HoldsTx, HoldsStatement
  <2>4. \A s \in Requests \ {r} : (HoldsTx(s)' <=> HoldsTx(s)) /\ (HoldsStatement(s)' <=> HoldsStatement(s))
    BY <2>2 DEF HoldsTx, HoldsStatement
  <2>5. \A s \in Requests \ {r} : pc'[s] = pc[s]
    BY <1>3 DEF EndRead, TypeOK
  <2>6. Belongs(r)'
    BY <1>3, <2>3 DEF EndRead, Belongs, TypeOK
  <2>. QED
    BY <2>2, <2>4, <2>5, <2>6, OthersBelong
<1>4. ASSUME NEW r \in Requests, Begin(r) PROVE Goal
  <2>1. pc[r] = "begin" /\ Lend(r, "tx") /\ pc' = [pc EXCEPT ![r] = "open"]
    BY <1>4 DEF Begin
  <2>2. \A c \in Connections : holder[c] # <<r, "tx">>
    BY <2>1 DEF Belongs, HoldsTx
  <2>3. Alone' /\ HoldsTx(r)' /\ (HoldsStatement(r)' <=> HoldsStatement(r))
    BY <2>1, <2>2, LendGives DEF HoldsTx, HoldsStatement
  <2>4. \A s \in Requests \ {r} : (HoldsTx(s)' <=> HoldsTx(s)) /\ (HoldsStatement(s)' <=> HoldsStatement(s))
    BY <2>1, <2>2, LendGives DEF HoldsTx, HoldsStatement
  <2>. QED
    BY <2>1, <2>3, <2>4, OthersBelong DEF Belongs, TypeOK
<1>5. ASSUME NEW r \in Requests, Nest(r) PROVE Goal
  BY <1>5 DEF Nest, Belongs, Alone, HoldsTx, HoldsStatement, TypeOK
<1>6. ASSUME NEW r \in Requests, Ask(r) PROVE Goal
  <2>1. pc[r] = "ask" /\ Lend(r, "statement") /\ pc' = [pc EXCEPT ![r] = "nested"]
    BY <1>6 DEF Ask
  <2>2. \A c \in Connections : holder[c] # <<r, "statement">>
    BY <2>1 DEF Belongs, HoldsStatement
  <2>3. Alone' /\ HoldsStatement(r)' /\ (HoldsTx(r)' <=> HoldsTx(r))
    BY <2>1, <2>2, LendGives DEF HoldsTx, HoldsStatement
  <2>4. \A s \in Requests \ {r} : (HoldsTx(s)' <=> HoldsTx(s)) /\ (HoldsStatement(s)' <=> HoldsStatement(s))
    BY <2>1, <2>2, LendGives DEF HoldsTx, HoldsStatement
  <2>. QED
    BY <2>1, <2>3, <2>4, OthersBelong DEF Belongs, TypeOK
<1>7. ASSUME NEW r \in Requests, EndNested(r) PROVE Goal
  <2> DEFINE Uses == {<<r, "statement">>}
  <2>1. GiveBack(Uses) /\ Uses \in SUBSET (Requests \X {"tx", "statement"})
    BY <1>7 DEF EndNested
  <2>2. /\ Alone'
        /\ \A s \in Requests, u \in {"tx", "statement"} :
              (\E c \in Connections : holder'[c] = <<s, u>>)
                <=> /\ <<s, u>> \notin Uses
                    /\ \E c \in Connections : holder[c] = <<s, u>>
    BY <2>1, GiveBackTakes
  <2>3. (HoldsTx(r)' <=> HoldsTx(r)) /\ ~HoldsStatement(r)'
    BY <2>2 DEF HoldsTx, HoldsStatement
  <2>4. \A s \in Requests \ {r} : (HoldsTx(s)' <=> HoldsTx(s)) /\ (HoldsStatement(s)' <=> HoldsStatement(s))
    BY <2>2 DEF HoldsTx, HoldsStatement
  <2>5. \A s \in Requests \ {r} : pc'[s] = pc[s]
    BY <1>7 DEF EndNested, TypeOK
  <2>6. Belongs(r)'
    BY <1>7, <2>3 DEF EndNested, Belongs, TypeOK
  <2>. QED
    BY <2>2, <2>4, <2>5, <2>6, OthersBelong
<1>8. ASSUME NEW r \in Requests, Release(r) PROVE Goal
  <2> DEFINE Uses == {<<r, "tx">>}
  <2>1. GiveBack(Uses) /\ Uses \in SUBSET (Requests \X {"tx", "statement"})
    BY <1>8 DEF Release
  <2>2. /\ Alone'
        /\ \A s \in Requests, u \in {"tx", "statement"} :
              (\E c \in Connections : holder'[c] = <<s, u>>)
                <=> /\ <<s, u>> \notin Uses
                    /\ \E c \in Connections : holder[c] = <<s, u>>
    BY <2>1, GiveBackTakes
  <2>3. ~HoldsTx(r)' /\ (HoldsStatement(r)' <=> HoldsStatement(r))
    BY <2>2 DEF HoldsTx, HoldsStatement
  <2>4. \A s \in Requests \ {r} : (HoldsTx(s)' <=> HoldsTx(s)) /\ (HoldsStatement(s)' <=> HoldsStatement(s))
    BY <2>2 DEF HoldsTx, HoldsStatement
  <2>5. \A s \in Requests \ {r} : pc'[s] = pc[s]
    BY <1>8 DEF Release, TypeOK
  <2>6. Belongs(r)'
    BY <1>8, <2>3 DEF Release, Belongs, TypeOK
  <2>. QED
    BY <2>2, <2>4, <2>5, <2>6, OthersBelong
<1>9. ASSUME NEW r \in Requests, Fail(r) PROVE Goal
  <2> DEFINE Uses == {<<r, "tx">>, <<r, "statement">>}
  <2>1. GiveBack(Uses) /\ Uses \in SUBSET (Requests \X {"tx", "statement"})
    BY <1>9 DEF Fail
  <2>2. /\ Alone'
        /\ \A s \in Requests, u \in {"tx", "statement"} :
              (\E c \in Connections : holder'[c] = <<s, u>>)
                <=> /\ <<s, u>> \notin Uses
                    /\ \E c \in Connections : holder[c] = <<s, u>>
    BY <2>1, GiveBackTakes
  <2>3. ~HoldsTx(r)' /\ ~HoldsStatement(r)'
    BY <2>2 DEF HoldsTx, HoldsStatement
  <2>4. \A s \in Requests \ {r} : (HoldsTx(s)' <=> HoldsTx(s)) /\ (HoldsStatement(s)' <=> HoldsStatement(s))
    BY <2>2 DEF HoldsTx, HoldsStatement
  <2>5. \A s \in Requests \ {r} : pc'[s] = pc[s]
    BY <1>9 DEF Fail, TypeOK
  <2>6. Belongs(r)'
    BY <1>9, <2>3 DEF Fail, Belongs, TypeOK
  <2>. QED
    BY <2>2, <2>4, <2>5, <2>6, OthersBelong
<1>10. CASE UNCHANGED vars
  BY <1>10 DEF vars, Belongs, Alone, HoldsTx, HoldsStatement
<1>. QED
  BY <1>1, <1>2, <1>3, <1>4, <1>5, <1>6, <1>7, <1>8, <1>9, <1>10 DEF Next, Continue

(* The three parts hold together in every state of the pool. *)
THEOREM PoolInvariant == Spec => []IInv
<1>1. IInv /\ [Next]_vars => IInv'
  BY NextTypeOK, NextOnlyNestingAsks, NextBelong DEF IInv
<1>. QED
  BY InitIInv, <1>1, PTL DEF Spec

(* Connections, calls and what is left of them keep their types. *)
THEOREM TypesHold == Spec => []TypeOK
<1>1. IInv => TypeOK
  BY DEF IInv
<1>. QED
  BY <1>1, PoolInvariant, PTL

(* No path through a call, failures included, leaks a connection. *)
THEOREM NoConnectionLeaks == Spec => []ConnectionsBelongToCalls
<1>1. IInv => ConnectionsBelongToCalls
  BY DEF IInv
<1>. QED
  BY PoolInvariant, <1>1, PTL

(* If every call is stuck, then each connection is held by a createOrder   *)
(* or an updateQuote that waits for another one.                           *)
THEOREM HaltNeedsNesting == Spec => []OnlyNestingHaltsTheService
<1>1. IInv => OnlyNestingHaltsTheService
  <2> SUFFICES ASSUME IInv, \A r \in InFlight : Stuck(r), InFlight # {},
                      NEW c \in Connections
               PROVE  \E r \in Requests : /\ holder[c] = <<r, "tx">>
                                          /\ pc[r] = "ask"
                                          /\ op[r] \in Nesting
    BY DEF OnlyNestingHaltsTheService
  <2>1. holder[c] # None
    BY DEF Stuck, Free
  <2>2. PICK r \in Requests, use \in {"tx", "statement"} : holder[c] = <<r, use>>
    BY <2>1 DEF IInv, TypeOK, Users
  <2>3. r \in InFlight => pc[r] \in Waits
    BY DEF Stuck
  <2>4. use # "statement"
    BY <2>2, <2>3 DEF IInv, ConnectionsBelongToCalls, InFlight, Steps, Waits
  <2>5. holder[c] = <<r, "tx">> /\ pc[r] = "ask"
    BY <2>2, <2>3, <2>4 DEF IInv, ConnectionsBelongToCalls, InFlight, Steps, Waits
  <2>. QED
    BY <2>5 DEF IInv, OnlyNestingAsks
<1>. QED
  BY PoolInvariant, <1>1, PTL
=============================================================================
