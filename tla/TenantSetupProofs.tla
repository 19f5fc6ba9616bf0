------------------------- MODULE TenantSetupProofs --------------------------
(***************************************************************************)
(* Proofs about TenantSetup, for every set of calls and owners.            *)
(*                                                                         *)
(* The conditional update of the employee makes "the tenant assigned to    *)
(* the owner" a lock: a call that stands at its write to Cognito holds it, *)
(* and only the rollback of the call that took it gives it back.  Ledger   *)
(* states that, with what each step has written so far.                    *)
(***************************************************************************)
EXTENDS TenantSetup, TLAPS

Called == Steps \cup Outcomes

Ledger ==
  /\ \A r \in Requests :
       /\ pc[r] \in Called => owner[r] \in Employees
       /\ r \in tenants => pc[r] \in {"assign", "link", "undo", "ok", "stuck", "dead"}
       /\ pc[r] \in {"assign", "link", "undo", "ok"} => r \in tenants
       /\ pc[r] \in {"link", "ok"} => assigned[owner[r]] = r
       /\ pc[r] = "ok" => claim[owner[r]] = r
  /\ \A e \in Employees, r \in Requests :
       /\ assigned[e] = r => r \in tenants /\ owner[r] = e
       /\ claim[e] = r => pc[r] \in {"undo", "ok", "failed", "stuck", "dead"}

IInv == TypeOK /\ Ledger /\ ClaimAgreesWithAssignment

(* The inductive invariant holds before the first call. *)
LEMMA InitIInv == Init => IInv
BY TenantSetupAssumption
   DEF Init, IInv, TypeOK, Ledger, ClaimAgreesWithAssignment, Called, Steps, Outcomes

(* Every step keeps the inductive invariant. *)
LEMMA StepIInv == IInv /\ [Next]_vars => IInv'
<1> SUFFICES ASSUME IInv, [Next]_vars PROVE IInv'
  OBVIOUS
<1> USE TenantSetupAssumption DEF IInv
<1>g. ASSUME NEW r \in Requests, NEW step \in {"idle"} \cup Steps \cup Outcomes, Goto(r, step)
      PROVE  /\ pc' \in [Requests -> {"idle"} \cup Steps \cup Outcomes]
             /\ \A s \in Requests : pc'[s] = IF s = r THEN step ELSE pc[s]
  BY <1>g DEF Goto, TypeOK
<1>s. /\ \A step \in {"save", "assign", "link", "undo"} : step \in Steps
      /\ \A step \in {"ok", "rejected", "failed", "stuck", "dead"} : step \in Outcomes
  BY DEF Steps, Outcomes
<1>1. ASSUME NEW r \in Requests, NEW e \in Employees, Call(r, e) PROVE IInv'
  <2>1. PICK step \in {"save", "rejected"} : Goto(r, step)
    BY <1>1 DEF Call
  <2>2. /\ pc[r] = "idle" /\ UNCHANGED <<tenants, assigned, claim>>
        /\ owner' \in [Requests -> Employees \cup {None}]
        /\ \A s \in Requests : owner'[s] = IF s = r THEN e ELSE owner[s]
    BY <1>1 DEF Call, TypeOK
  <2>3. TypeOK'
    BY <2>1, <2>2, <1>g, <1>s DEF TypeOK
  <2>4. Ledger'
    BY <2>1, <2>2, <1>g, <1>s DEF Ledger, Called, Steps, Outcomes
  <2>5. ClaimAgreesWithAssignment'
    BY <2>2 DEF ClaimAgreesWithAssignment
  <2> QED
    BY <2>3, <2>4, <2>5
<1>2. ASSUME NEW r \in Requests, Save(r) PROVE IInv'
  <2>1. CASE tenants' = tenants \cup {r} /\ \E end \in {"assign", "stuck"} : Goto(r, end)
    <3>1. PICK end \in {"assign", "stuck"} : Goto(r, end)
      BY <2>1
    <3>2. /\ pc[r] = "save" /\ tenants' = tenants \cup {r}
          /\ UNCHANGED <<assigned, claim, owner>>
      BY <1>2, <2>1 DEF Save
    <3>3. TypeOK'
      BY <3>1, <3>2, <1>g, <1>s DEF TypeOK
    <3>4. Ledger'
      BY <3>1, <3>2, <1>g, <1>s DEF Ledger, Called
    <3>5. ClaimAgreesWithAssignment'
      BY <3>2 DEF ClaimAgreesWithAssignment, Ledger
    <3> QED
      BY <3>3, <3>4, <3>5
  <2>2. CASE UNCHANGED tenants /\ Goto(r, "failed")
    <3>1. pc[r] = "save" /\ UNCHANGED <<tenants, assigned, claim, owner>>
      BY <1>2, <2>2 DEF Save
    <3>2. TypeOK'
      BY <2>2, <3>1, <1>g, <1>s DEF TypeOK
    <3>3. Ledger'
      BY <2>2, <3>1, <1>g, <1>s DEF Ledger, Called
    <3>4. ClaimAgreesWithAssignment'
      BY <3>1 DEF ClaimAgreesWithAssignment
    <3> QED
      BY <3>2, <3>3, <3>4
  <2> QED
    BY <1>2, <2>1, <2>2 DEF Save
<1>3. ASSUME NEW r \in Requests, Assign(r) PROVE IInv'
  <2>0. /\ pc[r] = "assign" /\ r \in tenants /\ owner[r] \in Employees
        /\ UNCHANGED <<tenants, claim, owner>>
    BY <1>3 DEF Assign, Ledger, Called, Steps
  <2>1. CASE /\ Unassigned(r)
             /\ assigned' = [assigned EXCEPT ![owner[r]] = r]
             /\ \E next \in {"link", "undo"} : Goto(r, next)
    <3>1. PICK next \in {"link", "undo"} : Goto(r, next)
      BY <2>1
    <3>2. \A e \in Employees : assigned'[e] = IF e = owner[r] THEN r ELSE assigned[e]
      BY <2>1 DEF TypeOK
    <3>3. assigned[owner[r]] = None
      BY <2>1 DEF Unassigned
    <3>4. TypeOK'
      BY <2>0, <2>1, <3>1, <1>g, <1>s DEF TypeOK
    <3>5. Ledger'
      BY <2>0, <3>1, <3>2, <3>3, <1>g, <1>s DEF Ledger, Called, TypeOK, Steps
    <3>6. ClaimAgreesWithAssignment'
      BY <2>0, <3>2, <3>3 DEF ClaimAgreesWithAssignment, TypeOK
    <3> QED
      BY <3>4, <3>5, <3>6
  <2>2. CASE UNCHANGED assigned /\ Goto(r, "undo")
    <3>1. TypeOK'
      BY <2>0, <2>2, <1>g, <1>s DEF TypeOK
    <3>2. Ledger'
      BY <2>0, <2>2, <1>g, <1>s DEF Ledger, Called
    <3>3. ClaimAgreesWithAssignment'
      BY <2>0, <2>2 DEF ClaimAgreesWithAssignment
    <3> QED
      BY <3>1, <3>2, <3>3
  <2> QED
    BY <1>3, <2>1, <2>2 DEF Assign
<1>4. ASSUME NEW r \in Requests, Link(r) PROVE IInv'
  <2>0. /\ pc[r] = "link" /\ r \in tenants /\ owner[r] \in Employees
        /\ assigned[owner[r]] = r
        /\ UNCHANGED <<tenants, assigned, owner>>
    BY <1>4 DEF Link, Ledger, Called, Steps
  <2>1. CASE SetClaim(r) /\ \E next \in {"ok", "undo"} : Goto(r, next)
    <3>1. PICK next \in {"ok", "undo"} : Goto(r, next)
      BY <2>1
    <3>2. /\ claim' \in [Employees -> Requests \cup {None}]
          /\ \A e \in Employees : claim'[e] = IF e = owner[r] THEN r ELSE claim[e]
      BY <2>0, <2>1 DEF SetClaim, TypeOK
    <3>3. TypeOK'
      BY <2>0, <3>1, <3>2, <1>g, <1>s DEF TypeOK
    <3>4. Ledger'
      BY <2>0, <3>1, <3>2, <1>g, <1>s DEF Ledger, Called, Steps, Outcomes
    <3>5. ClaimAgreesWithAssignment'
      BY <2>0, <3>2 DEF ClaimAgreesWithAssignment
    <3> QED
      BY <3>3, <3>4, <3>5
  <2>2. CASE UNCHANGED claim /\ Goto(r, "undo")
    <3>1. TypeOK'
      BY <2>0, <2>2, <1>g, <1>s DEF TypeOK
    <3>2. Ledger'
      BY <2>0, <2>2, <1>g, <1>s DEF Ledger, Called
    <3>3. ClaimAgreesWithAssignment'
      BY <2>0, <2>2 DEF ClaimAgreesWithAssignment
    <3> QED
      BY <3>1, <3>2, <3>3
  <2> QED
    BY <1>4, <2>1, <2>2 DEF Link
<1>5. ASSUME NEW r \in Requests, Undo(r) PROVE IInv'
  <2>0. pc[r] = "undo" /\ r \in tenants /\ UNCHANGED <<claim, owner>>
    BY <1>5 DEF Undo, Ledger
  <2>1. CASE /\ tenants' = tenants \ {r}
             /\ assigned' = [e \in Employees |-> IF assigned[e] = r THEN None ELSE assigned[e]]
             /\ Goto(r, "failed")
    <3>1. TypeOK'
      BY <2>0, <2>1, <1>g, <1>s DEF TypeOK
    <3>2. Ledger'
      BY <2>0, <2>1, <1>g, <1>s DEF Ledger, Called, TypeOK
    <3>3. ClaimAgreesWithAssignment'
      BY <2>0, <2>1 DEF ClaimAgreesWithAssignment, TypeOK
    <3> QED
      BY <3>1, <3>2, <3>3
  <2>2. CASE UNCHANGED <<tenants, assigned>> /\ Goto(r, "stuck")
    <3>1. TypeOK'
      BY <2>0, <2>2, <1>g, <1>s DEF TypeOK
    <3>2. Ledger'
      BY <2>0, <2>2, <1>g, <1>s DEF Ledger, Called, Steps
    <3>3. ClaimAgreesWithAssignment'
      BY <2>0, <2>2 DEF ClaimAgreesWithAssignment
    <3> QED
      BY <3>1, <3>2, <3>3
  <2> QED
    BY <1>5, <2>1, <2>2 DEF Undo
<1>6. ASSUME NEW r \in Requests, Die(r) PROVE IInv'
  <2>1. pc[r] \in Steps /\ Goto(r, "dead") /\ UNCHANGED <<tenants, assigned, claim, owner>>
    BY <1>6 DEF Die, InFlight
  <2>2. TypeOK'
    BY <2>1, <1>g, <1>s DEF TypeOK
  <2>3. Ledger'
    BY <2>1, <1>g, <1>s DEF Ledger, Called
  <2>4. ClaimAgreesWithAssignment'
    BY <2>1 DEF ClaimAgreesWithAssignment
  <2> QED
    BY <2>2, <2>3, <2>4
<1>7. CASE UNCHANGED vars
  BY <1>7 DEF vars, TypeOK, Ledger, ClaimAgreesWithAssignment
<1> QED
  BY <1>1, <1>2, <1>3, <1>4, <1>5, <1>6, <1>7 DEF Next, Continue
-----------------------------------------------------------------------------
(* The inductive invariant of createTenant holds in every state, however   *)
(* calls of one owner overlap, fail or die.                                *)
THEOREM InductiveInvariant == Spec => []IInv
BY InitIInv, StepIInv, PTL DEF Spec

(* Tenants, assignments, claims and calls keep their types. *)
THEOREM TypesHold == Spec => []TypeOK
<1>1. IInv => TypeOK
  BY DEF IInv
<1> QED
  BY <1>1, InductiveInvariant, PTL

(* A workspace that was answered stands for good, however many calls of    *)
(* createTenant overlap, fail or die.                                      *)
THEOREM SetupStands == Spec => []AnsweredSetupStands
<1>1. IInv => AnsweredSetupStands
  BY DEF IInv, Ledger, AnsweredSetupStands
<1> QED
  BY <1>1, InductiveInvariant, PTL

(* And an owner gets at most one. *)
THEOREM SetupIsExclusive == Spec => []OneSetupPerOwner
<1>1. IInv => OneSetupPerOwner
  BY DEF IInv, Ledger, OneSetupPerOwner
<1> QED
  BY <1>1, InductiveInvariant, PTL

(* Cognito and the database never name two different existing tenants for  *)
(* one person.                                                             *)
THEOREM SystemsAgree == Spec => []ClaimAgreesWithAssignment
<1>1. IInv => ClaimAgreesWithAssignment
  BY DEF IInv
<1> QED
  BY <1>1, InductiveInvariant, PTL

(* With nothing under way, no failed delete and no death, the database     *)
(* holds the answered tenants and no assignment to any other.              *)
THEOREM RollbackIsComplete == Spec => []OnlyAnsweredTenantsRemain
<1>1. ASSUME IInv PROVE OnlyAnsweredTenantsRemain
  <2> SUFFICES ASSUME InFlight = {}, \A r \in Requests : pc[r] \notin {"stuck", "dead"}
               PROVE  /\ tenants = {r \in Requests : pc[r] = "ok"}
                      /\ \A e \in Employees : assigned[e] # None => pc[assigned[e]] = "ok"
    BY DEF OnlyAnsweredTenantsRemain
  <2>1. \A r \in Requests : r \in tenants <=> pc[r] = "ok"
    BY <1>1 DEF IInv, Ledger, InFlight, Steps
  <2> QED
    BY <1>1, <2>1 DEF IInv, Ledger, TypeOK
<1> QED
  BY <1>1, InductiveInvariant, PTL
=============================================================================
