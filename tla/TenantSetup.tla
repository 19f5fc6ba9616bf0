---------------------------- MODULE TenantSetup -----------------------------
(***************************************************************************)
(* TenantService.createTenant: an owner who has no workspace yet sets one  *)
(* up.  A call writes to two systems that share no transaction, the        *)
(* database (the tables tenant and employee) and Cognito (the attribute    *)
(* custom:tenant_id, from which every later token takes its tenant), and   *)
(* undoes by hand what it has written when a write fails.                  *)
(*                                                                         *)
(* An owner may call several times, at once or after a failure.  A tenant  *)
(* is named after the call that inserts it.                                *)
(***************************************************************************)
EXTENDS Naturals, FiniteSets

CONSTANTS
  Requests,    \* calls of POST /tenant/setup
  Employees,   \* owners that exist in the database and in Cognito
  None         \* no tenant, no employee

ASSUME TenantSetupAssumption == None \notin Requests \cup Employees

VARIABLES
  tenants,    \* rows of the table tenant
  assigned,   \* employee.tenantId
  claim,      \* custom:tenant_id of the user in Cognito
  pc,         \* where each call stands, or how it ended
  owner       \* who makes the call

vars == <<tenants, assigned, claim, pc, owner>>

Steps == {"save", "assign", "link", "undo"}

(* "rejected": already set up; "failed": undone; "stuck": a row that could *)
(* not be undone remains; "dead": the process died during the call.        *)
Outcomes == {"ok", "rejected", "failed", "stuck", "dead"}

InFlight == {r \in Requests : pc[r] \in Steps}

Init == /\ tenants = {}
        /\ assigned = [e \in Employees |-> None]
        /\ claim = [e \in Employees |-> None]
        /\ pc = [r \in Requests |-> "idle"]
        /\ owner = [r \in Requests |-> None]

Goto(r, step) == pc' = [pc EXCEPT ![r] = step]
-----------------------------------------------------------------------------
(* getEmployeeBySub: an employee with a tenant is turned away. *)
Call(r, e) ==
  /\ pc[r] = "idle"
  /\ owner' = [owner EXCEPT ![r] = e]
  /\ Goto(r, IF assigned[e] = None THEN "save" ELSE "rejected")
  /\ UNCHANGED <<tenants, assigned, claim>>

(* The tenant is inserted.  When the insert reports an error the call has  *)
(* no tenant to delete, even if the row was committed.                     *)
Save(r) ==
  /\ pc[r] = "save"
  /\ \/ tenants' = tenants \cup {r} /\ \E end \in {"assign", "stuck"} : Goto(r, end)
     \/ UNCHANGED tenants /\ Goto(r, "failed")
  /\ UNCHANGED <<assigned, claim, owner>>

(* Mutant of Unassigned: the update has no condition on tenantId. *)
UnassignedUnchecked(r) == TRUE

(* UPDATE employee SET tenantId WHERE sub AND tenantId IS NULL, in one     *)
(* statement: it may apply and still be reported as an error.              *)
Unassigned(r) == assigned[owner[r]] = None

(* Mutant of Assign: the number of rows affected is not looked at. *)
AssignRowsIgnored(r) ==
  /\ pc[r] = "assign"
  /\ IF Unassigned(r) THEN assigned' = [assigned EXCEPT ![owner[r]] = r]
                      ELSE UNCHANGED assigned
  /\ Goto(r, "link")
  /\ UNCHANGED <<tenants, claim, owner>>

Assign(r) ==
  /\ pc[r] = "assign"
  /\ \/ /\ Unassigned(r)
        /\ assigned' = [assigned EXCEPT ![owner[r]] = r]
        /\ \E next \in {"link", "undo"} : Goto(r, next)
     \/ UNCHANGED assigned /\ Goto(r, "undo")
  /\ UNCHANGED <<tenants, claim, owner>>

(* Mutant of SetClaim: it is forgotten. *)
SetClaimForgotten(r) == UNCHANGED claim

(* cognitoService.setTenantId: Cognito may apply the update and the call   *)
(* still see an error, such as a timeout.                                  *)
SetClaim(r) == claim' = [claim EXCEPT ![owner[r]] = r]

Link(r) ==
  /\ pc[r] = "link"
  /\ \/ SetClaim(r) /\ \E next \in {"ok", "undo"} : Goto(r, next)
     \/ UNCHANGED claim /\ Goto(r, "undo")
  /\ UNCHANGED <<tenants, assigned, owner>>

(* Mutant of Undo: employee.tenantId has no foreign key. *)
UndoWithoutSetNull(r) ==
  /\ pc[r] = "undo"
  /\ tenants' = tenants \ {r}
  /\ Goto(r, "failed")
  /\ UNCHANGED <<assigned, claim, owner>>

(* The catch block deletes the tenant; the foreign key of employee is      *)
(* ON DELETE SET NULL.  cognitoUpdated is only set once nothing can throw  *)
(* any more, so clearTenantId is never called.  A delete that fails is     *)
(* logged and given up.                                                    *)
Undo(r) ==
  /\ pc[r] = "undo"
  /\ \/ /\ tenants' = tenants \ {r}
        /\ assigned' = [e \in Employees |-> IF assigned[e] = r THEN None ELSE assigned[e]]
        /\ Goto(r, "failed")
     \/ UNCHANGED <<tenants, assigned>> /\ Goto(r, "stuck")
  /\ UNCHANGED <<claim, owner>>

(* The process dies: nothing resumes the call. *)
Die(r) ==
  /\ r \in InFlight
  /\ Goto(r, "dead")
  /\ UNCHANGED <<tenants, assigned, claim, owner>>

Continue(r) == Save(r) \/ Assign(r) \/ Link(r) \/ Undo(r)

Next ==
  \/ \E r \in Requests : \/ \E e \in Employees : Call(r, e)
                         \/ Continue(r)
                         \/ Die(r)
  \/ InFlight = {} /\ UNCHANGED vars

Spec == Init /\ [][Next]_vars
-----------------------------------------------------------------------------
(* Type invariant. *)
TypeOK ==
  /\ tenants \subseteq Requests
  /\ assigned \in [Employees -> Requests \cup {None}]
  /\ claim \in [Employees -> Requests \cup {None}]
  /\ pc \in [Requests -> {"idle"} \cup Steps \cup Outcomes]
  /\ owner \in [Requests -> Employees \cup {None}]

(* However many calls an owner makes, at once or in a row, at most one is  *)
(* answered with a workspace.                                              *)
OneSetupPerOwner ==
  \A r, s \in Requests :
     pc[r] = "ok" /\ pc[s] = "ok" /\ owner[r] = owner[s] => r = s

(* A workspace that was answered stands for good: its row exists, and the  *)
(* database and Cognito name it for the owner, whatever later calls do.    *)
AnsweredSetupStands ==
  \A r \in Requests :
     pc[r] = "ok" => /\ r \in tenants
                     /\ assigned[owner[r]] = r
                     /\ claim[owner[r]] = r

(* A claim that names an existing tenant names the one that the database   *)
(* assigns to the same person: two calls never split the two systems.      *)
ClaimAgreesWithAssignment ==
  \A e \in Employees : claim[e] \in tenants => assigned[e] = claim[e]

(* Once nothing is under way, and unless a delete failed or the process    *)
(* died, the tenants are those answered and nobody is assigned any other.  *)
OnlyAnsweredTenantsRemain ==
  (InFlight = {} /\ \A r \in Requests : pc[r] \notin {"stuck", "dead"}) =>
     /\ tenants = {r \in Requests : pc[r] = "ok"}
     /\ \A e \in Employees : assigned[e] # None => pc[assigned[e]] = "ok"
=============================================================================
