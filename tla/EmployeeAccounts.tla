-------------------------- MODULE EmployeeAccounts --------------------------
(***************************************************************************)
(* AuthService and AdminService: accounts of people, each a user of        *)
(* Cognito (who may log in, in which groups) and a row of the table        *)
(* employee.  No transaction spans the two.  A call writes to one, then to *)
(* the other, and undoes the first by hand when the second fails.          *)
(*                                                                         *)
(* One tenant is modelled, set up by Founder, its owner.  An owner who     *)
(* registers gets a tenant of their own and never belongs to this one.     *)
(* A person is an e-mail address.  A sub, the identifier that Cognito      *)
(* gives a user, is named after the call that created the user.            *)
(***************************************************************************)
EXTENDS Naturals, FiniteSets

CONSTANTS
  People,           \* e-mail addresses
  Founder,          \* the owner of the tenant
  Calls,            \* requests to /auth/register and /admin
  MaxStatusCalls,   \* bound: disable and reactivate calls at once for a person
  None              \* no user, no row, no token

VARIABLES
  user,    \* the Cognito user of each person
  row,     \* the row of employee of each person
  token,   \* the last token each person got for this tenant
  call,    \* what each call was asked, and the roles in its caller's token
  pc       \* where each call stands, or how it ended

vars == <<user, row, token, call, pc>>

Roles == {"owner", "admin", "seller"}
CreatableRoles == {"admin", "seller"}
Subs == Calls \cup {Founder}

CreateOps == {"register", "createEmployee"}
StatusOps == {"disable", "reactivate"}
RoleOps == {"grant", "revoke"}

User == [sub : Subs, enabled : BOOLEAN, groups : SUBSET Roles, ours : BOOLEAN]
Row == [sub : Subs, active : BOOLEAN, ours : BOOLEAN]
Token == [sub : Subs, roles : SUBSET Roles]
Request == [op : CreateOps \cup StatusOps \cup RoleOps,
            who : People, role : Roles \cup {None}, callerRoles : SUBSET Roles]

ASSUME EmployeeAccountsAssumption ==
  /\ Founder \in People
  /\ Founder \notin Calls
  /\ None \notin Calls \cup Roles
  /\ None \notin User /\ None \notin Row /\ None \notin Token /\ None \notin Request
  /\ MaxStatusCalls \in Nat \ {0}

CreateSteps == {"user", "group", "insert", "remove"}
AdminSteps == {"roles", "cognito", "update", "restore"}
Steps == CreateSteps \cup AdminSteps

(* "rejected": ended before it wrote anything; "failed": undone; "stuck":  *)
(* something it wrote may remain; "dead": the process died during the call. *)
Outcomes == {"ok", "rejected", "failed", "stuck", "dead"}

InFlight == {c \in Calls : pc[c] \in Steps}
About(p) == {c \in Calls : call[c] # None /\ call[c].who = p}
StatusCalls(p) == {c \in About(p) : call[c].op \in StatusOps}

Init ==
  /\ user = [p \in People |->
               IF p = Founder
               THEN [sub |-> Founder, enabled |-> TRUE, groups |-> {"owner"}, ours |-> TRUE]
               ELSE None]
  /\ row = [p \in People |->
              IF p = Founder THEN [sub |-> Founder, active |-> TRUE, ours |-> TRUE] ELSE None]
  /\ token = [p \in People |-> None]
  /\ call = [c \in Calls |-> None]
  /\ pc = [c \in Calls |-> "idle"]

Goto(c, step) == pc' = [pc EXCEPT ![c] = step]
-----------------------------------------------------------------------------
(* POST /auth/login.  The token carries the groups of now and is valid     *)
(* until it expires, whatever becomes of the user.  Only people of the     *)
(* tenant are of interest: RequireTenantGuard turns the others away.       *)
Login(p) ==
  /\ user[p] # None /\ user[p].enabled /\ user[p].ours
  /\ token' = [token EXCEPT ![p] = [sub |-> user[p].sub, roles |-> user[p].groups]]
  /\ UNCHANGED <<user, row, call, pc>>

(* RolesGuard on the controller of /admin. *)
Admitted(by) == token[by] # None /\ token[by].roles \cap {"owner", "admin"} # {}

Begin(c, op, p, role, callerRoles, step) ==
  /\ pc[c] = "idle"
  /\ call' = [call EXCEPT ![c] = [op |-> op, who |-> p, role |-> role,
                                  callerRoles |-> callerRoles]]
  /\ Goto(c, step)
  /\ UNCHANGED <<user, row, token>>

(* POST /auth/register, open to anyone. *)
Register(c, p) == Begin(c, "register", p, "owner", {}, "user")

(* Mutant of MayGive: an admin may make admins. *)
MayGiveUnchecked(by, role) == role # "owner"

(* Nobody makes owners, and only owners make admins. *)
MayGive(by, role) ==
  /\ role # "owner"
  /\ role = "admin" => "owner" \in token[by].roles

CreateEmployee(c, by, p, role) ==
  /\ Admitted(by)
  /\ MayGive(by, role)
  /\ Begin(c, "createEmployee", p, role, token[by].roles, "user")

(* Rows are only ever inserted and their sub and tenant never change, so   *)
(* the row is read and checked as the call begins.                         *)
OurRow(p) == row[p] # None /\ row[p].ours

(* deleteEmployee and reactivateEmployee compare e-mail addresses. *)
ChangeStatus(c, by, p, op) ==
  /\ Admitted(by)
  /\ OurRow(p)
  /\ p # by
  /\ Cardinality({d \in StatusCalls(p) : d \in InFlight}) < MaxStatusCalls
  /\ Begin(c, op, p, None, token[by].roles, "roles")

(* updateEmployeeRole and revokeEmployeeRole compare subs.  Their checks   *)
(* on the role are the same: not "owner", and "admin" only by an owner.    *)
ChangeRole(c, by, p, op, role) ==
  /\ Admitted(by)
  /\ OurRow(p)
  /\ row[p].sub # token[by].sub
  /\ MayGive(by, role)
  /\ Begin(c, op, p, role, token[by].roles, "roles")
-----------------------------------------------------------------------------
(* Creation: the user, its group, the row.                                 *)

(* Mutant of NameFree: an existing user is taken over. *)
NameTaken(c) == TRUE

(* UsernameExistsException. *)
NameFree(c) == user[call[c].who] = None

(* signUp or adminCreateUser.  A call that does not see the answer leaves  *)
(* the user behind; adminCreateUser may answer without a sub.              *)
CreateUser(c) ==
  /\ pc[c] = "user"
  /\ \/ /\ NameFree(c)
        /\ user' = [user EXCEPT ![call[c].who] =
                      [sub |-> c, enabled |-> TRUE, groups |-> {},
                       ours |-> call[c].op = "createEmployee"]]
        /\ \/ \E next \in {"group", "stuck"} : Goto(c, next)
           \/ call[c].op = "createEmployee" /\ Goto(c, "remove")
     \/ UNCHANGED user /\ Goto(c, "rejected")
  /\ UNCHANGED <<row, token, call>>

(* Mutant of OnGroupError: the user of a failed call is kept. *)
OnGroupErrorKept(c) == Goto(c, "failed")

(* An error of addRole: the user is to be removed. *)
OnGroupError(c) == Goto(c, "remove")

AddGroup(c) ==
  /\ pc[c] = "group"
  /\ \/ /\ user[call[c].who] # None
        /\ user' = [user EXCEPT ![call[c].who].groups = @ \cup {call[c].role}]
        /\ Goto(c, "insert") \/ OnGroupError(c)
     \/ UNCHANGED user /\ OnGroupError(c)
  /\ UNCHANGED <<row, token, call>>

NewRow(c) == [sub |-> c, active |-> TRUE, ours |-> call[c].op = "createEmployee"]

(* The columns sub and email are unique.  The insert may be committed and  *)
(* reported as an error: the row then stays.                               *)
InsertRow(c) ==
  /\ pc[c] = "insert"
  /\ \/ /\ row[call[c].who] = None
        /\ row' = [row EXCEPT ![call[c].who] = NewRow(c)]
        /\ \E next \in {"ok", "remove"} : Goto(c, next)
     \/ UNCHANGED row /\ Goto(c, "remove")
  /\ UNCHANGED <<user, token, call>>

(* cognitoService.deleteUser, by e-mail address; an error is logged.  *)
RemoveUser(c) ==
  /\ pc[c] = "remove"
  /\ \/ /\ user[call[c].who] # None
        /\ user' = [user EXCEPT ![call[c].who] = None]
        /\ \E end \in {"failed", "stuck"} : Goto(c, end)
     \/ UNCHANGED user /\ Goto(c, "stuck")
  /\ UNCHANGED <<row, token, call>>
-----------------------------------------------------------------------------
(* Administration: the roles of the target, then Cognito, then the row.    *)

(* Mutant of Refused: owners are not protected. *)
RefusedOwnerOpen(c, held) ==
  /\ call[c].op \in StatusOps
  /\ "owner" \notin call[c].callerRoles
  /\ "admin" \in call[c].callerRoles \cap held

(* reactivateEmployee does not ask whether the target is an owner.  *)
Refused(c, held) ==
  \/ "owner" \in held /\ call[c].op # "reactivate"
  \/ /\ call[c].op \in StatusOps
     /\ "owner" \notin call[c].callerRoles
     /\ "admin" \in call[c].callerRoles \cap held

(* The role is there already, or is not there to revoke. *)
NothingToDo(c, held) ==
  \/ call[c].op = "grant" /\ call[c].role \in held
  \/ call[c].op = "revoke" /\ call[c].role \notin held

ReadRoles(c) ==
  /\ pc[c] = "roles"
  /\ \/ /\ user[call[c].who] # None
        /\ LET held == user[call[c].who].groups IN
             Goto(c, IF Refused(c, held) THEN "rejected"
                     ELSE IF NothingToDo(c, held) THEN "ok" ELSE "cognito")
     \/ Goto(c, "rejected")
  /\ UNCHANGED <<user, row, token, call>>

Written(c, u) ==
  CASE call[c].op = "disable"    -> [u EXCEPT !.enabled = FALSE]
    [] call[c].op = "reactivate" -> [u EXCEPT !.enabled = TRUE]
    [] call[c].op = "grant"      -> [u EXCEPT !.groups = @ \cup {call[c].role}]
    [] call[c].op = "revoke"     -> [u EXCEPT !.groups = @ \ {call[c].role}]

(* disableUser, enableUser, addRole, removeRole: none is undone when its   *)
(* own answer is an error, even if Cognito applied it.                     *)
WriteCognito(c) ==
  /\ pc[c] = "cognito"
  /\ \/ /\ user[call[c].who] # None
        /\ user' = [user EXCEPT ![call[c].who] = Written(c, @)]
        /\ \/ Goto(c, IF call[c].op \in StatusOps THEN "update" ELSE "ok")
           \/ Goto(c, "stuck")
     \/ UNCHANGED user /\ Goto(c, "rejected")
  /\ UNCHANGED <<row, token, call>>

(* Mutant of NewStatus: both operations deactivate the row. *)
NewStatusFixed(c) == FALSE

NewStatus(c) == call[c].op = "reactivate"

(* updateEmployee updates and reads back: an error of either is caught.  *)
UpdateRow(c) ==
  /\ pc[c] = "update"
  /\ \/ /\ row[call[c].who] # None
        /\ row' = [row EXCEPT ![call[c].who].active = NewStatus(c)]
        /\ \E next \in {"ok", "restore"} : Goto(c, next)
     \/ UNCHANGED row /\ Goto(c, "restore")
  /\ UNCHANGED <<user, token, call>>

(* The opposite call to Cognito, whatever the user was before.  *)
RestoreUser(c) ==
  /\ pc[c] = "restore"
  /\ \/ /\ user[call[c].who] # None
        /\ user' = [user EXCEPT ![call[c].who].enabled = ~NewStatus(c)]
        /\ \E end \in {"failed", "stuck"} : Goto(c, end)
     \/ UNCHANGED user /\ Goto(c, "stuck")
  /\ UNCHANGED <<row, token, call>>
-----------------------------------------------------------------------------
(* The process dies: nothing resumes the call. *)
Die(c) ==
  /\ c \in InFlight
  /\ Goto(c, "dead")
  /\ UNCHANGED <<user, row, token, call>>

Start(c) ==
  \E p \in People :
    \/ Register(c, p)
    \/ \E by \in People :
         \/ \E role \in CreatableRoles : CreateEmployee(c, by, p, role)
         \/ \E op \in StatusOps : ChangeStatus(c, by, p, op)
         \/ \E op \in RoleOps, role \in Roles : ChangeRole(c, by, p, op, role)

Continue(c) ==
  \/ CreateUser(c) \/ AddGroup(c) \/ InsertRow(c) \/ RemoveUser(c)
  \/ ReadRoles(c) \/ WriteCognito(c) \/ UpdateRow(c) \/ RestoreUser(c)

Next ==
  \/ \E p \in People : Login(p)
  \/ \E c \in Calls : Start(c) \/ Continue(c) \/ Die(c)
  \/ InFlight = {} /\ UNCHANGED vars

Spec == Init /\ [][Next]_vars
-----------------------------------------------------------------------------
(* Type invariant. *)
TypeOK ==
  /\ user \in [People -> User \cup {None}]
  /\ row \in [People -> Row \cup {None}]
  /\ token \in [People -> Token \cup {None}]
  /\ call \in [Calls -> Request \cup {None}]
  /\ pc \in [Calls -> {"idle"} \cup Steps \cup Outcomes]

(* An account that was answered stands: whatever calls for the same        *)
(* address come later or fail beside it, its user and its row exist with   *)
(* one sub, and an owner who registered is still an owner.                 *)
AnsweredAccountsStand ==
  \A c \in Calls :
    (call[c] # None /\ call[c].op \in CreateOps /\ pc[c] = "ok") =>
       LET p == call[c].who IN
       /\ user[p] # None /\ user[p].sub = c
       /\ row[p] # None /\ row[p].sub = c
       /\ call[c].op = "register" => "owner" \in user[p].groups

(* Nobody can log in who has no row of employee: once every call about a   *)
(* person is over, and unless one could not remove the user or died, a     *)
(* user has a row with its sub.                                            *)
LoginsHaveEmployees ==
  \A p \in People :
    (user[p] # None /\ \A c \in About(p) : pc[c] \in {"ok", "rejected", "failed"}) =>
       row[p] # None /\ row[p].sub = user[p].sub

(* Cognito and the row agree on whether an employee is active once disable *)
(* and reactivate calls, one at a time, were answered or refused.          *)
StatusAgreesWhenAnswered ==
  \A p \in People :
    (/\ user[p] # None /\ row[p] # None /\ user[p].sub = row[p].sub
     /\ \A c \in StatusCalls(p) : pc[c] \in {"ok", "rejected"}) =>
       user[p].enabled = row[p].active

(* Every admin was made one by a call whose token named an owner, also     *)
(* when tokens are older than the groups and calls fail half way.          *)
AdminsComeFromOwners ==
  \A p \in People :
    (user[p] # None /\ "admin" \in user[p].groups) =>
       \E c \in About(p) : call[c].role = "admin" /\ "owner" \in call[c].callerRoles

(* No disable reaches the owner, whatever it overlaps with: the only way   *)
(* the owner is ever disabled is the rollback of a reactivate call.        *)
OwnerOnlyDisabledByRollback ==
  ~user[Founder].enabled =>
     \E c \in StatusCalls(Founder) : call[c].op = "reactivate" /\ pc[c] \in {"failed", "stuck"}
=============================================================================
