----------------------- MODULE EmployeeAccountsProofs -----------------------
(***************************************************************************)
(* Proofs about EmployeeAccounts, for every set of people and calls.       *)
(*                                                                         *)
(* Cognito accepts one user per address, so a creation that got its user   *)
(* owns the address until it removes that user itself.  Creations states   *)
(* this, with what a creation has written so far; Administration states    *)
(* what the checks at the start of a call still imply when it writes.      *)
(***************************************************************************)
EXTENDS EmployeeAccounts, FiniteSetTheorems, TLAPS

Ops == CreateOps \cup StatusOps \cup RoleOps

(* A call keeps its request from its first step on. *)
Requests ==
  \A c \in Calls :
    /\ pc[c] # "idle" => call[c] # None
    /\ pc[c] \in CreateSteps => call[c].op \in CreateOps
    /\ pc[c] \in AdminSteps => call[c].op \in StatusOps \cup RoleOps
    /\ pc[c] \in {"update", "restore"} => call[c].op \in StatusOps
    /\ call[c] # None =>
         /\ pc[c] # "idle"
         /\ call[c].op = "register" => call[c].role = "owner"
         /\ call[c].op \in RoleOps \cup {"createEmployee"} => call[c].role \in CreatableRoles
         /\ call[c].role = "admin" => "owner" \in call[c].callerRoles

Creations ==
  /\ \A c \in Calls :
       (call[c] # None /\ call[c].op \in CreateOps) =>
         LET p == call[c].who IN
         /\ pc[c] \in {"group", "insert", "remove", "ok"} => user[p] # None /\ user[p].sub = c
         /\ pc[c] = "ok" => row[p] # None /\ row[p].sub = c
         /\ pc[c] \in {"insert", "ok"} /\ call[c].op = "register" => "owner" \in user[p].groups
  /\ \A p \in People : \A c \in Calls :
       (user[p] # None /\ user[p].sub = c) =>
          /\ call[c] # None /\ call[c].op \in CreateOps /\ call[c].who = p
          /\ pc[c] \in {"group", "insert", "remove", "ok", "stuck", "dead"}

Administration ==
  /\ user[Founder] # None /\ user[Founder].sub = Founder /\ "owner" \in user[Founder].groups
  /\ row[Founder] # None /\ row[Founder].sub = Founder
  /\ \A p \in People : user[p] # None /\ user[p].sub = Founder => p = Founder
  /\ \A c \in Calls :
       (call[c] # None /\ call[c].who = Founder /\ call[c].op # "reactivate") =>
          pc[c] \notin {"cognito", "update", "restore"}

IInv ==
  /\ TypeOK
  /\ Requests
  /\ Creations
  /\ Administration
  /\ AdminsComeFromOwners
  /\ OwnerOnlyDisabledByRollback

(* The inductive invariant holds before the first call. *)
LEMMA InitIInv == Init => IInv
<1> SUFFICES ASSUME Init PROVE IInv
  OBVIOUS
<1> USE EmployeeAccountsAssumption
<1>1. TypeOK
  BY DEF Init, TypeOK, User, Row, Subs, Roles
<1>2. Requests /\ Creations
  BY DEF Init, Requests, Creations, CreateSteps, AdminSteps
<1>w. user[Founder] \in User
  BY DEF Init, User, Subs, Roles
<1>u. /\ user[Founder] # None
      /\ user[Founder].sub = Founder /\ user[Founder].groups = {"owner"}
      /\ user[Founder].enabled
      /\ \A p \in People : p # Founder => user[p] = None
  BY <1>w DEF Init
<1>r. row[Founder] \in Row /\ row[Founder].sub = Founder
  BY DEF Init, Row, Subs
<1>3. Administration
  BY <1>u, <1>r DEF Init, Administration
<1>4. AdminsComeFromOwners
  BY <1>u DEF AdminsComeFromOwners
<1>5. OwnerOnlyDisabledByRollback
  BY <1>u DEF OwnerOnlyDisabledByRollback
<1> QED
  BY <1>1, <1>2, <1>3, <1>4, <1>5 DEF IInv

(* A call that begins breaks nothing: only its own request is new. *)
LEMMA BeginIInv ==
  ASSUME IInv, NEW c \in Calls, NEW p \in People, NEW op \in Ops,
         NEW role \in Roles \cup {None}, NEW callerRoles \in SUBSET Roles,
         NEW step \in {"user", "roles"},
         Begin(c, op, p, role, callerRoles, step),
         step = "user" <=> op \in CreateOps,
         op = "register" => role = "owner",
         op \in RoleOps \cup {"createEmployee"} => role \in CreatableRoles,
         role = "admin" => "owner" \in callerRoles
  PROVE  IInv'
<1> USE EmployeeAccountsAssumption
<1>1. /\ pc[c] = "idle" /\ UNCHANGED <<user, row, token>>
      /\ call[c] = None
      /\ \A d \in Calls : d # c => call'[d] = call[d] /\ pc'[d] = pc[d]
      /\ pc'[c] = step
      /\ call'[c] \in Request /\ call'[c] # None
      /\ call'[c].op = op /\ call'[c].who = p /\ call'[c].role = role
      /\ call'[c].callerRoles = callerRoles
  BY DEF IInv, TypeOK, Requests, Begin, Goto, Request, Ops
<1>2. TypeOK'
  BY <1>1 DEF IInv, TypeOK, Begin, Goto, Request, Ops, Steps, CreateSteps, AdminSteps
<1>3. Requests'
  BY <1>1 DEF IInv, Requests, Ops, CreateSteps, AdminSteps, CreateOps, StatusOps, RoleOps
<1>4. Creations'
  BY <1>1 DEF IInv, Creations
<1>5. Administration'
  BY <1>1 DEF IInv, Administration
<1>6. AdminsComeFromOwners'
  BY <1>1 DEF IInv, AdminsComeFromOwners, About
<1>7. OwnerOnlyDisabledByRollback'
  BY <1>1 DEF IInv, OwnerOnlyDisabledByRollback, StatusCalls, About
<1> QED
  BY <1>2, <1>3, <1>4, <1>5, <1>6, <1>7 DEF IInv

(* The facts about pc that every step of a call gives. *)
LEMMA GotoPc ==
  ASSUME IInv, NEW c \in Calls, pc[c] \in Steps,
         NEW step \in Steps \cup Outcomes, Goto(c, step)
  PROVE  /\ pc' \in [Calls -> {"idle"} \cup Steps \cup Outcomes]
         /\ pc'[c] = step
         /\ \A d \in Calls : d # c => pc'[d] = pc[d]
         /\ \A d \in Calls : pc[d] \in {"failed", "stuck"} => pc'[d] = pc[d]
         /\ call[c] # None /\ call[c] \in Request /\ call[c].who \in People
BY DEF IInv, TypeOK, Requests, Goto, Steps, CreateSteps, AdminSteps, Outcomes, Request

(* A step that writes nothing: an error, a refusal, a death. *)
LEMMA MoveIInv ==
  ASSUME IInv, NEW c \in Calls, NEW step \in Steps \cup Outcomes,
         pc[c] \in Steps, Goto(c, step), UNCHANGED <<user, row, token, call>>,
         \/ step \in {"stuck", "dead"}
         \/ pc[c] \in {"user", "roles", "cognito"} /\ step = "rejected"
         \/ pc[c] \in {"group", "insert"} /\ step = "remove"
         \/ pc[c] = "update" /\ step = "restore"
         \/ pc[c] = "roles" /\ step = "ok"
         \/ pc[c] = "roles" /\ step = "cognito" /\ (call[c].who = Founder => call[c].op = "reactivate")
  PROVE  IInv'
<1> USE GotoPc
<1>1. TypeOK'
  BY DEF IInv, TypeOK
<1>2. Requests'
  BY DEF IInv, Requests, CreateSteps, AdminSteps, Steps, Outcomes
<1>3. Creations'
  BY DEF IInv, Creations, Requests, CreateOps, StatusOps, RoleOps, AdminSteps
<1>4. Administration'
  BY DEF IInv, Administration
<1>5. AdminsComeFromOwners'
  BY DEF IInv, AdminsComeFromOwners, About
<1>6. OwnerOnlyDisabledByRollback'
  BY DEF IInv, OwnerOnlyDisabledByRollback, StatusCalls, About
<1> QED
  BY <1>1, <1>2, <1>3, <1>4, <1>5, <1>6 DEF IInv
-----------------------------------------------------------------------------
(* A creation gets its user. *)
LEMMA CreateUserIInv == ASSUME IInv, NEW c \in Calls, CreateUser(c) PROVE IInv'
<1> DEFINE p == call[c].who
<1>0. /\ pc[c] = "user" /\ pc[c] \in Steps /\ UNCHANGED <<row, token, call>>
      /\ {"group", "stuck", "remove", "rejected"} \subseteq Steps \cup Outcomes
      /\ call[c] # None /\ call[c] \in Request /\ p \in People /\ call[c].op \in CreateOps
  BY DEF CreateUser, Steps, CreateSteps, Outcomes, IInv, Requests, TypeOK, Request
<1>1. CASE UNCHANGED user /\ Goto(c, "rejected")
  BY <1>0, <1>1, MoveIInv DEF Outcomes
<1>2. ASSUME NameFree(c), NEW step \in {"group", "stuck", "remove"}, Goto(c, step),
             user' = [user EXCEPT ![p] = [sub |-> c, enabled |-> TRUE, groups |-> {},
                                          ours |-> call[c].op = "createEmployee"]]
      PROVE  IInv'
  <2> DEFINE u == [sub |-> c, enabled |-> TRUE, groups |-> {}, ours |-> call[c].op = "createEmployee"]
  <2>1. u \in User /\ u # None /\ u.sub = c /\ u.groups = {}
    <3>1. (call[c].op = "createEmployee") \in BOOLEAN
      OBVIOUS
    <3>2. u \in User
      BY <3>1, Zenon DEF User, Subs
    <3>3. u # None
      BY <3>2, EmployeeAccountsAssumption
    <3> QED
      BY <3>2, <3>3
  <2>2. /\ user' \in [People -> User \cup {None}]
        /\ user'[p] = u /\ \A q \in People : q # p => user'[q] = user[q]
        /\ user[p] = None /\ p # Founder
    BY <1>0, <1>2, <2>1 DEF IInv, TypeOK, NameFree, Administration
  <2>3. /\ pc' \in [Calls -> {"idle"} \cup Steps \cup Outcomes]
        /\ pc'[c] = step /\ \A d \in Calls : d # c => pc'[d] = pc[d]
    BY <1>0, <1>2, GotoPc
  <2> HIDE DEF u, p
  <2>4. TypeOK'
    BY <1>0, <2>2, <2>3 DEF IInv, TypeOK
  <2>5. Requests'
    BY <1>0, <2>3 DEF IInv, Requests, CreateSteps, AdminSteps
  <2>6. Creations'
    BY <1>0, <2>1, <2>2, <2>3 DEF IInv, Creations, TypeOK, Request, p
  <2>7. Administration'
    BY <1>0, <2>1, <2>2, <2>3, EmployeeAccountsAssumption DEF IInv, Administration, p
  <2>8. AdminsComeFromOwners'
    BY <1>0, <2>1, <2>2 DEF IInv, AdminsComeFromOwners, About
  <2>9. OwnerOnlyDisabledByRollback'
    BY <1>0, <2>2, <2>3, EmployeeAccountsAssumption
       DEF IInv, OwnerOnlyDisabledByRollback, StatusCalls, About
  <2> QED
    BY <2>4, <2>5, <2>6, <2>7, <2>8, <2>9 DEF IInv
<1> QED
  BY <1>1, <1>2 DEF CreateUser

(* A creation adds its user to the group. *)
LEMMA AddGroupIInv == ASSUME IInv, NEW c \in Calls, AddGroup(c) PROVE IInv'
<1> DEFINE p == call[c].who
<1>0. /\ pc[c] = "group" /\ pc[c] \in Steps /\ UNCHANGED <<row, token, call>>
      /\ {"insert", "remove"} \subseteq Steps \cup Outcomes
      /\ call[c] # None /\ call[c] \in Request /\ p \in People /\ call[c].op \in CreateOps
      /\ call[c].role \in Roles
      /\ user[p] # None /\ user[p] \in User /\ user[p].sub = c
  BY DEF AddGroup, Steps, CreateSteps, Outcomes, IInv, Requests, TypeOK, Request, Creations,
         CreateOps, Roles, CreatableRoles
<1>1. CASE UNCHANGED user /\ OnGroupError(c)
  BY <1>0, <1>1, MoveIInv DEF OnGroupError
<1>2. ASSUME NEW step \in {"insert", "remove"}, Goto(c, step),
             user' = [user EXCEPT ![p].groups = @ \cup {call[c].role}]
      PROVE  IInv'
  <2>1. /\ user' \in [People -> User \cup {None}]
        /\ user'[p] \in User /\ user'[p] # None
        /\ user'[p].sub = c /\ user'[p].enabled = user[p].enabled
        /\ user'[p].groups = user[p].groups \cup {call[c].role}
        /\ \A q \in People : q # p => user'[q] = user[q]
    BY <1>0, <1>2, EmployeeAccountsAssumption DEF IInv, TypeOK, User
  <2>2. p # Founder
    BY <1>0, EmployeeAccountsAssumption DEF IInv, Administration
  <2>3. /\ pc' \in [Calls -> {"idle"} \cup Steps \cup Outcomes]
        /\ pc'[c] = step /\ \A d \in Calls : d # c => pc'[d] = pc[d]
    BY <1>0, <1>2, GotoPc
  <2> HIDE DEF p
  <2>4. TypeOK'
    BY <1>0, <2>1, <2>3 DEF IInv, TypeOK
  <2>5. Requests'
    BY <1>0, <2>3 DEF IInv, Requests, CreateSteps, AdminSteps
  <2>6. Creations'
    BY <1>0, <2>1, <2>3 DEF IInv, Creations, Requests, TypeOK, Request, p
  <2>7. Administration'
    BY <1>0, <2>1, <2>2, <2>3, EmployeeAccountsAssumption DEF IInv, Administration, p
  <2>8. AdminsComeFromOwners'
    BY <1>0, <2>1 DEF IInv, AdminsComeFromOwners, About, Requests, p
  <2>9. OwnerOnlyDisabledByRollback'
    BY <1>0, <2>1, <2>2, <2>3, EmployeeAccountsAssumption
       DEF IInv, OwnerOnlyDisabledByRollback, StatusCalls, About
  <2> QED
    BY <2>4, <2>5, <2>6, <2>7, <2>8, <2>9 DEF IInv
<1> QED
  BY <1>1, <1>2 DEF AddGroup, OnGroupError

(* A creation inserts its row. *)
LEMMA InsertRowIInv == ASSUME IInv, NEW c \in Calls, InsertRow(c) PROVE IInv'
<1> DEFINE p == call[c].who
<1>0. /\ pc[c] = "insert" /\ pc[c] \in Steps /\ UNCHANGED <<user, token, call>>
      /\ {"ok", "remove"} \subseteq Steps \cup Outcomes
      /\ call[c] # None /\ call[c] \in Request /\ p \in People /\ call[c].op \in CreateOps
      /\ user[p] # None /\ user[p].sub = c
  BY DEF InsertRow, Steps, CreateSteps, Outcomes, IInv, Requests, TypeOK, Request, Creations
<1>1. CASE UNCHANGED row /\ Goto(c, "remove")
  BY <1>0, <1>1, MoveIInv
<1>2. ASSUME row[p] = None, NEW step \in {"ok", "remove"}, Goto(c, step),
             row' = [row EXCEPT ![p] = NewRow(c)]
      PROVE  IInv'
  <2>1. NewRow(c) \in Row /\ NewRow(c) # None /\ NewRow(c).sub = c
    <3>1. (call[c].op = "createEmployee") \in BOOLEAN
      OBVIOUS
    <3>2. NewRow(c) \in Row
      BY <3>1, Zenon DEF NewRow, Row, Subs
    <3>3. NewRow(c) # None
      BY <3>2, EmployeeAccountsAssumption
    <3> QED
      BY <3>2, <3>3 DEF NewRow
  <2>2. /\ row' \in [People -> Row \cup {None}]
        /\ row'[p] = NewRow(c) /\ \A q \in People : q # p => row'[q] = row[q]
    BY <1>0, <1>2, <2>1 DEF IInv, TypeOK
  <2>3. /\ pc' \in [Calls -> {"idle"} \cup Steps \cup Outcomes]
        /\ pc'[c] = step /\ \A d \in Calls : d # c => pc'[d] = pc[d]
        /\ \A d \in Calls : pc[d] \in {"failed", "stuck"} => pc'[d] = pc[d]
    BY <1>0, <1>2, GotoPc
  <2> HIDE DEF p
  <2>4. TypeOK'
    BY <1>0, <2>2, <2>3 DEF IInv, TypeOK
  <2>5. Requests'
    BY <1>0, <2>3 DEF IInv, Requests, CreateSteps, AdminSteps
  <2>6. Creations'
    BY <1>0, <1>2, <2>1, <2>2, <2>3 DEF IInv, Creations, TypeOK, Request, p
  <2>7. Administration'
    BY <1>0, <1>2, <2>2, <2>3, EmployeeAccountsAssumption DEF IInv, Administration, p
  <2>8. AdminsComeFromOwners'
    BY <1>0 DEF IInv, AdminsComeFromOwners, About
  <2>9. OwnerOnlyDisabledByRollback'
    BY <1>0, <2>3 DEF IInv, OwnerOnlyDisabledByRollback, StatusCalls, About
  <2> QED
    BY <2>4, <2>5, <2>6, <2>7, <2>8, <2>9 DEF IInv
<1> QED
  BY <1>1, <1>2 DEF InsertRow

(* A creation removes the user it made, and no other. *)
LEMMA RemoveUserIInv == ASSUME IInv, NEW c \in Calls, RemoveUser(c) PROVE IInv'
<1> DEFINE p == call[c].who
<1>0. /\ pc[c] = "remove" /\ pc[c] \in Steps /\ UNCHANGED <<row, token, call>>
      /\ {"failed", "stuck"} \subseteq Steps \cup Outcomes
      /\ call[c] # None /\ call[c] \in Request /\ p \in People /\ call[c].op \in CreateOps
      /\ user[p] # None /\ user[p].sub = c
  BY DEF RemoveUser, Steps, CreateSteps, Outcomes, IInv, Requests, TypeOK, Request, Creations
<1>1. CASE UNCHANGED user /\ Goto(c, "stuck")
  BY <1>0, <1>1, MoveIInv
<1>2. ASSUME NEW step \in {"failed", "stuck"}, Goto(c, step), user' = [user EXCEPT ![p] = None]
      PROVE  IInv'
  <2>1. /\ user' \in [People -> User \cup {None}]
        /\ user'[p] = None /\ \A q \in People : q # p => user'[q] = user[q]
    BY <1>0, <1>2 DEF IInv, TypeOK
  <2>2. p # Founder
    BY <1>0, EmployeeAccountsAssumption DEF IInv, Administration
  <2>3. /\ pc' \in [Calls -> {"idle"} \cup Steps \cup Outcomes]
        /\ pc'[c] = step /\ \A d \in Calls : d # c => pc'[d] = pc[d]
        /\ \A d \in Calls : pc[d] \in {"failed", "stuck"} => pc'[d] = pc[d]
    BY <1>0, <1>2, GotoPc
  <2> HIDE DEF p
  <2>4. TypeOK'
    BY <1>0, <2>1, <2>3 DEF IInv, TypeOK
  <2>5. Requests'
    BY <1>0, <2>3 DEF IInv, Requests, CreateSteps, AdminSteps
  <2>6. Creations'
    BY <1>0, <2>1, <2>3 DEF IInv, Creations, TypeOK, Request, p
  <2>7. Administration'
    BY <1>0, <2>1, <2>2, <2>3, EmployeeAccountsAssumption DEF IInv, Administration, p
  <2>8. AdminsComeFromOwners'
    BY <1>0, <2>1 DEF IInv, AdminsComeFromOwners, About
  <2>9. OwnerOnlyDisabledByRollback'
    BY <1>0, <2>1, <2>2, <2>3, EmployeeAccountsAssumption
       DEF IInv, OwnerOnlyDisabledByRollback, StatusCalls, About
  <2> QED
    BY <2>4, <2>5, <2>6, <2>7, <2>8, <2>9 DEF IInv
<1> QED
  BY <1>1, <1>2 DEF RemoveUser
-----------------------------------------------------------------------------
(* A token only shows what Cognito holds. *)
LEMMA LoginIInv == ASSUME IInv, NEW p \in People, Login(p) PROVE IInv'
<1>1. user[p] \in User /\ UNCHANGED <<user, row, call, pc>>
  BY DEF Login, IInv, TypeOK
<1>2. [sub |-> user[p].sub, roles |-> user[p].groups] \in Token
  BY <1>1 DEF User, Token
<1>3. TypeOK'
  BY <1>1, <1>2 DEF Login, IInv, TypeOK
<1> QED
  BY <1>1, <1>3 DEF IInv, Requests, Creations, Administration, AdminsComeFromOwners,
                    OwnerOnlyDisabledByRollback, StatusCalls, About

(* The owner passes no check but the one of reactivate. *)
LEMMA ReadRolesIInv == ASSUME IInv, NEW c \in Calls, ReadRoles(c) PROVE IInv'
<1>0. /\ pc[c] = "roles" /\ pc[c] \in Steps /\ UNCHANGED <<user, row, token, call>>
      /\ {"rejected", "ok", "cognito"} \subseteq Steps \cup Outcomes
  BY DEF ReadRoles, Steps, AdminSteps, Outcomes
<1>1. CASE Goto(c, "rejected")
  BY <1>0, <1>1, MoveIInv
<1>2. CASE Goto(c, "ok")
  BY <1>0, <1>2, MoveIInv
<1>3. CASE ~Refused(c, user[call[c].who].groups) /\ Goto(c, "cognito")
  <2>1. call[c].who = Founder => call[c].op = "reactivate"
    BY <1>3 DEF Refused, IInv, Administration
  <2> QED
    BY <1>0, <1>3, <2>1, MoveIInv
<1> QED
  BY <1>1, <1>2, <1>3 DEF ReadRoles

(* A call of an administrator changes the user in Cognito. *)
LEMMA WriteCognitoIInv == ASSUME IInv, NEW c \in Calls, WriteCognito(c) PROVE IInv'
<1> DEFINE p == call[c].who
<1>0. /\ pc[c] = "cognito" /\ pc[c] \in Steps /\ UNCHANGED <<row, token, call>>
      /\ {"update", "ok", "stuck", "rejected"} \subseteq Steps \cup Outcomes
      /\ call[c] # None /\ call[c] \in Request /\ p \in People
      /\ call[c].op \in StatusOps \cup RoleOps
  BY DEF WriteCognito, Steps, AdminSteps, Outcomes, IInv, Requests, TypeOK, Request
<1>1. CASE UNCHANGED user /\ Goto(c, "rejected")
  BY <1>0, <1>1, MoveIInv
<1>2. ASSUME user[p] # None, user' = [user EXCEPT ![p] = Written(c, @)],
             NEW step \in {"update", "ok", "stuck"}, Goto(c, step),
             step = "update" => call[c].op \in StatusOps
      PROVE  IInv'
  <2> DEFINE u == Written(c, user[p])
  <2>1. p = Founder => call[c].op = "reactivate"
    BY <1>0 DEF IInv, Administration
  <2>2. /\ u \in User /\ u.sub = user[p].sub
        /\ call[c].op = "reactivate" => u.groups = user[p].groups /\ u.enabled = TRUE
        /\ "owner" \in user[p].groups => "owner" \in u.groups
        /\ "admin" \in u.groups =>
              \/ "admin" \in user[p].groups
              \/ call[c].op = "grant" /\ call[c].role = "admin"
    <3>1. call[c].op \in RoleOps => call[c].role \in CreatableRoles
      BY <1>0 DEF IInv, Requests
    <3>2. user[p] \in User
      BY <1>0, <1>2 DEF IInv, TypeOK
    <3>3. CASE call[c].op = "disable"
      BY <3>2, <3>3 DEF Written, User
    <3>4. CASE call[c].op = "reactivate"
      BY <3>2, <3>4 DEF Written, User
    <3>5. CASE call[c].op = "grant"
      BY <3>1, <3>2, <3>5 DEF Written, User, RoleOps, CreatableRoles, Roles
    <3>6. CASE call[c].op = "revoke"
      BY <3>1, <3>2, <3>6 DEF Written, User, RoleOps, CreatableRoles, Roles
    <3> QED
      BY <1>0, <3>3, <3>4, <3>5, <3>6 DEF StatusOps, RoleOps
  <2> HIDE DEF u
  <2>3. u # None
    BY <2>2, EmployeeAccountsAssumption
  <2>4. /\ user' \in [People -> User \cup {None}]
        /\ user'[p] = u /\ \A q \in People : q # p => user'[q] = user[q]
    BY <1>0, <1>2, <2>2 DEF IInv, TypeOK, u
  <2>5. /\ pc' \in [Calls -> {"idle"} \cup Steps \cup Outcomes]
        /\ pc'[c] = step /\ \A d \in Calls : d # c => pc'[d] = pc[d]
        /\ \A d \in Calls : pc[d] \in {"failed", "stuck"} => pc'[d] = pc[d]
    BY <1>0, <1>2, GotoPc
  <2>6. TypeOK'
    BY <1>0, <2>4, <2>5 DEF IInv, TypeOK
  <2>7. Requests'
    BY <1>0, <1>2, <2>5 DEF IInv, Requests, CreateSteps, AdminSteps
  <2>8. Creations'
    <3>1. call[c].op \notin CreateOps
      BY <1>0 DEF CreateOps, StatusOps, RoleOps
    <3> HIDE DEF p
    <3> QED
      BY <1>0, <1>2, <2>2, <2>3, <2>4, <2>5, <3>1 DEF IInv, Creations, TypeOK, Request
  <2>9. Administration'
    BY <1>0, <1>2, <2>1, <2>2, <2>3, <2>4, <2>5, EmployeeAccountsAssumption
       DEF IInv, Administration, TypeOK
  <2>10. AdminsComeFromOwners'
    BY <1>0, <1>2, <2>2, <2>4 DEF IInv, AdminsComeFromOwners, About, Requests
  <2>11. OwnerOnlyDisabledByRollback'
    BY <1>0, <1>2, <2>1, <2>2, <2>4, <2>5, EmployeeAccountsAssumption
       DEF IInv, OwnerOnlyDisabledByRollback, StatusCalls, About, TypeOK
  <2> QED
    BY <2>6, <2>7, <2>8, <2>9, <2>10, <2>11 DEF IInv
<1> QED
  BY <1>1, <1>2 DEF WriteCognito

(* A call of an administrator changes the row. *)
LEMMA UpdateRowIInv == ASSUME IInv, NEW c \in Calls, UpdateRow(c) PROVE IInv'
<1> DEFINE p == call[c].who
<1>0. /\ pc[c] = "update" /\ pc[c] \in Steps /\ UNCHANGED <<user, token, call>>
      /\ {"ok", "restore"} \subseteq Steps \cup Outcomes
      /\ call[c] # None /\ call[c] \in Request /\ p \in People /\ call[c].op \in StatusOps
  BY DEF UpdateRow, Steps, AdminSteps, Outcomes, IInv, Requests, TypeOK, Request
<1>1. CASE UNCHANGED row /\ Goto(c, "restore")
  BY <1>0, <1>1, MoveIInv
<1>2. ASSUME row[p] # None, row' = [row EXCEPT ![p].active = NewStatus(c)],
             NEW step \in {"ok", "restore"}, Goto(c, step)
      PROVE  IInv'
  <2>1. NewStatus(c) \in BOOLEAN
    BY DEF NewStatus
  <2>2. /\ row' \in [People -> Row \cup {None}]
        /\ row'[p] \in Row /\ row'[p].sub = row[p].sub
        /\ \A q \in People : q # p => row'[q] = row[q]
    BY <1>0, <1>2, <2>1 DEF IInv, TypeOK, Row
  <2>3. row'[p] # None
    BY <2>2, EmployeeAccountsAssumption
  <2>4. /\ pc' \in [Calls -> {"idle"} \cup Steps \cup Outcomes]
        /\ pc'[c] = step /\ \A d \in Calls : d # c => pc'[d] = pc[d]
        /\ \A d \in Calls : pc[d] \in {"failed", "stuck"} => pc'[d] = pc[d]
    BY <1>0, <1>2, GotoPc
  <2>5. call[c].op \notin CreateOps
    BY <1>0 DEF CreateOps, StatusOps
  <2> HIDE DEF p
  <2>6. TypeOK'
    BY <1>0, <2>2, <2>4 DEF IInv, TypeOK
  <2>7. Requests'
    BY <1>0, <2>4 DEF IInv, Requests, CreateSteps, AdminSteps
  <2>8. Creations'
    BY <1>0, <1>2, <2>2, <2>3, <2>4, <2>5 DEF IInv, Creations, TypeOK, Request
  <2>9. Administration'
    BY <1>0, <1>2, <2>2, <2>3, <2>4 DEF IInv, Administration
  <2>10. AdminsComeFromOwners'
    BY <1>0 DEF IInv, AdminsComeFromOwners, About
  <2>11. OwnerOnlyDisabledByRollback'
    BY <1>0, <2>4 DEF IInv, OwnerOnlyDisabledByRollback, StatusCalls, About
  <2> QED
    BY <2>6, <2>7, <2>8, <2>9, <2>10, <2>11 DEF IInv
<1> QED
  BY <1>1, <1>2 DEF UpdateRow

(* A rollback changes only whether the user is enabled.  On the owner it   *)
(* is the rollback of a reactivate.                                        *)
LEMMA RestoreUserIInv == ASSUME IInv, NEW c \in Calls, RestoreUser(c) PROVE IInv'
<1> DEFINE p == call[c].who
<1>0. /\ pc[c] = "restore" /\ pc[c] \in Steps /\ UNCHANGED <<row, token, call>>
      /\ {"failed", "stuck"} \subseteq Steps \cup Outcomes
      /\ call[c] # None /\ call[c] \in Request /\ p \in People /\ call[c].op \in StatusOps
  BY DEF RestoreUser, Steps, AdminSteps, Outcomes, IInv, Requests, TypeOK, Request
<1>1. CASE UNCHANGED user /\ Goto(c, "stuck")
  BY <1>0, <1>1, MoveIInv
<1>2. ASSUME user[p] # None, user' = [user EXCEPT ![p].enabled = ~NewStatus(c)],
             NEW step \in {"failed", "stuck"}, Goto(c, step)
      PROVE  IInv'
  <2>1. (~NewStatus(c)) \in BOOLEAN
    BY DEF NewStatus
  <2>2. /\ user' \in [People -> User \cup {None}]
        /\ user'[p] \in User
        /\ user'[p].sub = user[p].sub /\ user'[p].groups = user[p].groups
        /\ \A q \in People : q # p => user'[q] = user[q]
    <3>1. user \in [People -> User \cup {None}] /\ user[p] \in User
      BY <1>0, <1>2 DEF IInv, TypeOK
    <3>2. ASSUME NEW u \in User, NEW enabled \in BOOLEAN
          PROVE  LET v == [u EXCEPT !.enabled = enabled]
                 IN  v \in User /\ v.sub = u.sub /\ v.groups = u.groups
      BY DEF User
    <3>3. user' = [user EXCEPT ![p] = [user[p] EXCEPT !.enabled = ~NewStatus(c)]]
      BY <1>0, <1>2, <3>1
    <3> QED
      BY <1>0, <2>1, <3>1, <3>2, <3>3
  <2>3. user'[p] # None
    BY <2>2, EmployeeAccountsAssumption
  <2>4. /\ pc' \in [Calls -> {"idle"} \cup Steps \cup Outcomes]
        /\ pc'[c] = step /\ \A d \in Calls : d # c => pc'[d] = pc[d]
        /\ \A d \in Calls : pc[d] \in {"failed", "stuck"} => pc'[d] = pc[d]
    BY <1>0, <1>2, GotoPc
  <2>5. call[c].op \notin CreateOps
    BY <1>0 DEF CreateOps, StatusOps
  <2>12. p = Founder => call[c].op = "reactivate"
    BY <1>0 DEF IInv, Administration
  <2> HIDE DEF p
  <2>6. TypeOK'
    BY <1>0, <2>2, <2>4 DEF IInv, TypeOK
  <2>7. Requests'
    BY <1>0, <2>4 DEF IInv, Requests, CreateSteps, AdminSteps
  <2>8. Creations'
    BY <1>0, <1>2, <2>2, <2>3, <2>4, <2>5 DEF IInv, Creations, TypeOK, Request
  <2>9. Administration'
    BY <1>0, <1>2, <2>2, <2>3, <2>4 DEF IInv, Administration
  <2>10. AdminsComeFromOwners'
    BY <1>0, <1>2, <2>2 DEF IInv, AdminsComeFromOwners, About
  <2>11. OwnerOnlyDisabledByRollback'
    <3>1. CASE p = Founder
      BY <1>0, <2>4, <2>12, <3>1
         DEF OwnerOnlyDisabledByRollback, StatusCalls, About, StatusOps, p
    <3>2. CASE p # Founder
      BY <1>0, <2>2, <2>4, <3>2, EmployeeAccountsAssumption
         DEF IInv, OwnerOnlyDisabledByRollback, StatusCalls, About
    <3> QED
      BY <3>1, <3>2
  <2> QED
    BY <2>6, <2>7, <2>8, <2>9, <2>10, <2>11 DEF IInv
<1> QED
  BY <1>1, <1>2 DEF RestoreUser
-----------------------------------------------------------------------------
(* A call begins only as BeginIInv describes. *)
LEMMA StartIInv == ASSUME IInv, NEW c \in Calls, Start(c) PROVE IInv'
<1> USE DEF Ops, CreateOps, StatusOps, RoleOps
<1>0. \A by \in People : Admitted(by) => token[by].roles \in SUBSET Roles
  BY DEF IInv, TypeOK, Admitted, Token
<1>1. ASSUME NEW p \in People, Register(c, p) PROVE IInv'
  BY <1>1, BeginIInv DEF Register, Roles
<1>2. ASSUME NEW p \in People, NEW by \in People, NEW role \in CreatableRoles,
             CreateEmployee(c, by, p, role)
      PROVE  IInv'
  BY <1>0, <1>2, BeginIInv DEF CreateEmployee, MayGive, CreatableRoles, Roles
<1>3. ASSUME NEW p \in People, NEW by \in People, NEW op \in StatusOps,
             ChangeStatus(c, by, p, op)
      PROVE  IInv'
  <2>1. None # "admin"
    BY EmployeeAccountsAssumption DEF Roles
  <2> QED
    BY <1>0, <1>3, <2>1, BeginIInv DEF ChangeStatus
<1>4. ASSUME NEW p \in People, NEW by \in People, NEW op \in RoleOps, NEW role \in Roles,
             ChangeRole(c, by, p, op, role)
      PROVE  IInv'
  BY <1>0, <1>4, BeginIInv DEF ChangeRole, MayGive, CreatableRoles, Roles
<1> QED
  BY <1>1, <1>2, <1>3, <1>4 DEF Start

(* Every step keeps the inductive invariant. *)
LEMMA StepIInv == IInv /\ [Next]_vars => IInv'
<1> SUFFICES ASSUME IInv, [Next]_vars PROVE IInv'
  OBVIOUS
<1>1. ASSUME NEW c \in Calls, Continue(c) PROVE IInv'
  BY <1>1, CreateUserIInv, AddGroupIInv, InsertRowIInv, RemoveUserIInv, ReadRolesIInv,
     WriteCognitoIInv, UpdateRowIInv, RestoreUserIInv DEF Continue
<1>2. ASSUME NEW c \in Calls, Die(c) PROVE IInv'
  BY <1>2, MoveIInv DEF Die, InFlight, Outcomes
<1>3. CASE UNCHANGED vars
  BY <1>3 DEF vars, IInv, TypeOK, Requests, Creations, Administration, AdminsComeFromOwners,
              OwnerOnlyDisabledByRollback, StatusCalls, About
<1> QED
  BY <1>1, <1>2, <1>3, LoginIInv, StartIInv DEF Next
-----------------------------------------------------------------------------
(* The inductive invariant of accounts holds in every state, however calls *)
(* overlap, fail or die.                                                   *)
THEOREM InductiveInvariant == Spec => []IInv
BY InitIInv, StepIInv, PTL DEF Spec

(* An account that was answered keeps its user, its row and, for an owner, *)
(* its role, whatever other calls for the address do.                      *)
THEOREM AccountsStand == Spec => []AnsweredAccountsStand
<1>1. IInv => AnsweredAccountsStand
  BY DEF IInv, Creations, AnsweredAccountsStand
<1> QED
  BY <1>1, InductiveInvariant, PTL

(* Where every call is over and none was stuck or died, a user who can log *)
(* in has a row of employee with the same sub.                             *)
THEOREM NoStrayLogins == Spec => []LoginsHaveEmployees
<1>1. ASSUME IInv PROVE LoginsHaveEmployees
  <2> SUFFICES ASSUME NEW p \in People, user[p] # None,
                      \A c \in About(p) : pc[c] \in {"ok", "rejected", "failed"}
               PROVE  row[p] # None /\ row[p].sub = user[p].sub
    BY DEF LoginsHaveEmployees
  <2>1. user[p].sub \in Subs
    BY <1>1 DEF IInv, TypeOK, User
  <2>2. CASE user[p].sub = Founder
    BY <1>1, <2>2 DEF IInv, Administration
  <2>3. CASE user[p].sub \in Calls
    BY <1>1, <2>3 DEF IInv, Creations, About
  <2> QED
    BY <2>1, <2>2, <2>3 DEF Subs
<1> QED
  BY <1>1, InductiveInvariant, PTL

(* The users, rows, tokens and requests keep their types. *)
THEOREM TypesHold == Spec => []TypeOK
<1>1. IInv => TypeOK
  BY DEF IInv
<1> QED
  BY <1>1, InductiveInvariant, PTL

(* Admins are made by owners only, however old the tokens are. *)
THEOREM OwnersMakeAdmins == Spec => []AdminsComeFromOwners
<1>1. IInv => AdminsComeFromOwners
  BY DEF IInv
<1> QED
  BY <1>1, InductiveInvariant, PTL

(* No disable ever reaches the owner. *)
THEOREM OwnersRule == Spec => []OwnerOnlyDisabledByRollback
<1>1. IInv => OwnerOnlyDisabledByRollback
  BY DEF IInv
<1> QED
  BY <1>1, InductiveInvariant, PTL
-----------------------------------------------------------------------------
(* Status changes that come one at a time.  Nobody is disabled before the  *)
(* row is there, a sub is never used again, and a change that has written  *)
(* Cognito finds there what it is about to write to the row.               *)
Quiet == {"ok", "rejected", "roles", "cognito"}

Rowless ==
  \A p \in People : row[p] = None =>
     StatusCalls(p) = {} /\ (user[p] # None => user[p].enabled = TRUE)

RowsFollow ==
  \A p \in People, c \in Calls :
    row[p] # None /\ row[p].sub = c => pc[c] \notin {"idle", "user", "group", "insert"}

OneAtATime ==
  \A p \in People : \A c, d \in StatusCalls(p) : pc[c] \in Steps /\ pc[d] \in Steps => c = d

Paired(p) == user[p] # None /\ row[p] # None /\ user[p].sub = row[p].sub

Agreement ==
  \A p \in People : Paired(p) =>
    /\ (\A c \in StatusCalls(p) : pc[c] \in Quiet) => user[p].enabled = row[p].active
    /\ \A c \in StatusCalls(p) : pc[c] = "update" => user[p].enabled = NewStatus(c)

SInv == Rowless /\ RowsFollow /\ OneAtATime /\ Agreement

(* A user is left as it is in what matters here, or removed, or new.  *)
Spared(c, p) ==
  user'[p] # None =>
    \/ user[p] # None /\ user'[p].sub = user[p].sub /\ user'[p].enabled = user[p].enabled
    \/ user'[p].enabled = TRUE /\ user'[p].sub = c /\ pc[c] = "user"

(* A step that writes no row and changes nobody's status. *)
LEMMA SparingStep ==
  ASSUME IInv, SInv, NEW c \in Calls, NEW step \in Steps \cup Outcomes,
         pc[c] \in Steps, Goto(c, step), UNCHANGED <<row, call>>,
         \A p \in People : Spared(c, p),
         step \in {"user", "group", "insert"} => pc[c] \in {"user", "group", "insert"},
         call[c].op \in StatusOps => step # "update" /\ (step \in Quiet => pc[c] \in Quiet)
  PROVE  SInv'
<1>1. /\ pc'[c] = step /\ \A d \in Calls : d # c => pc'[d] = pc[d]
      /\ step # "idle"
  BY GotoPc DEF Steps, CreateSteps, AdminSteps, Outcomes
<1>2. \A p \in People : StatusCalls(p)' = StatusCalls(p) /\ StatusCalls(p) \subseteq Calls
  BY DEF StatusCalls, About
<1>3. Rowless'
  BY <1>2 DEF SInv, Rowless, Spared
<1>4. RowsFollow'
  BY <1>1 DEF SInv, RowsFollow
<1>5. OneAtATime'
  BY <1>1, <1>2 DEF SInv, OneAtATime
<1>6. ASSUME NEW p \in People, Paired(p)'
      PROVE  /\ (\A d \in StatusCalls(p)' : pc'[d] \in Quiet) => (user[p].enabled)' = (row[p].active)'
             /\ \A d \in StatusCalls(p)' : pc'[d] = "update" => (user[p].enabled)' = NewStatus(d)'
  <2>1. user[p] # None /\ user'[p].sub = user[p].sub /\ user'[p].enabled = user[p].enabled
    BY <1>6 DEF Spared, Paired, SInv, RowsFollow
  <2>2. Paired(p)
    BY <1>6, <2>1 DEF Paired
  <2>3. \A d \in StatusCalls(p) : /\ d \in Calls /\ call[d].op \in StatusOps
                                  /\ pc'[d] \in Quiet => pc[d] \in Quiet
                                  /\ pc'[d] = "update" => pc[d] = "update"
    BY <1>1, <1>2 DEF StatusCalls
  <2> QED
    BY <1>2, <2>1, <2>2, <2>3 DEF SInv, Agreement, NewStatus
<1> QED
  BY <1>3, <1>4, <1>5, <1>6 DEF SInv, Agreement

(* The steps that write no row. *)
LEMMA MovesSpare ==
  ASSUME IInv, SInv, NEW c \in Calls, NEW step \in Steps \cup Outcomes,
         pc[c] \in Steps, Goto(c, step), UNCHANGED <<user, row, call>>,
         step \notin {"user", "group", "insert", "update"},
         call[c].op \in StatusOps => (step \in Quiet => pc[c] \in Quiet)
  PROVE  SInv'
<1>1. \A p \in People : Spared(c, p)
  BY DEF Spared
<1> QED
  BY <1>1, SparingStep

(* A new user comes without a row of its sub. *)
LEMMA CreateUserSpares == ASSUME IInv, SInv, NEW c \in Calls, CreateUser(c) PROVE SInv'
<1> DEFINE p == call[c].who
<1>0. /\ pc[c] = "user" /\ pc[c] \in Steps /\ UNCHANGED <<row, call>>
      /\ {"group", "stuck", "remove", "rejected"} \subseteq Steps \cup Outcomes
      /\ p \in People /\ call[c].op \notin StatusOps
  BY DEF CreateUser, Steps, CreateSteps, Outcomes, IInv, Requests, TypeOK, Request, CreateOps,
         StatusOps
<1>1. CASE UNCHANGED user /\ Goto(c, "rejected")
  BY <1>0, <1>1, MovesSpare
<1>2. ASSUME NEW step \in {"group", "stuck", "remove"}, Goto(c, step),
             user' = [user EXCEPT ![p] = [sub |-> c, enabled |-> TRUE, groups |-> {},
                                          ours |-> call[c].op = "createEmployee"]]
      PROVE  SInv'
  <2>1. \A q \in People : Spared(c, q)
    BY <1>0, <1>2 DEF Spared, IInv, TypeOK
  <2> HIDE DEF p
  <2> QED
    BY <1>0, <1>2, <2>1, SparingStep
<1> QED
  BY <1>1, <1>2 DEF CreateUser

(* A group does not change the status. *)
LEMMA AddGroupSpares == ASSUME IInv, SInv, NEW c \in Calls, AddGroup(c) PROVE SInv'
<1> DEFINE p == call[c].who
<1>0. /\ pc[c] = "group" /\ pc[c] \in Steps /\ UNCHANGED <<row, call>>
      /\ {"insert", "remove"} \subseteq Steps \cup Outcomes
      /\ p \in People /\ call[c].op \notin StatusOps
  BY DEF AddGroup, Steps, CreateSteps, Outcomes, IInv, Requests, TypeOK, Request, CreateOps,
         StatusOps
<1>1. CASE UNCHANGED user /\ Goto(c, "remove")
  BY <1>0, <1>1, MovesSpare
<1>2. ASSUME user[p] # None, NEW step \in {"insert", "remove"}, Goto(c, step),
             user' = [user EXCEPT ![p].groups = @ \cup {call[c].role}]
      PROVE  SInv'
  <2>1. user[p] \in User
    BY <1>0, <1>2 DEF IInv, TypeOK
  <2>2. \A q \in People : Spared(c, q)
    BY <1>0, <1>2, <2>1 DEF Spared, IInv, TypeOK, User
  <2> HIDE DEF p
  <2> QED
    BY <1>0, <1>2, <2>2, SparingStep
<1> QED
  BY <1>1, <1>2 DEF AddGroup, OnGroupError

(* Whose user is removed is no pair any more. *)
LEMMA RemoveUserSpares == ASSUME IInv, SInv, NEW c \in Calls, RemoveUser(c) PROVE SInv'
<1> DEFINE p == call[c].who
<1>0. /\ pc[c] = "remove" /\ pc[c] \in Steps /\ UNCHANGED <<row, call>>
      /\ {"failed", "stuck"} \subseteq Steps \cup Outcomes
      /\ p \in People /\ call[c].op \notin StatusOps
  BY DEF RemoveUser, Steps, CreateSteps, Outcomes, IInv, Requests, TypeOK, Request, CreateOps,
         StatusOps
<1>1. CASE UNCHANGED user /\ Goto(c, "stuck")
  BY <1>0, <1>1, MovesSpare
<1>2. ASSUME NEW step \in {"failed", "stuck"}, Goto(c, step), user' = [user EXCEPT ![p] = None]
      PROVE  SInv'
  <2>1. \A q \in People : Spared(c, q)
    BY <1>0, <1>2 DEF Spared, IInv, TypeOK
  <2> HIDE DEF p
  <2> QED
    BY <1>0, <1>2, <2>1, SparingStep
<1> QED
  BY <1>1, <1>2 DEF RemoveUser

(* Reading the roles changes nothing. *)
LEMMA ReadRolesSpares == ASSUME IInv, SInv, NEW c \in Calls, ReadRoles(c) PROVE SInv'
<1>0. /\ pc[c] = "roles" /\ pc[c] \in Steps /\ UNCHANGED <<user, row, call>>
      /\ {"rejected", "ok", "cognito"} \subseteq Steps \cup Outcomes
  BY DEF ReadRoles, Steps, AdminSteps, Outcomes
<1>1. PICK step \in {"rejected", "ok", "cognito"} : Goto(c, step)
  BY DEF ReadRoles
<1> QED
  BY <1>0, <1>1, MovesSpare DEF Quiet

(* The row of a creation agrees with its user: both are new. *)
LEMMA InsertRowAgrees == ASSUME IInv, SInv, NEW c \in Calls, InsertRow(c) PROVE SInv'
<1> DEFINE p == call[c].who
<1>0. /\ pc[c] = "insert" /\ pc[c] \in Steps /\ UNCHANGED <<user, call>>
      /\ {"ok", "remove"} \subseteq Steps \cup Outcomes
      /\ call[c] # None /\ p \in People /\ call[c].op \notin StatusOps /\ call[c].op \in CreateOps
      /\ user[p] # None /\ user[p].sub = c
  BY DEF InsertRow, Steps, CreateSteps, Outcomes, IInv, Requests, TypeOK, Request, Creations,
         CreateOps, StatusOps
<1>1. CASE UNCHANGED row /\ Goto(c, "remove")
  BY <1>0, <1>1, MovesSpare
<1>2. ASSUME row[p] = None, NEW step \in {"ok", "remove"}, Goto(c, step),
             row' = [row EXCEPT ![p] = NewRow(c)]
      PROVE  SInv'
  <2>1. /\ row'[p].sub = c /\ row'[p].active = TRUE
        /\ \A q \in People : q # p => row'[q] = row[q]
    BY <1>0, <1>2 DEF IInv, TypeOK, NewRow
  <2>2. /\ pc'[c] = step /\ \A d \in Calls : d # c => pc'[d] = pc[d]
    BY <1>0, <1>2, GotoPc
  <2>3. \A q \in People : StatusCalls(q)' = StatusCalls(q) /\ StatusCalls(q) \subseteq Calls \ {c}
    BY <1>0 DEF StatusCalls, About
  <2>4. StatusCalls(p) = {} /\ user[p].enabled = TRUE
    BY <1>0, <1>2 DEF SInv, Rowless
  <2>n. row'[p] # None
    <3>1. (call[c].op = "createEmployee") \in BOOLEAN
      OBVIOUS
    <3>2. NewRow(c) \in Row
      BY <3>1, Zenon DEF NewRow, Row, Subs
    <3> QED
      BY <1>0, <1>2, <3>2, EmployeeAccountsAssumption DEF IInv, TypeOK
  <2> HIDE DEF p
  <2>5. Rowless'
    BY <1>0, <2>1, <2>3, <2>n DEF SInv, Rowless
  <2>6. RowsFollow'
    BY <1>0, <2>1, <2>2, <2>n DEF SInv, RowsFollow
  <2>7. OneAtATime'
    BY <2>2, <2>3 DEF SInv, OneAtATime
  <2>8. Agreement'
    <3>1. SUFFICES ASSUME NEW q \in People, Paired(q)'
          PROVE  /\ (\A d \in StatusCalls(q) : pc'[d] \in Quiet) => user[q].enabled = row'[q].active
                 /\ \A d \in StatusCalls(q) : pc'[d] = "update" => user[q].enabled = NewStatus(d)
      BY <1>0, <2>3 DEF Agreement, NewStatus
    <3>2. CASE q = p
      BY <2>1, <2>4, <3>2
    <3>3. CASE q # p
      <4>1. Paired(q) /\ row'[q] = row[q]
        BY <1>0, <2>1, <3>1, <3>3 DEF Paired
      <4> QED
        BY <2>2, <2>3, <4>1 DEF SInv, Agreement
    <3> QED
      BY <3>2, <3>3
  <2> QED
    BY <2>5, <2>6, <2>7, <2>8 DEF SInv
<1> QED
  BY <1>1, <1>2 DEF InsertRow

(* A step of a status change is the only one about its person under way.   *)
(* It changes one half of the account, or the other.                       *)
LEMMA StatusStep ==
  ASSUME IInv, SInv, NEW c \in Calls, NEW step \in Steps \cup Outcomes,
         pc[c] \in {"cognito", "update", "restore"}, Goto(c, step), UNCHANGED call,
         call[c].op \in StatusOps, step \in {"ok", "update", "stuck", "restore", "failed"},
         \A p \in People : /\ user'[p] = None <=> user[p] = None
                           /\ row'[p] = None <=> row[p] = None
                           /\ user[p] # None => user'[p].sub = user[p].sub
                           /\ row[p] # None => row'[p].sub = row[p].sub
                           /\ p # call[c].who => user'[p] = user[p] /\ row'[p] = row[p],
         step = "update" => user'[call[c].who].enabled = NewStatus(c),
         step = "ok" => user'[call[c].who].enabled = row'[call[c].who].active
  PROVE  SInv'
<1> DEFINE p == call[c].who
<1>0. pc[c] \in Steps /\ call[c] # None /\ p \in People /\ c \in StatusCalls(p)
  BY DEF Steps, AdminSteps, IInv, TypeOK, Requests, StatusCalls, About, Request
<1>1. /\ pc'[c] = step /\ \A d \in Calls : d # c => pc'[d] = pc[d]
  BY <1>0, GotoPc
<1>2. \A q \in People : StatusCalls(q)' = StatusCalls(q) /\ StatusCalls(q) \subseteq Calls
  BY DEF StatusCalls, About
<1>3. \A d \in StatusCalls(p) : d # c => pc[d] \notin Steps
  BY <1>0 DEF SInv, OneAtATime
<1> HIDE DEF p
<1>4. Rowless'
  <2>1. row[p] # None
    BY <1>0 DEF SInv, Rowless
  <2> QED
    BY <1>2, <2>1 DEF SInv, Rowless, p
<1>5. RowsFollow'
  BY <1>1 DEF SInv, RowsFollow
<1>6. OneAtATime'
  BY <1>0, <1>1, <1>2 DEF SInv, OneAtATime
<1>7. Agreement'
  <2>1. SUFFICES ASSUME NEW q \in People, Paired(q)'
        PROVE  /\ (\A d \in StatusCalls(q) : pc'[d] \in Quiet) => user'[q].enabled = row'[q].active
               /\ \A d \in StatusCalls(q) : pc'[d] = "update" => user'[q].enabled = NewStatus(d)
    BY <1>2 DEF Agreement, NewStatus
  <2>2. CASE q = p
    <3>1. (\A d \in StatusCalls(q) : pc'[d] \in Quiet) => user'[q].enabled = row'[q].active
      BY <1>0, <1>1, <2>2 DEF Quiet, p
    <3>2. \A d \in StatusCalls(q) : pc'[d] = "update" => d = c
      BY <1>1, <1>2, <1>3, <2>2 DEF Steps, AdminSteps
    <3>3. pc'[c] = "update" => user'[q].enabled = NewStatus(c)
      BY <1>1, <2>2 DEF p
    <3> QED
      BY <3>1, <3>2, <3>3
  <2>3. CASE q # p
    <3>1. user'[q] = user[q] /\ row'[q] = row[q] /\ Paired(q)
      BY <2>1, <2>3 DEF Paired, p
    <3>2. c \notin StatusCalls(q)
      BY <2>3 DEF StatusCalls, About, p
    <3> QED
      BY <1>1, <1>2, <3>1, <3>2 DEF SInv, Agreement
  <2> QED
    BY <2>2, <2>3
<1> QED
  BY <1>4, <1>5, <1>6, <1>7 DEF SInv

(* A status change writes Cognito; a role change leaves the status alone. *)
LEMMA WriteCognitoAgrees == ASSUME IInv, SInv, NEW c \in Calls, WriteCognito(c) PROVE SInv'
<1> DEFINE p == call[c].who
<1>0. /\ pc[c] = "cognito" /\ pc[c] \in Steps /\ UNCHANGED <<row, call>>
      /\ {"update", "ok", "stuck", "rejected"} \subseteq Steps \cup Outcomes
      /\ call[c] # None /\ p \in People /\ call[c].op \in StatusOps \cup RoleOps
  BY DEF WriteCognito, Steps, AdminSteps, Outcomes, IInv, Requests, TypeOK, Request
<1>1. CASE UNCHANGED user /\ Goto(c, "rejected")
  BY <1>0, <1>1, MovesSpare DEF Quiet
<1>2. ASSUME user[p] # None, user' = [user EXCEPT ![p] = Written(c, @)],
             NEW step \in {"update", "ok", "stuck"}, Goto(c, step),
             step = "update" => call[c].op \in StatusOps,
             step = "ok" => call[c].op \notin StatusOps
      PROVE  SInv'
  <2> DEFINE u == Written(c, user[p])
  <2>1. user[p] \in User
    BY <1>0, <1>2 DEF IInv, TypeOK
  <2>2. /\ u \in User /\ u.sub = user[p].sub
        /\ call[c].op \in StatusOps => u.enabled = NewStatus(c)
        /\ call[c].op \notin StatusOps => u.enabled = user[p].enabled
    <3>1. call[c].op \in RoleOps => call[c].role \in CreatableRoles
      BY <1>0 DEF IInv, Requests
    <3>3. CASE call[c].op = "disable"
      BY <2>1, <3>3 DEF Written, User, NewStatus, StatusOps
    <3>4. CASE call[c].op = "reactivate"
      BY <2>1, <3>4 DEF Written, User, NewStatus, StatusOps
    <3>5. CASE call[c].op = "grant"
      BY <2>1, <3>1, <3>5 DEF Written, User, RoleOps, StatusOps, CreatableRoles, Roles
    <3>6. CASE call[c].op = "revoke"
      BY <2>1, <3>1, <3>6 DEF Written, User, RoleOps, StatusOps, CreatableRoles, Roles
    <3> QED
      BY <1>0, <3>3, <3>4, <3>5, <3>6 DEF StatusOps, RoleOps
  <2> HIDE DEF u
  <2>3. u # None
    BY <2>2, EmployeeAccountsAssumption
  <2>4. user'[p] = u /\ \A q \in People : q # p => user'[q] = user[q]
    BY <1>0, <1>2 DEF IInv, TypeOK, u
  <2> HIDE DEF p
  <2>5. CASE call[c].op \in StatusOps
    BY <1>0, <1>2, <2>2, <2>3, <2>4, <2>5, StatusStep DEF p
  <2>6. CASE call[c].op \notin StatusOps
    <3>1. \A q \in People : Spared(c, q)
      BY <1>2, <2>2, <2>4, <2>6 DEF Spared
    <3> QED
      BY <1>0, <1>2, <2>6, <3>1, SparingStep
  <2> QED
    BY <2>5, <2>6
<1>3. ASSUME user[p] # None, user' = [user EXCEPT ![p] = Written(c, @)],
             \/ Goto(c, IF call[c].op \in StatusOps THEN "update" ELSE "ok")
             \/ Goto(c, "stuck")
      PROVE  SInv'
  BY <1>2, <1>3
<1> QED
  BY <1>1, <1>3 DEF WriteCognito

(* The row gets what Cognito has. *)
LEMMA UpdateRowAgrees == ASSUME IInv, SInv, NEW c \in Calls, UpdateRow(c) PROVE SInv'
<1> DEFINE p == call[c].who
<1>0. /\ pc[c] = "update" /\ pc[c] \in Steps /\ UNCHANGED <<user, call>>
      /\ {"ok", "restore"} \subseteq Steps \cup Outcomes
      /\ call[c] # None /\ p \in People /\ call[c].op \in StatusOps
  BY DEF UpdateRow, Steps, AdminSteps, Outcomes, IInv, Requests, TypeOK, Request
<1>1. CASE UNCHANGED row /\ Goto(c, "restore")
  BY <1>0, <1>1, MovesSpare DEF Quiet
<1>2. ASSUME row[p] # None, row' = [row EXCEPT ![p].active = NewStatus(c)],
             NEW step \in {"ok", "restore"}, Goto(c, step)
      PROVE  SInv'
  <2>1. NewStatus(c) \in BOOLEAN
    BY DEF NewStatus
  <2>2. /\ row'[p] \in Row /\ row'[p].sub = row[p].sub /\ row'[p].active = NewStatus(c)
        /\ \A q \in People : q # p => row'[q] = row[q]
    BY <1>0, <1>2, <2>1 DEF IInv, TypeOK, Row
  <2>3. row'[p] # None
    BY <2>2, EmployeeAccountsAssumption
  <2>4. \A q \in People : Spared(c, q)
    BY <1>0 DEF Spared
  <2> HIDE DEF p
  <2>5. CASE Paired(p)
    <3>1. user[p].enabled = NewStatus(c)
      BY <1>0, <2>5 DEF SInv, Agreement, StatusCalls, About, p
    <3> QED
      BY <1>0, <1>2, <2>2, <2>3, <3>1, StatusStep DEF p
  <2>6. CASE ~Paired(p)
    <3>1. Rowless' /\ RowsFollow' /\ OneAtATime'
      <4>1. /\ pc'[c] = step /\ \A d \in Calls : d # c => pc'[d] = pc[d]
        BY <1>0, <1>2, GotoPc
      <4>2. \A q \in People : StatusCalls(q)' = StatusCalls(q) /\ StatusCalls(q) \subseteq Calls
        BY <1>0 DEF StatusCalls, About
      <4>3. Rowless'
        BY <1>0, <1>2, <2>2, <2>3, <4>2 DEF SInv, Rowless
      <4>4. RowsFollow'
        BY <1>0, <1>2, <2>2, <4>1 DEF SInv, RowsFollow
      <4>5. OneAtATime'
        BY <1>0, <4>1, <4>2 DEF SInv, OneAtATime
      <4> QED
        BY <4>3, <4>4, <4>5
    <3>2. Agreement'
      <4>1. SUFFICES ASSUME NEW q \in People, Paired(q)'
            PROVE  /\ (\A d \in StatusCalls(q)' : pc'[d] \in Quiet) => user'[q].enabled = row'[q].active
                   /\ \A d \in StatusCalls(q)' : pc'[d] = "update" => user'[q].enabled = NewStatus(d)'
        BY DEF Agreement
      <4>2. q # p
        BY <1>0, <1>2, <2>2, <2>6, <4>1 DEF Paired
      <4>3. Paired(q) /\ row'[q] = row[q]
        BY <1>0, <2>2, <4>1, <4>2 DEF Paired
      <4>4. StatusCalls(q)' = StatusCalls(q) /\ \A d \in StatusCalls(q) : pc'[d] = pc[d]
        BY <1>0, <1>2, <4>2, GotoPc DEF StatusCalls, About, p
      <4> QED
        BY <1>0, <4>3, <4>4 DEF SInv, Agreement, NewStatus
    <3> QED
      BY <3>1, <3>2 DEF SInv
  <2> QED
    BY <2>5, <2>6
<1> QED
  BY <1>1, <1>2 DEF UpdateRow

(* A rollback ends in failed or stuck, of which nothing is claimed. *)
LEMMA RestoreUserAgrees == ASSUME IInv, SInv, NEW c \in Calls, RestoreUser(c) PROVE SInv'
<1> DEFINE p == call[c].who
<1>0. /\ pc[c] = "restore" /\ pc[c] \in Steps /\ UNCHANGED <<row, call>>
      /\ {"failed", "stuck"} \subseteq Steps \cup Outcomes
      /\ call[c] # None /\ p \in People /\ call[c].op \in StatusOps
  BY DEF RestoreUser, Steps, AdminSteps, Outcomes, IInv, Requests, TypeOK, Request
<1>1. CASE UNCHANGED user /\ Goto(c, "stuck")
  BY <1>0, <1>1, MovesSpare DEF Quiet
<1>2. ASSUME user[p] # None, user' = [user EXCEPT ![p].enabled = ~NewStatus(c)],
             NEW step \in {"failed", "stuck"}, Goto(c, step)
      PROVE  SInv'
  <2>1. (~NewStatus(c)) \in BOOLEAN
    BY DEF NewStatus
  <2>2. /\ user'[p] \in User /\ user'[p].sub = user[p].sub
        /\ \A q \in People : q # p => user'[q] = user[q]
    BY <1>0, <1>2, <2>1 DEF IInv, TypeOK, User
  <2>3. user'[p] # None
    BY <2>2, EmployeeAccountsAssumption
  <2> HIDE DEF p
  <2> QED
    BY <1>0, <1>2, <2>2, <2>3, StatusStep DEF p
<1> QED
  BY <1>1, <1>2 DEF RestoreUser

(* A status change begins on a row, when no other is under way. *)
LEMMA BeginAgrees ==
  ASSUME IInv, SInv, NEW c \in Calls, NEW p \in People, NEW op \in Ops,
         NEW role \in Roles \cup {None}, NEW callerRoles \in SUBSET Roles,
         NEW step \in {"user", "roles"},
         Begin(c, op, p, role, callerRoles, step),
         op \in StatusOps =>
           row[p] # None /\ step = "roles" /\ \A d \in StatusCalls(p) : pc[d] \notin Steps
  PROVE  SInv'
<1>1. /\ pc[c] = "idle" /\ UNCHANGED <<user, row>>
      /\ call[c] = None
      /\ \A d \in Calls : d # c => call'[d] = call[d] /\ pc'[d] = pc[d]
      /\ pc'[c] = step
      /\ call'[c] \in Request /\ call'[c] # None
      /\ call'[c].op = op /\ call'[c].who = p
  BY EmployeeAccountsAssumption DEF IInv, TypeOK, Requests, Begin, Goto, Request, Ops
<1>2. \A q \in People : /\ StatusCalls(q) \subseteq Calls \ {c}
                        /\ StatusCalls(q)' = IF q = p /\ op \in StatusOps
                                             THEN StatusCalls(q) \cup {c} ELSE StatusCalls(q)
  BY <1>1 DEF StatusCalls, About
<1>3. Rowless'
  BY <1>1, <1>2 DEF SInv, Rowless
<1>4. RowsFollow'
  BY <1>1 DEF SInv, RowsFollow
<1>5. OneAtATime'
  BY <1>1, <1>2 DEF SInv, OneAtATime
<1>6. Agreement'
  <2>1. SUFFICES ASSUME NEW q \in People, Paired(q)'
        PROVE  /\ (\A d \in StatusCalls(q)' : pc'[d] \in Quiet) => user[q].enabled = row[q].active
               /\ \A d \in StatusCalls(q)' : pc'[d] = "update" => user[q].enabled = NewStatus(d)'
    BY <1>1 DEF Agreement
  <2>2. Paired(q)
    BY <1>1, <2>1 DEF Paired
  <2>3. \A d \in StatusCalls(q) : pc'[d] = pc[d] /\ call'[d] = call[d]
    BY <1>1, <1>2
  <2> QED
    BY <1>1, <1>2, <2>2, <2>3 DEF SInv, Agreement, NewStatus
<1> QED
  BY <1>3, <1>4, <1>5, <1>6 DEF SInv

(* With MaxStatusCalls = 1 a status change finds no other under way. *)
LEMMA StartAgrees ==
  ASSUME MaxStatusCalls = 1, IsFiniteSet(Calls), IInv, SInv, NEW c \in Calls, Start(c)
  PROVE  SInv'
<1> USE DEF Ops
<1>0. \A by \in People : Admitted(by) => token[by].roles \in SUBSET Roles
  BY DEF IInv, TypeOK, Admitted, Token
<1>1. ASSUME NEW p \in People, Register(c, p) PROVE SInv'
  BY <1>1, BeginAgrees DEF Register, Roles, CreateOps, StatusOps
<1>2. ASSUME NEW p \in People, NEW by \in People, NEW role \in CreatableRoles,
             CreateEmployee(c, by, p, role)
      PROVE  SInv'
  BY <1>0, <1>2, BeginAgrees DEF CreateEmployee, CreatableRoles, Roles, CreateOps, StatusOps
<1>3. ASSUME NEW p \in People, NEW by \in People, NEW op \in StatusOps,
             ChangeStatus(c, by, p, op)
      PROVE  SInv'
  <2> DEFINE S == {d \in StatusCalls(p) : d \in InFlight}
  <2>1. IsFiniteSet(S)
    BY FS_Subset DEF StatusCalls, About
  <2>2. Cardinality(S) = 0
    BY <1>3, <2>1, FS_CardinalityType DEF ChangeStatus
  <2>3. S = {}
    BY <2>1, <2>2, FS_EmptySet
  <2>4. \A d \in StatusCalls(p) : pc[d] \notin Steps
    BY <2>3 DEF InFlight, StatusCalls, About
  <2>5. row[p] # None /\ Begin(c, op, p, None, token[by].roles, "roles") /\ Admitted(by)
    BY <1>3 DEF ChangeStatus, OurRow
  <2> QED
    BY <1>0, <2>4, <2>5, BeginAgrees
<1>4. ASSUME NEW p \in People, NEW by \in People, NEW op \in RoleOps, NEW role \in Roles,
             ChangeRole(c, by, p, op, role)
      PROVE  SInv'
  BY <1>0, <1>4, BeginAgrees DEF ChangeRole, RoleOps, StatusOps
<1> QED
  BY <1>1, <1>2, <1>3, <1>4 DEF Start

(* Every step keeps the agreement of Cognito and rows. *)
LEMMA StepSInv ==
  ASSUME MaxStatusCalls = 1, IsFiniteSet(Calls)
  PROVE  IInv /\ SInv /\ [Next]_vars => SInv'
<1> SUFFICES ASSUME IInv, SInv, [Next]_vars PROVE SInv'
  OBVIOUS
<1>1. ASSUME NEW c \in Calls, Continue(c) PROVE SInv'
  BY <1>1, CreateUserSpares, AddGroupSpares, InsertRowAgrees, RemoveUserSpares, ReadRolesSpares,
     WriteCognitoAgrees, UpdateRowAgrees, RestoreUserAgrees DEF Continue
<1>2. ASSUME NEW c \in Calls, Die(c) PROVE SInv'
  BY <1>2, MovesSpare DEF Die, InFlight, Outcomes, Steps, CreateSteps, AdminSteps, Quiet
<1>3. ASSUME UNCHANGED <<user, row, call, pc>> PROVE SInv'
  BY <1>3 DEF SInv, Rowless, RowsFollow, OneAtATime, Agreement, Paired, StatusCalls, About,
              NewStatus
<1>4. ASSUME NEW p \in People, Login(p) PROVE SInv'
  BY <1>3, <1>4 DEF Login
<1>5. CASE UNCHANGED vars
  BY <1>3, <1>5 DEF vars
<1> QED
  BY <1>1, <1>2, <1>4, <1>5, StartAgrees DEF Next

(* The owner is enabled and active at first, and nobody else is there. *)
LEMMA InitSInv == Init => SInv
<1> SUFFICES ASSUME Init PROVE SInv
  OBVIOUS
<1>1. \A p \in People : StatusCalls(p) = {}
  BY DEF Init, StatusCalls, About
<1>2. \A p \in People : p # Founder => user[p] = None /\ row[p] = None
  BY DEF Init
<1>3. /\ user[Founder].enabled = TRUE /\ row[Founder].active = TRUE
      /\ row[Founder].sub \notin Calls /\ row[Founder] # None
  <2>1. row[Founder] \in Row
    BY EmployeeAccountsAssumption DEF Init, Row, Subs
  <2> QED
    BY <2>1, EmployeeAccountsAssumption DEF Init
<1> QED
  BY <1>1, <1>2, <1>3 DEF SInv, Rowless, RowsFollow, OneAtATime, Agreement, Paired

(* While disable and reactivate calls of an employee come one at a time,   *)
(* Cognito and the row agree on whether the employee is active, for any    *)
(* number of other calls beside them, as long as each was answered or was  *)
(* refused.                                                                *)
THEOREM StatusAgrees ==
  ASSUME MaxStatusCalls = 1, IsFiniteSet(Calls)
  PROVE  Spec => []StatusAgreesWhenAnswered
<1>1. SInv => StatusAgreesWhenAnswered
  BY DEF SInv, Agreement, Paired, Quiet, StatusAgreesWhenAnswered
<1> QED
  BY <1>1, InitSInv, StepSInv, InductiveInvariant, PTL DEF Spec
=============================================================================
