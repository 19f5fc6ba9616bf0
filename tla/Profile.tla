------------------------------ MODULE Profile ------------------------------
(***************************************************************************)
(* EmployeeService.updateMe: the names of one employee, kept in the row of *)
(* employee and in the attributes of the Cognito user.  The row is written *)
(* first; when Cognito then refuses, the row gets back the names that were *)
(* read at the start.  Nothing orders the calls of one employee.           *)
(*                                                                         *)
(* A name is named after the call that gave it.  No transaction spans two  *)
(* statements, and a statement may apply and still report an error.        *)
(***************************************************************************)
EXTENDS Naturals

CONSTANTS
  Calls,   \* requests to PATCH /employees of this employee
  Seed     \* who gave the names there are at first

VARIABLES
  row,        \* the names in the row of employee
  user,       \* the names in the attributes of the Cognito user
  given,      \* what each call gave for each field
  original,   \* the names each call has read
  pc,         \* where each call stands, or how it ended
  earlier     \* history: the calls that had ended when each call began

vars == <<row, user, given, original, pc, earlier>>

ASSUME ProfileAssumption == Seed \notin Calls

Fields == {"names", "lastNames"}
Givers == Calls \cup {Seed}

(* The DTO lets a field be left out, and be an empty string. *)
Given == {"absent", "empty", "text"}

Steps == {"row", "cognito", "restore"}

(* "stuck": what was written so far stays. *)
Outcomes == {"ok", "failed", "undone", "stuck"}

Ended == {c \in Calls : pc[c] \in Outcomes}

Written(c) == {f \in Fields : given[c][f] # "absent"}
Sent(c) == {f \in Fields : given[c][f] = "text"}

With(names, c, fields) == [f \in Fields |-> IF f \in fields THEN c ELSE names[f]]

Init ==
  /\ row = [f \in Fields |-> Seed]
  /\ user = [f \in Fields |-> Seed]
  /\ given = [c \in Calls |-> [f \in Fields |-> "absent"]]
  /\ original = [c \in Calls |-> [f \in Fields |-> Seed]]
  /\ pc = [c \in Calls |-> "idle"]
  /\ earlier = [c \in Calls |-> {}]

Goto(c, step) == pc' = [pc EXCEPT ![c] = step]

At(c, step) == pc[c] = step /\ UNCHANGED <<given, original, earlier>>

(* Mutant of UpdateMe: the names to restore are those just given. *)
UpdateMeLateRead(c) ==
  /\ pc[c] = "idle"
  /\ \E g \in [Fields -> Given] :
       /\ given' = [given EXCEPT ![c] = g]
       /\ original' = [original EXCEPT ![c] = With(row, c, {f \in Fields : g[f] # "absent"})]
  /\ earlier' = [earlier EXCEPT ![c] = Ended]
  /\ Goto(c, "row")
  /\ UNCHANGED <<row, user>>

(* The employee is read. *)
UpdateMe(c) ==
  /\ pc[c] = "idle"
  /\ \E g \in [Fields -> Given] : given' = [given EXCEPT ![c] = g]
  /\ original' = [original EXCEPT ![c] = row]
  /\ earlier' = [earlier EXCEPT ![c] = Ended]
  /\ Goto(c, "row")
  /\ UNCHANGED <<row, user>>

(* Mutant of Updated: the entity that was read is saved whole. *)
UpdatedWhole(c) == With(original[c], c, Written(c))

(* updateEmployee writes the fields that were given, empty ones too. *)
Updated(c) == With(row, c, Written(c))

(* Its reread may fail: no rollback surrounds it.  Cognito is asked only   *)
(* when a name was given that is not empty.                                *)
WriteRow(c) ==
  /\ At(c, "row")
  /\ row' = Updated(c)
  /\ Goto(c, IF Sent(c) = {} THEN "ok" ELSE "cognito") \/ Goto(c, "stuck")
  /\ UNCHANGED user

RefuseRow(c) ==
  /\ At(c, "row")
  /\ Goto(c, "failed")
  /\ UNCHANGED <<row, user>>

(* updateUserAttributes sends the names that are not empty. *)
WriteCognito(c) ==
  /\ At(c, "cognito")
  /\ user' = With(user, c, Sent(c))
  /\ Goto(c, "ok") \/ Goto(c, "restore")
  /\ UNCHANGED row

RefuseCognito(c) ==
  /\ At(c, "cognito")
  /\ Goto(c, "restore")
  /\ UNCHANGED <<row, user>>

(* Mutant of Restore: the rollback is forgotten. *)
RestoreNothing(c) ==
  /\ At(c, "restore")
  /\ Goto(c, "undone")
  /\ UNCHANGED <<row, user>>

(* Both fields get what was read, whatever the call gave and whatever the  *)
(* row holds by now.                                                       *)
Restore(c) ==
  /\ At(c, "restore")
  /\ row' = original[c]
  /\ Goto(c, "undone")
  /\ UNCHANGED user

(* The rollback fails, or the process dies. *)
Stop(c) ==
  /\ pc[c] \in Steps
  /\ Goto(c, "stuck")
  /\ UNCHANGED <<row, user, given, original, earlier>>

Next ==
  \/ \E c \in Calls :
       \/ UpdateMe(c) \/ WriteRow(c) \/ RefuseRow(c) \/ WriteCognito(c)
       \/ RefuseCognito(c) \/ Restore(c) \/ Stop(c)
  \/ Ended = Calls /\ UNCHANGED vars

Spec == Init /\ [][Next]_vars
-----------------------------------------------------------------------------
(* Type invariant. *)
TypeOK ==
  /\ row \in [Fields -> Givers]
  /\ user \in [Fields -> Givers]
  /\ given \in [Calls -> [Fields -> Given]]
  /\ original \in [Calls -> [Fields -> Givers]]
  /\ pc \in [Calls -> {"idle"} \cup Steps \cup Outcomes]
  /\ earlier \in [Calls -> SUBSET Calls]

Before(d, c) == d = Seed \/ d \in earlier[c]

Overlap(c, d) ==
  /\ c # d
  /\ pc[c] # "idle" /\ pc[d] # "idle"
  /\ c \notin earlier[d] /\ d \notin earlier[c]

(* The row and Cognito give one name for a field, unless the call whose    *)
(* name either holds has not ended, or ended with an error of its own      *)
(* making, or gave an empty name, or was overlapped by a call that gave    *)
(* the field or was rolled back.                                           *)
CopiesAgree ==
  \A f \in Fields :
    \/ row[f] = user[f]
    \/ row[f] \in Calls /\ pc[row[f]] \notin {"ok", "undone"}
    \/ row[f] \in Calls /\ given[row[f]][f] = "empty"
    \/ user[f] \in Calls /\ pc[user[f]] # "ok"
    \/ \E c \in {row[f], user[f]} \cap Calls, e \in Calls :
         Overlap(c, e) /\ (f \in Written(e) \/ pc[e] = "undone")

(* A name whose update was answered gives way only to an update that did   *)
(* not end before it, in Cognito without exception, and in the row unless  *)
(* an overlapping call was rolled back to what it had read.                *)
AnsweredUpdatesLast ==
  \A c \in Calls : pc[c] = "ok" =>
    /\ \A f \in Sent(c) : ~Before(user[f], c)
    /\ \A f \in Written(c) :
         Before(row[f], c) => \E e \in Calls : Overlap(c, e) /\ pc[e] = "undone"

(* What a call wrote to the row is gone once it was rolled back, unless a  *)
(* call that overlapped had read it and was rolled back to it.             *)
UndoneNamesAreGone ==
  \A c \in Calls, f \in Fields :
    (pc[c] = "undone" /\ row[f] = c) =>
       \E e \in Calls : Overlap(c, e) /\ pc[e] = "undone" /\ original[e][f] = c
=============================================================================
