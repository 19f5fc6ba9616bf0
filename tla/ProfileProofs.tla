---------------------------- MODULE ProfileProofs ----------------------------
(***************************************************************************)
(* Theorems about Profile, for any number of calls.  What a call read may  *)
(* come back when it is rolled back, so IInv speaks of the names in the    *)
(* row and of those that calls have read alike.                            *)
(***************************************************************************)
EXTENDS Profile, TLAPS

(* A call that ended before another began is not that call. *)
Histories ==
  \A c \in Calls : /\ earlier[c] \subseteq Ended
                   /\ c \notin earlier[c]
                   /\ pc[c] = "idle" => earlier[c] = {}

(* A name comes from a call that wrote it. *)
Wrote(n, f) == pc[n] \notin {"idle", "row"} /\ f \in Written(n)

Sources ==
  \A n \in Calls, f \in Fields :
    /\ row[f] = n => Wrote(n, f)
    /\ user[f] = n => Wrote(n, f) /\ f \in Sent(n)
    /\ \A e \in Calls : original[e][f] = n => Wrote(n, f) /\ n # e

UndoneBeside(c) == \E e \in Calls : Overlap(c, e) /\ pc[e] = "undone"

(* An older name is in the row, or was read there by a later call, only    *)
(* when a call beside was rolled back to it.                               *)
RowKeepsAnswered ==
  \A c \in Calls : \A f \in Written(c) :
    (/\ pc[c] \in {"cognito", "ok"}
     /\ \/ Before(row[f], c)
        \/ \E e \in Calls : c \in earlier[e] /\ Before(original[e][f], c))
      => UndoneBeside(c)

UserKeepsAnswered ==
  \A c \in Calls : \A f \in Sent(c) : pc[c] = "ok" => ~Before(user[f], c)

UndoneGone ==
  \A c \in Calls, f \in Fields :
    (/\ pc[c] = "undone"
     /\ row[f] = c \/ \E e \in Calls : c \in earlier[e] /\ original[e][f] = c)
      => \E e \in Calls : Overlap(c, e) /\ pc[e] = "undone" /\ original[e][f] = c

IInv == /\ TypeOK /\ Histories /\ Sources
        /\ RowKeepsAnswered /\ UserKeepsAnswered /\ UndoneGone
-----------------------------------------------------------------------------
(* The invariant holds before the first call. *)
LEMMA InitIInv == Init => IInv
BY ProfileAssumption
   DEF Init, IInv, TypeOK, Histories, Sources, Wrote, RowKeepsAnswered, UserKeepsAnswered,
       UndoneGone, Written, Sent, Givers, Given

(* Every step keeps the types. *)
LEMMA TypeStep == TypeOK /\ [Next]_vars => TypeOK'
<1> SUFFICES ASSUME TypeOK, [Next]_vars PROVE TypeOK'
  OBVIOUS
<1> USE DEF TypeOK, Goto, At, Steps, Outcomes
<1>1. ASSUME NEW c \in Calls, UpdateMe(c) PROVE TypeOK'
  BY <1>1 DEF UpdateMe, Ended
<1>2. ASSUME NEW c \in Calls, WriteRow(c) PROVE TypeOK'
  BY <1>2 DEF WriteRow, Updated, With, Givers
<1>3. ASSUME NEW c \in Calls, WriteCognito(c) PROVE TypeOK'
  BY <1>3 DEF WriteCognito, With, Givers
<1>4. ASSUME NEW c \in Calls, RefuseRow(c) \/ RefuseCognito(c) \/ Restore(c) \/ Stop(c)
      PROVE  TypeOK'
  BY <1>4 DEF RefuseRow, RefuseCognito, Restore, Stop
<1>5. CASE UNCHANGED vars
  BY <1>5 DEF vars
<1> QED BY <1>1, <1>2, <1>3, <1>4, <1>5 DEF Next

(* What a call was asked and has read is fixed when it begins, and its     *)
(* outcome when it ends.                                                   *)
LEMMA CallsKept ==
  ASSUME TypeOK, [Next]_vars, NEW c \in Calls, pc[c] # "idle"
  PROVE  /\ given'[c] = given[c] /\ original'[c] = original[c] /\ earlier'[c] = earlier[c]
         /\ pc'[c] # "idle"
         /\ pc[c] \in Outcomes => pc'[c] = pc[c]
BY DEF TypeOK, Goto, At, Steps, Outcomes, Next, vars, UpdateMe, WriteRow, WriteCognito, RefuseRow,
       RefuseCognito, Restore, Stop

(* A call that begins reads the row and who has ended, and writes nothing. *)
Begins(c) ==
  /\ pc[c] = "idle" /\ pc'[c] = "row"
  /\ original'[c] = row /\ earlier'[c] = Ended
  /\ row' = row /\ user' = user

(* A step leaves an idle call alone or is its beginning. *)
LEMMA IdleOrBegins ==
  ASSUME TypeOK, [Next]_vars, NEW c \in Calls, pc[c] = "idle"
  PROVE  \/ Begins(c)
         \/ /\ given'[c] = given[c] /\ original'[c] = original[c] /\ earlier'[c] = earlier[c]
            /\ pc'[c] = "idle"
<1> USE DEF TypeOK, Goto, At, Steps, Begins
<1>1. ASSUME NEW d \in Calls, UpdateMe(d)
      PROVE  \/ Begins(c)
             \/ /\ given'[c] = given[c] /\ original'[c] = original[c] /\ earlier'[c] = earlier[c]
                /\ pc'[c] = "idle"
  BY <1>1 DEF UpdateMe
<1>2. ASSUME NEW d \in Calls,
             \/ WriteRow(d) \/ WriteCognito(d) \/ RefuseRow(d) \/ RefuseCognito(d)
             \/ Restore(d) \/ Stop(d)
      PROVE  /\ given'[c] = given[c] /\ original'[c] = original[c] /\ earlier'[c] = earlier[c]
             /\ pc'[c] = "idle"
  BY <1>2 DEF WriteRow, WriteCognito, RefuseRow, RefuseCognito, Restore, Stop
<1>3. CASE UNCHANGED vars
  BY <1>3 DEF vars
<1> QED BY <1>1, <1>2, <1>3 DEF Next

(* What a step does to the row: a call writes its own names, or is rolled  *)
(* back to what it read.                                                   *)
Writes(d) == /\ pc[d] = "row" /\ pc'[d] \in {"ok", "cognito", "stuck"}
             /\ row' = Updated(d) /\ earlier' = earlier

RollsBack(d) == /\ pc[d] = "restore" /\ pc'[d] = "undone"
                /\ row' = original[d] /\ earlier' = earlier

(* No other step touches the row. *)
LEMMA RowEvolves ==
  ASSUME TypeOK, [Next]_vars
  PROVE  row' = row \/ \E d \in Calls : Writes(d) \/ RollsBack(d)
<1> USE DEF TypeOK, Goto, At
<1>1. ASSUME NEW d \in Calls, WriteRow(d) PROVE Writes(d)
  BY <1>1 DEF WriteRow, Writes
<1>2. ASSUME NEW d \in Calls, Restore(d) PROVE RollsBack(d)
  BY <1>2 DEF Restore, RollsBack
<1>3. ASSUME NEW d \in Calls,
             \/ UpdateMe(d) \/ WriteCognito(d) \/ RefuseRow(d) \/ RefuseCognito(d) \/ Stop(d)
      PROVE  row' = row
  BY <1>3 DEF UpdateMe, WriteCognito, RefuseRow, RefuseCognito, Stop
<1>4. CASE UNCHANGED vars
  BY <1>4 DEF vars
<1> QED BY <1>1, <1>2, <1>3, <1>4 DEF Next

(* What a step does to Cognito: a call that has written the row sends its  *)
(* names.                                                                  *)
LEMMA UserEvolves ==
  ASSUME TypeOK, [Next]_vars
  PROVE  \/ user' = user
         \/ \E d \in Calls : /\ pc[d] = "cognito" /\ pc'[d] \in {"ok", "restore"}
                             /\ user' = With(user, d, Sent(d))
BY DEF TypeOK, Goto, At, Next, vars, UpdateMe, WriteRow, WriteCognito, RefuseRow, RefuseCognito,
       Restore, Stop
-----------------------------------------------------------------------------
(* Every step keeps the order of the calls. *)
LEMMA HistoriesStep ==
  ASSUME TypeOK, TypeOK', Histories, [Next]_vars
  PROVE  Histories'
<1>1. Ended \subseteq Ended'
  BY CallsKept DEF Ended, Outcomes
<1>2. ASSUME NEW c \in Calls
      PROVE  /\ earlier'[c] \subseteq Ended' /\ c \notin earlier'[c]
             /\ pc'[c] = "idle" => earlier'[c] = {}
  <2>1. CASE pc[c] # "idle"
    BY <1>1, <2>1, CallsKept DEF Histories
  <2>2. CASE pc[c] = "idle"
    <3>1. c \notin Ended
      BY <2>2 DEF Ended, Outcomes
    <3> QED BY <1>1, <2>2, <3>1, IdleOrBegins DEF Histories, Begins
  <2> QED BY <2>1, <2>2
<1> QED BY <1>2 DEF Histories

(* A call that has written a name has written it for good. *)
LEMMA WroteStays ==
  ASSUME TypeOK, [Next]_vars, NEW n \in Calls, NEW f \in Fields, Wrote(n, f)
  PROVE  Wrote(n, f)'
<1>1. pc[n] \notin {"idle", "row"}
  BY DEF Wrote
<1>2. pc'[n] # "row"
  BY <1>1 DEF TypeOK, Goto, At, Steps, Outcomes, Next, vars, UpdateMe, WriteRow, WriteCognito,
              RefuseRow, RefuseCognito, Restore, Stop
<1> QED BY <1>1, <1>2, CallsKept DEF Wrote, Written

(* Every step keeps the sources of the names. *)
LEMMA SourcesStep ==
  ASSUME TypeOK, Sources, [Next]_vars
  PROVE  Sources'
<1>1. SUFFICES ASSUME NEW n \in Calls, NEW f \in Fields
      PROVE  /\ row'[f] = n => Wrote(n, f)'
             /\ user'[f] = n => Wrote(n, f)' /\ (f \in Sent(n))'
             /\ \A e \in Calls : original'[e][f] = n => Wrote(n, f)' /\ n # e
  BY DEF Sources
<1>2. row'[f] = n => Wrote(n, f)'
  <2>1. ASSUME NEW d \in Calls, Writes(d), row'[f] = n PROVE Wrote(n, f)'
    <3>1. CASE row[f] = n
      BY <3>1, WroteStays DEF Sources
    <3>2. CASE row[f] # n
      <4>1. n = d /\ f \in Written(d)
        BY <2>1, <3>2 DEF Writes, Updated, With
      <4>2. given'[d] = given[d] /\ pc'[d] \notin {"idle", "row"}
        BY <2>1, CallsKept DEF Writes
      <4> QED BY <4>1, <4>2 DEF Wrote, Written
    <3> QED BY <3>1, <3>2
  <2>2. ASSUME NEW d \in Calls, RollsBack(d), row'[f] = n PROVE Wrote(n, f)'
    BY <2>2, WroteStays DEF RollsBack, Sources
  <2>3. row' = row /\ row'[f] = n => Wrote(n, f)'
    BY WroteStays DEF Sources
  <2> QED BY <2>1, <2>2, <2>3, RowEvolves
<1>3. user'[f] = n => Wrote(n, f)' /\ (f \in Sent(n))'
  <2>1. SUFFICES ASSUME user'[f] = n PROVE Wrote(n, f)' /\ (f \in Sent(n))'
    OBVIOUS
  <2>2. CASE user[f] = n
    <3>1. Wrote(n, f) /\ f \in Sent(n)
      BY <2>2 DEF Sources
    <3>2. given'[n] = given[n]
      BY <3>1, CallsKept DEF Wrote
    <3> QED BY <3>1, <3>2, WroteStays DEF Sent
  <2>3. CASE user[f] # n
    <3>1. PICK d \in Calls : /\ pc[d] = "cognito" /\ pc'[d] \in {"ok", "restore"}
                             /\ user' = With(user, d, Sent(d))
      BY <2>1, <2>3, UserEvolves
    <3>2. n = d /\ f \in Sent(d)
      BY <2>1, <2>3, <3>1 DEF With
    <3>3. given'[d] = given[d]
      BY <3>1, CallsKept
    <3> QED BY <3>1, <3>2, <3>3 DEF Wrote, Written, Sent
  <2> QED BY <2>2, <2>3
<1>4. ASSUME NEW e \in Calls, original'[e][f] = n PROVE Wrote(n, f)' /\ n # e
  <2>1. CASE original[e][f] = n
    BY <2>1, WroteStays DEF Sources
  <2>2. CASE original[e][f] # n
    <3>1. Begins(e)
      BY <1>4, <2>2, CallsKept, IdleOrBegins
    <3>2. row[f] = n
      BY <1>4, <3>1 DEF Begins
    <3>3. Wrote(n, f)
      BY <3>2 DEF Sources
    <3>4. n # e
      BY <3>1, <3>3 DEF Begins, Wrote
    <3> QED BY <3>3, <3>4, WroteStays
  <2> QED BY <2>1, <2>2
<1> QED BY <1>2, <1>3, <1>4

(* Who overlapped has overlapped for good, and an undone call stays so. *)
LEMMA OverlapStays ==
  ASSUME TypeOK, [Next]_vars, NEW c \in Calls, NEW e \in Calls, Overlap(c, e)
  PROVE  Overlap(c, e)'
BY CallsKept DEF Overlap

(* A rollback beside a call stays one. *)
LEMMA UndoneBesideStays ==
  ASSUME TypeOK, [Next]_vars, NEW c \in Calls, UndoneBeside(c)
  PROVE  UndoneBeside(c)'
<1>1. PICK e \in Calls : Overlap(c, e) /\ pc[e] = "undone"
  BY DEF UndoneBeside
<1>2. pc'[e] = "undone"
  BY <1>1, CallsKept DEF Outcomes
<1> QED BY <1>1, <1>2, OverlapStays DEF UndoneBeside

(* A rollback overlaps every call that did not end before it began, since  *)
(* it has not ended itself.                                                *)
LEMMA RollbackBeside ==
  ASSUME TypeOK, Histories, [Next]_vars, NEW d \in Calls, RollsBack(d),
         NEW c \in Calls, c # d, pc[c] # "idle", c \notin earlier[d]
  PROVE  Overlap(c, d)' /\ pc'[d] = "undone"
<1>1. d \notin earlier[c]
  BY DEF Histories, Ended, RollsBack, Outcomes
<1>2. Overlap(c, d)
  BY <1>1 DEF Overlap, RollsBack
<1> QED BY <1>2, OverlapStays DEF RollsBack
-----------------------------------------------------------------------------
(* A name that a call had read, or that the row holds, gives way to older  *)
(* ones only by a rollback.                                                *)
LEMMA RowKeepsStep ==
  ASSUME TypeOK, Histories, Sources, RowKeepsAnswered, [Next]_vars
  PROVE  RowKeepsAnswered'
<1>1. SUFFICES ASSUME NEW c \in Calls, NEW f \in Written(c)', pc'[c] \in {"cognito", "ok"},
                      \/ row'[f] \in {Seed} \cup earlier'[c]
                      \/ \E e \in Calls : /\ c \in earlier'[e]
                                         /\ original'[e][f] \in {Seed} \cup earlier'[c]
      PROVE  UndoneBeside(c)'
  BY DEF RowKeepsAnswered, Before
<1>f. f \in Fields
  BY DEF Written
<1>2. CASE pc[c] \in {"cognito", "ok"}
  <2>1. f \in Written(c) /\ earlier'[c] = earlier[c]
    BY <1>1, <1>2, CallsKept DEF Written
  <2>2. SUFFICES ASSUME /\ ~Before(row[f], c)
                        /\ \A e \in Calls : c \in earlier[e] => ~Before(original[e][f], c)
        PROVE  UndoneBeside(c)'
    BY <1>2, <2>1, UndoneBesideStays DEF RowKeepsAnswered
  <2>3. CASE row'[f] \in {Seed} \cup earlier'[c]
    <3>1. row'[f] = Seed \/ row'[f] \in earlier[c]
      BY <2>1, <2>3
    <3>2. row'[f] # row[f]
      BY <2>2, <3>1 DEF Before
    <3>3. ASSUME NEW d \in Calls, Writes(d) PROVE FALSE
      <4>1. row'[f] = d
        BY <1>f, <3>2, <3>3 DEF Writes, Updated, With
      <4> QED BY <3>1, <3>3, <4>1, ProfileAssumption DEF Writes, Histories, Ended, Outcomes
    <3>4. ASSUME NEW d \in Calls, RollsBack(d) PROVE UndoneBeside(c)'
      <4>1. c # d /\ pc[c] # "idle"
        BY <1>2, <3>4 DEF RollsBack
      <4>2. c \notin earlier[d]
        BY <2>2, <3>1, <3>4 DEF RollsBack, Before
      <4> QED BY <3>4, <4>1, <4>2, RollbackBeside DEF UndoneBeside
    <3> QED BY <3>2, <3>3, <3>4, RowEvolves
  <2>4. ASSUME NEW e \in Calls, c \in earlier'[e],
               original'[e][f] \in {Seed} \cup earlier'[c]
        PROVE  FALSE
    <3>1. original'[e][f] = Seed \/ original'[e][f] \in earlier[c]
      BY <2>1, <2>4
    <3>2. CASE original'[e] = original[e] /\ earlier'[e] = earlier[e]
      BY <2>2, <2>4, <3>1, <3>2 DEF Before
    <3>3. CASE Begins(e)
      BY <2>2, <3>1, <3>3 DEF Begins, Before
    <3> QED BY <3>2, <3>3, CallsKept, IdleOrBegins
  <2> QED BY <1>1, <2>3, <2>4
<1>3. CASE pc[c] \notin {"cognito", "ok"}
  <2>1. Writes(c)
    BY <1>1, <1>3 DEF Writes, TypeOK, Goto, At, Steps, Outcomes, Next, vars, UpdateMe, WriteRow,
       WriteCognito, RefuseRow, RefuseCognito, Restore, Stop
  <2>2. row'[f] = c
    BY <1>f, <1>1, <2>1, CallsKept DEF Writes, Updated, With, Written
  <2>3. c \notin Ended /\ c # Seed
    BY <2>1, ProfileAssumption DEF Writes, Ended, Outcomes
  <2>4. \A e \in Calls : c \notin earlier'[e]
    BY <2>1, <2>3 DEF Writes, Histories
  <2> QED BY <1>1, <2>2, <2>3, <2>4
<1> QED BY <1>2, <1>3

(* Cognito is written in no older call's name. *)
LEMMA UserKeepsStep ==
  ASSUME TypeOK, Histories, UserKeepsAnswered, [Next]_vars
  PROVE  UserKeepsAnswered'
<1>1. SUFFICES ASSUME NEW c \in Calls, NEW f \in Sent(c)', pc'[c] = "ok"
      PROVE  user'[f] # Seed /\ user'[f] \notin earlier'[c]
  BY DEF UserKeepsAnswered, Before
<1>f. f \in Fields
  BY DEF Sent
<1>2. ASSUME NEW d \in Calls, pc[d] = "cognito", user' = With(user, d, Sent(d)), user'[f] = d,
             pc[c] # "idle"
      PROVE  user'[f] # Seed /\ user'[f] \notin earlier'[c]
  BY <1>2, CallsKept, ProfileAssumption DEF Histories, Ended, Outcomes
<1>3. CASE pc[c] = "ok"
  <2>1. f \in Sent(c) /\ earlier'[c] = earlier[c]
    BY <1>3, CallsKept DEF Sent
  <2>2. user[f] # Seed /\ user[f] \notin earlier[c]
    BY <1>3, <2>1 DEF UserKeepsAnswered, Before
  <2> QED BY <1>f, <1>2, <1>3, <2>1, <2>2, UserEvolves DEF With
<1>4. CASE pc[c] # "ok"
  <2>1. ASSUME NEW d \in Calls, WriteRow(d) PROVE FALSE
    <3>1. c = d /\ given' = given /\ Sent(c) = {}
      BY <1>1, <1>4, <2>1 DEF WriteRow, At, Goto, TypeOK
    <3> QED BY <1>1, <3>1 DEF Sent
  <2>2. ASSUME NEW d \in Calls, WriteCognito(d)
        PROVE  user'[f] # Seed /\ user'[f] \notin earlier'[c]
    <3>1. c = d /\ given' = given /\ pc[d] = "cognito" /\ user' = With(user, d, Sent(d))
      BY <1>1, <1>4, <2>2 DEF WriteCognito, At, Goto, TypeOK
    <3>2. user'[f] = d
      BY <1>f, <1>1, <3>1 DEF With, Sent
    <3> QED BY <1>2, <3>1, <3>2
  <2> QED BY <1>1, <1>4, <2>1, <2>2 DEF TypeOK, Goto, At, Next, vars, UpdateMe, RefuseRow,
       RefuseCognito, Restore, Stop
<1> QED BY <1>3, <1>4

(* A call that is rolled back leaves its names only to those that read     *)
(* them meanwhile.                                                         *)
LEMMA UndoneStep ==
  ASSUME TypeOK, Histories, Sources, UndoneGone, [Next]_vars
  PROVE  UndoneGone'
<1>1. SUFFICES ASSUME NEW c \in Calls, NEW f \in Fields, pc'[c] = "undone",
                      row'[f] = c \/ \E e \in Calls : c \in earlier'[e] /\ original'[e][f] = c
      PROVE  \E e \in Calls : Overlap(c, e)' /\ pc'[e] = "undone" /\ original'[e][f] = c
  BY DEF UndoneGone
<1>2. CASE pc[c] = "undone"
  <2>1. SUFFICES ASSUME row[f] # c, \A e \in Calls : c \in earlier[e] => original[e][f] # c
        PROVE  \E e \in Calls : Overlap(c, e)' /\ pc'[e] = "undone" /\ original'[e][f] = c
    <3>1. ASSUME NEW e \in Calls, Overlap(c, e), pc[e] = "undone", original[e][f] = c
          PROVE  Overlap(c, e)' /\ pc'[e] = "undone" /\ original'[e][f] = c
      BY <3>1, CallsKept, OverlapStays DEF Outcomes
    <3> QED BY <1>2, <3>1 DEF UndoneGone
  <2>2. CASE row'[f] = c
    <3>1. ASSUME NEW d \in Calls, Writes(d) PROVE FALSE
      <4>1. c = d
        BY <2>1, <2>2, <3>1 DEF Writes, Updated, With
      <4> QED BY <1>2, <3>1, <4>1 DEF Writes
    <3>2. ASSUME NEW d \in Calls, RollsBack(d)
          PROVE  Overlap(c, d)' /\ pc'[d] = "undone" /\ original'[d][f] = c
      <4>1. original[d][f] = c /\ original'[d] = original[d]
        BY <2>2, <3>2, CallsKept DEF RollsBack
      <4>2. c # d /\ pc[c] # "idle" /\ c \notin earlier[d]
        BY <1>2, <2>1, <3>2, <4>1 DEF RollsBack
      <4> QED BY <3>2, <4>1, <4>2, RollbackBeside
    <3> QED BY <2>1, <2>2, <3>1, <3>2, RowEvolves
  <2>3. ASSUME NEW e \in Calls, c \in earlier'[e], original'[e][f] = c PROVE FALSE
    <3>1. CASE original'[e] = original[e] /\ earlier'[e] = earlier[e]
      BY <2>1, <2>3, <3>1
    <3>2. CASE Begins(e)
      BY <2>1, <2>3, <3>2 DEF Begins
    <3> QED BY <3>1, <3>2, CallsKept, IdleOrBegins
  <2> QED BY <1>1, <2>2, <2>3
<1>3. CASE pc[c] # "undone"
  <2>1. RollsBack(c)
    BY <1>1, <1>3 DEF RollsBack, TypeOK, Goto, At, Steps, Outcomes, Next, vars, UpdateMe, WriteRow,
       WriteCognito, RefuseRow, RefuseCognito, Restore, Stop
  <2>2. row'[f] # c
    BY <2>1 DEF RollsBack, Sources
  <2>3. \A e \in Calls : c \notin earlier'[e]
    BY <2>1 DEF RollsBack, Histories, Ended, Outcomes
  <2> QED BY <1>1, <2>2, <2>3
<1> QED BY <1>2, <1>3
-----------------------------------------------------------------------------
(* The invariant of updateMe holds in every state, however calls overlap,  *)
(* fail and are rolled back.                                               *)
THEOREM InductiveInvariant == Spec => []IInv
<1>1. IInv /\ [Next]_vars => IInv'
  BY TypeStep, HistoriesStep, SourcesStep, RowKeepsStep, UserKeepsStep, UndoneStep DEF IInv
<1> QED BY InitIInv, <1>1, PTL DEF Spec

(* Names, and what calls have read, keep their types. *)
THEOREM TypesHold == Spec => []TypeOK
<1>1. IInv => TypeOK
  BY DEF IInv
<1> QED BY <1>1, InductiveInvariant, PTL

(* An answered update gives way to older names only in the row, and only   *)
(* by the rollback of an updateMe that overlapped it.                      *)
THEOREM AnsweredLast == Spec => []AnsweredUpdatesLast
<1>1. ASSUME IInv PROVE AnsweredUpdatesLast
  <2>1. ASSUME NEW c \in Calls, pc[c] = "ok", NEW f \in Sent(c) PROVE ~Before(user[f], c)
    BY <1>1, <2>1 DEF IInv, UserKeepsAnswered
  <2>2. ASSUME NEW c \in Calls, pc[c] = "ok", NEW f \in Written(c), Before(row[f], c)
        PROVE  UndoneBeside(c)
    BY <1>1, <2>2 DEF IInv, RowKeepsAnswered
  <2> QED BY <2>1, <2>2 DEF AnsweredUpdatesLast, UndoneBeside
<1> QED BY <1>1, InductiveInvariant, PTL

(* The names of a rolled back update are gone, unless an overlapping one   *)
(* that had read them was rolled back to them.                             *)
THEOREM UndoneLeaveNothing == Spec => []UndoneNamesAreGone
<1>1. IInv => UndoneNamesAreGone
  BY DEF IInv, UndoneGone, UndoneNamesAreGone
<1> QED BY <1>1, InductiveInvariant, PTL

(* The two copies of a name differ only by an update that is under way or  *)
(* failed, by an empty name, or by an overlap.  Whose name Cognito has was *)
(* answered then; so was the one in the row, and one of the two is older.  *)
THEOREM CopiesDifferOnlySo == Spec => []CopiesAgree
<1>1. ASSUME IInv PROVE CopiesAgree
  <2>1. SUFFICES ASSUME NEW f \in Fields, row[f] # user[f],
                        row[f] \in Calls => pc[row[f]] \in {"ok", "undone"},
                        row[f] \in Calls => given[row[f]][f] # "empty",
                        user[f] \in Calls => pc[user[f]] = "ok"
        PROVE  \E c \in {row[f], user[f]} \cap Calls, e \in Calls :
                  Overlap(c, e) /\ (f \in Written(e) \/ pc[e] = "undone")
    BY DEF CopiesAgree
  <2> DEFINE r == row[f]
             u == user[f]
  <2>2. r \in Calls \cup {Seed} /\ u \in Calls \cup {Seed}
    BY <1>1 DEF IInv, TypeOK, Givers
  <2>3. r \in Calls => f \in Written(r)
    BY <1>1 DEF IInv, Sources, Wrote
  <2>4. u \in Calls => f \in Written(u)
    BY <1>1 DEF IInv, Sources, Wrote
  <2>5. CASE r \in Calls /\ pc[r] = "undone"
    BY <1>1, <2>5 DEF IInv, UndoneGone
  <2>6. CASE u \in Calls /\ Before(r, u)
    BY <1>1, <2>1, <2>4, <2>6 DEF IInv, RowKeepsAnswered, UndoneBeside
  <2>7. CASE r \in Calls /\ pc[r] = "ok" /\ (u \in Calls => ~Before(r, u))
    <3>1. f \in Sent(r)
      <4>1. given[r][f] \in Given
        BY <1>1, <2>7 DEF IInv, TypeOK
      <4> QED BY <2>1, <2>3, <2>7, <4>1 DEF Written, Sent, Given
    <3>2. ~Before(u, r)
      BY <1>1, <2>7, <3>1 DEF IInv, UserKeepsAnswered
    <3>3. u \in Calls
      BY <2>2, <3>2 DEF Before
    <3>4. Overlap(r, u)
      BY <2>1, <2>7, <3>2, <3>3 DEF Overlap, Before
    <3> QED BY <2>4, <2>7, <3>3, <3>4
  <2> QED BY <2>1, <2>2, <2>5, <2>6, <2>7 DEF Before
<1> QED BY <1>1, InductiveInvariant, PTL
==============================================================================
