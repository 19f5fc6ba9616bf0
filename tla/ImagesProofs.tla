---------------------------- MODULE ImagesProofs -----------------------------
(***************************************************************************)
(* Theorems about Images, for any calls, files and base paths.             *)
(***************************************************************************)
EXTENDS Images, TLAPS

(* A deletion of k has reached its end, or was cut short. *)
Gone(k) == \E d \in Deletions(k) : pc[d] \in {"ok", "failed"}

(* A call stands where its operation may stand; who holds URLs was         *)
(* answered.                                                               *)
CallsFit ==
  \A c \in Calls :
    /\ pc[c] = "item" => call[c].op = "create"
    /\ pc[c] = "rows" => call[c].op \in {"create", "add"}
    /\ pc[c] \in {"object", "row"} => call[c].op = "delete" /\ call[c].image \in Keys
    /\ pc[c] = "drop" => call[c].op = "drop"
    /\ c \in urls => pc[c] = "ok"

UploadsFollowAnswers ==
  \A c \in Calls, f \in Files : <<c, f>> \in uploaded => pc[c] = "ok"

(* Rows come from a call that has ended, and with all the others of it. *)
RowsFollowCalls ==
  \A c \in Calls, f \in Files : <<c, f>> \in rows =>
    /\ f \in call[c].files
    /\ pc[c] \in {"ok", "failed"}
    /\ \A g \in call[c].files : <<c, g>> \in rows \/ Gone(<<c, g>>)

AnsweredHaveRows ==
  \A c \in Calls : (pc[c] = "ok" /\ call[c].op \in {"create", "add"}) =>
    /\ call[c].files # {}
    /\ \A g \in call[c].files : <<c, g>> \in rows \/ Gone(<<c, g>>)

(* With a plain public URL, a deletion between its two steps has tried the *)
(* object it means, and what can still be uploaded has its row or was      *)
(* tried before.                                                           *)
DeletionsTried ==
  base = <<>> => \A c \in Calls : pc[c] = "row" =>
    /\ call[c].image \in tried
    /\ call[c].image \in objects => call[c].image \in stray

UploadsHaveRows ==
  base = <<>> => \A c \in urls : \A f \in call[c].files : <<c, f>> \in rows \cup tried

IInv == /\ TypeOK /\ CallsFit /\ UploadsFollowAnswers /\ RowsFollowCalls
        /\ AnsweredHaveRows /\ DeletionsTried /\ UploadsHaveRows
        /\ ObjectsHaveRows /\ UploadedRowsKeepObjects
-----------------------------------------------------------------------------
(* The empty path leaves a key as it is. *)
LEMMA PlainUrl ==
  ASSUME NEW k \in Keys
  PROVE  <<>> \o k = k
<1>1. PICK c \in Calls, f \in Files : k = <<c, f>>
  BY DEF Keys
<1>2. <<c, f>> \in Seq(Calls \cup Files) /\ <<>> \in Seq(Calls \cup Files)
  OBVIOUS
<1>3. Len(<<>> \o <<c, f>>) = 2 /\ (<<>> \o <<c, f>>)[1] = c /\ (<<>> \o <<c, f>>)[2] = f
  BY <1>2
<1> QED BY <1>1, <1>2, <1>3

(* The invariant holds before the first call. *)
LEMMA InitIInv == Init => IInv
BY DEF Init, IInv, TypeOK, CallsFit, UploadsFollowAnswers, RowsFollowCalls, AnsweredHaveRows,
       DeletionsTried, UploadsHaveRows, ObjectsHaveRows, UploadedRowsKeepObjects,
       NoCall, Asked, Ops, Steps, Outcomes

(* Every step keeps the types. *)
LEMMA TypeStep == TypeOK /\ [Next]_vars => TypeOK'
<1> SUFFICES ASSUME TypeOK, [Next]_vars PROVE TypeOK'
  OBVIOUS
<1> USE DEF TypeOK, Goto, At, Arrive, Steps, Outcomes
<1>1. ASSUME NEW c \in Calls, NEW files \in SUBSET Files, Create(c, files) PROVE TypeOK'
  BY <1>1 DEF Create, Asked, Ops
<1>2. ASSUME NEW c \in Calls, NEW i \in Calls, NEW files \in SUBSET Files, AddImages(c, i, files)
      PROVE  TypeOK'
  BY <1>2 DEF AddImages, Asked, Ops
<1>3. ASSUME NEW c \in Calls, NEW k \in Keys, DeleteImage(c, k) PROVE TypeOK'
  <2>1. call[k[1]].item \in Calls \cup {None}
    BY DEF Keys, Asked
  <2> QED BY <1>3, <2>1 DEF DeleteImage, Asked, Ops
<1>4. ASSUME NEW c \in Calls, NEW i \in Calls, DeleteClothes(c, i) PROVE TypeOK'
  BY <1>4 DEF DeleteClothes, Asked, Ops
<1>5. ASSUME NEW c \in Calls, SaveRows(c) PROVE TypeOK'
  <2>1. Added(c) \subseteq Keys
    BY DEF Added, Keys, Asked
  <2> QED BY <1>5, <2>1 DEF SaveRows
<1>6. ASSUME NEW c \in Calls, DeleteObject(c) PROVE TypeOK'
  BY <1>6 DEF DeleteObject
<1>7. ASSUME NEW c \in Calls, NEW f \in Files, Upload(c, f) PROVE TypeOK'
  BY <1>7 DEF Upload, Keys
<1>8. ASSUME NEW c \in Calls, SaveItem(c) \/ RefuseEmpty(c) \/ DeleteRow(c) \/ DropItem(c)
      PROVE  TypeOK'
  BY <1>8 DEF SaveItem, RefuseEmpty, DeleteRow, DropItem
<1>9. ASSUME NEW c \in Calls, Fail(c) \/ Expire(c) PROVE TypeOK'
  BY <1>9 DEF Fail, Expire
<1>10. CASE UNCHANGED vars
  BY <1>10 DEF vars
<1> QED BY <1>1, <1>2, <1>3, <1>4, <1>5, <1>6, <1>7, <1>8, <1>9, <1>10 DEF Next

(* Every step leaves a call where its operation may stand. *)
LEMMA CallsFitStep == TypeOK /\ CallsFit /\ [Next]_vars => CallsFit'
<1> SUFFICES ASSUME TypeOK, CallsFit, [Next]_vars PROVE CallsFit'
  OBVIOUS
<1> USE DEF TypeOK, CallsFit, Goto, At, Arrive, Steps, Outcomes
<1>1. ASSUME NEW c \in Calls, NEW files \in SUBSET Files, Create(c, files) PROVE CallsFit'
  BY <1>1 DEF Create
<1>2. ASSUME NEW c \in Calls, NEW i \in Calls, NEW files \in SUBSET Files, AddImages(c, i, files)
      PROVE  CallsFit'
  BY <1>2 DEF AddImages
<1>3. ASSUME NEW c \in Calls, NEW k \in Keys, DeleteImage(c, k) PROVE CallsFit'
  BY <1>3 DEF DeleteImage
<1>4. ASSUME NEW c \in Calls, NEW i \in Calls, DeleteClothes(c, i) PROVE CallsFit'
  BY <1>4 DEF DeleteClothes
<1>5. ASSUME NEW c \in Calls,
             SaveItem(c) \/ RefuseEmpty(c) \/ SaveRows(c) \/ DeleteRow(c) \/ DropItem(c)
      PROVE  CallsFit'
  BY <1>5 DEF SaveItem, RefuseEmpty, SaveRows, DeleteRow, DropItem
<1>6. ASSUME NEW c \in Calls, DeleteObject(c) PROVE CallsFit'
  BY <1>6 DEF DeleteObject
<1>7. ASSUME NEW c \in Calls, NEW f \in Files, Upload(c, f) PROVE CallsFit'
  BY <1>7 DEF Upload
<1>8. ASSUME NEW c \in Calls, Fail(c) \/ Expire(c) PROVE CallsFit'
  BY <1>8 DEF Fail, Expire
<1>9. CASE UNCHANGED vars
  BY <1>9 DEF vars
<1> QED BY <1>1, <1>2, <1>3, <1>4, <1>5, <1>6, <1>7, <1>8, <1>9 DEF Next

(* Any step, seen from one call: what it was asked is kept once it has     *)
(* arrived, and its outcome once it has ended.                             *)
Kept(c) == pc[c] # "idle" => (call'[c] = call[c] /\ (pc[c] \in Outcomes => pc'[c] = pc[c]))

(* Kept holds of every call in any step. *)
LEMMA CallsKept ==
  ASSUME TypeOK, [Next]_vars
  PROVE  \A c \in Calls : Kept(c)
<1> USE DEF TypeOK, Goto, At, Arrive, Steps, Outcomes, Kept
<1>1. ASSUME NEW c \in Calls, NEW files \in SUBSET Files, Create(c, files)
      PROVE  \A d \in Calls : Kept(d)
  BY <1>1 DEF Create
<1>2. ASSUME NEW c \in Calls, NEW i \in Calls, NEW files \in SUBSET Files, AddImages(c, i, files)
      PROVE  \A d \in Calls : Kept(d)
  BY <1>2 DEF AddImages
<1>3. ASSUME NEW c \in Calls, NEW k \in Keys, DeleteImage(c, k) PROVE \A d \in Calls : Kept(d)
  BY <1>3 DEF DeleteImage
<1>4. ASSUME NEW c \in Calls, NEW i \in Calls, DeleteClothes(c, i) PROVE \A d \in Calls : Kept(d)
  BY <1>4 DEF DeleteClothes
<1>5. ASSUME NEW c \in Calls,
             \/ SaveItem(c) \/ RefuseEmpty(c) \/ SaveRows(c) \/ DeleteRow(c) \/ DropItem(c)
             \/ DeleteObject(c) \/ Fail(c) \/ Expire(c)
      PROVE  \A d \in Calls : Kept(d)
  BY <1>5 DEF SaveItem, RefuseEmpty, SaveRows, DeleteRow, DropItem, DeleteObject, Fail, Expire
<1>6. ASSUME NEW c \in Calls, NEW f \in Files, Upload(c, f) PROVE \A d \in Calls : Kept(d)
  BY <1>6 DEF Upload
<1>7. CASE UNCHANGED vars
  BY <1>7 DEF vars
<1> QED BY <1>1, <1>2, <1>3, <1>4, <1>5, <1>6, <1>7 DEF Next

(* A deletion that has ended has ended for good. *)
LEMMA GoneStays ==
  ASSUME TypeOK, [Next]_vars, NEW k, Gone(k)
  PROVE  Gone(k)'
<1>1. PICK d \in Calls : call[d].op = "delete" /\ call[d].image = k /\ pc[d] \in {"ok", "failed"}
  BY DEF Gone, Deletions
<1>2. call'[d] = call[d] /\ pc'[d] = pc[d]
  BY <1>1, CallsKept DEF Kept, Outcomes
<1> QED BY <1>1, <1>2 DEF Gone, Deletions

(* What a step does to the rows: nothing, or it adds all those of a call   *)
(* that ends, or takes away one whose deletion ends.                       *)
RowsKept == rows' = rows

RowsSaved(c) == /\ pc[c] = "rows" /\ pc'[c] \in {"ok", "failed"}
                /\ call' = call /\ call[c].files # {}
                /\ rows' = rows \cup Added(c)

RowDropped(k) == Gone(k)' /\ rows' = rows \ {k}

(* Those are all the ways in which rows change. *)
LEMMA RowsEvolve ==
  ASSUME TypeOK, CallsFit, [Next]_vars
  PROVE  RowsKept \/ (\E c \in Calls : RowsSaved(c)) \/ \E k \in Keys : RowDropped(k)
<1>1. ASSUME NEW c \in Calls, SaveRows(c) PROVE RowsSaved(c)
  BY <1>1 DEF SaveRows, RowsSaved, TypeOK, At, Goto
<1>2. ASSUME NEW c \in Calls, DeleteRow(c) PROVE \E k \in Keys : RowDropped(k)
  <2>1. PICK k \in Keys : call[c].op = "delete" /\ call[c].image = k
    BY <1>2 DEF DeleteRow, At, CallsFit
  <2>2. Gone(k)'
    BY <1>2, <2>1 DEF DeleteRow, Gone, Deletions, TypeOK, At, Goto
  <2> QED BY <1>2, <2>1, <2>2 DEF DeleteRow, RowDropped
<1>3. ASSUME NEW c \in Calls,
             \/ SaveItem(c) \/ RefuseEmpty(c) \/ DropItem(c) \/ DeleteObject(c)
             \/ Fail(c) \/ Expire(c)
             \/ \E files \in SUBSET Files : Create(c, files)
             \/ \E i \in Calls, files \in SUBSET Files : AddImages(c, i, files)
             \/ \E k \in Keys : DeleteImage(c, k)
             \/ \E i \in Calls : DeleteClothes(c, i)
             \/ \E f \in Files : Upload(c, f)
      PROVE  RowsKept
  BY <1>3 DEF SaveItem, RefuseEmpty, DropItem, DeleteObject, Fail, Expire, Create, AddImages,
              DeleteImage, DeleteClothes, Upload, Arrive, RowsKept
<1>4. CASE UNCHANGED vars
  BY <1>4 DEF vars, RowsKept
<1> QED BY <1>1, <1>2, <1>3, <1>4 DEF Next

(* Rows of one call come together; those that go were deleted. *)
LEMMA RowsFollowStep ==
  ASSUME TypeOK, TypeOK', CallsFit, RowsFollowCalls, [Next]_vars
  PROVE  RowsFollowCalls'
<1>1. SUFFICES ASSUME NEW c \in Calls, NEW f \in Files, <<c, f>> \in rows'
      PROVE  /\ f \in call'[c].files
             /\ pc'[c] \in {"ok", "failed"}
             /\ \A g \in call'[c].files : <<c, g>> \in rows' \/ Gone(<<c, g>>)'
  BY DEF RowsFollowCalls
<1>2. CASE RowsKept
  BY <1>1, <1>2, CallsKept, GoneStays DEF RowsKept, RowsFollowCalls, Kept, Outcomes
<1>3. ASSUME NEW d \in Calls, RowsSaved(d)
      PROVE  /\ f \in call'[c].files
             /\ pc'[c] \in {"ok", "failed"}
             /\ \A g \in call'[c].files : <<c, g>> \in rows' \/ Gone(<<c, g>>)'
  <2>1. CASE <<c, f>> \in rows
    BY <1>3, <2>1, CallsKept, GoneStays DEF RowsSaved, RowsFollowCalls, Kept, Outcomes
  <2>2. CASE <<c, f>> \in Added(d)
    <3>1. c = d /\ f \in call[d].files
      BY <2>2 DEF Added
    <3> QED BY <1>3, <3>1 DEF RowsSaved, Added
  <2> QED BY <1>1, <1>3, <2>1, <2>2 DEF RowsSaved
<1>4. ASSUME NEW k \in Keys, RowDropped(k)
      PROVE  /\ f \in call'[c].files
             /\ pc'[c] \in {"ok", "failed"}
             /\ \A g \in call'[c].files : <<c, g>> \in rows' \/ Gone(<<c, g>>)'
  <2>1. <<c, f>> \in rows
    BY <1>1, <1>4 DEF RowDropped
  <2>2. \A g \in call[c].files : <<c, g>> \in rows \/ Gone(<<c, g>>)'
    BY <2>1, GoneStays DEF RowsFollowCalls
  <2>3. /\ f \in call[c].files /\ call'[c] = call[c]
        /\ pc'[c] \in {"ok", "failed"}
    BY <2>1, CallsKept DEF RowsFollowCalls, Kept, Outcomes
  <2> QED BY <1>4, <2>2, <2>3 DEF RowDropped
<1> QED BY <1>2, <1>3, <1>4, RowsEvolve

(* A call that adds images is answered only by the step that saves them.   *)
LEMMA AnswersSave ==
  ASSUME TypeOK, CallsFit, [Next]_vars,
         NEW c \in Calls, pc'[c] = "ok", pc[c] # "ok", call'[c].op \in {"create", "add"}
  PROVE  RowsSaved(c)
<1> USE DEF TypeOK, CallsFit, Goto, At, Arrive
<1>1. ASSUME NEW d \in Calls, SaveRows(d) PROVE RowsSaved(c)
  BY <1>1 DEF SaveRows, RowsSaved
<1>2. ASSUME NEW d \in Calls, DeleteRow(d) \/ DropItem(d) PROVE FALSE
  BY <1>2 DEF DeleteRow, DropItem
<1>3. ASSUME NEW d \in Calls,
             SaveItem(d) \/ RefuseEmpty(d) \/ DeleteObject(d) \/ Fail(d) \/ Expire(d)
      PROVE  FALSE
  BY <1>3 DEF SaveItem, RefuseEmpty, DeleteObject, Fail, Expire
<1>4. ASSUME NEW d \in Calls,
             \/ \E files \in SUBSET Files : Create(d, files)
             \/ \E i \in Calls, files \in SUBSET Files : AddImages(d, i, files)
             \/ \E k \in Keys : DeleteImage(d, k)
             \/ \E i \in Calls : DeleteClothes(d, i)
             \/ \E f \in Files : Upload(d, f)
      PROVE  FALSE
  <2>1. ASSUME NEW asked, NEW step \in {"item", "rows", "object", "drop"}, Arrive(d, asked, step)
        PROVE  FALSE
    BY <2>1
  <2> QED
    BY <1>4, <2>1 DEF Create, AddImages, DeleteImage, DeleteClothes, Upload
<1>5. CASE UNCHANGED vars
  BY <1>5 DEF vars
<1> QED BY <1>1, <1>2, <1>3, <1>4, <1>5 DEF Next

(* An answered call keeps its images until they are deleted. *)
LEMMA AnsweredStep ==
  ASSUME TypeOK, TypeOK', CallsFit, AnsweredHaveRows, [Next]_vars
  PROVE  AnsweredHaveRows'
<1>1. SUFFICES ASSUME NEW c \in Calls, pc'[c] = "ok", call'[c].op \in {"create", "add"}
      PROVE  /\ call'[c].files # {}
             /\ \A g \in call'[c].files : <<c, g>> \in rows' \/ Gone(<<c, g>>)'
  BY DEF AnsweredHaveRows
<1>2. CASE pc[c] # "ok"
  BY <1>1, <1>2, AnswersSave DEF RowsSaved, Added
<1>3. CASE pc[c] = "ok"
  <2>1. call'[c] = call[c]
    BY <1>3, CallsKept DEF Kept
  <2>2. /\ call[c].files # {}
        /\ \A g \in call[c].files : <<c, g>> \in rows \/ Gone(<<c, g>>)'
    BY <1>1, <1>3, <2>1, GoneStays DEF AnsweredHaveRows
  <2>3. \A g \in call[c].files : <<c, g>> \in rows => (<<c, g>> \in rows' \/ Gone(<<c, g>>)')
    BY RowsEvolve DEF RowsKept, RowsSaved, RowDropped
  <2> QED BY <2>1, <2>2, <2>3
<1> QED BY <1>2, <1>3

-----------------------------------------------------------------------------
(* Only what was answered with a URL is ever uploaded. *)
LEMMA UploadsStep ==
  ASSUME TypeOK, CallsFit, UploadsFollowAnswers, [Next]_vars
  PROVE  UploadsFollowAnswers'
<1>1. SUFFICES ASSUME NEW c \in Calls, NEW f \in Files, <<c, f>> \in uploaded'
      PROVE  pc'[c] = "ok"
  BY DEF UploadsFollowAnswers
<1>2. ASSUME NEW d \in Calls, NEW g \in Files, Upload(d, g), <<c, f>> \notin uploaded
      PROVE  c \in urls
  BY <1>1, <1>2 DEF Upload
<1>3. <<c, f>> \in uploaded \/ c \in urls
  BY <1>1, <1>2 DEF Next, vars, At, Arrive, Create, AddImages, DeleteImage, DeleteClothes, SaveItem,
     RefuseEmpty, SaveRows, DeleteObject, DeleteRow, DropItem, Fail, Expire
<1>4. pc[c] = "ok"
  BY <1>3 DEF UploadsFollowAnswers, CallsFit
<1> QED BY <1>4, CallsKept DEF Kept, Outcomes

(* The base path is fixed, and the histories only grow. *)
LEMMA HistoriesGrow ==
  ASSUME [Next]_vars
  PROVE  base' = base /\ tried \subseteq tried' /\ stray \subseteq stray'
BY DEF Next, vars, At, Arrive, Create, AddImages, DeleteImage, DeleteClothes, SaveItem, RefuseEmpty,
   SaveRows, DeleteObject, DeleteRow, DropItem, Fail, Expire, Upload

(* An object that appears is one a client may upload; it is stray when a   *)
(* deletion had tried it.                                                  *)
LEMMA ObjectsAppear ==
  ASSUME [Next]_vars, NEW k \in objects', k \notin objects
  PROVE  /\ \E c \in urls : \E f \in call[c].files : k = <<c, f>>
         /\ k \in tried => k \in stray'
         /\ rows' = rows
<1>1. ASSUME NEW c \in Calls, NEW f \in Files, Upload(c, f)
      PROVE  /\ \E d \in urls : \E g \in call[d].files : k = <<d, g>>
             /\ k \in tried => k \in stray'
             /\ rows' = rows
  BY <1>1 DEF Upload
<1> QED BY <1>1 DEF Next, vars, At, Arrive, Create, AddImages, DeleteImage, DeleteClothes, SaveItem,
     RefuseEmpty, SaveRows, DeleteObject, DeleteRow, DropItem, Fail, Expire

(* Only DeleteObject takes a deletion to its second step. *)
LEMMA RowAfterObject ==
  ASSUME TypeOK, [Next]_vars, NEW c \in Calls, pc'[c] = "row", pc[c] # "row"
  PROVE  DeleteObject(c)
<1> USE DEF TypeOK, Goto, At, Arrive
<1>1. ASSUME NEW d \in Calls, DeleteObject(d) PROVE c = d
  BY <1>1 DEF DeleteObject
<1>2. ASSUME NEW d \in Calls,
             \/ SaveItem(d) \/ RefuseEmpty(d) \/ SaveRows(d) \/ DeleteRow(d) \/ DropItem(d)
             \/ Fail(d) \/ Expire(d)
             \/ \E files \in SUBSET Files : Create(d, files)
             \/ \E i \in Calls, files \in SUBSET Files : AddImages(d, i, files)
             \/ \E k \in Keys : DeleteImage(d, k)
             \/ \E i \in Calls : DeleteClothes(d, i)
             \/ \E f \in Files : Upload(d, f)
      PROVE  FALSE
  BY <1>2 DEF SaveItem, RefuseEmpty, SaveRows, DeleteRow, DropItem, Fail, Expire, Create, AddImages,
              DeleteImage, DeleteClothes, Upload
<1>3. CASE UNCHANGED vars
  BY <1>3 DEF vars
<1> QED BY <1>1, <1>2, <1>3 DEF Next

(* A deletion reaches its second step with its own object tried. *)
LEMMA DeletionsStep ==
  ASSUME TypeOK, CallsFit, DeletionsTried, [Next]_vars
  PROVE  DeletionsTried'
<1>1. SUFFICES ASSUME base = <<>>, NEW c \in Calls, pc'[c] = "row"
      PROVE  /\ call'[c].image \in tried'
             /\ call'[c].image \in objects' => call'[c].image \in stray'
  BY HistoriesGrow DEF DeletionsTried
<1>2. CASE pc[c] = "row"
  <2>1. call'[c] = call[c]
    BY <1>2, CallsKept DEF Kept
  <2>2. /\ call[c].image \in tried
        /\ call[c].image \in objects => call[c].image \in stray
    BY <1>1, <1>2 DEF DeletionsTried
  <2>3. tried \subseteq tried' /\ stray \subseteq stray'
    BY HistoriesGrow
  <2>4. call[c].image \in objects' => call[c].image \in objects \/ call[c].image \in stray'
    BY <2>2, ObjectsAppear
  <2> QED BY <2>1, <2>2, <2>3, <2>4
<1>3. CASE pc[c] # "row"
  <2> DEFINE k == call[c].image
  <2>1. DeleteObject(c)
    BY <1>1, <1>3, RowAfterObject
  <2>2. k \in Keys
    BY <2>1 DEF DeleteObject, At, CallsFit
  <2>3. extractKeyFromUrl(Url(k)) = k
    BY <1>1, <2>2, PlainUrl DEF extractKeyFromUrl, Url
  <2>4. call' = call
    BY <2>1 DEF DeleteObject, At
  <2>5. /\ (objects' = objects \ {k} \/ (objects' = objects /\ stray' = stray \cup ({k} \cap objects)))
        /\ tried' = tried \cup ({k} \cap Keys)
    BY <2>1, <2>3 DEF DeleteObject
  <2> HIDE DEF k
  <2>6. k \in tried' /\ (k \in objects' => k \in stray')
    BY <2>2, <2>5
  <2> QED BY <2>4, <2>6 DEF k
<1> QED BY <1>2, <1>3

(* A row is dropped by the second step of its deletion, after the object.  *)
LEMMA DroppedTried ==
  ASSUME TypeOK, CallsFit, DeletionsTried, [Next]_vars, base = <<>>,
         NEW k \in rows, k \notin rows'
  PROVE  k \in tried /\ (k \in objects' => k \in stray')
<1>1. ASSUME NEW c \in Calls, DeleteRow(c)
      PROVE  k \in tried /\ (k \in objects' => k \in stray')
  <2>1. k = call[c].image /\ pc[c] = "row" /\ objects' = objects /\ stray' = stray
    BY <1>1 DEF DeleteRow, At
  <2> QED BY <2>1 DEF DeletionsTried
<1> QED BY <1>1 DEF Next, vars, At, Arrive, Create, AddImages, DeleteImage, DeleteClothes, SaveItem,
     RefuseEmpty, SaveRows, DeleteObject, DropItem, Fail, Expire, Upload

(* The client gets its URLs from the step that saves the rows. *)
LEMMA UrlsAppear ==
  ASSUME TypeOK, [Next]_vars, NEW c \in urls', c \notin urls
  PROVE  Added(c) \subseteq rows' /\ call' = call
<1>1. ASSUME NEW d \in Calls, SaveRows(d) PROVE Added(c) \subseteq rows' /\ call' = call
  BY <1>1 DEF SaveRows, At
<1> QED BY <1>1 DEF Next, vars, At, Arrive, Create, AddImages, DeleteImage, DeleteClothes, SaveItem,
     RefuseEmpty, DeleteObject, DeleteRow, DropItem, Fail, Expire, Upload

(* URLs outlive a row only when its object was tried. *)
LEMMA UploadsHaveRowsStep ==
  ASSUME TypeOK, TypeOK', CallsFit, DeletionsTried, UploadsHaveRows, [Next]_vars
  PROVE  UploadsHaveRows'
<1>1. SUFFICES ASSUME base = <<>>, NEW c \in urls', NEW f \in call'[c].files
      PROVE  <<c, f>> \in rows' \cup tried'
  BY HistoriesGrow DEF UploadsHaveRows
<1>2. c \in Calls
  BY DEF TypeOK
<1>3. CASE c \in urls
  <2>1. call'[c] = call[c]
    BY <1>2, <1>3, CallsKept DEF Kept, CallsFit
  <2>2. <<c, f>> \in rows \cup tried
    BY <1>1, <1>3, <2>1 DEF UploadsHaveRows
  <2> QED BY <1>1, <2>2, DroppedTried, HistoriesGrow
<1>4. CASE c \notin urls
  BY <1>4, UrlsAppear DEF Added
<1> QED BY <1>3, <1>4

(* An object without a row is a stray one. *)
LEMMA ObjectsStep ==
  ASSUME TypeOK, CallsFit, DeletionsTried, UploadsHaveRows, ObjectsHaveRows, [Next]_vars
  PROVE  ObjectsHaveRows'
<1>1. SUFFICES ASSUME base = <<>>, NEW k \in objects', k \notin rows'
      PROVE  k \in stray'
  BY HistoriesGrow DEF ObjectsHaveRows
<1>2. CASE k \in rows
  BY <1>1, <1>2, DroppedTried
<1>3. CASE k \notin rows /\ k \in objects
  BY <1>1, <1>3, HistoriesGrow DEF ObjectsHaveRows
<1>4. CASE k \notin rows /\ k \notin objects
  <2>1. k \in rows \cup tried
    BY <1>1, <1>4, ObjectsAppear DEF UploadsHaveRows
  <2> QED BY <1>4, <2>1, ObjectsAppear
<1> QED BY <1>2, <1>3, <1>4

(* An object disappears by the first step of its deletion. *)
LEMMA ObjectsDisappear ==
  ASSUME TypeOK, CallsFit, [Next]_vars, NEW k \in objects, k \notin objects'
  PROVE  \E d \in Calls : call'[d].op = "delete" /\ call'[d].image = k /\ pc'[d] = "row"
<1>1. ASSUME NEW c \in Calls, DeleteObject(c)
      PROVE  call'[c].op = "delete" /\ call'[c].image = k /\ pc'[c] = "row"
  <2>1. k = base \o call[c].image
    BY <1>1 DEF DeleteObject, extractKeyFromUrl, Url
  <2>2. call[c].op = "delete" /\ call[c].image \in Keys /\ k \in Keys /\ base \in BasePaths
    BY <1>1 DEF DeleteObject, At, CallsFit, TypeOK
  <2>3. base = <<>>
    BY <2>1, <2>2, ImagesAssumption
  <2>4. k = call[c].image
    BY <2>1, <2>2, <2>3, PlainUrl
  <2>5. call' = call /\ pc'[c] = "row"
    BY <1>1 DEF DeleteObject, At, Goto, TypeOK
  <2> QED BY <2>2, <2>4, <2>5
<1> QED BY <1>1 DEF Next, vars, At, Arrive, Create, AddImages, DeleteImage, DeleteClothes, SaveItem,
     RefuseEmpty, SaveRows, DeleteRow, DropItem, Fail, Expire, Upload

(* From its second step a deletion takes the row away or fails. *)
LEMMA RowStepEnds ==
  ASSUME TypeOK, [Next]_vars, NEW d \in Calls, pc[d] = "row"
  PROVE  pc'[d] \in {"row", "failed"} \/ call[d].image \notin rows'
<1> USE DEF TypeOK, Goto, At, Arrive
<1>1. ASSUME NEW c \in Calls,
             \/ SaveItem(c) \/ RefuseEmpty(c) \/ SaveRows(c) \/ DeleteRow(c) \/ DropItem(c)
             \/ DeleteObject(c) \/ Fail(c) \/ Expire(c)
             \/ \E files \in SUBSET Files : Create(c, files)
             \/ \E i \in Calls, files \in SUBSET Files : AddImages(c, i, files)
             \/ \E k \in Keys : DeleteImage(c, k)
             \/ \E i \in Calls : DeleteClothes(c, i)
             \/ \E f \in Files : Upload(c, f)
      PROVE  pc'[d] \in {"row", "failed"} \/ call[d].image \notin rows'
  BY <1>1 DEF SaveItem, RefuseEmpty, SaveRows, DeleteRow, DropItem, DeleteObject, Fail, Expire,
              Create, AddImages, DeleteImage, DeleteClothes, Upload
<1>2. CASE UNCHANGED vars
  BY <1>2 DEF vars
<1> QED BY <1>1, <1>2 DEF Next

(* What was ever uploaded is an object when it has just been. *)
LEMMA UploadsAppear ==
  ASSUME [Next]_vars, NEW k \in uploaded', k \notin uploaded
  PROVE  k \in objects'
<1>1. ASSUME NEW c \in Calls, NEW f \in Files, Upload(c, f) PROVE k \in objects'
  BY <1>1 DEF Upload
<1>2. ASSUME ~\E c \in Calls, f \in Files : Upload(c, f) PROVE uploaded' = uploaded
  BY <1>2 DEF Next, vars, At, Arrive, Create, AddImages, DeleteImage, DeleteClothes, SaveItem,
     RefuseEmpty, SaveRows, DeleteObject, DeleteRow, DropItem, Fail, Expire
<1> QED BY <1>1, <1>2

(* A row keeps its object until its deletion removes both. *)
LEMMA BackedStep ==
  ASSUME TypeOK, TypeOK', CallsFit, UploadsFollowAnswers, UploadedRowsKeepObjects, [Next]_vars
  PROVE  UploadedRowsKeepObjects'
<1>1. SUFFICES ASSUME NEW k \in rows', k \in uploaded', k \notin objects'
      PROVE  \E d \in Calls : /\ call'[d].op = "delete" /\ call'[d].image = k
                              /\ pc'[d] \in {"row", "failed"}
  BY DEF UploadedRowsKeepObjects, Deletions
<1>2. k \in uploaded
  BY <1>1, UploadsAppear
<1>3. CASE k \in objects
  BY <1>1, <1>3, ObjectsDisappear
<1>4. CASE k \in rows /\ k \notin objects
  <2>1. PICK d \in Calls : /\ call[d].op = "delete" /\ call[d].image = k
                           /\ pc[d] \in {"row", "failed"}
    BY <1>2, <1>4 DEF UploadedRowsKeepObjects, Deletions
  <2>2. call'[d] = call[d]
    BY <2>1, CallsKept DEF Kept
  <2>3. pc'[d] \in {"row", "failed"}
    BY <1>1, <2>1, CallsKept, RowStepEnds DEF Kept, Outcomes
  <2> QED BY <2>1, <2>2, <2>3
<1>5. CASE k \notin rows
  <2>1. PICK c \in Calls : RowsSaved(c)
    BY <1>1, <1>5, RowsEvolve DEF RowsKept, RowDropped
  <2>2. k \in Added(c) /\ pc[c] = "rows"
    BY <1>1, <1>5, <2>1 DEF RowsSaved
  <2>3. PICK f \in Files : k = <<c, f>>
    BY <2>2 DEF Added, TypeOK, Asked
  <2>4. pc[c] = "ok"
    BY <1>2, <2>3 DEF UploadsFollowAnswers
  <2> QED BY <2>2, <2>4
<1> QED BY <1>3, <1>4, <1>5
-----------------------------------------------------------------------------
(* Every step of every call keeps the invariant: the one the four          *)
(* properties follow from.                                                 *)
THEOREM InductiveInvariant == Spec => []IInv
<1>1. IInv /\ [Next]_vars => IInv'
  BY TypeStep, CallsFitStep, UploadsStep, RowsFollowStep, AnsweredStep, DeletionsStep,
     UploadsHaveRowsStep, ObjectsStep, BackedStep DEF IInv
<1> QED BY InitIInv, <1>1, PTL DEF Spec

(* The state of the images and of the calls has its types. *)
THEOREM TypesHold == Spec => []TypeOK
<1>1. IInv => TypeOK
  BY DEF IInv
<1> QED BY <1>1, InductiveInvariant, PTL

(* However many calls add and delete images at a time, and however late a  *)
(* client uploads: with a public URL without a path, an object without a   *)
(* row is one S3 failed to delete or one uploaded after its deletion.      *)
THEOREM ObjectsStayNamed == Spec => []ObjectsHaveRows
<1>1. IInv => ObjectsHaveRows
  BY DEF IInv
<1> QED BY <1>1, InductiveInvariant, PTL

(* With any public URL, a row whose image was uploaded has its object,     *)
(* unless a deletion of it stands between its two steps or failed there.   *)
THEOREM RowsStayBacked == Spec => []UploadedRowsKeepObjects
<1>1. IInv => UploadedRowsKeepObjects
  BY DEF IInv
<1> QED BY <1>1, InductiveInvariant, PTL

(* The rows of one request are there all or none, deletions apart, and an  *)
(* answered request has some.                                              *)
THEOREM ImagesTogether == Spec => []ImagesComeTogether
<1>1. ASSUME IInv PROVE ImagesComeTogether
  <2>1. SUFFICES ASSUME NEW c \in Calls
        PROVE  LET erased == {k \in Added(c) : Gone(k)}
                   made == {k \in rows : k[1] = c}
               IN /\ made \subseteq Added(c)
                  /\ made # {} => Added(c) \subseteq made \cup erased
                  /\ (pc[c] = "ok" /\ call[c].op \in {"create", "add"}) =>
                        Added(c) # {} /\ Added(c) \subseteq made \cup erased
    BY DEF ImagesComeTogether, Gone
  <2> DEFINE erased == {k \in Added(c) : Gone(k)}
             made == {k \in rows : k[1] = c}
  <2>2. rows \subseteq Calls \X Files /\ call[c].files \subseteq Files
    BY <1>1 DEF IInv, TypeOK, Keys, Asked
  <2>3. ASSUME NEW k \in made
        PROVE  \E f \in Files : k = <<c, f>> /\ <<c, f>> \in rows
    <3>1. PICK d \in Calls, f \in Files : k = <<d, f>>
      BY <2>2, <2>3
    <3>2. k[1] = c /\ k \in rows
      BY <2>3
    <3>3. d = c
      BY <3>1, <3>2
    <3> QED BY <3>1, <3>2, <3>3
  <2>4. ASSUME NEW k \in Added(c) PROVE k[1] = c /\ \E f \in call[c].files : k = <<c, f>>
    BY <2>4 DEF Added
  <2>5. ASSUME NEW k \in made PROVE k \in Added(c)
    <3>1. PICK f \in Files : k = <<c, f>> /\ <<c, f>> \in rows
      BY <2>3, <2>5
    <3>2. f \in call[c].files
      BY <1>1, <3>1 DEF IInv, RowsFollowCalls
    <3> QED BY <3>1, <3>2 DEF Added
  <2>6. (\A f \in call[c].files : <<c, f>> \in rows \/ Gone(<<c, f>>))
          => Added(c) \subseteq made \cup erased
    BY <2>4
  <2>7. made # {} => Added(c) \subseteq made \cup erased
    <3>1. SUFFICES ASSUME made # {} PROVE Added(c) \subseteq made \cup erased
      OBVIOUS
    <3>2. PICK f \in Files : <<c, f>> \in rows
      BY <2>3, <3>1
    <3> HIDE DEF made, erased
    <3> QED BY <1>1, <2>6, <3>2 DEF IInv, RowsFollowCalls
  <2>8. (pc[c] = "ok" /\ call[c].op \in {"create", "add"}) =>
           Added(c) # {} /\ Added(c) \subseteq made \cup erased
    <3> HIDE DEF made, erased
    <3>1. \A f \in call[c].files : <<c, f>> \in Added(c)
      BY DEF Added
    <3> QED BY <1>1, <2>6, <3>1 DEF IInv, AnsweredHaveRows
  <2> QED BY <2>5, <2>7, <2>8
<1> QED BY <1>1, InductiveInvariant, PTL
==============================================================================
