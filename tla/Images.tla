------------------------------- MODULE Images --------------------------------
(***************************************************************************)
(* The images of clothes: rows of clothe_image in the database, objects in *)
(* S3.  createClothes, createDraftClothes and addImages insert the rows    *)
(* and answer with presigned URLs, to which the client uploads the objects *)
(* by itself for as long as they are valid.  deleteImage deletes the       *)
(* object first, whatever comes of it, and the row second.                 *)
(*                                                                         *)
(* An item is named after the call that inserts it; the key of an image is *)
(* the call that adds it and a file, since buildTempKey draws a fresh one. *)
(***************************************************************************)
EXTENDS Sequences

CONSTANTS
  Calls,      \* requests
  Files,      \* the files a request may name
  BasePaths,  \* what the path of STORAGE_PUBLIC_URL may be
  None        \* no item, no image

VARIABLES
  base,      \* the path of STORAGE_PUBLIC_URL, fixed at the start
  item,      \* clothes: "none", "live" or "deleted" (deletedAt is set)
  rows,      \* clothe_image: the keys in the URLs of its rows
  objects,   \* the keys there are in S3
  urls,      \* the calls whose presigned URLs the client may use
  call,      \* what each call was asked
  pc,        \* where each call stands, or how it ended
  uploaded,  \* history: the keys that were ever uploaded
  tried,     \* history: the keys that deleteObject was called for
  stray      \* history: objects it did not remove, or uploaded after it

vars == <<base, item, rows, objects, urls, call, pc, uploaded, tried, stray>>

Keys == Calls \X Files

(* A key behind a path that is not empty is no key of an image. *)
ASSUME ImagesAssumption ==
  /\ None \notin Calls \cup Keys
  /\ \A path \in BasePaths, k \in Keys : path \o k \in Keys => path = <<>>

Ops == {"create", "add", "delete", "drop"}
Asked == [op : Ops, item : Calls \cup {None}, files : SUBSET Files, image : Keys \cup {None}]
NoCall == [op |-> "create", item |-> None, files |-> {}, image |-> None]

Steps == {"item", "rows", "object", "row", "drop"}

(* "refused": no image was given; "failed": what was written stays. *)
Outcomes == {"ok", "refused", "failed"}

Added(c) == {c} \X call[c].files

(* getImagesUrl: the path of an image's URL is the base path and its key.  *)
Url(k) == base \o k

(* Mutant of extractKeyFromUrl: the first part of the path is dropped. *)
extractKeyFromUrlTail(url) == Tail(url)

(* The whole path is taken for the key. *)
extractKeyFromUrl(url) == url

Init ==
  /\ base \in BasePaths
  /\ item = [c \in Calls |-> "none"]
  /\ rows = {} /\ objects = {} /\ urls = {}
  /\ call = [c \in Calls |-> NoCall]
  /\ pc = [c \in Calls |-> "idle"]
  /\ uploaded = {} /\ tried = {} /\ stray = {}

Goto(c, step) == pc' = [pc EXCEPT ![c] = step]

Arrive(c, asked, step) ==
  /\ pc[c] = "idle"
  /\ call' = [call EXCEPT ![c] = asked]
  /\ Goto(c, step)
  /\ UNCHANGED <<base, item, rows, objects, urls, uploaded, tried, stray>>

At(c, step) == pc[c] = step /\ UNCHANGED <<base, call, uploaded>>
-----------------------------------------------------------------------------
(* createClothes and createDraftClothes: the DTO lets images be left out.  *)
Create(c, files) ==
  Arrive(c, [op |-> "create", item |-> c, files |-> files, image |-> None], "item")

(* The item is saved before anything is known of its images. *)
SaveItem(c) ==
  /\ At(c, "item")
  /\ item' = [item EXCEPT ![c] = "live"]
  /\ Goto(c, "rows") \/ Goto(c, "failed")
  /\ UNCHANGED <<rows, objects, urls, tried, stray>>

(* addNewImagesToClothes: the item is there. *)
AddImages(c, i, files) ==
  /\ item[i] = "live"
  /\ Arrive(c, [op |-> "add", item |-> i, files |-> files, image |-> None], "rows")

(* Without images there is nothing to sign or to save, which is an error.  *)
RefuseEmpty(c) ==
  /\ At(c, "rows") /\ call[c].files = {}
  /\ Goto(c, "refused")
  /\ UNCHANGED <<item, rows, objects, urls, tried, stray>>

(* Mutant of SaveRows: the rows are saved one by one without a transaction. *)
SaveRowsSingly(c) ==
  /\ At(c, "rows") /\ call[c].files # {}
  /\ \E saved \in SUBSET Added(c) :
       /\ rows' = rows \cup saved
       /\ \/ saved # {} /\ urls' = urls \cup {c} /\ Goto(c, "ok")
          \/ UNCHANGED urls /\ Goto(c, "failed")
  /\ UNCHANGED <<item, objects, tried, stray>>

(* save([...]) is one transaction.  The URLs were signed before; the       *)
(* client has them once it is answered.                                    *)
SaveRows(c) ==
  /\ At(c, "rows") /\ call[c].files # {}
  /\ rows' = rows \cup Added(c)
  /\ \/ urls' = urls \cup {c} /\ Goto(c, "ok")
     \/ UNCHANGED urls /\ Goto(c, "failed")
  /\ UNCHANGED <<item, objects, tried, stray>>

(* deleteImageFromClothes finds the row; it does not look at the item. *)
DeleteImage(c, k) ==
  /\ k \in rows
  /\ Arrive(c, [op |-> "delete", item |-> call[k[1]].item, files |-> {}, image |-> k], "object")

(* deleteObject catches every error of S3, and the caller goes on.  An     *)
(* error does not tell whether the object is gone.                         *)
DeleteObject(c) ==
  LET key == extractKeyFromUrl(Url(call[c].image)) IN
  /\ At(c, "object")
  /\ \/ objects' = objects \ {key} /\ UNCHANGED stray
     \/ UNCHANGED objects /\ stray' = stray \cup ({key} \cap objects)
  /\ tried' = tried \cup ({key} \cap Keys)
  /\ Goto(c, "row")
  /\ UNCHANGED <<item, rows, urls>>

(* Mutant of DeleteRow: the row of an answered deletion may stay. *)
DeleteRowUnchecked(c) ==
  /\ At(c, "row")
  /\ rows' = rows \ {call[c].image} \/ UNCHANGED rows
  /\ Goto(c, "ok")
  /\ UNCHANGED <<item, objects, urls, tried, stray>>

DeleteRow(c) ==
  /\ At(c, "row")
  /\ rows' = rows \ {call[c].image}
  /\ Goto(c, "ok") \/ Goto(c, "failed")
  /\ UNCHANGED <<item, objects, urls, tried, stray>>

(* deleteClothes, once the item is found and no active quote needs it. *)
DeleteClothes(c, i) ==
  /\ item[i] = "live"
  /\ Arrive(c, [op |-> "drop", item |-> i, files |-> {}, image |-> None], "drop")

(* The item is soft-deleted: no cascade reaches its images. *)
DropItem(c) ==
  /\ At(c, "drop")
  /\ item' = [item EXCEPT ![call[c].item] = "deleted"]
  /\ Goto(c, "ok") \/ Goto(c, "failed")
  /\ UNCHANGED <<rows, objects, urls, tried, stray>>

(* A statement or a signature fails, or the process dies. *)
Fail(c) ==
  /\ pc[c] \in Steps
  /\ Goto(c, "failed")
  /\ UNCHANGED <<base, item, rows, objects, urls, call, uploaded, tried, stray>>

(* The client uploads a file, perhaps once more. *)
Upload(c, f) ==
  /\ c \in urls /\ f \in call[c].files
  /\ objects' = objects \cup {<<c, f>>}
  /\ uploaded' = uploaded \cup {<<c, f>>}
  /\ stray' = IF <<c, f>> \in tried THEN stray \cup {<<c, f>>} ELSE stray
  /\ UNCHANGED <<base, item, rows, urls, call, pc, tried>>

(* The presigned URLs expire. *)
Expire(c) ==
  /\ c \in urls
  /\ urls' = urls \ {c}
  /\ UNCHANGED <<base, item, rows, objects, call, pc, uploaded, tried, stray>>

Done == \A c \in Calls : pc[c] \in Outcomes

Next ==
  \/ \E c \in Calls :
       \/ \E files \in SUBSET Files : Create(c, files)
       \/ \E i \in Calls, files \in SUBSET Files : AddImages(c, i, files)
       \/ \E k \in Keys : DeleteImage(c, k)
       \/ \E i \in Calls : DeleteClothes(c, i)
       \/ SaveItem(c) \/ RefuseEmpty(c) \/ SaveRows(c) \/ DeleteObject(c)
       \/ DeleteRow(c) \/ DropItem(c) \/ Fail(c) \/ Expire(c)
       \/ \E f \in Files : Upload(c, f)
  \/ Done /\ UNCHANGED vars

Spec == Init /\ [][Next]_vars
-----------------------------------------------------------------------------
(* Type invariant. *)
TypeOK ==
  /\ base \in BasePaths
  /\ item \in [Calls -> {"none", "live", "deleted"}]
  /\ rows \subseteq Keys /\ objects \subseteq Keys
  /\ urls \subseteq Calls
  /\ call \in [Calls -> Asked]
  /\ pc \in [Calls -> {"idle"} \cup Steps \cup Outcomes]
  /\ uploaded \subseteq Keys /\ tried \subseteq Keys /\ stray \subseteq Keys

Deletions(k) == {d \in Calls : call[d].op = "delete" /\ call[d].image = k}

(* No object is left that no row names, and so nobody can delete: unless   *)
(* S3 did not delete it, or the client uploaded it, with a URL that was    *)
(* still valid, after the image was deleted.  This takes a public URL      *)
(* without a path: with one, every deletion misses the object.             *)
ObjectsHaveRows == base = <<>> => objects \ rows \subseteq stray

(* An image that was uploaded can be shown for as long as it has its row,  *)
(* unless a deletion is between object and row, or failed there.           *)
UploadedRowsKeepObjects ==
  \A k \in (rows \cap uploaded) \ objects :
     \E d \in Deletions(k) : pc[d] \in {"row", "failed"}

(* The images of one request are there together, and all of them, one at   *)
(* least, once it was answered; those apart that were deleted since.       *)
ImagesComeTogether ==
  \A c \in Calls :
    LET erased == {k \in Added(c) : \E d \in Deletions(k) : pc[d] \in {"ok", "failed"}}
        made == {k \in rows : k[1] = c}
    IN /\ made \subseteq Added(c)
       /\ made # {} => Added(c) \subseteq made \cup erased
       /\ (pc[c] = "ok" /\ call[c].op \in {"create", "add"}) =>
             Added(c) # {} /\ Added(c) \subseteq made \cup erased

(* createClothes and createDraftClothes without images are not refused:    *)
(* the field is optional in both DTOs.                                     *)
ImagesAreOptional ==
  \A c \in Calls : call[c].op = "create" => pc[c] # "refused"
=============================================================================
