------------------------------ MODULE Catalog ------------------------------
(***************************************************************************)
(* ClothesService and ClothesVariantsService, and what QuoteService and    *)
(* OrderService ask of them: items of clothes, their variants, the quotes  *)
(* that price variants and the orders that need finished items.            *)
(*                                                                         *)
(* One action is one statement, or one transaction: what it writes is seen *)
(* by others at its commit only.  A call begins with its first read; a     *)
(* call that this read refuses changes nothing and is left out.            *)
(* An item, a quote and a variant row are named after the call that        *)
(* inserts them.  Quantities are 1, so a unit price is the price of a line.*)
(***************************************************************************)
EXTENDS Naturals, Functions

CONSTANTS
  Calls,          \* requests
  Seed,           \* the name of the rows there are at first
  Combos,         \* pairs of a size and a gender
  DefaultCombo,   \* M and unisex, the variant of a draft
  Prices,         \* base prices of items
  Extras,         \* what a variant adds to the price
  NewPrice,       \* bound: the price every item is inserted with
  NewExtra,       \* bound: what every variant adds when it is inserted
  None            \* no row named

VARIABLES
  item,         \* the rows of clothes
  variant,      \* the rows of clothes_variant: what each adds to the price
  quote,        \* the rows of quote
  details,      \* the rows of quote_detail of each quote
  priced,       \* the lines that the total of each quote adds up
  call,         \* what each call was asked
  pc,           \* where each call stands, or how it ended
  lines,        \* what each call has read: variants and their prices
  overlapped,   \* history: the pairs of calls that were under way together
  savedBy       \* history: the call that saved the details of each quote

clothesVars == <<item, variant>>
quoteVars == <<quote, details, priced, savedBy>>
callVars == <<call, lines, overlapped>>
vars == <<clothesVars, quoteVars, callVars, pc>>

ASSUME CatalogAssumption ==
  /\ Seed \notin Calls
  /\ None \notin Calls \cup {Seed}
  /\ DefaultCombo \in Combos
  /\ Prices \subseteq Nat
  /\ Extras \subseteq Nat
  /\ NewPrice \in Prices
  /\ NewExtra \in Extras

Names == Calls \cup {Seed}
Variants == [item : Names, combo : Combos, by : Names]

Table(f, keys, rows) == DOMAIN f \subseteq keys /\ f \in [DOMAIN f -> rows]
IsFunction(f, keys) == f = [x \in keys |-> f[x]]
IsLines(f) == Table(f, Variants, Nat)
Empty == [v \in {} |-> 0]

Item == [price : Prices, draft : BOOLEAN, live : BOOLEAN]
Statuses == {"PENDING", "APPROVED", "CANCELLED"}
Quote == [status : Statuses, live : BOOLEAN]

ClothesOps == {"createClothe", "createDraftClothe", "updateClothes", "deleteClothes"}
VariantOps == {"addVariant", "updateVariant", "deleteVariant"}
QuoteOps == {"createQuote", "updateQuote", "cancelQuote", "deleteQuote", "createOrder"}

Request == [op : ClothesOps \cup VariantOps \cup QuoteOps \cup {"none"},
            item : Names \cup {None}, quote : Names \cup {None},
            combos : SUBSET Combos, variants : SUBSET Variants]
NoRequest == [op |-> "none", item |-> None, quote |-> None, combos |-> {}, variants |-> {}]

Steps == {"save_item", "save_draft", "save_default", "write_item", "count", "remove_item",
          "check", "insert", "find", "write_extra", "details", "delete",
          "variants", "price", "save_quote", "cancel", "remove_quote",
          "drafts", "status", "approve", "commit"}

(* "failed" is also a refusal: what is left in the database tells. *)
Outcomes == {"ok", "failed"}

InFlight == {c \in Calls : pc[c] \in Steps}
Overlap(c, d) == {c, d} \in overlapped

Put(f, x, y) == [z \in DOMAIN f \cup {x} |-> IF z = x THEN y ELSE f[z]]
Without(f, x) == Restrict(f, DOMAIN f \ {x})

LiveItem(i) == i \in DOMAIN item /\ item[i].live
LiveQuote(q) == q \in DOMAIN quote /\ quote[q].live

NewItem(draft) == [price |-> NewPrice, draft |-> draft, live |-> TRUE]
NewQuote == [status |-> "PENDING", live |-> TRUE]

SeedVariant == [item |-> Seed, combo |-> DefaultCombo, by |-> Seed]

(* One item with one variant, and a pending quote on it. *)
Init ==
  /\ \E draft \in BOOLEAN : item = [i \in {Seed} |-> NewItem(draft)]
  /\ variant = [v \in {SeedVariant} |-> NewExtra]
  /\ quote = [q \in {Seed} |-> NewQuote]
  /\ details = [q \in {Seed} |-> [v \in {SeedVariant} |-> NewPrice + NewExtra]]
  /\ priced = [q \in {Seed} |-> details[q]]
  /\ savedBy = [q \in {Seed} |-> Seed]
  /\ call = [c \in Calls |-> NoRequest]
  /\ pc = [c \in Calls |-> "idle"]
  /\ lines = [c \in Calls |-> Empty]
  /\ overlapped = {}

Goto(c, step) == pc' = [pc EXCEPT ![c] = step]

Begin(c, request, step) ==
  /\ pc[c] = "idle"
  /\ call' = [call EXCEPT ![c] = request]
  /\ Goto(c, step)
  /\ overlapped' = overlapped \cup {{c, d} : d \in InFlight}

Arrive(c, request, step) ==
  /\ Begin(c, request, step)
  /\ UNCHANGED <<clothesVars, quoteVars, lines>>

(* A step that reads and goes on or refuses. *)
Read(c, from, to) ==
  /\ pc[c] = from
  /\ Goto(c, to)
  /\ UNCHANGED <<clothesVars, quoteVars, callVars>>

(* A step of c that writes. *)
At(c, step) == pc[c] = step /\ UNCHANGED callVars
-----------------------------------------------------------------------------
(* Items. *)

(* createClothe: duplicates are refused, so the combinations are a set.    *)
CreateClothe(c, combos) ==
  Arrive(c, [NoRequest EXCEPT !.op = "createClothe", !.combos = combos], "save_item")

RowsOf(c) == [item : {c}, combo : call[c].combos, by : {c}]

(* Mutant of SaveItem: the two inserts are not one transaction. *)
SaveItemApart(c) ==
  /\ At(c, "save_item")
  /\ item' = Put(item, c, NewItem(FALSE))
  /\ Goto(c, "failed")
  /\ UNCHANGED <<variant, quoteVars>>

(* One transaction. *)
SaveItem(c) ==
  /\ At(c, "save_item")
  /\ item' = Put(item, c, NewItem(FALSE))
  /\ variant' = [v \in DOMAIN variant \cup RowsOf(c) |->
                   IF v \in RowsOf(c) THEN NewExtra ELSE variant[v]]
  /\ Goto(c, "ok")
  /\ UNCHANGED quoteVars

CreateDraftClothe(c) ==
  Arrive(c, [NoRequest EXCEPT !.op = "createDraftClothe", !.combos = {DefaultCombo}], "save_draft")

SaveDraft(c) ==
  /\ At(c, "save_draft")
  /\ item' = Put(item, c, NewItem(TRUE))
  /\ Goto(c, "save_default")
  /\ UNCHANGED <<variant, quoteVars>>

(* Without a transaction: a failure before it leaves the item. *)
SaveDefault(c) ==
  /\ At(c, "save_default")
  /\ variant' = Put(variant, [item |-> c, combo |-> DefaultCombo, by |-> c], NewExtra)
  /\ Goto(c, "ok")
  /\ UNCHANGED <<item, quoteVars>>

UpdateClothes(c, i) ==
  /\ LiveItem(i)
  /\ Arrive(c, [NoRequest EXCEPT !.op = "updateClothes", !.item = i], "write_item")

(* The fields given are free; the update does not ask for deletedAt. *)
WriteItem(c) ==
  /\ At(c, "write_item")
  /\ \E p \in Prices, draft \in BOOLEAN :
       item' = [item EXCEPT ![call[c].item].price = p, ![call[c].item].draft = draft]
  /\ Goto(c, "ok")
  /\ UNCHANGED <<variant, quoteVars>>

DeleteClothes(c, i) ==
  /\ LiveItem(i)
  /\ Arrive(c, [NoRequest EXCEPT !.op = "deleteClothes", !.item = i], "count")

(* Mutant of Referenced: only pending quotes count. *)
ReferencedPending(i) ==
  \E q \in DOMAIN quote :
    /\ quote[q].live /\ quote[q].status = "PENDING"
    /\ \E v \in DOMAIN details[q] : v.item = i

(* The join leaves out quotes that are soft-deleted. *)
Referenced(i) ==
  \E q \in DOMAIN quote :
    /\ quote[q].live /\ quote[q].status \in {"PENDING", "APPROVED"}
    /\ \E v \in DOMAIN details[q] : v.item = i

CountReferences(c) ==
  Read(c, "count", IF Referenced(call[c].item) THEN "failed" ELSE "remove_item")

RemoveItem(c) ==
  /\ At(c, "remove_item")
  /\ item' = [item EXCEPT ![call[c].item].live = FALSE]
  /\ Goto(c, "ok")
  /\ UNCHANGED <<variant, quoteVars>>
-----------------------------------------------------------------------------
(* Variants. *)

AddVariant(c, i, combo) ==
  /\ LiveItem(i)
  /\ Arrive(c, [NoRequest EXCEPT !.op = "addVariant", !.item = i, !.combos = {combo}], "check")

(* Mutant of Taken: the combination is not looked for. *)
TakenNever(c) == FALSE

Taken(c) ==
  \E v \in DOMAIN variant : v.item = call[c].item /\ v.combo \in call[c].combos

CheckVariant(c) == Read(c, "check", IF Taken(c) THEN "failed" ELSE "insert")

(* No unique constraint backs the check. *)
InsertVariant(c) ==
  /\ At(c, "insert")
  /\ \E combo \in call[c].combos :
       variant' = Put(variant, [item |-> call[c].item, combo |-> combo, by |-> c], NewExtra)
  /\ Goto(c, "ok")
  /\ UNCHANGED <<item, quoteVars>>

UpdateVariant(c, v) ==
  /\ LiveItem(v.item)
  /\ Arrive(c, [NoRequest EXCEPT !.op = "updateVariant", !.variants = {v}], "find")

DeleteVariant(c, v) ==
  /\ LiveItem(v.item)
  /\ Arrive(c, [NoRequest EXCEPT !.op = "deleteVariant", !.variants = {v}], "find")

FindVariant(c) ==
  Read(c, "find",
       IF ~(call[c].variants \subseteq DOMAIN variant) THEN "failed"
       ELSE IF call[c].op = "updateVariant" THEN "write_extra" ELSE "details")

(* An update that finds no row any more is no error. *)
WriteExtra(c) ==
  /\ At(c, "write_extra")
  /\ \E e \in Extras :
       variant' = [v \in DOMAIN variant |-> IF v \in call[c].variants THEN e ELSE variant[v]]
  /\ Goto(c, "ok")
  /\ UNCHANGED <<item, quoteVars>>

(* Mutant of Quoted: only quotes that are pending or approved count. *)
QuotedActive(v) ==
  \E q \in DOMAIN quote :
    quote[q].live /\ quote[q].status # "CANCELLED" /\ v \in DOMAIN details[q]

(* Any detail counts, also of a quote that is cancelled or deleted. *)
Quoted(v) == \E q \in DOMAIN details : v \in DOMAIN details[q]

FindDetail(c) ==
  Read(c, "details", IF \E v \in call[c].variants : Quoted(v) THEN "failed" ELSE "delete")

(* The row goes, and by ON DELETE CASCADE the details that name it. *)
DropVariant(c) ==
  /\ At(c, "delete")
  /\ \E v \in call[c].variants :
       /\ variant' = Without(variant, v)
       /\ details' = [q \in DOMAIN details |-> Without(details[q], v)]
  /\ Goto(c, "ok")
  /\ UNCHANGED <<item, quote, priced, savedBy>>
-----------------------------------------------------------------------------
(* Quotes: getDetailUnitPrice reads the variants and then their items.     *)

Found(wanted) == wanted # {} /\ wanted \subseteq DOMAIN variant
ExtrasOf(wanted) == [v \in wanted |-> variant[v]]

CreateQuote(c, wanted) ==
  /\ Found(wanted)
  /\ Begin(c, [NoRequest EXCEPT !.op = "createQuote", !.quote = c, !.variants = wanted], "price")
  /\ lines' = [lines EXCEPT ![c] = ExtrasOf(wanted)]
  /\ UNCHANGED <<clothesVars, quoteVars>>

(* Bound: one updateQuote at a time on a quote; two are in QuoteOrder. *)
OneEditOf(q) == \A d \in InFlight : ~(call[d].op = "updateQuote" /\ call[d].quote = q)

UpdateQuote(c, q, wanted) ==
  /\ LiveQuote(q) /\ quote[q].status = "PENDING"
  /\ OneEditOf(q)
  /\ Arrive(c, [NoRequest EXCEPT !.op = "updateQuote", !.quote = q, !.variants = wanted], "variants")

ReadVariants(c) ==
  /\ pc[c] = "variants"
  /\ IF Found(call[c].variants)
     THEN /\ lines' = [lines EXCEPT ![c] = ExtrasOf(call[c].variants)]
          /\ Goto(c, "price")
     ELSE Goto(c, "failed") /\ UNCHANGED lines
  /\ UNCHANGED <<clothesVars, quoteVars, call, overlapped>>

(* Mutant of UnitPrice: what the variant adds is forgotten. *)
UnitPriceBase(c, v) == item[v.item].price

UnitPrice(c, v) == lines[c][v] + item[v.item].price

(* A soft-deleted item is not found. *)
PriceLines(c) ==
  /\ pc[c] = "price"
  /\ IF \A v \in DOMAIN lines[c] : LiveItem(v.item)
     THEN /\ lines' = [lines EXCEPT ![c] = [v \in DOMAIN lines[c] |-> UnitPrice(c, v)]]
          /\ Goto(c, "save_quote")
     ELSE Goto(c, "failed") /\ UNCHANGED lines
  /\ UNCHANGED <<clothesVars, quoteVars, call, overlapped>>

(* One transaction; the foreign key refuses a variant that is gone.        *)
(* updateQuote replaces the details of a quote in whatever status.         *)
SaveQuote(c) ==
  /\ At(c, "save_quote")
  /\ LET q == call[c].quote IN
     IF DOMAIN lines[c] \subseteq DOMAIN variant
     THEN /\ quote' = IF call[c].op = "createQuote" THEN Put(quote, q, NewQuote) ELSE quote
          /\ details' = Put(details, q, lines[c])
          /\ priced' = Put(priced, q, lines[c])
          /\ savedBy' = Put(savedBy, q, c)
          /\ Goto(c, "ok")
     ELSE Goto(c, "failed") /\ UNCHANGED quoteVars
  /\ UNCHANGED clothesVars

CancelQuote(c, q) ==
  /\ LiveQuote(q) /\ quote[q].status = "PENDING"
  /\ Arrive(c, [NoRequest EXCEPT !.op = "cancelQuote", !.quote = q], "cancel")

WriteStatus(q, status) == quote' = [quote EXCEPT ![q].status = status]

WriteCancelled(c) ==
  /\ At(c, "cancel")
  /\ WriteStatus(call[c].quote, "CANCELLED")
  /\ Goto(c, "ok")
  /\ UNCHANGED <<clothesVars, details, priced, savedBy>>

DeleteQuote(c, q) ==
  /\ LiveQuote(q) /\ quote[q].status # "APPROVED"
  /\ Arrive(c, [NoRequest EXCEPT !.op = "deleteQuote", !.quote = q], "remove_quote")

RemoveQuote(c) ==
  /\ At(c, "remove_quote")
  /\ quote' = [quote EXCEPT ![call[c].quote].live = FALSE]
  /\ Goto(c, "ok")
  /\ UNCHANGED <<clothesVars, details, priced, savedBy>>
-----------------------------------------------------------------------------
(* Orders: the quote and its details are read once; the drafts among their *)
(* items are looked for; the order is placed.                              *)

CreateOrder(c, q) ==
  /\ LiveQuote(q) /\ quote[q].status = "PENDING"
  /\ Begin(c, [NoRequest EXCEPT !.op = "createOrder", !.quote = q], "drafts")
  /\ lines' = [lines EXCEPT ![c] = details[q]]
  /\ UNCHANGED <<clothesVars, quoteVars>>

(* Mutant of HasDrafts: an order is refused only if all items are drafts. *)
HasDraftsAll(items) == \A i \in items : LiveItem(i) /\ item[i].draft

(* checkIfClothesAreDraft does not find items that are soft-deleted. *)
HasDrafts(items) == \E i \in items : LiveItem(i) /\ item[i].draft

CheckDrafts(c) ==
  Read(c, "drafts", IF HasDrafts({v.item : v \in DOMAIN lines[c]}) THEN "failed" ELSE "status")

(* updateStatus: what it reads, what it writes.  Its last read and the     *)
(* commit that follows may fail like any statement.                        *)
ReadStatus(c) ==
  LET q == call[c].quote IN
  Read(c, "status",
       IF LiveQuote(q) /\ quote[q].status # "CANCELLED" THEN "approve" ELSE "failed")

Approve(c) ==
  /\ At(c, "approve")
  /\ WriteStatus(call[c].quote, "APPROVED")
  /\ Goto(c, "commit")
  /\ UNCHANGED <<clothesVars, details, priced, savedBy>>

(* The order is there for others to see. *)
CommitOrder(c) == Read(c, "commit", "ok")
-----------------------------------------------------------------------------
(* A statement fails or the process dies: nothing resumes or undoes the    *)
(* statements that were committed before.                                  *)
Fail(c) ==
  /\ c \in InFlight
  /\ Read(c, pc[c], "failed")

Start(c) ==
  \/ \E combos \in SUBSET Combos : CreateClothe(c, combos)
  \/ CreateDraftClothe(c)
  \/ \E i \in DOMAIN item :
       \/ UpdateClothes(c, i)
       \/ DeleteClothes(c, i)
       \/ \E combo \in Combos : AddVariant(c, i, combo)
  \/ \E v \in DOMAIN variant : UpdateVariant(c, v) \/ DeleteVariant(c, v)
  \/ \E wanted \in SUBSET DOMAIN variant :
       \/ CreateQuote(c, wanted)
       \/ \E q \in DOMAIN quote : UpdateQuote(c, q, wanted)
  \/ \E q \in DOMAIN quote : CancelQuote(c, q) \/ DeleteQuote(c, q) \/ CreateOrder(c, q)

Continue(c) ==
  \/ SaveItem(c) \/ SaveDraft(c) \/ SaveDefault(c) \/ WriteItem(c)
  \/ CountReferences(c) \/ RemoveItem(c)
  \/ CheckVariant(c) \/ InsertVariant(c) \/ FindVariant(c) \/ WriteExtra(c)
  \/ FindDetail(c) \/ DropVariant(c)
  \/ ReadVariants(c) \/ PriceLines(c) \/ SaveQuote(c) \/ WriteCancelled(c) \/ RemoveQuote(c)
  \/ CheckDrafts(c) \/ ReadStatus(c) \/ Approve(c) \/ CommitOrder(c)

Next ==
  \/ \E c \in Calls : Start(c) \/ Continue(c) \/ Fail(c)
  \/ InFlight = {} /\ UNCHANGED vars

Spec == Init /\ [][Next]_vars
-----------------------------------------------------------------------------
(* Type invariant, with the foreign keys. *)
TypeOK ==
  /\ Table(item, Names, Item)
  /\ Table(variant, Variants, Extras)
  /\ \A v \in DOMAIN variant : v.item \in DOMAIN item
  /\ Table(quote, Names, Quote)
  /\ IsFunction(details, DOMAIN quote) /\ IsFunction(priced, DOMAIN quote)
  /\ savedBy \in [DOMAIN quote -> Names]
  /\ \A q \in DOMAIN quote :
       /\ IsLines(details[q]) /\ IsLines(priced[q])
       /\ DOMAIN details[q] \subseteq DOMAIN variant
  /\ call \in [Calls -> Request]
  /\ pc \in [Calls -> {"idle"} \cup Steps \cup Outcomes]
  /\ IsFunction(lines, Calls)
  /\ \A c \in Calls : IsLines(lines[c])
  /\ overlapped \subseteq SUBSET Calls

(* An item has two variants of one size and gender only if the calls that  *)
(* inserted them overlapped: addVariantToClothes' check is enough else.    *)
OneVariantPerCombination ==
  \A v, w \in DOMAIN variant :
    (v # w /\ v.item = w.item /\ v.combo = w.combo) => Overlap(v.by, w.by)

(* A quote loses a line that its total still counts only if a deleteVariant *)
(* overlapped the call that priced it; quotes that are over are no exception. *)
LinesLostToOverlap ==
  \A q \in DOMAIN quote :
    \A v \in DOMAIN priced[q] \ DOMAIN details[q] :
      \E d \in Calls :
        /\ call[d].op = "deleteVariant" /\ v \in call[d].variants
        /\ Overlap(d, savedBy[q])

(* The item of a pending or approved quote is deleted only by a            *)
(* deleteClothes that overlapped a call about that quote.                  *)
ActiveQuotesHaveItems ==
  \A q \in DOMAIN quote :
    (quote[q].live /\ quote[q].status \in {"PENDING", "APPROVED"}) =>
      \A v \in DOMAIN details[q] :
        \/ item[v.item].live
        \/ \E d, c \in Calls :
             /\ call[d].op = "deleteClothes" /\ call[d].item = v.item
             /\ call[c].quote = q /\ Overlap(d, c)

(* An item lacks the variants asked for at its creation only if this was a *)
(* draft whose second insert is missing, or a deleteVariant was called.    *)
ItemsHaveTheirVariants ==
  \A i \in Calls \cap DOMAIN item :
    \A combo \in call[i].combos :
      \/ [item |-> i, combo |-> combo, by |-> i] \in DOMAIN variant
      \/ call[i].op = "createDraftClothe" /\ pc[i] \in {"save_default", "failed"}
      \/ \E d \in Calls :
           /\ call[d].op = "deleteVariant"
           /\ [item |-> i, combo |-> combo, by |-> i] \in call[d].variants

(* An order is placed on a draft only if, while createOrder was under way, *)
(* the item was updated or the quote edited, or if the item is deleted.    *)
NoOrderOnDraft ==
  [][\A c \in Calls :
       (call[c].op = "createOrder" /\ pc[c] # "ok" /\ pc'[c] = "ok") =>
         \A v \in DOMAIN details[call[c].quote] :
           \/ ~item[v.item].draft
           \/ ~item[v.item].live
           \/ \E d \in Calls :
                /\ Overlap(c, d)
                /\ \/ call[d].op = "updateClothes" /\ call[d].item = v.item
                   \/ call[d].op = "updateQuote" /\ call[d].quote = call[c].quote]_vars

(* A quote is saved at the prices of now, unless an update of the item or  *)
(* of the variant overlapped the call: no price is older than the call.    *)
SavedAtCurrentPrices ==
  [][\A c \in Calls :
       (call[c].op \in {"createQuote", "updateQuote"} /\ pc[c] # "ok" /\ pc'[c] = "ok") =>
         \A v \in DOMAIN details'[call[c].quote] :
           \/ details'[call[c].quote][v] = variant[v] + item[v.item].price
           \/ \E d \in Calls :
                /\ Overlap(c, d)
                /\ \/ call[d].op = "updateClothes" /\ call[d].item = v.item
                   \/ call[d].op = "updateVariant" /\ v \in call[d].variants]_vars
=============================================================================
