--------------------------- MODULE CatalogProofs ---------------------------
(***************************************************************************)
(* Proofs about Catalog, for every set of calls, combinations and prices.  *)
(*                                                                         *)
(* Every property of Catalog excuses what only overlapping calls can do.   *)
(* The argument is the same for all of them: what a call has checked stays *)
(* true until it writes, but for the writes of calls that were under way   *)
(* beside it.  Evolves says once what a step may change, and the           *)
(* invariants below say what each check still implies at each later step.  *)
(***************************************************************************)
EXTENDS Catalog, TLAPS

Ops == ClothesOps \cup VariantOps \cup QuoteOps

(* What a call was asked fits the step it is at. *)
RequestFits(c) ==
  /\ pc[c] = "idle" => call[c] = NoRequest
  /\ pc[c] = "save_item" => call[c].op = "createClothe"
  /\ pc[c] \in {"save_draft", "save_default"} =>
       call[c].op = "createDraftClothe" /\ call[c].combos = {DefaultCombo}
  /\ pc[c] = "save_default" => c \in DOMAIN item
  /\ pc[c] = "write_item" => call[c].op = "updateClothes"
  /\ pc[c] \in {"count", "remove_item"} => call[c].op = "deleteClothes"
  /\ pc[c] \in {"check", "insert"} => call[c].op = "addVariant"
  /\ pc[c] \in {"write_item", "count", "remove_item", "check", "insert"} =>
       call[c].item \in DOMAIN item
  /\ pc[c] = "find" => call[c].op \in {"updateVariant", "deleteVariant"}
  /\ pc[c] = "write_extra" => call[c].op = "updateVariant"
  /\ pc[c] \in {"details", "delete"} => call[c].op = "deleteVariant"
  /\ pc[c] = "variants" => call[c].op = "updateQuote"
  /\ pc[c] \in {"price", "save_quote"} => call[c].op \in {"createQuote", "updateQuote"}
  /\ pc[c] \in {"cancel", "remove_quote"} => call[c].op \in {"cancelQuote", "deleteQuote"}
  /\ pc[c] \in {"drafts", "status", "approve", "commit"} => call[c].op = "createOrder"
  /\ call[c].op = "createQuote" => call[c].quote = c
  /\ call[c].op \in QuoteOps \ {"createQuote"} => call[c].quote \in DOMAIN quote

Requests == \A c \in Calls : RequestFits(c)

(* Rows named after a call are there only once the call inserted them, and *)
(* no call has read a variant that is still to be inserted.                *)
Inserted ==
  \A c \in Calls :
    /\ c \in DOMAIN item => pc[c] \in {"save_default", "ok", "failed"}
    /\ c \in DOMAIN quote => pc[c] = "ok" /\ call[c].op = "createQuote"
    /\ \A v \in DOMAIN variant : v.by = c => pc[c] = "ok"
    /\ \A d \in Calls : \A v \in DOMAIN lines[d] :
         v.item \in DOMAIN item /\ (v.by = c => pc[c] = "ok")

(* Calls under way together are recorded as such. *)
Together ==
  \A c, d \in Calls : (pc[c] \in Steps /\ pc[d] \in Steps /\ c # d) => Overlap(c, d)

(* What a step of call c may change, and what it needs to do so. *)
CallsEvolve(c) ==
  /\ pc[c] \in {"idle"} \cup Steps
  /\ pc'[c] \in Steps \cup Outcomes
  /\ \A d \in Calls : d # c => pc'[d] = pc[d] /\ call'[d] = call[d] /\ lines'[d] = lines[d]
  /\ pc[c] \in Steps => call'[c] = call[c] /\ overlapped' = overlapped
  /\ overlapped \subseteq overlapped'
  /\ pc[c] = "idle" =>
       /\ UNCHANGED <<clothesVars, quoteVars>>
       /\ \A d \in Calls : pc[d] \in Steps => {c, d} \in overlapped'

ItemsEvolve(c) ==
  /\ DOMAIN item \subseteq DOMAIN item'
  /\ \A i \in DOMAIN item' \ DOMAIN item :
       /\ i = c /\ item'[i].live
       /\ pc[c] \in {"save_item", "save_draft"}
       /\ pc[c] = "save_draft" => pc'[c] = "save_default"
       /\ pc[c] = "save_item" => pc'[c] = "ok"
  /\ \A i \in DOMAIN item :
       \/ item'[i] = item[i]
       \/ /\ pc[c] = "write_item" /\ call[c].item = i
          /\ item'[i].live = item[i].live
       \/ /\ pc[c] = "remove_item" /\ call[c].item = i
          /\ ~item'[i].live /\ item'[i].draft = item[i].draft /\ item'[i].price = item[i].price

VariantsEvolve(c) ==
  /\ \A v \in DOMAIN variant' \ DOMAIN variant :
       /\ v.by = c /\ pc'[c] = "ok" /\ v.item \in DOMAIN item'
       /\ \/ pc[c] \in {"save_item", "save_default"} /\ v.item = c
          \/ pc[c] = "insert" /\ v.item = call[c].item
       /\ v.combo \in call[c].combos
  /\ \A v \in DOMAIN variant \cap DOMAIN variant' :
       variant'[v] = variant[v] \/ (pc[c] = "write_extra" /\ v \in call[c].variants)
  /\ \A v \in DOMAIN variant \ DOMAIN variant' :
       pc[c] = "delete" /\ v \in call[c].variants /\ pc'[c] = "ok"
  /\ pc[c] = "save_item" /\ pc'[c] = "ok" => RowsOf(c) \subseteq DOMAIN variant'
  /\ pc[c] = "save_default" /\ pc'[c] = "ok" =>
       [item |-> c, combo |-> DefaultCombo, by |-> c] \in DOMAIN variant'

(* The details of quote q are those that c saves. *)
Saves(c, q) ==
  /\ pc[c] = "save_quote" /\ pc'[c] = "ok" /\ call[c].quote = q /\ q \in DOMAIN quote'
  /\ details'[q] = lines[c] /\ priced'[q] = lines[c] /\ savedBy'[q] = c
  /\ UNCHANGED clothesVars

QuotesEvolve(c) ==
  /\ DOMAIN quote \subseteq DOMAIN quote'
  /\ \A q \in DOMAIN quote' \ DOMAIN quote :
       q = c /\ Saves(c, q) /\ quote'[q] = NewQuote /\ call[c].op = "createQuote"
  /\ \A q \in DOMAIN quote :
       /\ quote'[q].live => quote[q].live
       /\ \/ quote'[q].status = quote[q].status
          \/ pc[c] = "cancel" /\ call[c].quote = q /\ quote'[q].status = "CANCELLED"
          \/ pc[c] = "approve" /\ call[c].quote = q /\ UNCHANGED <<item, details>>
       /\ \/ Saves(c, q) /\ quote'[q] = quote[q]
          \/ /\ priced'[q] = priced[q] /\ savedBy'[q] = savedBy[q]
             /\ \/ details'[q] = details[q]
                \/ /\ pc[c] = "delete"
                   /\ \A v \in DOMAIN details[q] \ DOMAIN details'[q] : v \in call[c].variants
                   /\ \A v \in DOMAIN details'[q] :
                        v \in DOMAIN details[q] /\ details'[q][v] = details[q][v]
  /\ pc[c] = "save_quote" /\ pc'[c] = "ok" => Saves(c, call[c].quote)

(* What has just been read when c arrives at a step.  *)
Arrivals(c) ==
  /\ pc[c] \in Steps /\ pc'[c] \in Steps /\ pc'[c] # "save_default" /\ pc'[c] # "commit" =>
       UNCHANGED <<clothesVars, quoteVars>>
  /\ pc'[c] = "ok" => pc[c] \in Steps \ {"drafts", "status", "approve", "price", "variants"}
  /\ pc'[c] = "save_default" => pc[c] = "save_draft"
  /\ pc'[c] = "insert" => ~Taken(c)
  /\ pc'[c] = "remove_item" => ~Referenced(call[c].item)
  /\ pc'[c] = "delete" => \A v \in call[c].variants : ~Quoted(v)
  /\ pc'[c] = "price" =>
       /\ DOMAIN lines'[c] \subseteq DOMAIN variant
       /\ \A v \in DOMAIN lines'[c] : lines'[c][v] = variant[v]
  /\ pc'[c] = "save_quote" =>
       /\ pc[c] = "price"
       /\ DOMAIN lines'[c] = DOMAIN lines[c]
       /\ \A v \in DOMAIN lines[c] :
            LiveItem(v.item) /\ lines'[c][v] = lines[c][v] + item[v.item].price
  /\ pc'[c] = "drafts" => pc[c] = "idle" /\ lines'[c] = details[call'[c].quote]
  /\ pc'[c] = "status" =>
       /\ pc[c] = "drafts"
       /\ \A v \in DOMAIN lines[c] : LiveItem(v.item) => ~item[v.item].draft
  /\ pc'[c] = "approve" =>
       /\ pc[c] = "status"
       /\ LiveQuote(call[c].quote) /\ quote[call[c].quote].status # "CANCELLED"
  /\ pc'[c] = "commit" => pc[c] = "approve"
  /\ pc'[c] \in {"insert", "remove_item", "delete", "save_quote", "status", "approve", "commit"} =>
       pc[c] \in Steps
  /\ pc[c] = "save_default" => pc'[c] \in Outcomes
  /\ pc'[c] \notin {"price", "save_quote", "drafts"} => lines'[c] = lines[c]

Evolves(c) ==
  CallsEvolve(c) /\ ItemsEvolve(c) /\ VariantsEvolve(c) /\ QuotesEvolve(c) /\ Arrivals(c)

(* The addVariant that found no such variant, and the draft whose variant  *)
(* is still to be inserted: whoever inserts one now overlaps.              *)
NoVariantBut ==
  \A c \in Calls :
    (pc[c] = "insert" \/ pc[c] = "save_default") =>
      \A v \in DOMAIN variant :
        (v.item = (IF pc[c] = "insert" THEN call[c].item ELSE c) /\ v.combo \in call[c].combos) =>
           Overlap(v.by, c)

(* The deleteVariant that found no details. *)
NoDetailBut ==
  \A d \in Calls : pc[d] = "delete" =>
    \A q \in DOMAIN quote : \A v \in DOMAIN details[q] :
      v \in call[d].variants => Overlap(d, savedBy[q])

(* A deleteClothes of item i overlapped a call about quote q. *)
Excused(q, i) ==
  \E d, c \in Calls :
    /\ call[d].op = "deleteClothes" /\ call[d].item = i
    /\ call[c].quote = q /\ Overlap(d, c)

(* What a call that prices, approves or removes may still rely on. *)
ItemsThereBut ==
  /\ \A c \in Calls : pc[c] = "save_quote" =>
       \A v \in DOMAIN lines[c] : item[v.item].live \/ Excused(call[c].quote, v.item)
  /\ \A c \in Calls : pc[c] = "approve" =>
       \A v \in DOMAIN details[call[c].quote] :
         item[v.item].live \/ Excused(call[c].quote, v.item)
  /\ \A d \in Calls : pc[d] = "remove_item" =>
       \A q \in DOMAIN quote :
         (quote[q].live /\ quote[q].status \in {"PENDING", "APPROVED"}) =>
           \A v \in DOMAIN details[q] :
             v.item = call[d].item => Excused(q, v.item)

(* An updateClothes or updateQuote that overlapped createOrder c. *)
Changed(c, i) ==
  \E d \in Calls :
    /\ Overlap(c, d)
    /\ \/ call[d].op = "updateClothes" /\ call[d].item = i
       \/ call[d].op = "updateQuote" /\ call[d].quote = call[c].quote

NoDraftBut ==
  \A c \in Calls :
    /\ pc[c] = "drafts" =>
         \A v \in DOMAIN details[call[c].quote] : v \in DOMAIN lines[c] \/ Changed(c, v.item)
    /\ pc[c] \in {"status", "approve", "commit"} =>
         \A v \in DOMAIN details[call[c].quote] :
           ~item[v.item].draft \/ ~item[v.item].live \/ Changed(c, v.item)

(* An update of a price of v overlapped the call c. *)
Repriced(c, v) ==
  \E d \in Calls :
    /\ Overlap(c, d)
    /\ \/ call[d].op = "updateClothes" /\ call[d].item = v.item
       \/ call[d].op = "updateVariant" /\ v \in call[d].variants

CurrentBut ==
  \A c \in Calls : \A v \in DOMAIN lines[c] \cap DOMAIN variant :
    /\ pc[c] = "price" => lines[c][v] = variant[v] \/ Repriced(c, v)
    /\ pc[c] = "save_quote" =>
         lines[c][v] = variant[v] + item[v.item].price \/ Repriced(c, v)

IInv ==
  /\ TypeOK /\ Requests /\ Inserted /\ Together
  /\ NoVariantBut /\ OneVariantPerCombination
  /\ NoDetailBut /\ LinesLostToOverlap
  /\ ItemsThereBut /\ ActiveQuotesHaveItems
  /\ ItemsHaveTheirVariants
  /\ NoDraftBut
  /\ CurrentBut
-----------------------------------------------------------------------------
(* Facts about a call that moves to another step. *)
LEMMA MovesPc ==
  ASSUME TypeOK, NEW c \in Calls, NEW step \in Steps \cup Outcomes, Goto(c, step)
  PROVE  /\ pc' \in [Calls -> {"idle"} \cup Steps \cup Outcomes]
         /\ pc'[c] = step
         /\ \A d \in Calls : d # c => pc'[d] = pc[d]
BY DEF TypeOK, Goto

(* A call that begins.  *)
LEMMA BeginEvolves ==
  ASSUME TypeOK, Requests, Inserted, Together, NEW c \in Calls,
         NEW request \in Request, NEW step \in Steps, Begin(c, request, step),
         UNCHANGED <<clothesVars, quoteVars>>,
         \A d \in Calls : d # c => lines'[d] = lines[d],
         IsFunction(lines', Calls), IsLines(lines'[c])
  PROVE  /\ TypeOK'
         /\ CallsEvolve(c) /\ ItemsEvolve(c) /\ VariantsEvolve(c) /\ QuotesEvolve(c)
         /\ Together'
         /\ pc'[c] = step /\ call'[c] = request
<1>1. /\ pc' \in [Calls -> {"idle"} \cup Steps \cup Outcomes]
      /\ pc[c] = "idle" /\ pc'[c] = step
      /\ \A d \in Calls : d # c => pc'[d] = pc[d]
  BY MovesPc DEF Begin
<1>2. /\ call' \in [Calls -> Request] /\ call'[c] = request
      /\ \A d \in Calls : d # c => call'[d] = call[d]
  BY DEF Begin, TypeOK
<1>3. overlapped' = overlapped \cup {{c, d} : d \in InFlight}
  BY DEF Begin
<1>4. TypeOK'
  <2>1. overlapped' \subseteq SUBSET Calls
    BY <1>3 DEF TypeOK, InFlight
  <2>2. \A d \in Calls : IsLines(lines'[d])
    BY DEF TypeOK
  <2> QED
    BY <1>1, <1>2, <2>1, <2>2 DEF TypeOK, clothesVars, quoteVars, IsFunction
<1>5. \A d \in Calls : pc[d] \in Steps => {c, d} \in overlapped'
  BY <1>3 DEF InFlight
<1>6. "idle" \notin Steps
  BY DEF Steps
<1>7. CallsEvolve(c)
  BY <1>1, <1>2, <1>3, <1>5, <1>6 DEF CallsEvolve
<1>8. ItemsEvolve(c) /\ VariantsEvolve(c) /\ QuotesEvolve(c)
  BY <1>1 DEF ItemsEvolve, VariantsEvolve, QuotesEvolve, clothesVars, quoteVars
<1>9. Together'
  <2> SUFFICES ASSUME NEW d \in Calls, NEW e \in Calls,
                      pc'[d] \in Steps, pc'[e] \in Steps, d # e
               PROVE  {d, e} \in overlapped'
    BY DEF Together, Overlap
  <2>1. {d, e} = {e, d}
    OBVIOUS
  <2> QED
    BY <1>1, <1>3, <1>5, <2>1 DEF Together, Overlap
<1> QED
  BY <1>1, <1>2, <1>4, <1>7, <1>8, <1>9

(* A step that changes no row. *)
LEMMA MoveEvolves ==
  ASSUME TypeOK, Requests, Together, NEW c \in Calls, NEW step \in Steps \cup Outcomes,
         pc[c] \in Steps, Goto(c, step),
         UNCHANGED <<clothesVars, quoteVars, call, overlapped>>,
         \A d \in Calls : d # c => lines'[d] = lines[d],
         IsFunction(lines', Calls), IsLines(lines'[c]),
         pc[c] = "save_item" => step # "ok",
         pc[c] = "save_default" => step # "ok",
         pc[c] = "save_quote" => step # "ok"
  PROVE  /\ TypeOK'
         /\ CallsEvolve(c) /\ ItemsEvolve(c) /\ VariantsEvolve(c) /\ QuotesEvolve(c)
         /\ Together'
         /\ pc'[c] = step
<1>1. /\ pc' \in [Calls -> {"idle"} \cup Steps \cup Outcomes]
      /\ pc'[c] = step
      /\ \A d \in Calls : d # c => pc'[d] = pc[d]
  BY MovesPc
<1>2. "idle" \notin Steps
  BY DEF Steps
<1>3. TypeOK'
  <2>2. \A d \in Calls : IsLines(lines'[d])
    BY DEF TypeOK
  <2> QED
    BY <1>1, <2>2 DEF TypeOK, clothesVars, quoteVars, IsFunction
<1>4. CallsEvolve(c)
  BY <1>1, <1>2 DEF CallsEvolve, TypeOK
<1>5. ItemsEvolve(c) /\ VariantsEvolve(c) /\ QuotesEvolve(c)
  BY <1>1 DEF ItemsEvolve, VariantsEvolve, QuotesEvolve, clothesVars, quoteVars
<1>6. Together'
  BY <1>1 DEF Together, Overlap
<1> QED
  BY <1>1, <1>3, <1>4, <1>5, <1>6

(* Only the clause of the call that steps is new. *)
LEMMA RequestsFrame ==
  ASSUME Requests, NEW c \in Calls, CallsEvolve(c), ItemsEvolve(c), QuotesEvolve(c),
         RequestFits(c)'
  PROVE  Requests'
<1> SUFFICES ASSUME NEW d \in Calls, d # c PROVE RequestFits(d)'
  BY DEF Requests
<1>1. /\ pc'[d] = pc[d] /\ call'[d] = call[d]
      /\ DOMAIN item \subseteq DOMAIN item' /\ DOMAIN quote \subseteq DOMAIN quote'
  BY DEF CallsEvolve, ItemsEvolve, QuotesEvolve
<1> QED
  BY <1>1 DEF Requests, RequestFits

(* What every step gives. *)
Good(c) == TypeOK' /\ Requests' /\ Together' /\ Evolves(c)

(* A call that begins and reads nothing that it keeps. *)
LEMMA ArriveGood ==
  ASSUME TypeOK, Requests, Inserted, Together, NEW c \in Calls,
         NEW request \in Request,
         NEW step \in {"save_item", "save_draft", "write_item", "count", "check", "find",
                       "variants", "cancel", "remove_quote"},
         Arrive(c, request, step),
         step = "save_item" => request.op = "createClothe",
         step = "save_draft" => request.op = "createDraftClothe" /\ request.combos = {DefaultCombo},
         step = "write_item" => request.op = "updateClothes",
         step = "count" => request.op = "deleteClothes",
         step = "check" => request.op = "addVariant",
         step \in {"write_item", "count", "check"} => request.item \in DOMAIN item,
         step = "find" => request.op \in {"updateVariant", "deleteVariant"},
         step = "variants" => request.op = "updateQuote",
         step \in {"cancel", "remove_quote"} => request.op \in {"cancelQuote", "deleteQuote"},
         step \in {"variants", "cancel", "remove_quote"} => request.quote \in DOMAIN quote
  PROVE  Good(c)
<1>1. /\ Begin(c, request, step)
      /\ UNCHANGED <<clothesVars, quoteVars>> /\ lines' = lines /\ step \in Steps
  BY DEF Arrive, Steps
<1>2. IsFunction(lines', Calls) /\ IsLines(lines'[c])
  BY <1>1 DEF TypeOK, IsFunction
<1>3. /\ TypeOK' /\ Together' /\ pc'[c] = step /\ call'[c] = request
      /\ CallsEvolve(c) /\ ItemsEvolve(c) /\ VariantsEvolve(c) /\ QuotesEvolve(c)
  BY <1>1, <1>2, BeginEvolves
<1>4. pc[c] = "idle" /\ "idle" \notin Steps
  BY <1>1 DEF Begin, Steps
<1>5. RequestFits(c)'
  BY <1>1, <1>3 DEF RequestFits, QuoteOps, clothesVars, quoteVars
<1>6. Requests'
  BY <1>3, <1>5, RequestsFrame
<1>7. Arrivals(c)
  BY <1>1, <1>3, <1>4 DEF Arrivals
<1> QED
  BY <1>3, <1>6, <1>7 DEF Good, Evolves

(* The requests that begin so. *)
LEMMA StartGood ==
  ASSUME TypeOK, Requests, Inserted, Together, NEW c \in Calls,
         \/ \E combos \in SUBSET Combos : CreateClothe(c, combos)
         \/ CreateDraftClothe(c)
         \/ \E i \in DOMAIN item :
              \/ UpdateClothes(c, i)
              \/ DeleteClothes(c, i)
              \/ \E combo \in Combos : AddVariant(c, i, combo)
         \/ \E v \in DOMAIN variant : UpdateVariant(c, v) \/ DeleteVariant(c, v)
         \/ \E wanted \in SUBSET DOMAIN variant : \E q \in DOMAIN quote : UpdateQuote(c, q, wanted)
         \/ \E q \in DOMAIN quote : CancelQuote(c, q) \/ DeleteQuote(c, q)
  PROVE  Good(c)
<1> USE CatalogAssumption DEF NoRequest, LiveItem, LiveQuote
<1>t. /\ DOMAIN item \subseteq Names /\ DOMAIN variant \subseteq Variants
      /\ DOMAIN quote \subseteq Names
  BY DEF TypeOK, Table
<1>1. ASSUME NEW combos \in SUBSET Combos, CreateClothe(c, combos) PROVE Good(c)
  <2> DEFINE r == [NoRequest EXCEPT !.op = "createClothe", !.combos = combos]
  <2>1. r \in Request
    BY DEF Request, ClothesOps
  <2> QED
    BY <1>1, <2>1, ArriveGood DEF CreateClothe
<1>2. ASSUME CreateDraftClothe(c) PROVE Good(c)
  <2> DEFINE r == [NoRequest EXCEPT !.op = "createDraftClothe", !.combos = {DefaultCombo}]
  <2>1. r \in Request
    BY DEF Request, ClothesOps
  <2> QED
    BY <1>2, <2>1, ArriveGood DEF CreateDraftClothe
<1>3. ASSUME NEW i \in DOMAIN item, UpdateClothes(c, i) PROVE Good(c)
  <2> DEFINE r == [NoRequest EXCEPT !.op = "updateClothes", !.item = i]
  <2>1. r \in Request
    BY <1>t DEF Request, ClothesOps
  <2> QED
    BY <1>3, <2>1, ArriveGood DEF UpdateClothes
<1>4. ASSUME NEW i \in DOMAIN item, DeleteClothes(c, i) PROVE Good(c)
  <2> DEFINE r == [NoRequest EXCEPT !.op = "deleteClothes", !.item = i]
  <2>1. r \in Request
    BY <1>t DEF Request, ClothesOps
  <2> QED
    BY <1>4, <2>1, ArriveGood DEF DeleteClothes
<1>5. ASSUME NEW i \in DOMAIN item, NEW combo \in Combos, AddVariant(c, i, combo) PROVE Good(c)
  <2> DEFINE r == [NoRequest EXCEPT !.op = "addVariant", !.item = i, !.combos = {combo}]
  <2>1. r \in Request
    BY <1>t DEF Request, VariantOps
  <2> QED
    BY <1>5, <2>1, ArriveGood DEF AddVariant
<1>6. ASSUME NEW v \in DOMAIN variant, UpdateVariant(c, v) PROVE Good(c)
  <2> DEFINE r == [NoRequest EXCEPT !.op = "updateVariant", !.variants = {v}]
  <2>1. r \in Request
    BY <1>t DEF Request, VariantOps
  <2> QED
    BY <1>6, <2>1, ArriveGood DEF UpdateVariant
<1>7. ASSUME NEW v \in DOMAIN variant, DeleteVariant(c, v) PROVE Good(c)
  <2> DEFINE r == [NoRequest EXCEPT !.op = "deleteVariant", !.variants = {v}]
  <2>1. r \in Request
    BY <1>t DEF Request, VariantOps
  <2> QED
    BY <1>7, <2>1, ArriveGood DEF DeleteVariant
<1>8. ASSUME NEW wanted \in SUBSET DOMAIN variant, NEW q \in DOMAIN quote,
             UpdateQuote(c, q, wanted)
      PROVE  Good(c)
  <2> DEFINE r == [NoRequest EXCEPT !.op = "updateQuote", !.quote = q, !.variants = wanted]
  <2>1. r \in Request
    BY <1>t DEF Request, QuoteOps
  <2> QED
    BY <1>8, <2>1, ArriveGood DEF UpdateQuote
<1>9. ASSUME NEW q \in DOMAIN quote, CancelQuote(c, q) PROVE Good(c)
  <2> DEFINE r == [NoRequest EXCEPT !.op = "cancelQuote", !.quote = q]
  <2>1. r \in Request
    BY <1>t DEF Request, QuoteOps
  <2> QED
    BY <1>9, <2>1, ArriveGood DEF CancelQuote
<1>10. ASSUME NEW q \in DOMAIN quote, DeleteQuote(c, q) PROVE Good(c)
  <2> DEFINE r == [NoRequest EXCEPT !.op = "deleteQuote", !.quote = q]
  <2>1. r \in Request
    BY <1>t DEF Request, QuoteOps
  <2> QED
    BY <1>10, <2>1, ArriveGood DEF DeleteQuote
<1> QED
  BY <1>1, <1>2, <1>3, <1>4, <1>5, <1>6, <1>7, <1>8, <1>9, <1>10

(* The two requests that begin with what they read. *)
LEMMA CreateQuoteGood ==
  ASSUME TypeOK, Requests, Inserted, Together, NEW c \in Calls,
         NEW wanted \in SUBSET DOMAIN variant, CreateQuote(c, wanted)
  PROVE  Good(c)
<1> USE CatalogAssumption
<1> DEFINE r == [NoRequest EXCEPT !.op = "createQuote", !.quote = c, !.variants = wanted]
<1>1. DOMAIN variant \subseteq Variants /\ variant \in [DOMAIN variant -> Extras]
  BY DEF TypeOK, Table
<1>2. r \in Request /\ r.op = "createQuote" /\ r.quote = c
  BY <1>1 DEF Request, NoRequest, QuoteOps, Names
<1>3. Begin(c, r, "price") /\ UNCHANGED <<clothesVars, quoteVars>> /\ "price" \in Steps
  BY DEF CreateQuote, Steps
<1>4. /\ IsFunction(lines', Calls) /\ lines'[c] = ExtrasOf(wanted)
      /\ \A d \in Calls : d # c => lines'[d] = lines[d]
  BY DEF CreateQuote, TypeOK, IsFunction
<1>5. IsLines(lines'[c])
  BY <1>1, <1>4 DEF ExtrasOf, IsLines, Table
<1>6. /\ TypeOK' /\ Together' /\ pc'[c] = "price" /\ call'[c] = r
      /\ CallsEvolve(c) /\ ItemsEvolve(c) /\ VariantsEvolve(c) /\ QuotesEvolve(c)
  <2> HIDE DEF r
  <2> QED
    BY <1>2, <1>3, <1>4, <1>5, BeginEvolves
<1>7. RequestFits(c)'
  <2> HIDE DEF r
  <2> QED
    BY <1>2, <1>6 DEF RequestFits
<1>8. Requests'
  BY <1>6, <1>7, RequestsFrame
<1>9. Arrivals(c)
  <2>1. pc[c] = "idle" /\ "idle" \notin Steps
    BY <1>3 DEF Begin, Steps
  <2>2. DOMAIN lines'[c] = wanted /\ \A v \in wanted : lines'[c][v] = variant[v]
    BY <1>4 DEF ExtrasOf
  <2> QED
    BY <1>6, <2>1, <2>2 DEF Arrivals
<1> QED
  BY <1>6, <1>8, <1>9 DEF Good, Evolves

(* createOrder takes the lines of the quote it names. *)
LEMMA CreateOrderGood ==
  ASSUME TypeOK, Requests, Inserted, Together, NEW c \in Calls,
         NEW q \in DOMAIN quote, CreateOrder(c, q)
  PROVE  Good(c)
<1> USE CatalogAssumption
<1> DEFINE r == [NoRequest EXCEPT !.op = "createOrder", !.quote = q]
<1>1. DOMAIN quote \subseteq Names
  BY DEF TypeOK, Table
<1>2. r \in Request /\ r.op = "createOrder" /\ r.quote = q
  BY <1>1 DEF Request, NoRequest, QuoteOps
<1>3. Begin(c, r, "drafts") /\ UNCHANGED <<clothesVars, quoteVars>> /\ "drafts" \in Steps
  BY DEF CreateOrder, Steps
<1>4. /\ IsFunction(lines', Calls) /\ lines'[c] = details[q]
      /\ \A d \in Calls : d # c => lines'[d] = lines[d]
  BY DEF CreateOrder, TypeOK, IsFunction
<1>5. IsLines(lines'[c])
  BY <1>4 DEF TypeOK
<1> HIDE DEF r
<1>6. /\ TypeOK' /\ Together' /\ pc'[c] = "drafts" /\ call'[c] = r
      /\ CallsEvolve(c) /\ ItemsEvolve(c) /\ VariantsEvolve(c) /\ QuotesEvolve(c)
  BY <1>2, <1>3, <1>4, <1>5, BeginEvolves
<1>7. RequestFits(c)'
  BY <1>2, <1>3, <1>6 DEF RequestFits, quoteVars
<1>8. Requests'
  BY <1>6, <1>7, RequestsFrame
<1>9. Arrivals(c)
  <2>1. pc[c] = "idle" /\ "idle" \notin Steps
    BY <1>3 DEF Begin, Steps
  <2> QED
    BY <1>2, <1>4, <1>6, <2>1 DEF Arrivals
<1> QED
  BY <1>6, <1>8, <1>9 DEF Good, Evolves

(* The checks of a call under way, its failure and its end. *)
LEMMA ReadGood ==
  ASSUME TypeOK, Requests, Inserted, Together, NEW c \in Calls,
         \/ CountReferences(c) \/ CheckVariant(c) \/ FindVariant(c) \/ FindDetail(c)
         \/ CheckDrafts(c) \/ ReadStatus(c) \/ CommitOrder(c) \/ Fail(c)
  PROVE  Good(c)
<1>1. PICK step \in Steps \cup Outcomes :
         /\ pc[c] \in Steps /\ Read(c, pc[c], step)
         /\ \/ step = "failed"
            \/ step = "ok" /\ pc[c] = "commit"
            \/ step = "remove_item" /\ pc[c] = "count" /\ ~Referenced(call[c].item)
            \/ step = "insert" /\ pc[c] = "check" /\ ~Taken(c)
            \/ step = "write_extra" /\ pc[c] = "find" /\ call[c].op = "updateVariant"
            \/ step = "details" /\ pc[c] = "find" /\ call[c].op # "updateVariant"
            \/ step = "delete" /\ pc[c] = "details" /\ ~\E v \in call[c].variants : Quoted(v)
            \/ step = "status" /\ pc[c] = "drafts" /\ ~HasDrafts({v.item : v \in DOMAIN lines[c]})
            \/ /\ step = "approve" /\ pc[c] = "status" /\ LiveQuote(call[c].quote)
               /\ quote[call[c].quote].status # "CANCELLED"
  BY DEF CountReferences, CheckVariant, FindVariant, FindDetail, CheckDrafts, ReadStatus,
         CommitOrder, Fail, Read, InFlight, Steps, Outcomes
<1>2. Goto(c, step) /\ UNCHANGED <<clothesVars, quoteVars, call, overlapped>> /\ lines' = lines
  BY <1>1 DEF Read, callVars
<1>3. IsFunction(lines', Calls) /\ IsLines(lines'[c])
  BY <1>2 DEF TypeOK, IsFunction
<1>4. /\ TypeOK' /\ Together' /\ pc'[c] = step
      /\ CallsEvolve(c) /\ ItemsEvolve(c) /\ VariantsEvolve(c) /\ QuotesEvolve(c)
  BY <1>1, <1>2, <1>3, MoveEvolves
<1>5. RequestFits(c)'
  BY <1>1, <1>2, <1>4 DEF Requests, RequestFits, clothesVars, quoteVars
<1>6. Requests'
  BY <1>4, <1>5, RequestsFrame
<1>7. Arrivals(c)
  <2>1. step = "status" =>
          \A v \in DOMAIN lines[c] : LiveItem(v.item) => ~item[v.item].draft
    BY <1>1 DEF HasDrafts
  <2> QED
    BY <1>1, <1>2, <1>4, <2>1 DEF Arrivals, Outcomes
<1> QED
  BY <1>4, <1>6, <1>7 DEF Good, Evolves

(* What one of the two reads of getDetailUnitPrice does to the lines of c. *)
Fetches(c, step, fresh) ==
  /\ step \in {"price", "save_quote", "failed"}
  /\ Goto(c, step) /\ IsLines(fresh)
  /\ lines' = [lines EXCEPT ![c] = fresh]
  /\ \/ step = "failed" /\ pc[c] \in {"variants", "price"} /\ lines' = lines
     \/ /\ step = "price" /\ pc[c] = "variants" /\ DOMAIN fresh \subseteq DOMAIN variant
        /\ \A v \in DOMAIN fresh : fresh[v] = variant[v]
     \/ /\ step = "save_quote" /\ pc[c] = "price" /\ DOMAIN fresh = DOMAIN lines[c]
        /\ \A v \in DOMAIN fresh :
             LiveItem(v.item) /\ fresh[v] = lines[c][v] + item[v.item].price

(* Pricing: the variants, then their items. *)
LEMMA PricingGood ==
  ASSUME TypeOK, Requests, Inserted, Together, NEW c \in Calls,
         ReadVariants(c) \/ PriceLines(c)
  PROVE  Good(c)
<1> USE CatalogAssumption
<1>t. /\ variant \in [DOMAIN variant -> Extras] /\ DOMAIN variant \subseteq Variants
      /\ item \in [DOMAIN item -> Item]
      /\ IsFunction(lines, Calls)
      /\ IsLines(lines[c])
      /\ pc[c] \in Steps
  BY DEF TypeOK, Table, ReadVariants, PriceLines, Steps
<1>p. PICK step, fresh : Fetches(c, step, fresh)
  <2>1. CASE ReadVariants(c) /\ Found(call[c].variants)
    <3> DEFINE fresh == ExtrasOf(call[c].variants)
    <3>1. /\ DOMAIN fresh = call[c].variants /\ call[c].variants \subseteq DOMAIN variant
          /\ \A v \in DOMAIN fresh : fresh[v] = variant[v]
      BY <2>1 DEF ExtrasOf, Found
    <3>2. IsLines(fresh)
      BY <1>t, <3>1 DEF IsLines, Table, ExtrasOf
    <3>3. Fetches(c, "price", fresh)
      BY <2>1, <3>1, <3>2 DEF ReadVariants, Fetches
    <3> QED
      BY <3>3
  <2>2. CASE PriceLines(c) /\ \A v \in DOMAIN lines[c] : LiveItem(v.item)
    <3> DEFINE fresh == [v \in DOMAIN lines[c] |-> UnitPrice(c, v)]
    <3>1. /\ DOMAIN fresh = DOMAIN lines[c]
          /\ \A v \in DOMAIN fresh : fresh[v] = lines[c][v] + item[v.item].price
      BY DEF UnitPrice
    <3>2. \A v \in DOMAIN lines[c] : lines[c][v] \in Nat /\ v \in Variants
      BY <1>t DEF IsLines, Table
    <3>3. \A v \in DOMAIN lines[c] : item[v.item].price \in Nat
      BY <1>t, <2>2 DEF LiveItem, Item
    <3>4. \A v \in DOMAIN lines[c] : UnitPrice(c, v) \in Nat
      BY <3>2, <3>3 DEF UnitPrice
    <3>5. IsLines(fresh)
      BY <3>2, <3>4 DEF IsLines, Table
    <3>6. Goto(c, "save_quote") /\ lines' = [lines EXCEPT ![c] = fresh] /\ pc[c] = "price"
      BY <2>2 DEF PriceLines
    <3> HIDE DEF fresh
    <3>7. Fetches(c, "save_quote", fresh)
      BY <2>2, <3>1, <3>5, <3>6 DEF Fetches
    <3> QED
      BY <3>7
  <2>3. CASE /\ pc[c] \in {"variants", "price"} /\ Goto(c, "failed") /\ lines' = lines
    <3>1. lines' = [lines EXCEPT ![c] = lines[c]]
      BY <2>3, <1>t DEF IsFunction
    <3>2. Fetches(c, "failed", lines[c])
      BY <2>3, <3>1, <1>t DEF Fetches
    <3> QED
      BY <3>2
  <2> QED
    BY <2>1, <2>2, <2>3 DEF ReadVariants, PriceLines
<1>1. /\ step \in {"price", "save_quote", "failed"}
      /\ Goto(c, step) /\ IsLines(fresh)
      /\ lines' = [lines EXCEPT ![c] = fresh]
      /\ \/ step = "failed" /\ pc[c] \in {"variants", "price"} /\ lines' = lines
         \/ /\ step = "price" /\ pc[c] = "variants" /\ DOMAIN fresh \subseteq DOMAIN variant
            /\ \A v \in DOMAIN fresh : fresh[v] = variant[v]
         \/ /\ step = "save_quote" /\ pc[c] = "price" /\ DOMAIN fresh = DOMAIN lines[c]
            /\ \A v \in DOMAIN fresh :
                 LiveItem(v.item) /\ fresh[v] = lines[c][v] + item[v.item].price
  BY <1>p DEF Fetches
<1>2. UNCHANGED <<clothesVars, quoteVars, call, overlapped>> /\ step \in Steps \cup Outcomes
  BY <1>1 DEF ReadVariants, PriceLines, Steps, Outcomes
<1>3. /\ IsFunction(lines', Calls) /\ lines'[c] = fresh
      /\ \A d \in Calls : d # c => lines'[d] = lines[d]
  BY <1>1, <1>t DEF IsFunction
<1>4. /\ TypeOK' /\ Together' /\ pc'[c] = step
      /\ CallsEvolve(c) /\ ItemsEvolve(c) /\ VariantsEvolve(c) /\ QuotesEvolve(c)
  BY <1>t, <1>1, <1>2, <1>3, MoveEvolves
<1>5. RequestFits(c)'
  BY <1>1, <1>2, <1>4 DEF Requests, RequestFits, clothesVars, quoteVars
<1>6. Requests'
  BY <1>4, <1>5, RequestsFrame
<1>7. Arrivals(c)
  BY <1>t, <1>1, <1>2, <1>3, <1>4 DEF Arrivals
<1> QED
  BY <1>4, <1>6, <1>7 DEF Good, Evolves

(* A write ends the call, or takes it to a step that keeps its rows. *)
LEMMA WriteMoves ==
  ASSUME TypeOK, Together, NEW c \in Calls, NEW from \in Steps, NEW step \in Steps \cup Outcomes,
         At(c, from), Goto(c, step)
  PROVE  /\ CallsEvolve(c) /\ Together'
         /\ pc[c] = from /\ pc'[c] = step /\ call' = call /\ lines' = lines
         /\ pc' \in [Calls -> {"idle"} \cup Steps \cup Outcomes]
<1>1. /\ pc' \in [Calls -> {"idle"} \cup Steps \cup Outcomes]
      /\ pc[c] = from /\ pc'[c] = step
      /\ \A d \in Calls : d # c => pc'[d] = pc[d]
      /\ UNCHANGED <<call, lines, overlapped>>
  BY MovesPc DEF At, callVars
<1>2. "idle" \notin Steps
  BY DEF Steps
<1> QED
  BY <1>1, <1>2 DEF CallsEvolve, Together, Overlap, TypeOK

(* Writes to items alone. *)
LEMMA ItemWriteGood ==
  ASSUME TypeOK, Requests, Inserted, Together, NEW c \in Calls,
         SaveDraft(c) \/ WriteItem(c) \/ RemoveItem(c)
  PROVE  Good(c)
<1> USE CatalogAssumption
<1>t. Table(item, Names, Item) /\ c \in Names
  BY DEF TypeOK, Names
<1>u. UNCHANGED <<variant, quoteVars>>
  BY DEF SaveDraft, WriteItem, RemoveItem
<1>1. CASE SaveDraft(c)
  <2>1. At(c, "save_draft") /\ Goto(c, "save_default")
        /\ "save_draft" \in Steps /\ "save_default" \in Steps
    BY <1>1 DEF SaveDraft, Steps
  <2>2. /\ CallsEvolve(c) /\ Together' /\ pc[c] = "save_draft" /\ pc'[c] = "save_default"
        /\ call' = call /\ lines' = lines
        /\ pc' \in [Calls -> {"idle"} \cup Steps \cup Outcomes]
    BY <2>1, WriteMoves
  <2>3. NewItem(TRUE) \in Item /\ NewItem(TRUE).live
    BY DEF NewItem, Item
  <2>4. /\ Table(item', Names, Item) /\ DOMAIN item' = DOMAIN item \cup {c}
        /\ item'[c] = NewItem(TRUE) /\ \A i \in DOMAIN item : i # c => item'[i] = item[i]
    <3>1. item' = Put(item, c, NewItem(TRUE))
      BY <1>1 DEF SaveDraft
    <3>2. /\ Table(Put(item, c, NewItem(TRUE)), Names, Item)
          /\ DOMAIN Put(item, c, NewItem(TRUE)) = DOMAIN item \cup {c}
          /\ Put(item, c, NewItem(TRUE))[c] = NewItem(TRUE)
          /\ \A i \in DOMAIN item : i # c => Put(item, c, NewItem(TRUE))[i] = item[i]
      BY <1>t, <2>3 DEF Put, Table
    <3> QED
      BY <3>1, <3>2
  <2>5. c \notin DOMAIN item
    BY <2>2 DEF Inserted
  <2>6. TypeOK'
    <3>1. overlapped' = overlapped
      BY <2>1 DEF At, callVars
    <3> QED
      BY <1>u, <2>2, <2>4, <3>1 DEF TypeOK, quoteVars, IsFunction
  <2>7. ItemsEvolve(c)
    BY <2>2, <2>3, <2>4, <2>5 DEF ItemsEvolve
  <2>8. VariantsEvolve(c) /\ QuotesEvolve(c)
    BY <1>u, <2>2 DEF VariantsEvolve, QuotesEvolve, quoteVars
  <2>a. Arrivals(c)
    BY <2>2 DEF Arrivals
  <2>9. RequestFits(c)'
    BY <1>u, <2>2, <2>4 DEF Requests, RequestFits, quoteVars
  <2> QED
    BY <2>2, <2>6, <2>7, <2>8, <2>a, <2>9, RequestsFrame DEF Good, Evolves
<1>2. CASE WriteItem(c) \/ RemoveItem(c)
  <2>1. PICK from \in {"write_item", "remove_item"} : At(c, from) /\ Goto(c, "ok")
    BY <1>2 DEF WriteItem, RemoveItem
  <2>2. /\ CallsEvolve(c) /\ Together' /\ pc[c] = from /\ pc'[c] = "ok"
        /\ call' = call /\ lines' = lines
        /\ pc' \in [Calls -> {"idle"} \cup Steps \cup Outcomes]
    BY <2>1, WriteMoves DEF Steps, Outcomes
  <2>3. call[c].item \in DOMAIN item
    BY <2>2 DEF Requests, RequestFits
  <2>4. item \in [DOMAIN item -> Item]
    BY <1>t DEF Table
  <2>5. /\ DOMAIN item' = DOMAIN item /\ item' \in [DOMAIN item -> Item]
        /\ \A i \in DOMAIN item :
             \/ item'[i] = item[i]
             \/ from = "write_item" /\ call[c].item = i /\ item'[i].live = item[i].live
             \/ /\ from = "remove_item" /\ call[c].item = i
                /\ ~item'[i].live /\ item'[i].draft = item[i].draft
                /\ item'[i].price = item[i].price
    <3>1. CASE WriteItem(c)
      <4>1. from = "write_item"
        BY <3>1, <2>2 DEF WriteItem, At
      <4>2. PICK p \in Prices, draft \in BOOLEAN :
              item' = [item EXCEPT ![call[c].item].price = p, ![call[c].item].draft = draft]
        BY <3>1 DEF WriteItem
      <4> QED
        BY <2>3, <2>4, <4>1, <4>2 DEF Item
    <3>2. CASE RemoveItem(c)
      <4>1. from = "remove_item" /\ item' = [item EXCEPT ![call[c].item].live = FALSE]
        BY <3>2, <2>2 DEF RemoveItem, At
      <4> QED
        BY <2>3, <2>4, <4>1 DEF Item
    <3> QED
      BY <1>2, <3>1, <3>2
  <2>6. TypeOK'
    <3>1. Table(item', Names, Item)
      BY <1>t, <2>5 DEF Table
    <3>2. overlapped' = overlapped
      BY <2>1 DEF At, callVars
    <3> QED
      BY <1>u, <2>2, <2>5, <3>1, <3>2 DEF TypeOK, quoteVars, IsFunction
  <2>7. ItemsEvolve(c)
    BY <2>2, <2>5 DEF ItemsEvolve
  <2>8. VariantsEvolve(c) /\ QuotesEvolve(c)
    BY <1>u, <2>2 DEF VariantsEvolve, QuotesEvolve, quoteVars
  <2>a. Arrivals(c)
    BY <1>u, <2>2 DEF Arrivals, Steps
  <2>9. RequestFits(c)'
    BY <1>u, <2>2, <2>5 DEF Requests, RequestFits, quoteVars
  <2> QED
    BY <2>2, <2>6, <2>7, <2>8, <2>a, <2>9, RequestsFrame DEF Good, Evolves
<1> QED
  BY <1>1, <1>2

(* Insertions of variants, by three operations. *)
LEMMA VariantInsertGood ==
  ASSUME TypeOK, Requests, Inserted, Together, NEW c \in Calls,
         SaveItem(c) \/ SaveDefault(c) \/ InsertVariant(c)
  PROVE  Good(c)
<1> USE CatalogAssumption
<1>t. /\ Table(item, Names, Item) /\ Table(variant, Variants, Extras)
      /\ c \in Names /\ call[c] \in Request
  BY DEF TypeOK, Names
<1>s. {"save_item", "save_default", "insert"} \subseteq Steps /\ "ok" \in Outcomes
  BY DEF Steps, Outcomes
<1>1. PICK from \in {"save_item", "save_default", "insert"} : At(c, from) /\ Goto(c, "ok")
  BY DEF SaveItem, SaveDefault, InsertVariant
<1>2. /\ CallsEvolve(c) /\ Together' /\ pc[c] = from /\ pc'[c] = "ok"
      /\ call' = call /\ lines' = lines
      /\ pc' \in [Calls -> {"idle"} \cup Steps \cup Outcomes]
  BY <1>1, <1>s, WriteMoves
<1>3. UNCHANGED <<quoteVars, overlapped>>
  BY <1>1 DEF SaveItem, SaveDefault, InsertVariant, At, callVars
<1>4. /\ Table(item', Names, Item)
      /\ DOMAIN item \subseteq DOMAIN item'
      /\ \A i \in DOMAIN item : item'[i] = item[i]
      /\ \A i \in DOMAIN item' \ DOMAIN item : i = c /\ item'[i].live /\ from = "save_item"
      /\ from \in {"save_item", "save_default"} => c \in DOMAIN item'
  <2>1. CASE SaveItem(c)
    <3>1. NewItem(FALSE) \in Item /\ NewItem(FALSE).live
      BY DEF NewItem, Item
    <3>2. item' = Put(item, c, NewItem(FALSE)) /\ from = "save_item"
      BY <2>1, <1>2 DEF SaveItem, At
    <3>3. c \notin DOMAIN item
      BY <1>2, <3>2 DEF Inserted
    <3> QED
      BY <1>t, <3>1, <3>2, <3>3 DEF Put, Table
  <2>2. CASE item' = item /\ from # "save_item"
    BY <1>t, <1>2, <2>2 DEF Requests, RequestFits
  <2>3. SaveDefault(c) \/ InsertVariant(c) => item' = item /\ from # "save_item"
    BY <1>2 DEF SaveDefault, InsertVariant, At
  <2> QED
    BY <2>1, <2>2, <2>3
<1>5. PICK fresh \in SUBSET Variants :
        /\ variant' = [v \in DOMAIN variant \cup fresh |-> IF v \in fresh THEN NewExtra ELSE variant[v]]
        /\ \A v \in fresh : v.by = c /\ v.combo \in call[c].combos
        /\ from \in {"save_item", "save_default"} => \A v \in fresh : v.item = c
        /\ from = "insert" => \A v \in fresh : v.item = call[c].item
        /\ from = "save_item" => RowsOf(c) \subseteq fresh
        /\ from = "save_default" => [item |-> c, combo |-> DefaultCombo, by |-> c] \in fresh
  <2>1. CASE SaveItem(c)
    <3>1. RowsOf(c) \in SUBSET Variants
      BY <1>t DEF RowsOf, Variants, Request
    <3>2. \A v \in RowsOf(c) : v.by = c /\ v.combo \in call[c].combos /\ v.item = c
      BY DEF RowsOf
    <3>3. variant' = [v \in DOMAIN variant \cup RowsOf(c) |->
                        IF v \in RowsOf(c) THEN NewExtra ELSE variant[v]]
      BY <2>1 DEF SaveItem
    <3>4. from = "save_item"
      BY <2>1, <1>2 DEF SaveItem, At
    <3> QED
      BY <3>1, <3>2, <3>3, <3>4
  <2>2. CASE SaveDefault(c)
    <3> DEFINE w == [item |-> c, combo |-> DefaultCombo, by |-> c]
    <3>1. w \in Variants /\ w.by = c /\ w.item = c /\ w.combo = DefaultCombo
      BY <1>t DEF Variants
    <3>2. from = "save_default" /\ DefaultCombo \in call[c].combos
      BY <2>2, <1>2 DEF SaveDefault, At, Requests, RequestFits
    <3>3. variant' = Put(variant, w, NewExtra)
      BY <2>2 DEF SaveDefault
    <3> HIDE DEF w
    <3>4. variant' = [v \in DOMAIN variant \cup {w} |-> IF v \in {w} THEN NewExtra ELSE variant[v]]
      BY <3>3 DEF Put
    <3> QED
      BY <3>1, <3>2, <3>4 DEF w
  <2>3. CASE InsertVariant(c)
    <3>1. PICK combo \in call[c].combos :
            variant' = Put(variant, [item |-> call[c].item, combo |-> combo, by |-> c], NewExtra)
      BY <2>3 DEF InsertVariant
    <3>2. from = "insert" /\ call[c].item \in Names
      BY <2>3, <1>2, <1>t DEF InsertVariant, At, Requests, RequestFits, Table
    <3> DEFINE w == [item |-> call[c].item, combo |-> combo, by |-> c]
    <3>3. w \in Variants /\ w.by = c /\ w.item = call[c].item /\ w.combo = combo
      BY <1>t, <3>2 DEF Variants, Request
    <3> HIDE DEF w
    <3>4. variant' = [v \in DOMAIN variant \cup {w} |-> IF v \in {w} THEN NewExtra ELSE variant[v]]
      BY <3>1 DEF Put, w
    <3>5. {w} \in SUBSET Variants /\ combo \in call[c].combos
      BY <3>1, <3>3
    <3> QED
      BY <3>2, <3>3, <3>4, <3>5
  <2> QED
    BY <2>1, <2>2, <2>3
<1>6. \A v \in fresh : v.item \in DOMAIN item'
  BY <1>2, <1>4, <1>5 DEF Requests, RequestFits
<1>7. TypeOK'
  <2>1. Table(variant', Variants, Extras)
    BY <1>t, <1>5 DEF Table
  <2>2. \A v \in DOMAIN variant' : v.item \in DOMAIN item'
    BY <1>4, <1>5, <1>6 DEF TypeOK
  <2>3. DOMAIN variant \subseteq DOMAIN variant'
    BY <1>5
  <2> QED
    BY <1>2, <1>3, <1>4, <2>1, <2>2, <2>3 DEF TypeOK, quoteVars, IsFunction
<1>8. ItemsEvolve(c)
  BY <1>2, <1>4 DEF ItemsEvolve
<1>9. VariantsEvolve(c)
  <2>1. \A v \in DOMAIN variant' \ DOMAIN variant : v \in fresh
    BY <1>5
  <2>2. \A v \in DOMAIN variant \cap DOMAIN variant' : variant'[v] = variant[v]
    <3> SUFFICES ASSUME NEW v \in DOMAIN variant PROVE v \notin fresh
      BY <1>5
    <3>1. v.by = c => pc[c] = "ok"
      BY DEF Inserted
    <3> QED
      BY <1>2, <1>5, <3>1
  <2> QED
    BY <1>2, <1>5, <1>6, <2>1, <2>2 DEF VariantsEvolve
<1>10. QuotesEvolve(c)
  BY <1>2, <1>3 DEF QuotesEvolve, quoteVars
<1>11. Arrivals(c)
  BY <1>2 DEF Arrivals, Steps
<1>12. RequestFits(c)'
  BY <1>2, <1>3 DEF Requests, RequestFits, quoteVars
<1> QED
  BY <1>2, <1>7, <1>8, <1>9, <1>10, <1>11, <1>12, RequestsFrame DEF Good, Evolves

(* An update of what a variant adds. *)
LEMMA WriteExtraGood ==
  ASSUME TypeOK, Requests, Inserted, Together, NEW c \in Calls, WriteExtra(c)
  PROVE  Good(c)
<1>1. At(c, "write_extra") /\ Goto(c, "ok") /\ UNCHANGED <<item, quoteVars, overlapped>>
  BY DEF WriteExtra, At, callVars
<1>2. /\ CallsEvolve(c) /\ Together' /\ pc[c] = "write_extra" /\ pc'[c] = "ok"
      /\ call' = call /\ lines' = lines
      /\ pc' \in [Calls -> {"idle"} \cup Steps \cup Outcomes]
  BY <1>1, WriteMoves DEF Steps, Outcomes
<1>3. /\ DOMAIN variant' = DOMAIN variant /\ Table(variant', Variants, Extras)
      /\ \A v \in DOMAIN variant : variant'[v] = variant[v] \/ v \in call[c].variants
  BY DEF WriteExtra, TypeOK, Table
<1>4. TypeOK'
  BY <1>1, <1>2, <1>3 DEF TypeOK, quoteVars, IsFunction
<1>5. ItemsEvolve(c) /\ VariantsEvolve(c) /\ QuotesEvolve(c)
  BY <1>1, <1>2, <1>3 DEF ItemsEvolve, VariantsEvolve, QuotesEvolve, quoteVars
<1>6. Arrivals(c)
  BY <1>2 DEF Arrivals, Steps
<1>7. RequestFits(c)'
  BY <1>1, <1>2 DEF Requests, RequestFits, quoteVars
<1> QED
  BY <1>2, <1>4, <1>5, <1>6, <1>7, RequestsFrame DEF Good, Evolves

(* A variant goes, and the details that name it. *)
LEMMA DropVariantGood ==
  ASSUME TypeOK, Requests, Inserted, Together, NEW c \in Calls, DropVariant(c)
  PROVE  Good(c)
<1>1. /\ At(c, "delete") /\ Goto(c, "ok")
      /\ UNCHANGED <<item, quote, priced, savedBy, overlapped>>
  BY DEF DropVariant, At, callVars
<1>2. /\ CallsEvolve(c) /\ Together' /\ pc[c] = "delete" /\ pc'[c] = "ok"
      /\ call' = call /\ lines' = lines
      /\ pc' \in [Calls -> {"idle"} \cup Steps \cup Outcomes]
  BY <1>1, WriteMoves DEF Steps, Outcomes
<1>3. PICK v \in call[c].variants :
        /\ variant' = Without(variant, v)
        /\ details' = [q \in DOMAIN details |-> Without(details[q], v)]
  BY DEF DropVariant
<1>4. DOMAIN details = DOMAIN quote /\ DOMAIN priced = DOMAIN quote
  BY DEF TypeOK, IsFunction
<1>5. /\ Table(variant', Variants, Extras) /\ DOMAIN variant' = DOMAIN variant \ {v}
      /\ \A w \in DOMAIN variant' : variant'[w] = variant[w]
  BY <1>3 DEF TypeOK, Table, Without, Restrict
<1>6. /\ IsFunction(details', DOMAIN quote)
      /\ \A q \in DOMAIN quote :
           /\ IsLines(details'[q]) /\ DOMAIN details'[q] = DOMAIN details[q] \ {v}
           /\ \A w \in DOMAIN details'[q] : details'[q][w] = details[q][w]
  <2>1. \A q \in DOMAIN quote : details'[q] = Without(details[q], v) /\ IsLines(details[q])
    BY <1>3, <1>4 DEF TypeOK
  <2>2. IsFunction(details', DOMAIN quote)
    BY <1>3, <1>4 DEF IsFunction
  <2>3. ASSUME NEW q \in DOMAIN quote
        PROVE  /\ IsLines(details'[q]) /\ DOMAIN details'[q] = DOMAIN details[q] \ {v}
               /\ \A w \in DOMAIN details'[q] : details'[q][w] = details[q][w]
    <3> DEFINE f == details[q]
    <3>1. details'[q] = [w \in DOMAIN f \ {v} |-> f[w]]
      BY <2>1 DEF Without, Restrict
    <3>2. DOMAIN f \subseteq Variants /\ \A w \in DOMAIN f : f[w] \in Nat
      BY <2>1 DEF IsLines, Table
    <3> HIDE DEF f
    <3>3. /\ DOMAIN details'[q] = DOMAIN f \ {v}
          /\ \A w \in DOMAIN details'[q] : details'[q][w] = f[w]
      BY <3>1
    <3>4. details'[q] \in [DOMAIN details'[q] -> Nat]
      BY <3>1, <3>2
    <3> QED
      BY <3>2, <3>3, <3>4 DEF IsLines, Table, f
  <2> QED
    BY <2>2, <2>3
<1>7. TypeOK'
  BY <1>1, <1>2, <1>5, <1>6 DEF TypeOK, IsFunction
<1>8. ItemsEvolve(c) /\ VariantsEvolve(c)
  BY <1>1, <1>2, <1>3, <1>5 DEF ItemsEvolve, VariantsEvolve
<1>9. QuotesEvolve(c)
  BY <1>1, <1>2, <1>3, <1>6 DEF QuotesEvolve
<1>10. Arrivals(c)
  BY <1>2 DEF Arrivals, Steps
<1>11. RequestFits(c)'
  BY <1>1, <1>2 DEF Requests, RequestFits
<1> QED
  BY <1>2, <1>7, <1>8, <1>9, <1>10, <1>11, RequestsFrame DEF Good, Evolves
(* The transaction of updateQuote, and the inserts of createQuote. *)
LEMMA SaveQuoteGood ==
  ASSUME TypeOK, Requests, Inserted, Together, NEW c \in Calls, SaveQuote(c)
  PROVE  Good(c)
<1> USE CatalogAssumption
<1> DEFINE q == call[c].quote
           step == IF DOMAIN lines[c] \subseteq DOMAIN variant THEN "ok" ELSE "failed"
<1>1. /\ At(c, "save_quote") /\ Goto(c, step) /\ step \in Outcomes
      /\ UNCHANGED <<clothesVars, overlapped>>
  BY DEF SaveQuote, At, callVars, Outcomes
<1>2. /\ CallsEvolve(c) /\ Together' /\ pc[c] = "save_quote" /\ pc'[c] = step
      /\ call' = call /\ lines' = lines
      /\ pc' \in [Calls -> {"idle"} \cup Steps \cup Outcomes]
  BY <1>1, WriteMoves DEF Steps
<1>3. /\ IsLines(lines[c]) /\ c \in Names
      /\ DOMAIN details = DOMAIN quote /\ DOMAIN priced = DOMAIN quote
      /\ DOMAIN savedBy = DOMAIN quote /\ Table(quote, Names, Quote)
      /\ \A p \in DOMAIN quote : savedBy[p] \in Names
      /\ \A p \in DOMAIN quote : IsLines(details[p]) /\ IsLines(priced[p])
      /\ \A p \in DOMAIN quote : DOMAIN details[p] \subseteq DOMAIN variant
  BY DEF TypeOK, IsFunction, Names
<1>4. call[c].op \in {"createQuote", "updateQuote"}
  BY <1>2 DEF Requests, RequestFits
<1>5. ItemsEvolve(c) /\ VariantsEvolve(c)
  BY <1>1, <1>2 DEF ItemsEvolve, VariantsEvolve, clothesVars
<1>6. Arrivals(c)
  BY <1>1, <1>2 DEF Arrivals, Steps, Outcomes
<1>7. TypeOK' /\ QuotesEvolve(c)
  <2>1. CASE step = "failed"
    <3>1. UNCHANGED quoteVars
      BY <2>1 DEF SaveQuote
    <3> QED
      BY <1>1, <1>2, <2>1, <3>1 DEF TypeOK, QuotesEvolve, clothesVars, quoteVars, IsFunction
  <2>2. CASE step = "ok"
    <3>1. /\ quote' = IF call[c].op = "createQuote" THEN Put(quote, q, NewQuote) ELSE quote
          /\ details' = Put(details, q, lines[c])
          /\ priced' = Put(priced, q, lines[c])
          /\ savedBy' = Put(savedBy, q, c)
          /\ DOMAIN lines[c] \subseteq DOMAIN variant
      BY <2>2 DEF SaveQuote
    <3>2. /\ call[c].op = "createQuote" => q = c /\ q \notin DOMAIN quote
          /\ call[c].op # "createQuote" => q \in DOMAIN quote
          /\ q \in Names
      <4>1. c \notin DOMAIN quote
        BY <1>2 DEF Inserted
      <4>2. call[c].op = "createQuote" => q = c
        BY DEF Requests, RequestFits
      <4>3. call[c].op = "updateQuote" => q \in DOMAIN quote
        BY DEF Requests, RequestFits, QuoteOps
      <4>4. DOMAIN quote \subseteq Names
        BY <1>3 DEF Table
      <4> QED
        BY <1>3, <1>4, <4>1, <4>2, <4>3, <4>4
    <3>3. NewQuote \in Quote
      BY DEF NewQuote, Quote, Statuses
    <3> HIDE DEF q, step
    <3>4. /\ DOMAIN quote' = DOMAIN quote \cup {q}
          /\ \A p \in DOMAIN quote : quote'[p] = quote[p]
          /\ call[c].op = "createQuote" => quote'[q] = NewQuote
          /\ IsFunction(quote', DOMAIN quote')
      <4>1. CASE call[c].op = "createQuote"
        BY <4>1, <3>1, <3>2 DEF Put, IsFunction
      <4>2. CASE call[c].op # "createQuote"
        BY <4>2, <1>3, <3>1, <3>2 DEF IsFunction, Table
      <4> QED
        BY <4>1, <4>2
    <3>5. Table(quote', Names, Quote)
      BY <1>3, <3>2, <3>3, <3>4, <1>4 DEF Table, IsFunction
    <3>6. /\ DOMAIN details' = DOMAIN quote' /\ IsFunction(details', DOMAIN quote')
          /\ details'[q] = lines[c] /\ \A p \in DOMAIN quote : p # q => details'[p] = details[p]
      BY <1>3, <3>1, <3>4 DEF Put, IsFunction
    <3>7. /\ DOMAIN priced' = DOMAIN quote' /\ IsFunction(priced', DOMAIN quote')
          /\ priced'[q] = lines[c] /\ \A p \in DOMAIN quote : p # q => priced'[p] = priced[p]
      BY <1>3, <3>1, <3>4 DEF Put, IsFunction
    <3>8. /\ savedBy' \in [DOMAIN quote' -> Names] /\ savedBy'[q] = c
          /\ \A p \in DOMAIN quote : p # q => savedBy'[p] = savedBy[p]
      <4>1. savedBy' = [p \in DOMAIN quote' |-> IF p = q THEN c ELSE savedBy[p]]
        BY <1>3, <3>1, <3>4 DEF Put
      <4>2. q \in DOMAIN quote'
        BY <3>4
      <4> QED
        BY <1>3, <3>4, <4>1, <4>2
    <3>9. \A p \in DOMAIN quote' :
            /\ IsLines(details'[p]) /\ IsLines(priced'[p])
            /\ DOMAIN details'[p] \subseteq DOMAIN variant'
      BY <1>1, <1>3, <3>1, <3>4, <3>6, <3>7 DEF clothesVars
    <3>10. TypeOK'
      BY <1>1, <1>2, <3>5, <3>6, <3>7, <3>8, <3>9 DEF TypeOK, clothesVars
    <3>11. Saves(c, q)
      BY <1>1, <1>2, <2>2, <3>4, <3>6, <3>7, <3>8 DEF Saves, q
    <3>12. QuotesEvolve(c)
      <4>1. \A p \in DOMAIN quote' \ DOMAIN quote : p = q /\ p = c /\ call[c].op = "createQuote"
        BY <3>2, <3>4, <1>4
      <4> QED
        BY <4>1, <3>4, <3>6, <3>7, <3>8, <3>11 DEF QuotesEvolve, q
    <3> QED
      BY <3>10, <3>12
  <2> QED
    BY <2>1, <2>2
<1>8. RequestFits(c)'
  <2>1. DOMAIN quote \subseteq DOMAIN quote'
    BY <1>7 DEF QuotesEvolve
  <2> QED
    BY <1>1, <1>2, <2>1 DEF Requests, RequestFits, Outcomes
<1> QED
  BY <1>2, <1>5, <1>6, <1>7, <1>8, RequestsFrame DEF Good, Evolves

(* Writes to the row of a quote alone. *)
LEMMA StatusWriteGood ==
  ASSUME TypeOK, Requests, Inserted, Together, NEW c \in Calls,
         WriteCancelled(c) \/ RemoveQuote(c) \/ Approve(c)
  PROVE  Good(c)
<1> DEFINE q == call[c].quote
<1>1. PICK from \in {"cancel", "remove_quote", "approve"}, step \in {"ok", "commit"} :
        /\ At(c, from) /\ Goto(c, step)
        /\ step = (IF from = "approve" THEN "commit" ELSE "ok")
  BY DEF WriteCancelled, RemoveQuote, Approve
<1>2. /\ CallsEvolve(c) /\ Together' /\ pc[c] = from /\ pc'[c] = step
      /\ call' = call /\ lines' = lines
      /\ pc' \in [Calls -> {"idle"} \cup Steps \cup Outcomes]
  <2>1. from \in Steps /\ step \in Steps \cup Outcomes
    BY DEF Steps, Outcomes
  <2> QED
    BY <1>1, <2>1, WriteMoves
<1>3. UNCHANGED <<clothesVars, details, priced, savedBy, overlapped>>
  BY DEF WriteCancelled, RemoveQuote, Approve, At, callVars
<1>4. q \in DOMAIN quote /\ quote \in [DOMAIN quote -> Quote] /\ DOMAIN quote \subseteq Names
  BY <1>2 DEF Requests, RequestFits, QuoteOps, TypeOK, Table
<1>5. /\ DOMAIN quote' = DOMAIN quote /\ quote' \in [DOMAIN quote -> Quote]
      /\ \A p \in DOMAIN quote :
           /\ quote'[p].live => quote[p].live
           /\ \/ quote'[p].status = quote[p].status
              \/ from = "cancel" /\ q = p /\ quote'[p].status = "CANCELLED"
              \/ from = "approve" /\ q = p
  <2>1. CASE WriteCancelled(c)
    <3>1. from = "cancel" /\ quote' = [quote EXCEPT ![q].status = "CANCELLED"]
      BY <2>1, <1>2 DEF WriteCancelled, At, WriteStatus
    <3> HIDE DEF q
    <3> QED
      BY <1>4, <3>1 DEF Quote, Statuses
  <2>2. CASE RemoveQuote(c)
    <3>1. from = "remove_quote" /\ quote' = [quote EXCEPT ![q].live = FALSE]
      BY <2>2, <1>2 DEF RemoveQuote, At
    <3> HIDE DEF q
    <3> QED
      BY <1>4, <3>1 DEF Quote
  <2>3. CASE Approve(c)
    <3>1. from = "approve" /\ quote' = [quote EXCEPT ![q].status = "APPROVED"]
      BY <2>3, <1>2 DEF Approve, At, WriteStatus
    <3> HIDE DEF q
    <3> QED
      BY <1>4, <3>1 DEF Quote, Statuses
  <2> QED
    BY <2>1, <2>2, <2>3
<1>6. TypeOK'
  BY <1>2, <1>3, <1>4, <1>5 DEF TypeOK, Table, clothesVars, IsFunction
<1>7. ItemsEvolve(c) /\ VariantsEvolve(c)
  BY <1>2, <1>3 DEF ItemsEvolve, VariantsEvolve, clothesVars
<1>8. QuotesEvolve(c)
  BY <1>2, <1>3, <1>5 DEF QuotesEvolve, clothesVars
<1>9. Arrivals(c)
  BY <1>1, <1>2 DEF Arrivals, Steps
<1>10. RequestFits(c)'
  BY <1>1, <1>2, <1>3, <1>5 DEF Requests, RequestFits, clothesVars
<1> QED
  BY <1>2, <1>6, <1>7, <1>8, <1>9, <1>10, RequestsFrame DEF Good, Evolves
-----------------------------------------------------------------------------
(* Every step of a call is a step that Evolves describes. *)
LEMMA StepGood ==
  ASSUME TypeOK, Requests, Inserted, Together, NEW c \in Calls,
         Start(c) \/ Continue(c) \/ Fail(c)
  PROVE  Good(c)
<1>1. CASE Start(c)
  <2>1. CASE \E wanted \in SUBSET DOMAIN variant : CreateQuote(c, wanted)
    BY <2>1, CreateQuoteGood
  <2>2. CASE \E q \in DOMAIN quote : CreateOrder(c, q)
    BY <2>2, CreateOrderGood
  <2>3. CASE ~ \/ \E wanted \in SUBSET DOMAIN variant : CreateQuote(c, wanted)
               \/ \E q \in DOMAIN quote : CreateOrder(c, q)
    BY <1>1, <2>3, StartGood DEF Start
  <2> QED
    BY <2>1, <2>2, <2>3
<1>2. CASE Continue(c) \/ Fail(c)
  BY <1>2, ItemWriteGood, VariantInsertGood, WriteExtraGood, DropVariantGood, ReadGood,
     PricingGood, SaveQuoteGood, StatusWriteGood DEF Continue
<1> QED
  BY <1>1, <1>2

(* What was asked, and which calls overlapped, is never forgotten. *)
LEMMA NothingForgotten ==
  ASSUME TypeOK, Requests, NEW c \in Calls, CallsEvolve(c)
  PROVE  /\ \A d \in Calls : call[d] # NoRequest => call'[d] = call[d]
         /\ \A d \in Calls : pc'[d] = pc[d] \/ d = c
         /\ \A d \in Calls : pc[d] \in Steps => call'[d] = call[d]
         /\ \A d, e \in Names : Overlap(d, e) => Overlap(d, e)'
         /\ \A d, e \in Names : Overlap(d, e) <=> Overlap(e, d)
         /\ \A d, e \in Names : Overlap(d, e)' <=> Overlap(e, d)'
<1>1. \A d \in Calls : d # c => pc'[d] = pc[d] /\ call'[d] = call[d]
  BY DEF CallsEvolve
<1>2. pc[c] = "idle" => call[c] = NoRequest
  BY DEF Requests, RequestFits
<1>3. pc[c] \in Steps => call'[c] = call[c]
  BY DEF CallsEvolve
<1>4. pc[c] \in {"idle"} \cup Steps
  BY DEF CallsEvolve
<1>5. \A d, e \in Names : {d, e} = {e, d}
  OBVIOUS
<1>6. overlapped \subseteq overlapped'
  BY DEF CallsEvolve
<1> QED
  BY <1>1, <1>2, <1>3, <1>4, <1>5, <1>6 DEF Overlap

(* The excuses of the invariants, once given, stay. *)
LEMMA ExcusesStay ==
  ASSUME TypeOK, Requests, NEW c \in Calls, CallsEvolve(c)
  PROVE  /\ \A q \in Names, i \in Names : Excused(q, i) => Excused(q, i)'
         /\ \A e \in Calls, i \in Names :
              pc[e] \in Steps /\ Changed(e, i) => Changed(e, i)'
         /\ \A e \in Calls, v \in Variants : Repriced(e, v) => Repriced(e, v)'
<1> USE CatalogAssumption
<1>1. /\ NoRequest.op = "none" /\ NoRequest.quote = None
      /\ None \notin Names /\ Calls \subseteq Names
  BY DEF NoRequest, Names
<1>2. /\ \A d \in Calls : call[d] # NoRequest => call'[d] = call[d]
      /\ \A d \in Calls : pc[d] \in Steps => call'[d] = call[d]
      /\ \A d, e \in Calls : Overlap(d, e) => Overlap(d, e)'
  BY <1>1, NothingForgotten
<1>3. ASSUME NEW q \in Names, NEW i \in Names, Excused(q, i) PROVE Excused(q, i)'
  <2>1. PICK d \in Calls, e \in Calls :
          /\ call[d].op = "deleteClothes" /\ call[d].item = i
          /\ call[e].quote = q /\ Overlap(d, e)
    BY <1>3 DEF Excused
  <2>2. call[d] # NoRequest /\ call[e] # NoRequest
    BY <1>1, <2>1
  <2> QED
    BY <1>2, <2>1, <2>2 DEF Excused
<1>4. ASSUME NEW e \in Calls, NEW i \in Names, pc[e] \in Steps, Changed(e, i)
      PROVE  Changed(e, i)'
  <2>1. PICK d \in Calls :
          /\ Overlap(e, d)
          /\ \/ call[d].op = "updateClothes" /\ call[d].item = i
             \/ call[d].op = "updateQuote" /\ call[d].quote = call[e].quote
    BY <1>4 DEF Changed
  <2>2. call[d] # NoRequest
    BY <1>1, <2>1
  <2>3. call'[d] = call[d] /\ call'[e] = call[e] /\ Overlap(e, d)'
    BY <1>2, <1>4, <2>1, <2>2
  <2> QED
    BY <2>1, <2>3 DEF Changed
<1>5. ASSUME NEW e \in Calls, NEW v \in Variants, Repriced(e, v) PROVE Repriced(e, v)'
  <2>1. PICK d \in Calls :
          /\ Overlap(e, d)
          /\ \/ call[d].op = "updateClothes" /\ call[d].item = v.item
             \/ call[d].op = "updateVariant" /\ v \in call[d].variants
    BY <1>5 DEF Repriced
  <2>2. call[d] # NoRequest
    BY <1>1, <2>1
  <2>3. call'[d] = call[d] /\ Overlap(e, d)'
    BY <1>2, <2>1, <2>2
  <2> QED
    BY <2>1, <2>3 DEF Repriced
<1> QED
  BY <1>3, <1>4, <1>5

(* Two calls under way together, of which one now steps. *)
LEMMA StepsTogether ==
  ASSUME TypeOK, Requests, Together, NEW c \in Calls, CallsEvolve(c), pc[c] \in Steps,
         NEW d \in Calls, d # c, pc[d] \in Steps
  PROVE  /\ Overlap(c, d) /\ Overlap(d, c) /\ Overlap(c, d)' /\ Overlap(d, c)'
         /\ call'[c] = call[c] /\ call'[d] = call[d]
BY NothingForgotten DEF Together, Names

(* Inserted is kept. *)
LEMMA InsertedStays ==
  ASSUME TypeOK, TypeOK', Requests, Requests', Inserted, NEW c \in Calls, Evolves(c)
  PROVE  Inserted'
<1> SUFFICES ASSUME NEW e \in Calls
             PROVE  /\ e \in DOMAIN item' => pc'[e] \in {"save_default", "ok", "failed"}
                    /\ e \in DOMAIN quote' => pc'[e] = "ok" /\ call'[e].op = "createQuote"
                    /\ \A v \in DOMAIN variant' : v.by = e => pc'[e] = "ok"
                    /\ \A d \in Calls : \A v \in DOMAIN lines'[d] :
                         v.item \in DOMAIN item' /\ (v.by = e => pc'[e] = "ok")
  BY DEF Inserted
<1> USE DEF Evolves
<1>1. /\ pc[c] \in {"idle"} \cup Steps /\ "ok" \notin Steps /\ "failed" \notin Steps
      /\ \A d \in Calls : d # c => pc'[d] = pc[d] /\ call'[d] = call[d] /\ lines'[d] = lines[d]
  BY DEF CallsEvolve, Steps
<1>2. pc[e] = "ok" => e # c
  BY <1>1
<1>3. e \in DOMAIN item' => pc'[e] \in {"save_default", "ok", "failed"}
  <2>1. CASE e \in DOMAIN item /\ e = c
    <3>1. pc[c] = "save_default"
      BY <1>1, <2>1 DEF Inserted
    <3> QED
      BY <2>1, <3>1 DEF Arrivals, Outcomes
  <2>2. CASE e \in DOMAIN item /\ e # c
    BY <1>1, <2>2 DEF Inserted
  <2>3. CASE e \in DOMAIN item' \ DOMAIN item
    BY <2>3 DEF ItemsEvolve
  <2> QED
    BY <2>1, <2>2, <2>3
<1>4. e \in DOMAIN quote' => pc'[e] = "ok" /\ call'[e].op = "createQuote"
  <2>1. CASE e \in DOMAIN quote
    BY <1>1, <1>2, <2>1 DEF Inserted
  <2>2. CASE e \in DOMAIN quote' \ DOMAIN quote
    <3>1. e = c /\ Saves(c, e) /\ call[c].op = "createQuote"
      BY <2>2 DEF QuotesEvolve
    <3>2. pc'[c] = "ok" /\ pc[c] \in Steps
      BY <3>1 DEF Saves, Steps
    <3> QED
      BY <3>1, <3>2 DEF CallsEvolve
  <2> QED
    BY <2>1, <2>2
<1>5. ASSUME NEW v \in DOMAIN variant', v.by = e PROVE pc'[e] = "ok"
  <2>1. CASE v \in DOMAIN variant
    BY <1>1, <1>2, <1>5, <2>1 DEF Inserted
  <2>2. CASE v \notin DOMAIN variant
    BY <1>5, <2>2 DEF VariantsEvolve
  <2> QED
    BY <2>1, <2>2
<1>6. ASSUME NEW d \in Calls, NEW v \in DOMAIN lines'[d]
      PROVE  v.item \in DOMAIN item' /\ (v.by = e => pc'[e] = "ok")
  <2>1. DOMAIN item \subseteq DOMAIN item'
    BY DEF ItemsEvolve
  <2>2. CASE v \in DOMAIN lines[d]
    <3>1. v.item \in DOMAIN item /\ (v.by = e => pc[e] = "ok")
      BY <2>2 DEF Inserted
    <3> QED
      BY <1>1, <1>2, <2>1, <3>1
  <2>3. CASE v \in DOMAIN variant
    <3>1. v.item \in DOMAIN item /\ (v.by = e => pc[e] = "ok")
      BY <2>3 DEF Inserted, TypeOK
    <3> QED
      BY <1>1, <1>2, <2>1, <3>1
  <2>4. v \in DOMAIN lines[d] \/ v \in DOMAIN variant
    <3>1. CASE d # c \/ pc'[c] \notin {"price", "drafts"}
      BY <1>1, <3>1 DEF Arrivals
    <3>2. CASE d = c /\ pc'[c] = "price"
      BY <3>2 DEF Arrivals
    <3>3. CASE d = c /\ pc'[c] = "drafts"
      <4>1. lines'[c] = details[call'[c].quote] /\ pc[c] = "idle"
        BY <3>3 DEF Arrivals
      <4>2. quote' = quote
        BY <4>1 DEF CallsEvolve, quoteVars
      <4>3. call'[c].quote \in DOMAIN quote
        BY <3>3, <4>2 DEF Requests, RequestFits, QuoteOps
      <4> QED
        BY <3>3, <4>1, <4>3 DEF TypeOK
    <3> QED
      BY <3>1, <3>2, <3>3
  <2> QED
    BY <2>2, <2>3, <2>4
<1> QED
  BY <1>3, <1>4, <1>5, <1>6
(* A second variant of an item comes only from calls that overlapped. *)
LEMMA VariantsStay ==
  ASSUME TypeOK, TypeOK', Requests, Requests', Inserted, Together, NEW c \in Calls, Evolves(c),
         NoVariantBut, OneVariantPerCombination
  PROVE  NoVariantBut' /\ OneVariantPerCombination'
<1> USE DEF Evolves
<1>n. /\ \A d \in Calls : pc[d] \in Steps => call'[d] = call[d]
      /\ \A d \in Calls : pc'[d] = pc[d] \/ d = c
      /\ \A d, e \in Names : Overlap(d, e) => Overlap(d, e)'
      /\ \A d, e \in Names : Overlap(d, e) <=> Overlap(e, d)
      /\ \A d, e \in Names : Overlap(d, e)' <=> Overlap(e, d)'
  BY NothingForgotten
<1>v. /\ DOMAIN variant \subseteq Variants /\ DOMAIN variant' \subseteq Variants
      /\ c \in Names /\ Calls \subseteq Names
      /\ \A v \in Variants : v.by \in Names
      /\ \A v \in DOMAIN variant : v.item \in DOMAIN item
  BY DEF TypeOK, Table, Variants, Names
<1>1. ASSUME NEW v \in DOMAIN variant' \ DOMAIN variant
      PROVE  /\ v.by = c /\ pc'[c] = "ok" /\ v.combo \in call[c].combos /\ pc[c] \in Steps
             /\ \/ pc[c] \in {"save_item", "save_default"} /\ v.item = c
                \/ pc[c] = "insert" /\ v.item = call[c].item
  BY DEF VariantsEvolve, Steps
<1>2. OneVariantPerCombination'
  <2>1. ASSUME NEW v \in DOMAIN variant' \ DOMAIN variant, NEW w \in DOMAIN variant,
               v.item = w.item, v.combo = w.combo
        PROVE  Overlap(w.by, c)'
    <3>1. CASE pc[c] = "save_item"
      <4>1. c \in DOMAIN item
        BY <1>1, <1>v, <2>1, <3>1
      <4> QED
        BY <3>1, <4>1 DEF Inserted
    <3>2. CASE pc[c] \in {"save_default", "insert"}
      <4>1. /\ w.item = (IF pc[c] = "insert" THEN call[c].item ELSE c)
            /\ w.combo \in call[c].combos
        BY <1>1, <2>1, <3>2
      <4>2. Overlap(w.by, c)
        BY <3>2, <4>1 DEF NoVariantBut
      <4> QED
        BY <1>n, <1>v, <4>2
    <3> QED
      BY <1>1, <3>1, <3>2
  <2>2. ASSUME NEW v \in DOMAIN variant' \ DOMAIN variant,
               NEW w \in DOMAIN variant' \ DOMAIN variant,
               v.item = w.item, v.combo = w.combo
        PROVE  v = w
    <3>1. v.by = w.by
      BY <1>1
    <3> QED
      BY <1>v, <2>2, <3>1 DEF Variants
  <2> SUFFICES ASSUME NEW v \in DOMAIN variant', NEW w \in DOMAIN variant',
                      v # w, v.item = w.item, v.combo = w.combo
               PROVE  Overlap(v.by, w.by)'
    BY DEF OneVariantPerCombination, Overlap
  <2>3. CASE v \in DOMAIN variant /\ w \in DOMAIN variant
    BY <1>n, <1>v, <2>3 DEF OneVariantPerCombination
  <2>4. CASE v \notin DOMAIN variant /\ w \in DOMAIN variant
    <3>1. Overlap(w.by, c)' /\ v.by = c
      BY <1>1, <2>1, <2>4
    <3> QED
      BY <1>n, <1>v, <3>1
  <2>5. CASE v \in DOMAIN variant /\ w \notin DOMAIN variant
    <3>1. Overlap(v.by, c)' /\ w.by = c
      BY <1>1, <2>1, <2>5
    <3> QED
      BY <3>1
  <2> QED
    BY <2>2, <2>3, <2>4, <2>5
<1>3. NoVariantBut'
  <2> SUFFICES ASSUME NEW e \in Calls, pc'[e] \in {"insert", "save_default"},
                      NEW v \in DOMAIN variant',
                      v.item = (IF pc'[e] = "insert" THEN call'[e].item ELSE e),
                      v.combo \in call'[e].combos
               PROVE  Overlap(v.by, e)'
    BY DEF NoVariantBut, Overlap
  <2>1. CASE e # c
    <3>1. pc'[e] = pc[e] /\ call'[e] = call[e] /\ pc[e] \in Steps
      BY <1>n, <2>1 DEF Steps
    <3>2. CASE v \in DOMAIN variant
      <4>1. Overlap(v.by, e)
        BY <3>1, <3>2 DEF NoVariantBut
      <4> QED
        BY <1>n, <1>v, <3>2, <4>1
    <3>3. CASE v \notin DOMAIN variant
      <4>1. v.by = c /\ pc[c] \in Steps
        BY <1>1, <3>3
      <4> QED
        BY <2>1, <3>1, <4>1, StepsTogether
    <3> QED
      BY <3>2, <3>3
  <2>2. CASE e = c /\ pc'[c] = "insert"
    <3>1. ~Taken(c) /\ pc[c] \in Steps
      BY <2>2 DEF Arrivals
    <3>2. variant' = variant /\ call'[c] = call[c]
      BY <1>n, <2>2, <3>1 DEF Arrivals, clothesVars, Steps
    <3> QED
      BY <2>2, <3>1, <3>2 DEF Taken
  <2>3. CASE e = c /\ pc'[c] = "save_default"
    <3>1. pc[c] = "save_draft" /\ v.item = c
      BY <2>3 DEF Arrivals
    <3>2. c \notin DOMAIN item
      BY <3>1 DEF Inserted
    <3>3. v \in DOMAIN variant
      BY <1>1, <2>3
    <3> QED
      BY <1>v, <3>1, <3>2, <3>3
  <2> QED
    BY <2>1, <2>2, <2>3
<1> QED
  BY <1>2, <1>3

(* A quote loses a line only to a deleteVariant that overlapped its pricing. *)
LEMMA DetailsStay ==
  ASSUME TypeOK, TypeOK', Requests, Requests', Inserted, Together, NEW c \in Calls, Evolves(c),
         NoDetailBut, LinesLostToOverlap
  PROVE  NoDetailBut' /\ LinesLostToOverlap'
<1> USE DEF Evolves
<1>n. /\ \A d \in Calls : call[d] # NoRequest => call'[d] = call[d]
      /\ \A d \in Calls : pc[d] \in Steps => call'[d] = call[d]
      /\ \A d \in Calls : pc'[d] = pc[d] \/ d = c
      /\ \A d, e \in Names : Overlap(d, e) => Overlap(d, e)'
      /\ NoRequest.op = "none" /\ Calls \subseteq Names
      /\ \A q \in DOMAIN quote : savedBy[q] \in Names
  BY NothingForgotten DEF NoRequest, Names, TypeOK
<1>q. /\ \A q \in DOMAIN quote' : q \notin DOMAIN quote => Saves(c, q)
      /\ \A q \in DOMAIN quote :
           \/ Saves(c, q)
           \/ /\ priced'[q] = priced[q] /\ savedBy'[q] = savedBy[q]
              /\ \/ details'[q] = details[q]
                 \/ /\ pc[c] = "delete"
                    /\ \A v \in DOMAIN details[q] \ DOMAIN details'[q] : v \in call[c].variants
                    /\ \A v \in DOMAIN details'[q] : v \in DOMAIN details[q]
  BY DEF QuotesEvolve
<1>1. NoDetailBut'
  <2> SUFFICES ASSUME NEW d \in Calls, pc'[d] = "delete", NEW q \in DOMAIN quote',
                      NEW v \in DOMAIN details'[q], v \in call'[d].variants
               PROVE  {d, savedBy'[q]} \in overlapped'
    BY DEF NoDetailBut, Overlap
  <2>1. CASE d = c
    <3>1. pc[c] \in Steps /\ \A w \in call[c].variants : ~Quoted(w)
      BY <2>1 DEF Arrivals
    <3>2. details' = details /\ quote' = quote /\ call'[c] = call[c]
      BY <1>n, <2>1, <3>1 DEF Arrivals, quoteVars, Steps
    <3>3. DOMAIN details = DOMAIN quote
      BY DEF TypeOK, IsFunction
    <3> QED
      BY <2>1, <3>1, <3>2, <3>3 DEF Quoted
  <2>2. CASE d # c
    <3>1. pc[d] = "delete" /\ pc[d] \in Steps /\ call'[d] = call[d]
      BY <1>n, <2>2 DEF Steps
    <3>2. CASE Saves(c, q)
      <4>1. pc[c] \in Steps /\ savedBy'[q] = c
        BY <3>2 DEF Saves, Steps
      <4> QED
        BY <2>2, <3>1, <4>1, StepsTogether DEF Overlap
    <3>3. CASE ~Saves(c, q)
      <4>1. q \in DOMAIN quote /\ savedBy'[q] = savedBy[q] /\ v \in DOMAIN details[q]
        BY <1>q, <3>3
      <4>2. Overlap(d, savedBy[q])
        BY <3>1, <4>1 DEF NoDetailBut
      <4>3. Overlap(d, savedBy[q])'
        BY <1>n, <4>1, <4>2
      <4> QED
        BY <4>1, <4>3 DEF Overlap
    <3> QED
      BY <3>2, <3>3
  <2> QED
    BY <2>1, <2>2
<1>2. LinesLostToOverlap'
  <2> SUFFICES ASSUME NEW q \in DOMAIN quote',
                      NEW v \in DOMAIN priced'[q] \ DOMAIN details'[q]
               PROVE  \E d \in Calls :
                        /\ call'[d].op = "deleteVariant" /\ v \in call'[d].variants
                        /\ {d, savedBy'[q]} \in overlapped'
    BY DEF LinesLostToOverlap, Overlap
  <2>1. ~Saves(c, q)
    BY DEF Saves
  <2>2. q \in DOMAIN quote /\ priced'[q] = priced[q] /\ savedBy'[q] = savedBy[q]
    BY <1>q, <2>1
  <2>3. CASE v \notin DOMAIN details[q]
    <3>1. PICK d \in Calls :
            /\ call[d].op = "deleteVariant" /\ v \in call[d].variants
            /\ Overlap(d, savedBy[q])
      BY <2>2, <2>3 DEF LinesLostToOverlap
    <3>2. call'[d] = call[d] /\ {d, savedBy'[q]} \in overlapped'
      BY <1>n, <2>2, <3>1 DEF Overlap
    <3> QED
      BY <3>1, <3>2
  <2>4. CASE v \in DOMAIN details[q]
    <3>1. pc[c] = "delete" /\ v \in call[c].variants
      BY <1>q, <2>1, <2>2, <2>4
    <3>2. call[c].op = "deleteVariant" /\ call'[c] = call[c]
      BY <1>n, <3>1 DEF Requests, RequestFits, Steps
    <3>3. Overlap(c, savedBy[q])
      BY <2>2, <2>4, <3>1 DEF NoDetailBut
    <3>4. {c, savedBy'[q]} \in overlapped'
      BY <1>n, <2>2, <3>3 DEF Overlap
    <3> QED
      BY <3>1, <3>2, <3>4
  <2> QED
    BY <2>3, <2>4
<1> QED
  BY <1>1, <1>2
(* What one step does to the details of a quote and to an item. *)
LEMMA DetailsAndItems ==
  ASSUME TypeOK, Requests, NEW c \in Calls, Evolves(c)
  PROVE  /\ \A q \in DOMAIN quote' : q \notin DOMAIN quote => Saves(c, q)
         /\ \A q \in DOMAIN quote :
              \/ Saves(c, q)
              \/ \A v \in DOMAIN details'[q] : v \in DOMAIN details[q]
         /\ \A i \in DOMAIN item :
              \/ item'[i] = item[i]
              \/ /\ pc[c] = "write_item" /\ call[c].op = "updateClothes" /\ call[c].item = i
                 /\ item'[i].live = item[i].live
              \/ /\ pc[c] = "remove_item" /\ call[c].op = "deleteClothes" /\ call[c].item = i
                 /\ ~item'[i].live
         /\ \A q \in DOMAIN quote' : Saves(c, q) =>
              /\ pc[c] = "save_quote" /\ details'[q] = lines[c] /\ UNCHANGED clothesVars
              /\ call[c].op \in {"createQuote", "updateQuote"} /\ call[c].quote = q
         /\ pc[c] \in Steps /\ pc'[c] \in Steps /\ pc'[c] # "save_default" /\ pc'[c] # "commit" =>
              UNCHANGED <<clothesVars, quoteVars>>
<1> USE DEF Evolves
<1>1. /\ \A q \in DOMAIN quote' : q \notin DOMAIN quote => Saves(c, q)
      /\ \A q \in DOMAIN quote :
           \/ Saves(c, q)
           \/ \A v \in DOMAIN details'[q] : v \in DOMAIN details[q]
  BY DEF QuotesEvolve
<1>2. /\ pc[c] = "write_item" => call[c].op = "updateClothes"
      /\ pc[c] = "remove_item" => call[c].op = "deleteClothes"
      /\ pc[c] = "save_quote" => call[c].op \in {"createQuote", "updateQuote"}
  BY DEF Requests, RequestFits
<1>3. \A i \in DOMAIN item :
        \/ item'[i] = item[i]
        \/ /\ pc[c] = "write_item" /\ call[c].item = i
           /\ item'[i].live = item[i].live
        \/ pc[c] = "remove_item" /\ call[c].item = i /\ ~item'[i].live
  BY DEF ItemsEvolve
<1>4. \A q \in DOMAIN quote' : Saves(c, q) =>
        /\ pc[c] = "save_quote" /\ details'[q] = lines[c] /\ UNCHANGED clothesVars
        /\ call[c].quote = q
  BY DEF Saves
<1>5. pc[c] \in Steps /\ pc'[c] \in Steps /\ pc'[c] # "save_default" /\ pc'[c] # "commit" =>
        UNCHANGED <<clothesVars, quoteVars>>
  BY DEF Arrivals
<1> QED
  BY <1>1, <1>2, <1>3, <1>4, <1>5

(* The item of a quote goes only by a deleteClothes that overlapped it. *)
LEMMA ItemsStay ==
  ASSUME TypeOK, TypeOK', Requests, Requests', Inserted, Together, NEW c \in Calls, Evolves(c),
         ItemsThereBut, ActiveQuotesHaveItems
  PROVE  ItemsThereBut' /\ ActiveQuotesHaveItems'
<1>e. CallsEvolve(c)
  BY DEF Evolves
<1>n. /\ \A d \in Calls : pc[d] \in Steps => call'[d] = call[d]
      /\ \A d \in Calls : pc'[d] = pc[d] \/ d = c
      /\ \A d \in Calls : d # c => lines'[d] = lines[d]
      /\ \A q \in Names, i \in Names : Excused(q, i) => Excused(q, i)'
  BY <1>e, NothingForgotten, ExcusesStay DEF CallsEvolve
<1>v. /\ DOMAIN quote \subseteq Names /\ DOMAIN quote' \subseteq Names
      /\ DOMAIN item \subseteq Names
      /\ \A q \in DOMAIN quote : \A v \in DOMAIN details[q] : v.item \in DOMAIN item
      /\ \A d \in Calls : \A v \in DOMAIN lines[d] : v.item \in DOMAIN item
  BY DEF TypeOK, Table, Inserted
<1>s. {"save_quote", "approve", "remove_item", "status", "price", "count"} \subseteq Steps
  BY DEF Steps
<1>d. /\ \A q \in DOMAIN quote' : q \notin DOMAIN quote => Saves(c, q)
      /\ \A q \in DOMAIN quote :
           \/ Saves(c, q)
           \/ \A v \in DOMAIN details'[q] : v \in DOMAIN details[q]
      /\ \A i \in DOMAIN item :
           \/ item'[i].live = item[i].live
           \/ pc[c] = "remove_item" /\ call[c].op = "deleteClothes" /\ call[c].item = i
      /\ \A q \in DOMAIN quote' : Saves(c, q) =>
           /\ pc[c] = "save_quote" /\ details'[q] = lines[c] /\ UNCHANGED clothesVars
           /\ call[c].quote = q
      /\ pc[c] \in Steps /\ pc'[c] \in Steps /\ pc'[c] # "save_default" /\ pc'[c] # "commit" =>
           UNCHANGED <<clothesVars, quoteVars>>
  BY DetailsAndItems
(* A call under way beside c that deletes an item, and one about a quote. *)
<1>x. ASSUME NEW d \in Calls, NEW e \in Calls, d # e, d = c \/ e = c,
             pc[d] \in Steps, pc[e] \in Steps, call[d].op = "deleteClothes",
             NEW q, NEW i, call[e].quote = q, call[d].item = i
      PROVE  Excused(q, i)'
  <2>1. Overlap(d, e)' /\ call'[d] = call[d] /\ call'[e] = call[e]
    BY <1>e, <1>x, StepsTogether
  <2> QED
    BY <1>x, <2>1 DEF Excused
<1>1. ASSUME NEW e \in Calls, pc'[e] = "save_quote", NEW v \in DOMAIN lines'[e],
             NEW q, q = call[e].quote
      PROVE  item'[v.item].live \/ Excused(q, v.item)'
  <2>1. CASE e = c
    <3>1. pc[c] = "price" /\ v \in DOMAIN lines[c] /\ LiveItem(v.item)
      BY <1>1, <2>1 DEF Evolves, Arrivals
    <3>2. UNCHANGED clothesVars
      BY <1>1, <1>d, <1>s, <2>1, <3>1
    <3> QED
      BY <3>1, <3>2 DEF LiveItem, clothesVars
  <2>2. CASE e # c
    <3>1. pc[e] = "save_quote" /\ v \in DOMAIN lines[e] /\ v.item \in DOMAIN item
      BY <1>1, <1>n, <1>v, <2>2
    <3>2. item[v.item].live \/ Excused(q, v.item)
      BY <1>1, <3>1 DEF ItemsThereBut
    <3>3. CASE Excused(q, v.item)
      <4>1. q \in Names
        BY <1>1, <1>v, <3>1 DEF Requests, RequestFits, QuoteOps, Names
      <4> QED
        BY <1>n, <1>v, <3>1, <3>3, <4>1
    <3>4. CASE item[v.item].live /\ ~item'[v.item].live
      <4>1. pc[c] = "remove_item" /\ call[c].op = "deleteClothes" /\ call[c].item = v.item
        BY <1>d, <3>1, <3>4
      <4> QED
        BY <1>1, <1>s, <1>x, <2>2, <3>1, <4>1
    <3> QED
      BY <3>2, <3>3, <3>4
  <2> QED
    BY <2>1, <2>2
<1>2. ASSUME NEW q \in DOMAIN quote', NEW v \in DOMAIN details'[q], Saves(c, q)
      PROVE  item'[v.item].live \/ Excused(q, v.item)'
  <2>1. pc[c] = "save_quote" /\ v \in DOMAIN lines[c] /\ call[c].quote = q /\ item' = item
    BY <1>d, <1>2 DEF clothesVars
  <2>2. item[v.item].live \/ Excused(q, v.item)
    BY <2>1 DEF ItemsThereBut
  <2> QED
    BY <1>n, <1>v, <2>1, <2>2
<1>3. ASSUME NEW e \in Calls, pc'[e] = "approve", NEW q, q = call[e].quote,
             NEW v \in DOMAIN details'[q]
      PROVE  item'[v.item].live \/ Excused(q, v.item)'
  <2>0. pc[e] \in {"status", "approve"} /\ q \in DOMAIN quote
    <3>1. pc[e] \in {"status", "approve"}
      BY <1>3, <1>n DEF Evolves, Arrivals
    <3> QED
      BY <1>3, <3>1 DEF Requests, RequestFits, QuoteOps
  <2>1. CASE e = c
    <3>1. pc[c] = "status" /\ LiveQuote(q) /\ quote[q].status # "CANCELLED"
      BY <1>3, <2>1 DEF Evolves, Arrivals
    <3>2. UNCHANGED <<clothesVars, quoteVars>>
      BY <1>3, <1>d, <1>s, <2>1, <3>1
    <3>3. quote[q].status \in {"PENDING", "APPROVED"}
      BY <2>0, <3>1 DEF TypeOK, Table, Quote, Statuses
    <3>4. item[v.item].live \/ Excused(q, v.item)
      BY <1>3, <2>0, <3>1, <3>2, <3>3 DEF ActiveQuotesHaveItems, Excused, LiveQuote, quoteVars
    <3>5. v \in DOMAIN details[q]
      BY <1>3, <3>2 DEF quoteVars
    <3> QED
      BY <1>n, <1>v, <2>0, <3>2, <3>4, <3>5 DEF clothesVars
  <2>2. CASE e # c /\ Saves(c, q)
    <3>1. q \in DOMAIN quote'
      BY <2>0 DEF Evolves, QuotesEvolve
    <3> QED
      BY <1>2, <1>3, <2>2, <3>1
  <2>3. CASE e # c /\ ~Saves(c, q)
    <3>1. pc[e] = "approve" /\ v \in DOMAIN details[q] /\ v.item \in DOMAIN item
      BY <1>3, <1>n, <1>d, <1>v, <2>0, <2>3
    <3>2. item[v.item].live \/ Excused(q, v.item)
      BY <1>3, <3>1 DEF ItemsThereBut
    <3>3. CASE item[v.item].live /\ ~item'[v.item].live
      <4>1. pc[c] = "remove_item" /\ call[c].op = "deleteClothes" /\ call[c].item = v.item
        BY <1>d, <3>1, <3>3
      <4> QED
        BY <1>3, <1>s, <1>x, <2>3, <3>1, <4>1
    <3>4. CASE Excused(q, v.item)
      BY <1>n, <1>v, <2>0, <3>1, <3>4
    <3> QED
      BY <3>2, <3>3, <3>4
  <2> QED
    BY <2>1, <2>2, <2>3
<1>4. ASSUME NEW d \in Calls, pc'[d] = "remove_item", NEW q \in DOMAIN quote',
             quote'[q].live, quote'[q].status \in {"PENDING", "APPROVED"},
             NEW v \in DOMAIN details'[q], v.item = call[d].item
      PROVE  Excused(q, v.item)'
  <2>1. CASE d = c
    <3>1. ~Referenced(call[c].item) /\ pc[c] \in Steps
      BY <1>4, <2>1 DEF Evolves, Arrivals
    <3>2. UNCHANGED <<clothesVars, quoteVars>>
      BY <1>4, <1>d, <1>s, <2>1, <3>1
    <3> QED
      BY <1>4, <2>1, <3>1, <3>2 DEF Referenced, quoteVars
  <2>2. CASE d # c
    <3>0. pc[d] = "remove_item" /\ pc[d] \in Steps /\ call[d].op = "deleteClothes"
      <4>1. pc[d] = "remove_item"
        BY <1>4, <1>n, <2>2
      <4> QED
        BY <4>1, <1>s DEF Requests, RequestFits
    <3>1. CASE pc[c] \in Steps /\ call[c].quote = q
      BY <1>4, <1>x, <2>2, <3>0, <3>1
    <3>2. CASE ~(pc[c] \in Steps /\ call[c].quote = q)
      <4>1. ~Saves(c, q)
        BY <1>s, <3>2 DEF Saves
      <4>2. q \in DOMAIN quote /\ v \in DOMAIN details[q]
        BY <1>d, <4>1
      <4>3. quote[q].live /\ quote[q].status = quote'[q].status
        BY <1>4, <1>s, <3>2, <4>1, <4>2 DEF Evolves, QuotesEvolve
      <4>4. Excused(q, v.item)
        BY <1>4, <3>0, <4>2, <4>3 DEF ItemsThereBut
      <4> QED
        BY <1>n, <1>v, <4>2, <4>4
    <3> QED
      BY <3>1, <3>2
  <2> QED
    BY <2>1, <2>2
<1>5. ItemsThereBut'
  <2>1. \A e \in Calls : pc'[e] \in {"save_quote", "approve", "remove_item"} => call'[e] = call[e]
    <3> SUFFICES ASSUME NEW e \in Calls, pc'[e] \in {"save_quote", "approve", "remove_item"}
                 PROVE  pc[e] \in Steps
      BY <1>n
    <3> QED
      BY <1>n, <1>s DEF Evolves, Arrivals
  <2> QED
    BY <1>1, <1>3, <1>4, <2>1 DEF ItemsThereBut
<1>6. ActiveQuotesHaveItems'
  <2> SUFFICES ASSUME NEW q \in DOMAIN quote', quote'[q].live,
                      quote'[q].status \in {"PENDING", "APPROVED"},
                      NEW v \in DOMAIN details'[q], ~item'[v.item].live
               PROVE  Excused(q, v.item)'
    BY DEF ActiveQuotesHaveItems, Excused
  <2>1. CASE Saves(c, q)
    BY <1>2, <2>1
  <2>2. CASE ~Saves(c, q) /\ pc[c] = "approve" /\ call[c].quote = q
    <3>1. q \in DOMAIN quote /\ v \in DOMAIN details[q] /\ v.item \in DOMAIN item
      BY <1>d, <1>v, <2>2
    <3>2. item'[v.item].live = item[v.item].live
      BY <1>d, <2>2, <3>1
    <3>3. Excused(q, v.item)
      BY <2>2, <3>1, <3>2 DEF ItemsThereBut
    <3> QED
      BY <1>n, <1>v, <3>1, <3>3
  <2>3. CASE ~Saves(c, q) /\ ~(pc[c] = "approve" /\ call[c].quote = q)
    <3>1. q \in DOMAIN quote /\ v \in DOMAIN details[q] /\ v.item \in DOMAIN item
      BY <1>d, <1>v, <2>3
    <3>2. quote[q].live /\ quote[q].status = quote'[q].status
      BY <2>3, <3>1 DEF Evolves, QuotesEvolve
    <3>3. CASE item[v.item].live
      <4>1. pc[c] = "remove_item" /\ call[c].item = v.item
        BY <1>d, <3>1, <3>3
      <4>2. Excused(q, v.item)
        BY <3>1, <3>2, <4>1 DEF ItemsThereBut
      <4> QED
        BY <1>n, <1>v, <3>1, <4>2
    <3>4. CASE ~item[v.item].live
      <4>1. Excused(q, v.item)
        BY <3>1, <3>2, <3>4 DEF ActiveQuotesHaveItems, Excused
      <4> QED
        BY <1>n, <1>v, <3>1, <4>1
    <3> QED
      BY <3>3, <3>4
  <2> QED
    BY <2>1, <2>2, <2>3
<1> QED
  BY <1>5, <1>6
(* An item keeps the variants asked for, until a deleteVariant. *)
LEMMA CreatedVariantsStay ==
  ASSUME TypeOK, TypeOK', Requests, Requests', Inserted, NEW c \in Calls, Evolves(c),
         ItemsHaveTheirVariants
  PROVE  ItemsHaveTheirVariants'
<1> USE DEF Evolves
<1>n. /\ \A d \in Calls : call[d] # NoRequest => call'[d] = call[d]
      /\ \A d \in Calls : pc[d] \in Steps => call'[d] = call[d]
      /\ \A d \in Calls : d # c => pc'[d] = pc[d] /\ call'[d] = call[d]
      /\ NoRequest.op = "none"
  BY NothingForgotten DEF CallsEvolve, NoRequest
<1>s. {"save_item", "save_draft", "save_default", "delete"} \subseteq Steps
  BY DEF Steps
<1> SUFFICES ASSUME NEW i \in Calls, i \in DOMAIN item', NEW combo \in call'[i].combos
             PROVE  \/ [item |-> i, combo |-> combo, by |-> i] \in DOMAIN variant'
                    \/ call'[i].op = "createDraftClothe" /\ pc'[i] \in {"save_default", "failed"}
                    \/ \E d \in Calls :
                         /\ call'[d].op = "deleteVariant"
                         /\ [item |-> i, combo |-> combo, by |-> i] \in call'[d].variants
  BY DEF ItemsHaveTheirVariants
<1> DEFINE r == [item |-> i, combo |-> combo, by |-> i]
<1> SUFFICES ASSUME r \notin DOMAIN variant',
                    ~(call'[i].op = "createDraftClothe" /\ pc'[i] \in {"save_default", "failed"})
             PROVE  \E d \in Calls : call'[d].op = "deleteVariant" /\ r \in call'[d].variants
  OBVIOUS
<1>1. CASE i \notin DOMAIN item
  <2>1. i = c /\ pc[c] \in {"save_item", "save_draft"}
    BY <1>1 DEF ItemsEvolve
  <2>2. call'[c] = call[c]
    BY <1>n, <1>s, <2>1
  <2>3. CASE pc[c] = "save_item"
    <3>1. pc'[c] = "ok"
      BY <1>1, <2>1, <2>3 DEF ItemsEvolve
    <3>2. r \in RowsOf(c)
      BY <2>1, <2>2 DEF RowsOf
    <3> QED
      BY <2>3, <3>1, <3>2 DEF VariantsEvolve
  <2>4. CASE pc[c] = "save_draft"
    <3>1. pc'[c] = "save_default"
      BY <1>1, <2>1, <2>4 DEF ItemsEvolve
    <3>2. call[c].op = "createDraftClothe"
      BY <2>4 DEF Requests, RequestFits
    <3> QED
      BY <2>1, <2>2, <3>1, <3>2
  <2> QED
    BY <2>1, <2>3, <2>4
<1>2. CASE i \in DOMAIN item /\ i = c
  <2>1. pc[c] = "save_default" /\ call'[c] = call[c] /\ pc'[c] \in {"ok", "failed"}
    <3>1. pc[c] = "save_default"
      <4>1. pc[c] \in {"idle"} \cup Steps
        BY DEF CallsEvolve
      <4>2. "ok" \notin {"idle"} \cup Steps /\ "failed" \notin {"idle"} \cup Steps
        BY DEF Steps
      <4>3. pc[c] \in {"save_default", "ok", "failed"}
        BY <1>2 DEF Inserted
      <4> QED
        BY <4>1, <4>2, <4>3
    <3> QED
      BY <1>n, <1>s, <3>1 DEF Arrivals, Outcomes
  <2>2. call[c].op = "createDraftClothe" /\ call[c].combos = {DefaultCombo}
    BY <2>1 DEF Requests, RequestFits
  <2>3. pc'[c] = "ok"
    BY <1>2, <2>1, <2>2
  <2>4. combo = DefaultCombo
    BY <1>2, <2>1, <2>2
  <2> QED
    BY <1>2, <2>1, <2>3, <2>4 DEF VariantsEvolve
<1>3. CASE i \in DOMAIN item /\ i # c
  <2>1. pc'[i] = pc[i] /\ call'[i] = call[i]
    BY <1>n, <1>3
  <2>2. CASE r \in DOMAIN variant
    <3>1. pc[c] = "delete" /\ r \in call[c].variants
      BY <2>2 DEF VariantsEvolve
    <3>2. call[c].op = "deleteVariant" /\ call'[c] = call[c]
      BY <1>n, <1>s, <3>1 DEF Requests, RequestFits
    <3> QED
      BY <3>1, <3>2
  <2>3. CASE r \notin DOMAIN variant
    <3>1. PICK d \in Calls : call[d].op = "deleteVariant" /\ r \in call[d].variants
      BY <1>3, <2>1, <2>3 DEF ItemsHaveTheirVariants
    <3>2. call'[d] = call[d]
      BY <1>n, <3>1
    <3> QED
      BY <3>1, <3>2
  <2> QED
    BY <2>2, <2>3
<1> QED
  BY <1>1, <1>2, <1>3

(* What checkIfClothesAreDraft found stays, but for what overlaps.  *)
LEMMA NoDraftStays ==
  ASSUME TypeOK, TypeOK', Requests, Requests', Inserted, Together, NEW c \in Calls, Evolves(c),
         NoDraftBut
  PROVE  NoDraftBut'
<1>e. CallsEvolve(c)
  BY DEF Evolves
<1>n. /\ \A d \in Calls : pc[d] \in Steps => call'[d] = call[d]
      /\ \A d \in Calls : d # c => pc'[d] = pc[d] /\ lines'[d] = lines[d]
      /\ \A d \in Calls, i \in Names : pc[d] \in Steps /\ Changed(d, i) => Changed(d, i)'
  BY <1>e, NothingForgotten, ExcusesStay DEF CallsEvolve
<1>v. /\ \A q \in DOMAIN quote : \A v \in DOMAIN details[q] : v.item \in DOMAIN item
      /\ \A q \in DOMAIN quote' : \A v \in DOMAIN details'[q] : v.item \in Names
      /\ DOMAIN item \subseteq Names
  BY DEF TypeOK, Table, IsLines, Variants
<1>s. {"write_item", "save_quote", "drafts", "status", "approve", "commit"} \subseteq Steps
  BY DEF Steps
<1>d. /\ \A q \in DOMAIN quote :
           \/ Saves(c, q)
           \/ \A v \in DOMAIN details'[q] : v \in DOMAIN details[q]
      /\ \A i \in DOMAIN item :
           \/ item'[i] = item[i]
           \/ pc[c] = "write_item" /\ call[c].op = "updateClothes" /\ call[c].item = i
           \/ pc[c] = "remove_item" /\ ~item'[i].live
      /\ \A q \in DOMAIN quote' : Saves(c, q) =>
           /\ pc[c] = "save_quote"
           /\ call[c].op \in {"createQuote", "updateQuote"} /\ call[c].quote = q
      /\ pc[c] \in Steps /\ pc'[c] \in Steps /\ pc'[c] # "save_default" /\ pc'[c] # "commit" =>
           UNCHANGED <<clothesVars, quoteVars>>
      /\ DOMAIN quote \subseteq DOMAIN quote'
  BY DetailsAndItems DEF Evolves, QuotesEvolve
<1>x. ASSUME NEW e \in Calls, e # c, pc[e] \in Steps, pc[c] \in Steps, NEW i,
             \/ call[c].op = "updateClothes" /\ call[c].item = i
             \/ call[c].op = "updateQuote" /\ call[c].quote = call[e].quote
      PROVE  Changed(e, i)'
  <2>1. Overlap(e, c)' /\ call'[c] = call[c] /\ call'[e] = call[e]
    BY <1>e, <1>x, StepsTogether
  <2> QED
    BY <1>x, <2>1 DEF Changed
(* A createOrder under way whose quote c saves. *)
<1>y. ASSUME NEW e \in Calls, e # c, pc[e] \in {"drafts", "status", "approve", "commit"},
             Saves(c, call[e].quote), NEW i
      PROVE  Changed(e, i)'
  <2>1. call[e].quote \in DOMAIN quote
    BY <1>y DEF Requests, RequestFits, QuoteOps
  <2>2. /\ pc[c] = "save_quote" /\ call[c].quote = call[e].quote
        /\ call[c].op \in {"createQuote", "updateQuote"}
    BY <1>d, <1>y, <2>1
  <2>3. call[c].op # "createQuote"
    <3>1. pc[c] # "ok"
      BY <2>2
    <3>2. c \notin DOMAIN quote
      BY <3>1 DEF Inserted
    <3>3. call[c].op = "createQuote" => call[c].quote = c
      BY DEF Requests, RequestFits
    <3> QED
      BY <2>1, <2>2, <3>2, <3>3
  <2> QED
    BY <1>s, <1>x, <1>y, <2>2, <2>3
<1>1. ASSUME NEW e \in Calls, pc'[e] = "drafts", NEW v \in DOMAIN details'[call'[e].quote]
      PROVE  v \in DOMAIN lines'[e] \/ Changed(e, v.item)'
  <2>1. CASE e = c
    <3>1. pc[c] = "idle" /\ lines'[c] = details[call'[c].quote]
      BY <1>1, <2>1 DEF Evolves, Arrivals
    <3>2. details' = details
      BY <3>1 DEF Evolves, CallsEvolve, quoteVars
    <3> QED
      BY <1>1, <2>1, <3>1, <3>2
  <2>2. CASE e # c
    <3>0. pc[e] = "drafts" /\ call'[e] = call[e] /\ lines'[e] = lines[e]
      BY <1>1, <1>n, <1>s, <2>2
    <3>1. call[e].quote \in DOMAIN quote
      BY <3>0 DEF Requests, RequestFits, QuoteOps
    <3>2. CASE Saves(c, call[e].quote)
      BY <1>y, <2>2, <3>0, <3>2
    <3>3. CASE ~Saves(c, call[e].quote)
      <4>1. v \in DOMAIN details[call[e].quote] /\ v.item \in Names
        BY <1>1, <1>d, <1>v, <3>0, <3>1, <3>3
      <4>2. v \in DOMAIN lines[e] \/ Changed(e, v.item)
        BY <3>0, <4>1 DEF NoDraftBut
      <4> QED
        BY <1>n, <1>s, <3>0, <4>1, <4>2
    <3> QED
      BY <3>2, <3>3
  <2> QED
    BY <2>1, <2>2
<1>2. ASSUME NEW e \in Calls, pc'[e] \in {"status", "approve", "commit"},
             NEW v \in DOMAIN details'[call'[e].quote]
      PROVE  ~item'[v.item].draft \/ ~item'[v.item].live \/ Changed(e, v.item)'
  <2> DEFINE q == call[e].quote
  <2>0. pc[e] \in {"drafts", "status", "approve", "commit"} /\ call'[e] = call[e]
    <3>1. pc[e] \in {"drafts", "status", "approve", "commit"}
      BY <1>2, <1>n DEF Evolves, Arrivals
    <3> QED
      BY <1>n, <1>s, <3>1
  <2>1. q \in DOMAIN quote
    BY <2>0 DEF Requests, RequestFits, QuoteOps
  <2>2. CASE Saves(c, q)
    <3>1. e # c
      BY <1>d, <1>s, <2>0, <2>1, <2>2
    <3> QED
      BY <1>y, <2>0, <2>2, <3>1
  <2>3. CASE ~Saves(c, q)
    <3>0. v \in DOMAIN details[q] /\ v.item \in DOMAIN item
      BY <1>2, <1>d, <1>v, <2>0, <2>1, <2>3
    <3>1. CASE e = c /\ pc[c] = "drafts"
      <4>1. pc'[c] = "status"
        BY <1>2, <3>1 DEF Evolves, Arrivals
      <4>2. item' = item
        BY <1>d, <1>s, <3>1, <4>1 DEF clothesVars
      <4>3. \A w \in DOMAIN lines[c] : LiveItem(w.item) => ~item[w.item].draft
        BY <4>1 DEF Evolves, Arrivals
      <4>4. v \in DOMAIN lines[c] \/ Changed(c, v.item)
        BY <3>0, <3>1 DEF NoDraftBut
      <4>5. CASE v \in DOMAIN lines[c]
        BY <3>0, <4>2, <4>3, <4>5 DEF LiveItem
      <4>6. CASE Changed(c, v.item)
        BY <1>n, <1>s, <1>v, <3>0, <3>1, <4>6
      <4> QED
        BY <4>4, <4>5, <4>6
    <3>2. CASE pc[e] \in {"status", "approve", "commit"}
      <4>1. ~item[v.item].draft \/ ~item[v.item].live \/ Changed(e, v.item)
        BY <3>0, <3>2 DEF NoDraftBut
      <4>2. CASE Changed(e, v.item)
        BY <1>n, <1>s, <1>v, <3>0, <3>2, <4>2
      <4>3. CASE item'[v.item] = item[v.item]
        BY <4>1, <4>2, <4>3
      <4>4. CASE item'[v.item] # item[v.item] /\ item'[v.item].live
        <5>1. pc[c] = "write_item" /\ call[c].op = "updateClothes" /\ call[c].item = v.item
          BY <1>d, <3>0, <4>4
        <5>2. e # c
          BY <3>2, <5>1
        <5> QED
          BY <1>s, <1>x, <3>2, <5>1, <5>2
      <4> QED
        BY <4>3, <4>4
    <3>3. pc[e] = "drafts" => e = c
      BY <1>2, <1>n
    <3> QED
      BY <2>0, <3>1, <3>2, <3>3
  <2> QED
    BY <2>2, <2>3
<1> QED
  BY <1>1, <1>2 DEF NoDraftBut

(* What getDetailUnitPrice read stays, but for what overlaps. *)
LEMMA CurrentStays ==
  ASSUME TypeOK, TypeOK', Requests, Requests', Inserted, Together, NEW c \in Calls, Evolves(c),
         CurrentBut
  PROVE  CurrentBut'
<1>e. CallsEvolve(c)
  BY DEF Evolves
<1>n. /\ \A d \in Calls : pc[d] \in Steps => call'[d] = call[d]
      /\ \A d \in Calls : d # c => pc'[d] = pc[d] /\ lines'[d] = lines[d]
      /\ \A d \in Calls, v \in Variants : Repriced(d, v) => Repriced(d, v)'
  BY <1>e, NothingForgotten, ExcusesStay DEF CallsEvolve
<1>s. /\ {"write_item", "write_extra", "price", "save_quote"} \subseteq Steps
      /\ "ok" \notin {"idle"} \cup Steps
  BY DEF Steps
<1>x. ASSUME NEW e \in Calls, e # c, pc[e] \in Steps, pc[c] \in Steps, NEW v,
             \/ call[c].op = "updateClothes" /\ call[c].item = v.item
             \/ call[c].op = "updateVariant" /\ v \in call[c].variants
      PROVE  Repriced(e, v)'
  <2>1. Overlap(e, c)' /\ call'[c] = call[c]
    BY <1>e, <1>x, StepsTogether
  <2> QED
    BY <1>x, <2>1 DEF Repriced
<1>1. ASSUME NEW v \in DOMAIN variant, v \in DOMAIN variant'
      PROVE  \/ variant'[v] = variant[v]
             \/ pc[c] = "write_extra" /\ call[c].op = "updateVariant" /\ v \in call[c].variants
  BY <1>1 DEF Evolves, VariantsEvolve, Requests, RequestFits
<1>2. ASSUME NEW i \in DOMAIN item
      PROVE  \/ item'[i].price = item[i].price
             \/ pc[c] = "write_item" /\ call[c].op = "updateClothes" /\ call[c].item = i
  BY <1>2 DEF Evolves, ItemsEvolve, Requests, RequestFits
<1>u. pc'[c] \in {"price", "save_quote"} => variant' = variant /\ item' = item
  <2>1. pc[c] = "idle" => UNCHANGED clothesVars
    BY DEF Evolves, CallsEvolve
  <2>2. pc[c] \in Steps /\ pc'[c] \in {"price", "save_quote"} => UNCHANGED clothesVars
    BY <1>s DEF Evolves, Arrivals
  <2> QED
    BY <1>e, <2>1, <2>2 DEF CallsEvolve, clothesVars
<1> SUFFICES ASSUME NEW e \in Calls, NEW v \in DOMAIN lines'[e], v \in DOMAIN variant'
             PROVE  /\ pc'[e] = "price" => lines'[e][v] = variant'[v] \/ Repriced(e, v)'
                    /\ pc'[e] = "save_quote" =>
                         lines'[e][v] = variant'[v] + item'[v.item].price \/ Repriced(e, v)'
  BY DEF CurrentBut
<1>t. v \in Variants
  BY DEF TypeOK, Table
<1>3. CASE e = c
  <2>1. pc'[c] = "price" => lines'[c][v] = variant'[v]
    BY <1>3, <1>u DEF Evolves, Arrivals
  <2>2. ASSUME pc'[c] = "save_quote"
        PROVE  lines'[c][v] = variant'[v] + item'[v.item].price \/ Repriced(c, v)'
    <3>1. /\ pc[c] = "price" /\ v \in DOMAIN lines[c]
          /\ lines'[c][v] = lines[c][v] + item[v.item].price
      BY <1>3, <2>2 DEF Evolves, Arrivals
    <3>2. variant' = variant /\ item' = item
      BY <1>u, <2>2
    <3>3. lines[c][v] = variant[v] \/ Repriced(c, v)
      BY <3>1, <3>2 DEF CurrentBut
    <3> QED
      BY <1>n, <1>t, <3>1, <3>2, <3>3
  <2> QED
    BY <1>3, <2>1, <2>2
<1>4. CASE e # c
  <2>1. pc'[e] = pc[e] /\ lines'[e] = lines[e]
    BY <1>n, <1>4
  <2>2. v \in DOMAIN variant
    <3>1. SUFFICES ASSUME v \notin DOMAIN variant PROVE FALSE
      OBVIOUS
    <3>2. v.by = c
      BY <3>1 DEF Evolves, VariantsEvolve
    <3>3. pc[c] = "ok"
      BY <2>1, <3>2 DEF Inserted
    <3> QED
      BY <1>e, <1>s, <3>3 DEF CallsEvolve
  <2>3. v.item \in DOMAIN item
    BY <2>2 DEF TypeOK
  <2>4. CASE Repriced(e, v)
    BY <1>n, <1>t, <2>4
  <2>5. CASE pc[e] \in {"price", "save_quote"} /\ variant'[v] # variant[v]
    BY <1>1, <1>4, <1>s, <1>x, <2>2, <2>5
  <2>6. CASE pc[e] \in {"price", "save_quote"} /\ item'[v.item].price # item[v.item].price
    BY <1>2, <1>4, <1>s, <1>x, <2>3, <2>6
  <2>7. CASE /\ ~Repriced(e, v) /\ variant'[v] = variant[v]
             /\ item'[v.item].price = item[v.item].price
    <3>1. /\ pc[e] = "price" => lines[e][v] = variant[v]
          /\ pc[e] = "save_quote" => lines[e][v] = variant[v] + item[v.item].price
      BY <2>1, <2>2, <2>7 DEF CurrentBut
    <3> QED
      BY <2>1, <2>7, <3>1
  <2> QED
    BY <2>1, <2>4, <2>5, <2>6, <2>7
<1> QED
  BY <1>3, <1>4
-----------------------------------------------------------------------------
(* The inductive step. *)
LEMMA StepKeepsIInv ==
  ASSUME IInv, [Next]_vars
  PROVE  IInv'
<1>1. CASE UNCHANGED vars
  <2>1. /\ item' = item /\ variant' = variant /\ quote' = quote /\ details' = details
        /\ priced' = priced /\ savedBy' = savedBy /\ call' = call /\ lines' = lines
        /\ overlapped' = overlapped /\ pc' = pc
    BY <1>1 DEF vars, clothesVars, quoteVars, callVars
  <2>2. TypeOK' /\ Inserted' /\ Together'
    BY <2>1 DEF IInv, TypeOK, Inserted, Together, Overlap
  <2>3. Requests'
    BY <2>1 DEF IInv, Requests, RequestFits
  <2>4. NoVariantBut' /\ OneVariantPerCombination'
    BY <2>1 DEF IInv, NoVariantBut, OneVariantPerCombination, Overlap
  <2>5. NoDetailBut'
    BY <2>1 DEF IInv, NoDetailBut, Overlap
  <2>6. LinesLostToOverlap'
    <3>1. LinesLostToOverlap
      BY DEF IInv
    <3> QED
      BY <2>1, <3>1, Zenon DEF LinesLostToOverlap, Overlap
  <2>7. ItemsThereBut' /\ ActiveQuotesHaveItems' /\ ItemsHaveTheirVariants'
    <3>1. \A q, i : Excused(q, i) => Excused(q, i)'
      BY <2>1 DEF Excused, Overlap
    <3>2. ItemsThereBut'
      BY <2>1, <3>1 DEF IInv, ItemsThereBut
    <3>3. ActiveQuotesHaveItems'
      <4> SUFFICES ASSUME NEW q \in DOMAIN quote', quote'[q].live,
                          quote'[q].status \in {"PENDING", "APPROVED"},
                          NEW v \in DOMAIN details'[q], ~item'[v.item].live
                   PROVE  Excused(q, v.item)'
        BY DEF ActiveQuotesHaveItems, Excused
      <4>1. Excused(q, v.item)
        BY <2>1 DEF IInv, ActiveQuotesHaveItems, Excused
      <4> QED
        BY <3>1, <4>1
    <3>4. ItemsHaveTheirVariants'
      BY <2>1 DEF IInv, ItemsHaveTheirVariants
    <3> QED
      BY <3>2, <3>3, <3>4
  <2>8. NoDraftBut'
    <3>1. \A d \in Calls : \A i : Changed(d, i) => Changed(d, i)'
      BY <2>1 DEF Changed, Overlap
    <3> QED
      BY <2>1, <3>1 DEF IInv, NoDraftBut
  <2>9. CurrentBut'
    BY <2>1 DEF IInv, CurrentBut, Repriced, Overlap
  <2> QED
    BY <2>2, <2>3, <2>4, <2>5, <2>6, <2>7, <2>8, <2>9 DEF IInv
<1>2. ASSUME NEW c \in Calls, Start(c) \/ Continue(c) \/ Fail(c)
      PROVE  IInv'
  <2>1. TypeOK' /\ Requests' /\ Together' /\ Evolves(c)
    BY <1>2, StepGood DEF IInv, Good
  <2>2. Inserted'
    BY <2>1, InsertedStays DEF IInv
  <2>3. NoVariantBut' /\ OneVariantPerCombination'
    BY <2>1, VariantsStay DEF IInv
  <2>4. NoDetailBut' /\ LinesLostToOverlap'
    BY <2>1, DetailsStay DEF IInv
  <2>5. ItemsThereBut' /\ ActiveQuotesHaveItems'
    BY <2>1, ItemsStay DEF IInv
  <2>6. ItemsHaveTheirVariants'
    BY <2>1, CreatedVariantsStay DEF IInv
  <2>7. NoDraftBut'
    BY <2>1, NoDraftStays DEF IInv
  <2>8. CurrentBut'
    BY <2>1, CurrentStays DEF IInv
  <2> QED
    BY <2>1, <2>2, <2>3, <2>4, <2>5, <2>6, <2>7, <2>8 DEF IInv
<1> QED
  BY <1>1, <1>2 DEF Next

(* The initial states: one item with its variant, and a quote on it. *)
LEMMA InitIInv == Init => IInv
<1> SUFFICES ASSUME Init PROVE IInv
  OBVIOUS
<1> USE CatalogAssumption
<1>1. PICK draft \in BOOLEAN : item = [i \in {Seed} |-> NewItem(draft)]
  BY DEF Init
<1>2. /\ variant = [v \in {SeedVariant} |-> NewExtra]
      /\ quote = [q \in {Seed} |-> NewQuote]
      /\ details = [q \in {Seed} |-> [v \in {SeedVariant} |-> NewPrice + NewExtra]]
      /\ priced = [q \in {Seed} |-> details[q]]
      /\ savedBy = [q \in {Seed} |-> Seed]
      /\ call = [c \in Calls |-> NoRequest]
      /\ pc = [c \in Calls |-> "idle"]
      /\ lines = [c \in Calls |-> Empty]
      /\ overlapped = {}
  BY DEF Init
<1>3. /\ SeedVariant \in Variants /\ SeedVariant.item = Seed /\ SeedVariant.by = Seed
      /\ NewItem(draft) \in Item /\ NewItem(draft).live /\ NewQuote \in Quote
      /\ NoRequest \in Request /\ NoRequest.op = "none" /\ NoRequest.combos = {}
      /\ Seed \in Names
  BY DEF SeedVariant, Variants, Names, NewItem, Item, NewQuote, Quote, Statuses, NoRequest, Request
<1>4. "idle" \notin Steps
  BY DEF Steps
<1>5. TypeOK
  <2>1. IsLines(Empty) /\ IsLines([v \in {SeedVariant} |-> NewPrice + NewExtra])
    <3>1. NewPrice + NewExtra \in Nat
      OBVIOUS
    <3>2. IsLines(Empty)
      BY DEF IsLines, Table, Empty
    <3>3. \A n \in Nat : IsLines([v \in {SeedVariant} |-> n])
      BY <1>3 DEF IsLines, Table
    <3> QED
      BY <3>1, <3>2, <3>3
  <2>2. /\ Table(item, Names, Item) /\ Table(variant, Variants, Extras)
        /\ \A v \in DOMAIN variant : v.item \in DOMAIN item
        /\ Table(quote, Names, Quote)
    BY <1>1, <1>2, <1>3 DEF Table
  <2>3. /\ IsFunction(details, DOMAIN quote) /\ IsFunction(priced, DOMAIN quote)
        /\ savedBy \in [DOMAIN quote -> Names]
        /\ \A q \in DOMAIN quote :
             /\ IsLines(details[q]) /\ IsLines(priced[q])
             /\ DOMAIN details[q] \subseteq DOMAIN variant
    BY <1>2, <1>3, <2>1 DEF IsFunction
  <2>4. /\ call \in [Calls -> Request]
        /\ pc \in [Calls -> {"idle"} \cup Steps \cup Outcomes]
        /\ IsFunction(lines, Calls)
        /\ \A c \in Calls : IsLines(lines[c])
        /\ overlapped \subseteq SUBSET Calls
    BY <1>2, <1>3, <2>1 DEF IsFunction
  <2> QED
    BY <2>2, <2>3, <2>4 DEF TypeOK
<1>6. Requests
  <2>1. \A c \in Calls : pc[c] = "idle" /\ call[c] = NoRequest
    BY <1>2
  <2> QED
    BY <1>3, <2>1 DEF Requests, RequestFits, QuoteOps
<1>7. Inserted
  BY <1>1, <1>2, <1>3 DEF Inserted, Empty
<1>8. Together /\ NoVariantBut /\ NoDetailBut
  BY <1>2, <1>4 DEF Together, NoVariantBut, NoDetailBut
<1>9. OneVariantPerCombination
  BY <1>2 DEF OneVariantPerCombination
<1>10. LinesLostToOverlap
  BY <1>2 DEF LinesLostToOverlap
<1>11. ItemsThereBut /\ ActiveQuotesHaveItems
  BY <1>1, <1>2, <1>3 DEF ItemsThereBut, ActiveQuotesHaveItems
<1>12. ItemsHaveTheirVariants
  BY <1>2, <1>3 DEF ItemsHaveTheirVariants
<1>13. NoDraftBut /\ CurrentBut
  BY <1>2 DEF NoDraftBut, CurrentBut, Empty
<1> QED
  BY <1>5, <1>6, <1>7, <1>8, <1>9, <1>10, <1>11, <1>12, <1>13 DEF IInv

(* Types, foreign keys, and what every check of the code still implies at  *)
(* each later step of the call that made it.                               *)
THEOREM CatalogInvariant == Spec => []IInv
BY InitIInv, StepKeepsIInv, PTL DEF Spec

(* Every row and every call has its type, and every foreign key its row.   *)
THEOREM TypesHold == Spec => []TypeOK
<1>1. IInv => TypeOK
  BY DEF IInv
<1> QED
  BY <1>1, CatalogInvariant, PTL

(* addVariantToClothes' check keeps a second variant of a size and gender  *)
(* out, unless the calls that insert the two overlap.                      *)
THEOREM OneVariantUnlessOverlap == Spec => []OneVariantPerCombination
<1>1. IInv => OneVariantPerCombination
  BY DEF IInv
<1> QED
  BY <1>1, CatalogInvariant, PTL

(* A total counts a line that is gone only after a deleteVariant that      *)
(* overlapped the call which priced the line.                              *)
THEOREM LinesLostOnlyToOverlap == Spec => []LinesLostToOverlap
<1>1. IInv => LinesLostToOverlap
  BY DEF IInv
<1> QED
  BY <1>1, CatalogInvariant, PTL

(* deleteClothes takes the item of a pending or approved quote only if it  *)
(* overlapped a call about that quote.                                     *)
THEOREM ItemsStayUnlessOverlap == Spec => []ActiveQuotesHaveItems
<1>1. IInv => ActiveQuotesHaveItems
  BY DEF IInv
<1> QED
  BY <1>1, CatalogInvariant, PTL

(* An item has the variants it was created with, but for a draft cut short *)
(* and for the variants that were deleted.                                 *)
THEOREM ItemsGetTheirVariants == Spec => []ItemsHaveTheirVariants
<1>1. IInv => ItemsHaveTheirVariants
  BY DEF IInv
<1> QED
  BY <1>1, CatalogInvariant, PTL
(* An order is placed on a draft only if the item was updated, or the      *)
(* quote edited, while createOrder was under way, or the item is deleted.  *)
THEOREM NoOrderOnDraftHolds == Spec => NoOrderOnDraft
<1>1. IInv /\ [Next]_vars =>
        [\A c \in Calls :
           (call[c].op = "createOrder" /\ pc[c] # "ok" /\ pc'[c] = "ok") =>
             \A v \in DOMAIN details[call[c].quote] :
               \/ ~item[v.item].draft
               \/ ~item[v.item].live
               \/ \E d \in Calls :
                    /\ Overlap(c, d)
                    /\ \/ call[d].op = "updateClothes" /\ call[d].item = v.item
                       \/ call[d].op = "updateQuote" /\ call[d].quote = call[c].quote]_vars
  <2> SUFFICES ASSUME IInv, Next,
                      NEW c \in Calls, call[c].op = "createOrder", pc[c] # "ok", pc'[c] = "ok",
                      NEW v \in DOMAIN details[call[c].quote]
               PROVE  ~item[v.item].draft \/ ~item[v.item].live \/ Changed(c, v.item)
    BY DEF Changed
  <2>1. PICK e \in Calls : Start(e) \/ Continue(e) \/ Fail(e)
    BY DEF Next, vars
  <2>2. Evolves(e) /\ Requests
    BY <2>1, StepGood DEF IInv, Good
  <2>3. e = c
    BY <2>2 DEF Evolves, CallsEvolve
  <2>4. pc[c] = "commit"
    <3>1. pc[c] \in {"drafts", "status", "approve", "commit"}
      BY <2>2, <2>3 DEF Evolves, Arrivals, Requests, RequestFits, Steps
    <3> QED
      BY <2>2, <2>3, <3>1 DEF Evolves, Arrivals
  <2> QED
    BY <2>4 DEF IInv, NoDraftBut
<1> QED
  BY <1>1, CatalogInvariant, PTL DEF Spec, NoOrderOnDraft

(* A quote is saved at prices that were those of its variants and items at *)
(* some time since the call began, unless an update of them overlapped it. *)
THEOREM SavedAtCurrentPricesHolds == Spec => SavedAtCurrentPrices
<1>1. IInv /\ [Next]_vars =>
        [\A c \in Calls :
           (call[c].op \in {"createQuote", "updateQuote"} /\ pc[c] # "ok" /\ pc'[c] = "ok") =>
             \A v \in DOMAIN details'[call[c].quote] :
               \/ details'[call[c].quote][v] = variant[v] + item[v.item].price
               \/ \E d \in Calls :
                    /\ Overlap(c, d)
                    /\ \/ call[d].op = "updateClothes" /\ call[d].item = v.item
                       \/ call[d].op = "updateVariant" /\ v \in call[d].variants]_vars
  <2> SUFFICES ASSUME IInv, Next,
                      NEW c \in Calls, call[c].op \in {"createQuote", "updateQuote"},
                      pc[c] # "ok", pc'[c] = "ok",
                      NEW v \in DOMAIN details'[call[c].quote]
               PROVE  \/ details'[call[c].quote][v] = variant[v] + item[v.item].price
                      \/ Repriced(c, v)
    BY DEF Repriced
  <2>1. PICK e \in Calls : Start(e) \/ Continue(e) \/ Fail(e)
    BY DEF Next, vars
  <2>2. Evolves(e) /\ Requests /\ TypeOK'
    BY <2>1, StepGood DEF IInv, Good
  <2>3. e = c
    BY <2>2 DEF Evolves, CallsEvolve
  <2>4. pc[c] = "save_quote"
    <3>1. pc[c] \in {"variants", "price", "save_quote"}
      BY <2>2, <2>3 DEF Evolves, Arrivals, Requests, RequestFits, Steps
    <3> QED
      BY <2>2, <2>3, <3>1 DEF Evolves, Arrivals
  <2>5. Saves(c, call[c].quote)
    BY <2>2, <2>3, <2>4 DEF Evolves, QuotesEvolve
  <2>6. call[c].quote \in DOMAIN quote'
    BY <2>5 DEF Saves
  <2>7. v \in DOMAIN lines[c] /\ v \in DOMAIN variant
    BY <2>2, <2>5, <2>6 DEF Saves, TypeOK, clothesVars
  <2> QED
    BY <2>4, <2>5, <2>7 DEF Saves, IInv, CurrentBut
<1> QED
  BY <1>1, CatalogInvariant, PTL DEF Spec, SavedAtCurrentPrices
=============================================================================
