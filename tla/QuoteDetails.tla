---------------------------- MODULE QuoteDetails -----------------------------
(***************************************************************************)
(* What a quote says: the lines a client asks for, the details and the     *)
(* total that createQuote and updateQuote make of them, and what the       *)
(* listings of quotes and orders show.  A request may name one variant in  *)
(* two lines: updateQuote refuses that, createQuote does not.              *)
(*                                                                         *)
(* Each call is a single step here: QuoteOrder and Catalog have the        *)
(* overlap of calls, and prices that change.                               *)
(***************************************************************************)
EXTENDS FiniteSetsExt, SequencesExt

CONSTANTS
  Quotes,          \* keys of quotes
  Variants,        \* clothes variants of the tenant
  ItemOf,          \* the clothes item of each
  Price,           \* its price: that of the item, and what the variant adds
  Quantities,      \* what the quantity of a line may be
  Customizations,  \* how many customizations a line may have
  MaxLines,        \* bound on the lines of a request
  MaxMoney         \* what the columns decimal(10, 2) can hold

ASSUME QuoteDetailsAssumption ==
  /\ Price \in [Variants -> Nat \ {0}]
  /\ Quantities \subseteq Nat \ {0}
  /\ Customizations \subseteq Nat /\ 0 \in Customizations
  /\ MaxLines \in Nat /\ MaxMoney \in Nat

VARIABLES
  quote,    \* rows of quote, and "none" for those not inserted
  details,  \* rows of quote_detail of each quote
  ordered,  \* the total of the order on each quote, 0 without one
  asked     \* history: the lines each quote was last saved for

vars == <<quote, details, ordered, asked>>

(* A line of a request: QuoteDetailDTO. *)
Lines == [variant : Variants, quantity : Quantities, customizations : Customizations]

Detail == [variant : Variants, unitPrice : Nat, quantity : Quantities,
           customizations : Customizations]

Requests == SeqOf(Lines, MaxLines)

Status == {"none", "PENDING", "APPROVED", "CANCELLED"}

Init ==
  /\ quote = [q \in Quotes |-> [status |-> "none", total |-> 0, live |-> FALSE]]
  /\ details = [q \in Quotes |-> {}]
  /\ ordered = [q \in Quotes |-> 0]
  /\ asked = [q \in Quotes |-> <<>>]
-----------------------------------------------------------------------------
VariantsIn(lines) == {line.variant : line \in ToSet(lines)}

(* Mutant of validateCustomizations: it looks at the first line only. *)
validateCustomizationsHead(lines) ==
  lines # <<>> => Head(lines).customizations <= Head(lines).quantity

(* No line has more customizations than pieces. *)
validateCustomizations(lines) ==
  \A line \in ToSet(lines) : line.customizations <= line.quantity

(* Mutant of validateNoDuplicateVariants: only neighbours are compared. *)
validateNoDuplicateVariantsNext(lines) ==
  \A n \in 1..(Len(lines) - 1) : lines[n].variant # lines[n + 1].variant

validateNoDuplicateVariants(lines) == Len(lines) = Cardinality(VariantsIn(lines))

(* getDetailUnitPrice: one entry per variant; a Map keeps the last         *)
(* quantity that is set for a key.                                         *)
Priced(v, lines) ==
  [variant |-> v, unitPrice |-> Price[v],
   quantity |-> lines[SelectLastInSeq(lines, LAMBDA line : line.variant = v)].quantity]

Prices(lines) == {Priced(v, lines) : v \in VariantsIn(lines)}

(* Mutant of calculateTotal: quantities are ignored. *)
calculateTotalSingle(prices) == SumFunction([p \in prices |-> p.unitPrice])

calculateTotal(prices) == SumFunction([p \in prices |-> p.unitPrice * p.quantity])

(* find keeps the customizations of the first line of the variant. *)
Customized(p, lines) ==
  LET first == SelectInSeq(lines, LAMBDA line : line.variant = p.variant) IN
  [variant |-> p.variant, unitPrice |-> p.unitPrice, quantity |-> p.quantity,
   customizations |-> lines[first].customizations]

(* Mutant of Save: totals have no bound. *)
SaveUnbounded(q, lines) ==
  /\ quote' = [quote EXCEPT ![q] = [status |-> "PENDING", total |-> calculateTotal(Prices(lines)),
                                    live |-> TRUE]]
  /\ details' = [details EXCEPT ![q] = {Customized(p, lines) : p \in Prices(lines)}]
  /\ asked' = [asked EXCEPT ![q] = lines]
  /\ UNCHANGED ordered

(* What both calls write in one transaction, which fails as a whole when   *)
(* the total does not fit its column.                                      *)
Save(q, lines) ==
  LET total == calculateTotal(Prices(lines)) IN
  /\ total <= MaxMoney
  /\ quote' = [quote EXCEPT ![q] = [status |-> "PENDING", total |-> total, live |-> TRUE]]
  /\ details' = [details EXCEPT ![q] = {Customized(p, lines) : p \in Prices(lines)}]
  /\ asked' = [asked EXCEPT ![q] = lines]
  /\ UNCHANGED ordered

(* No variants are found for a request without lines. *)
CreateQuote(q, lines) ==
  /\ quote[q].status = "none"
  /\ lines # <<>> /\ validateCustomizations(lines)
  /\ Save(q, lines)

Pending(q) == quote[q].live /\ quote[q].status = "PENDING"

UpdateQuote(q, lines) ==
  /\ Pending(q)
  /\ lines # <<>> /\ validateCustomizations(lines) /\ validateNoDuplicateVariants(lines)
  /\ Save(q, lines)

CancelQuote(q) ==
  /\ Pending(q)
  /\ quote' = [quote EXCEPT ![q].status = "CANCELLED"]
  /\ UNCHANGED <<details, ordered, asked>>

(* Mutant of DeleteQuote: an approved quote is deleted as well. *)
DeleteQuoteApproved(q) ==
  /\ quote[q].live
  /\ quote' = [quote EXCEPT ![q].live = FALSE]
  /\ UNCHANGED <<details, ordered, asked>>

(* A soft delete: the details stay. *)
DeleteQuote(q) ==
  /\ quote[q].live /\ quote[q].status # "APPROVED"
  /\ quote' = [quote EXCEPT ![q].live = FALSE]
  /\ UNCHANGED <<details, ordered, asked>>

(* createOrder copies the total and approves the quote. *)
CreateOrder(q) ==
  /\ Pending(q)
  /\ ordered' = [ordered EXCEPT ![q] = quote[q].total]
  /\ quote' = [quote EXCEPT ![q].status = "APPROVED"]
  /\ UNCHANGED <<details, asked>>

Finished(q) ==
  \/ quote[q].status = "APPROVED"
  \/ quote[q].status # "none" /\ ~quote[q].live

Next ==
  \/ \E q \in Quotes, lines \in Requests : CreateQuote(q, lines) \/ UpdateQuote(q, lines)
  \/ \E q \in Quotes : CancelQuote(q) \/ DeleteQuote(q) \/ CreateOrder(q)
  \/ (\A q \in Quotes : Finished(q)) /\ UNCHANGED vars

Spec == Init /\ [][Next]_vars
-----------------------------------------------------------------------------
(* Mutant of Goods: variants are counted for garments. *)
GoodsVariants(rows) ==
  [totalClothes |-> Cardinality({d.variant : d \in rows}),
   totalUnitsToProduced |-> SumFunction([d \in rows |-> d.quantity])]

(* COUNT(DISTINCT clothes_id) and SUM(quantity) of detail rows. *)
Goods(rows) ==
  [totalClothes |-> Cardinality({ItemOf[d.variant] : d \in rows}),
   totalUnitsToProduced |-> SumFunction([d \in rows |-> d.quantity])]

(* fetchQuotes: the sums over the details of a quote beside its total. *)
QuoteSummary(q) == [total |-> quote[q].total, goods |-> Goods(details[q])]

(* fetchOrders: the order's own total, and what the join with its quote    *)
(* finds, which leaves deleted quotes out.                                 *)
OrderSummary(q) ==
  [total |-> ordered[q], goods |-> Goods(IF quote[q].live THEN details[q] ELSE {})]
-----------------------------------------------------------------------------
(* Type invariant. *)
TypeOK ==
  /\ quote \in [Quotes -> [status : Status, total : 0..MaxMoney, live : BOOLEAN]]
  /\ details \in [Quotes -> SUBSET Detail]
  /\ ordered \in [Quotes -> 0..MaxMoney]
  /\ asked \in [Quotes -> Requests]

Saved == {q \in Quotes : quote[q].status # "none"}

(* The lines of a request, each on its own. *)
RequestedTotal(lines) ==
  SumFunction([n \in DOMAIN lines |-> Price[lines[n].variant] * lines[n].quantity])
RequestedUnits(lines) == SumFunction([n \in DOMAIN lines |-> lines[n].quantity])

Repeats(lines) == \E m, n \in DOMAIN lines : m # n /\ lines[m].variant = lines[n].variant

(* The client is never charged more than the lines it asked for cost, and  *)
(* less exactly when a variant was in two of them: all but the last are    *)
(* dropped by createQuote.                                                 *)
ChargedAsRequested ==
  \A q \in Saved :
    LET cost == RequestedTotal(asked[q]) IN
    IF Repeats(asked[q]) THEN quote[q].total < cost ELSE quote[q].total = cost

(* The listing of quotes shows the garments that were asked for, and all   *)
(* units of them unless a variant was in two lines; what it shows is what  *)
(* the total charges.                                                      *)
ListedAsRequested ==
  \A q \in Saved :
    LET goods == QuoteSummary(q).goods
        units == RequestedUnits(asked[q])
    IN /\ goods.totalClothes = Cardinality({ItemOf[v] : v \in VariantsIn(asked[q])})
       /\ goods.totalUnitsToProduced <= units
       /\ goods.totalUnitsToProduced = units <=> ~Repeats(asked[q])
       /\ quote[q].total = SumFunction([d \in details[q] |-> d.unitPrice * d.quantity])

(* No more pieces are customized than there are, unless a variant was in   *)
(* two lines: the quantity then comes from the last of them and the        *)
(* customizations from the first, and only each was checked with its own.  *)
CustomizationsFitStored ==
  \A q \in Saved : \A d \in details[q] :
    d.customizations > d.quantity => Repeats(asked[q])

(* An order is listed with the goods and at the total of its quote, from   *)
(* then on.                                                                *)
OrdersListedAsQuoted ==
  \A q \in Quotes : ordered[q] # 0 =>
    /\ OrderSummary(q) = QuoteSummary(q)
    /\ OrderSummary(q).goods.totalUnitsToProduced > 0

(* Who edits a quote gets what was asked for, line by line: an edit leaves *)
(* no trace of lines that were there before, nor drops one of its own.     *)
EditsAreExact ==
  [][\A q \in Quotes :
       (quote[q].live /\ details'[q] # details[q]) =>
          /\ Cardinality(details'[q]) = Len(asked'[q])
          /\ \A n \in DOMAIN asked'[q] : \E d \in details'[q] :
               /\ d.variant = asked'[q][n].variant
               /\ d.quantity = asked'[q][n].quantity
               /\ d.customizations = asked'[q][n].customizations]_vars
=============================================================================
