# Verification of telar-backend-api

TLA+ models of the parts of this API that decide something: quotes and the orders placed on them, what a
quote says and charges, the catalog that quotes price and the images of its items, the set-up of a tenant,
the accounts and names of its people, and the pool of database connections. TLC checks small instances,
TLAPS proves the theorems for every value of the constants. `PROJECT.json` lists the components, the runs,
the mutants, the lines each definition models, the findings, the hazards and the theorems.

Paths below are relative to `src/src/modules/` unless they start with `src/`.

## 1. The system

The API is a stateless NestJS service over PostgreSQL (TypeORM), Cognito and S3. There is no queue, no cache
and no scheduler: all concurrency is between requests, which interleave at every `await`, and between
instances of the service; all shared state is in the database, in Cognito and in S3. PostgreSQL runs at READ
COMMITTED, no row is read `FOR UPDATE`, there is no version column, and TypeORM's `update`/`softDelete`
match by the given columns only. Each operation therefore is a sequence of statements, and what it has read
may be stale when it writes.

| Component | State | Operations | Interacts with | What is hard | What makes it correct |
|---|---|---|---|---|---|
| Quotes (`quote/`) | rows `quote` (status, total, deletedAt) and `quote_detail` | createQuote, updateQuote, cancelQuote, deleteQuote, updateStatus | pricing reads the catalog; createOrder calls updateStatus | status checked in one statement and written in another; delete-and-insert of details; row locks | an approved quote stays as it was approved; the total is that of the details; cancelled is final |
| Quote details and pricing (`quote/`, `order/`) | rows `quote_detail`; the summaries computed from them | getDetailUnitPrice, calculateTotal, the two validations, the listings of quotes and orders | catalog prices | repeated variants; a total that its column cannot hold; sums through joins | the client gets and is charged what it asked for |
| Orders (`order/`) | rows `order` (quote, total, status, reason, deletedAt), `address` | createOrder, updateOrderStatus, cancelOrder, deleteOrder | Quotes, catalog (drafts), connection pool | a transaction that calls a service which writes outside it; stale totals; check-then-write of the status | at most one order per quote, at its price; finished orders stay finished |
| Database connections (`src/src/core/config/env/typeorm.config.ts`) | the pool of the data source | every repository statement and query runner | all | a call that holds one connection and waits for another, without a time limit | no leak; calls get their connections |
| Tenant setup (`tenant/`, `employee/`, `auth/services/cognito.service.ts`) | rows `tenant`, `employee.tenantId`, the Cognito attribute `custom:tenant_id` | createTenant | Employee, Cognito | two systems without a common transaction; retries and double submissions; a write that applies and reports an error; death of the process | an owner gets one workspace; database and Cognito agree; a rollback leaves nothing |
| Provisioning (`auth/services/auth.service.ts`) | Cognito users and groups, rows `employee` | createOwner, createEmployee | Cognito, Employee | compensation that may fail; sign-up twice | no login without an employee and no employee without a login |
| Employee administration (`admin/`) | `employee.isActive`, Cognito enabled flag and groups | deleteEmployee (disable), reactivateEmployee, updateEmployeeRole, revokeEmployeeRole | Cognito, Employee | Cognito first, row second, undone by the opposite call; overlap of opposite operations | flag and Cognito agree; the owner is never disabled |
| Employee profile (`employee/`) | names in `employee` and in Cognito | updateMe | Cognito | row first, Cognito second; a rollback to what was read before, in both fields; a reread outside the rollback; empty names | the two copies agree; no answered update is lost |
| Catalog (`clothes/services/clothes.service.ts`, `clothes-variants.service.ts`) | rows `clothes`, `clothes_variant` | createClothe, createDraftClothe, updateClothes, deleteClothes, add/update/deleteVariant | Quotes (references, prices, drafts) | reference checks before deletes; `ON DELETE CASCADE` of quote details; two statements without a transaction | one variant per size and gender; what a quote refers to is not deleted |
| Images (`clothes/services/clothes-images.service.ts`, `storage/`) | rows `clothe_image`, objects in S3, presigned URLs | images of a new item, addNewImagesToClothes, deleteImageFromClothes; uploads of the client | S3, the client | item, rows and objects without a common transaction; object first, row second; uploads at any later time | an image shown has its object; an object has a row that can delete it |
| Customers, searches, guards, JWT, seeder, validators, config | - | single statements, queries, pure functions | - | nothing that interleaves | not modelled, see section 8 |

## 2. Modules

| Module | What it is |
|---|---|
| `QuoteOrder` | Quotes and orders, statement by statement, with its properties and mutants |
| `QuoteLifecycle` | The abstract specification: every call a single step |
| `QuoteOrderRefinement` | The committed rows of `QuoteOrder` as the rows of `QuoteLifecycle` |
| `MCQuoteOrder` | Sets of operations and symmetry for TLC |
| `QuoteOrderProofs` | The theorems of these |
| `Catalog`, `MCCatalog`, `CatalogProofs` | Items and variants, and the quotes and orders that rest on them |
| `TenantSetup`, `MCTenantSetup`, `TenantSetupProofs` | createTenant over the database and Cognito |
| `EmployeeAccounts`, `MCEmployeeAccounts`, `EmployeeAccountsProofs` | Accounts of people: registration, creation, disable, reactivate, roles, over Cognito and the database |
| `Profile`, `MCProfile`, `ProfileProofs` | updateMe: the names of an employee in the row and in Cognito |
| `Images`, `MCImages`, `ImagesProofs` | Rows, objects and presigned URLs of images |
| `QuoteDetails`, `MCQuoteDetails`, `QuoteDetailsProofs` | Lines, details, totals and listings as functions of what was asked |
| `ConnectionPool`, `MCConnectionPool`, `ConnectionPoolProofs` | The pool and the calls that share it |

An operator whose comment starts with "Mutant" is no part of a specification: it is a plausible bug in the
operator after it, and some property of a run is violated when it takes that operator's place.

### 2.1 QuoteOrder

*State.* `quote` and `details` are the committed rows; `lock[q]` is the transaction that has updated row `q`
and not ended (only updateQuote and deleteQuote update a quote inside a transaction); `order[r]` is the row
that createOrder `r` inserts, `open` until its commit; `req[r]` is a request: its operation, a program
counter, and what it has read. A quote's details are named after the call that inserted them, because all
that matters of them is which list of details they belong to and what it adds up to. A total is a member of
`Totals`; a list of details cannot be empty (`getClothesVariantsByIdsArray` refuses it) and a price is at
least 1.

*Actions.* One per awaited statement that another request can influence or observe:

| Operation | Actions | Why these |
|---|---|---|
| createQuote | `CreateQuote` | all its writes share one transaction on a fresh key; a failure leaves nothing |
| createOrder | `CreateOrder`, `InsertOrder`, `ApproveRead`, `ApproveWrite`, `ApproveReread`, `CommitOrder` | the read of the quote, the draft check and the inserts, the three statements of `quoteService.updateStatus` outside the transaction, the commit |
| updateQuote | `UpdateQuote`, `EditDelete`, `EditWait`, `EditTotal`, `EditCommit` | the check, the snapshot of the DELETE, its wait for other transactions, the UPDATE that takes the row lock, insert and commit |
| cancelQuote | `CancelQuote`, `CancelWrite` | check and write |
| deleteQuote | `DeleteQuote`, `RemoveWrite`, `RemoveCommit` | read without a lock, UPDATE that takes it, commit |
| order operations | `UpdateOrderStatus`/`StatusWrite`, `CancelOrder`/`ReasonWrite`, `DeleteOrder`/`PurgeWrite` | check and write |
| any | `Fail` | a statement fails, the connection is lost or the process dies: the transaction is undone, the rest stays |

`Answer` lets the last write succeed and the call still end with an error (`lost`), because the reread or
the response may fail after it. A write that must wait for a row lock has the lock in its guard.

### 2.2 QuoteLifecycle and the refinement

`QuoteLifecycle` says what the checks of the services are there for: a pending quote is edited, approved,
cancelled or deleted; an approved quote is redeemed by one order at its price; an order ends done or
cancelled and only a cancelled one is deleted. `QuoteOrderRefinement` maps committed rows to it;
`ImplementsLifecycle` is `Lifecycle!Spec`. The abstract specification lets a quote be approved and not
redeemed, because createOrder approves outside its transaction.

### 2.3 Catalog

*State.* `item`, `variant`, `quote` and `details` are the rows of `clothes`, `clothes_variant`, `quote` and
`quote_detail`, functions from the keys that exist; `priced[q]` are the lines that the total of quote `q`
adds up, so `details[q]` and `priced[q]` differ exactly when the total is wrong. An item has a base price,
its draft flag and `live` (`deletedAt` is null); a variant is named after its item, its size and gender, and
the call that inserts it. `call`, `pc` and `lines` are the requests: what they were asked, where they stand,
and the variants and prices they have read. `overlapped` and `savedBy` are history: nothing reads them but
the properties.

| Operation | Actions | Why these |
|---|---|---|
| createClothe | `CreateClothe`, `SaveItem` | item and variants share one transaction |
| createDraftClothe | `CreateDraftClothe`, `SaveDraft`, `SaveDefault` | two saves without a transaction |
| updateClothes | `UpdateClothes`, `WriteItem` | the read, then an update by id that does not ask for `deletedAt` |
| deleteClothes | `DeleteClothes`, `CountReferences`, `RemoveItem` | the read, the count of pending and approved quotes, the soft delete |
| addVariantToClothes | `AddVariant`, `CheckVariant`, `InsertVariant` | the look for the combination and the insert; no unique constraint |
| updateVariant | `UpdateVariant`, `FindVariant`, `WriteExtra` | two reads and the update |
| deleteVariant | `DeleteVariant`, `FindVariant`, `FindDetail`, `DropVariant` | two reads, the look for details, the delete with its cascade |
| createQuote, updateQuote | `CreateQuote` / `UpdateQuote` and `ReadVariants`, `PriceLines`, `SaveQuote` | getDetailUnitPrice reads variants, then items; the transaction follows |
| cancelQuote, deleteQuote | `CancelQuote`, `WriteCancelled`; `DeleteQuote`, `RemoveQuote` | check and write |
| createOrder | `CreateOrder`, `CheckDrafts`, `ReadStatus`, `Approve`, `CommitOrder` | the details it read first, the draft check on them, updateStatus, commit |
| any | `Fail` | a statement fails or the process dies |

`Catalog` sees quotes and orders from the side of the catalog: row locks, two edits of one quote and the
rows of orders are in `QuoteOrder`, and here a quote is edited by one call at a time (`OneEditOf`).

### 2.4 TenantSetup

`tenants`, `assigned` and `claim` are the rows of `tenant`, `employee.tenantId` and the Cognito attribute.
`Save`, `Assign` and `Link` may each apply and still report an error. `Undo` is the catch block:
`clearTenantId` is unreachable in it, since nothing throws after `cognitoUpdated = true`, and deleting the
tenant resets `employee.tenantId` (`ON DELETE SET NULL`). `Die` stops a call for good.

### 2.5 EmployeeAccounts

`user` and `row` are the two halves of an account, the Cognito user (sub, enabled, groups) and the row of
`employee` (sub, isActive); `ours` says that it belongs to the one tenant modelled. `token` is the last
token a person got: it keeps the groups of its login, whatever happens later. `call` holds what a call was
asked and the roles its caller's token named.

| Operation | Actions |
|---|---|
| createOwner | `Register`, then `CreateUser`, `AddGroup`, `InsertRow`; `RemoveUser` undoes |
| createEmployee | `CreateEmployee`, then the same steps |
| deleteEmployee, reactivateEmployee | `ChangeStatus`, `ReadRoles`, `WriteCognito`, `UpdateRow`; `RestoreUser` undoes |
| updateEmployeeRole, revokeEmployeeRole | `ChangeRole`, `ReadRoles`, `WriteCognito` |
| login | `Login` |

A refusal at the start changes nothing, so it is a guard. Every write may apply and still be reported as an
error, every rollback may fail, and `Die` stops a call anywhere. The outcomes tell these apart: `rejected`
wrote nothing, `failed` was undone, `stuck` may have left something.

### 2.6 ConnectionPool

`holder` says who uses each connection: a query runner (`tx`) or a single repository statement. The nested
statements of createOrder (three, in `updateStatus`) and updateQuote (one, after the commit and before
`release()`) ask for a connection while the query runner keeps another. `typeorm.config.ts` sets no pool
size and no time limit, so a wait never ends by itself. The other operations either hold one connection at a
time or one transaction.

### 2.7 Profile

*State.* `row` and `user` are the names of one employee in the table and in Cognito, field by field; a name
is named after the call that gave it, so a property can ask whose name is where. `given` is the DTO of each
call (a field may be left out, and may be the empty string), `original` what the call has read. `earlier` is
history: which calls had ended when a call began, and so which overlap.

| Code | Actions | Why these |
|---|---|---|
| the read of the employee | `UpdateMe` | its names are what a rollback restores |
| updateEmployee | `WriteRow`, `RefuseRow` | an update of the given fields, then a reread that may fail when the update is in place; no `try` surrounds it |
| updateUserAttributes | `WriteCognito`, `RefuseCognito` | sends only names that are not empty; may apply and still report an error |
| the rollback | `Restore` | both fields, whatever the call gave and whatever the row holds by now |
| any | `Stop` | the rollback fails or the process dies |

### 2.8 Images

*State.* `rows` are the keys that rows of `clothe_image` name, `objects` the keys in S3, `item` the items,
named after the calls that insert them; a key is the call that adds it and one of its files, as
`buildTempKey` draws a fresh one. `urls` are the calls whose presigned URLs the client may still use; `base`
is the path of `STORAGE_PUBLIC_URL`, which is fixed at the start. `uploaded`, `tried` and `stray` are
history.

| Operation | Actions | Why these |
|---|---|---|
| createClothes, createDraftClothes | `Create`, `SaveItem`, then `SaveRows` or `RefuseEmpty` | the item is committed before anything is known of its images; without an image the rest is an error |
| addNewImagesToClothes | `AddImages`, then the same | the item is looked for; the rows of one call are one transaction |
| deleteImageFromClothes | `DeleteImage`, `DeleteObject`, `DeleteRow` | the row found, the object deleted whatever S3 says, the row deleted |
| deleteClothes | `DeleteClothes`, `DropItem` | a soft delete, which reaches no image |
| the client, S3 | `Upload`, `Expire` | a file is sent to its URL, once or again, at any time before the URL expires |
| any | `Fail` | a statement or a signature fails, or the process dies |

An image's URL is `base \o key`, and `extractKeyFromUrl` takes the whole path for the key, so the model has
both configurations: with a path in `base`, `DeleteObject` names a key that is no image.

### 2.9 QuoteDetails

The functions of `quote.service.ts` that turn a request into rows, each an operator with the source's name:
`validateCustomizations`, `validateNoDuplicateVariants`, `Prices` (getDetailUnitPrice, whose `Map` keeps the
last quantity of a variant), `calculateTotal`, `Customized` (the `find` that keeps the first
customizations), and `Goods` (the aggregates of the listings). `quote`, `details` and `ordered` are the
rows; `asked` is the request a quote was last saved for, the reference that the properties compare with:
`RequestedTotal` and `RequestedUnits` take each line on its own. Calls are single steps: how they overlap is
in `QuoteOrder` and `Catalog`. `Save` fails as a whole when the total exceeds `MaxMoney`, the column.

## 3. Runs

| Run | Instance | Shows |
|---|---|---|
| `quote_overlap` | 5 calls on 1 quote, 3 in flight, 2 totals | what holds however quote operations overlap and fail |
| `one_at_a_time` | 5 calls on 2 quotes, 1 in flight, 2 totals | without overlap the services implement the lifecycle, with failures between any two statements |
| `calls_end` | 4 calls on 1 quote, all in flight, fairness | nothing waits for ever for a row lock |
| `catalog` | 3 calls beside an item, a variant and a quote on it | what overlapping changes of catalog, quotes and orders can spoil, and what only an overlap can |
| `tenant_setup` | 4 calls, 2 owners | overlap, retry, failure and death of setups |
| `accounts` | 3 calls, the owner and 2 people | what holds however creations, status and role changes overlap, fail and die |
| `pool` | 3 calls, 2 connections, fairness | what a halt needs, and that every call ends otherwise |
| `profile` | 3 updates of one employee | when row and Cognito may differ, and what a rollback may undo |
| `images` | 3 calls, 2 files each, public URL with and without a path | which rows may lose their object and which objects their row |
| `quote_details` | 1 quote, all requests of up to 3 lines on 3 variants of 2 items | what details, total and listings make of a request |
| `two_orders` (violated) | 3 calls on 1 quote | two createOrder calls place two orders on one quote |
| `images_optional` (violated) | one creation, one file | a creation without images, which both DTOs allow, is answered with an error after its item was saved |

*The properties that hold under overlap.* `OrderedQuoteLeftPending` and `OrderedQuoteIsClosed` say what the
order of statements in createOrder is good for: approval comes before the commit, so once an order is
visible, only calls already under way can hurt it. `OrderPricedByCommittedEdit` says an order is never
priced by an edit that was rolled back. `TotalBackedByDetails` is what remains of "the total is the sum of
the details" when edits overlap. `ApprovedHasOrderAtRest` says which approvals can be left without an order:
those of a createOrder that failed, and no other. `LocksBelongToOpenTransactions` says that no path leaks a
row lock.

*The properties of the catalog.* Every check of this part can be overtaken, so none of its promises holds
without a condition; each property says which overlap is to blame, and so that no other history, failure or
order of calls can do the harm. Two variants of one size and gender need two insertions that overlapped
(`OneVariantPerCombination`). A quote whose total counts a line it no longer has was saved while a
deleteVariant of that line was under way (`LinesLostToOverlap`); this covers cancelled and deleted quotes as
well, because deleteVariant looks for any detail. The item of a pending or approved quote is gone only after
a deleteClothes that overlapped a call about that quote (`ActiveQuotesHaveItems`): a quote is not created,
nor edited and then approved, on an item deleted before. `NoOrderOnDraft` and `SavedAtCurrentPrices` are
action properties: an order is not placed on a draft, nor a quote saved at an old price, unless the item
changed during that very call. The exception "or the item is deleted" in `NoOrderOnDraft` is the code's:
`checkIfClothesAreDraft` does not find deleted items. `ItemsHaveTheirVariants` names the one creation that
can be left half done.

*The properties of accounts.* `LoginsHaveEmployees` holds in one direction only: an insert that is committed
and reported as an error leaves a row without a user, and the address can then never be used again, since
every new creation fails on the unique e-mail and removes its user. `StatusAgreesWhenAnswered` needs
disables and reactivations of one employee to come one at a time (`MaxStatusCalls` = 1): two that overlap
write Cognito in one order and the row in the other and leave an employee who can log in and is marked
inactive, or the reverse. It also needs them not to have failed: the rollback does the opposite of the
operation, not what was there before, and an update that was applied before its reread failed stays.

*The properties of profiles.* As in the catalog, none of the promises holds without a condition, and each
property names the overlap or the error that it takes to break it. `CopiesAgree`: the two copies of a name
differ only if the call that gave either is under way, ended with an error that left its writes, gave an
empty name, or was overlapped. `AnsweredUpdatesLast`: an answered name gives way to no call that had ended
before; in the row the exception is a rollback that overlapped, and that is the lost update of
`employee.service.ts:215`; Cognito has no exception. `UndoneNamesAreGone`: a rollback leaves nothing behind,
unless a second rollback restores it.

*The properties of images.* `ObjectsHaveRows` lists every way to an object nobody can delete: S3 did not
delete it, or it was uploaded with a URL that outlived its image. It is stated for a public URL without a
path, because with one no deletion reaches its object (section 6). `UploadedRowsKeepObjects` is the other
direction, and has no such condition. `ImagesComeTogether` is the transaction of `save([...])` as a client
sees it.

*The properties of quote details.* createQuote does not refuse two lines with one variant, so
`ChargedAsRequested`, `ListedAsRequested` and `CustomizationsFitStored` say what then happens and that
nothing else can cause it: the client is charged less, fewer units are listed, and customizations may exceed
the quantity. `EditsAreExact` shows that updateQuote, which does refuse, keeps each line as asked.
`OrdersListedAsQuoted` relates two listings: the join of fetchOrders leaves deleted quotes out, and only the
checks of other operations keep a quote with an order from being edited or deleted.

*Types and leaks.* The type invariants are theorems, for every value of the constants, in all modules. In
`QuoteDetails` the run checks `TypeOK` as well: there it says that no total exceeds its column. That no
connection leaks is a theorem too (`ConnectionsBelongToCalls`); in `pool` a leak would leave a call waiting
that `CallsEndWhileConnectionsSuffice` promises an end.

*Bounds.* `Requests` bounds the calls of a behaviour and `MaxInFlight` how many are served at once;
`MaxStatusCalls` bounds the disables and reactivations of one employee, `MaxLines` the lines of a request.
Every race of this code is between a check and a write of two calls, so two calls in flight show it; three
allow a third to observe or disturb, and five calls are a createQuote and four on it. One quote is enough
where calls meet only on the same quote; two where the interplay of orders and quotes is mapped to the
lifecycle. Two totals tell a stale price from the current one. In `catalog` the rows that are there at first
save the calls that would create them: one call changes the catalog, one saves or orders a quote, and a
third disturbs either. Two combinations tell an equal variant from another; an item is inserted at
`NewPrice` and a variant with `NewExtra`, and updates choose among two prices and two extras, whose four
sums differ. Quantities are 1 there: they multiply a price, which `quote_details` covers. In `accounts` one
call makes an admin, a second makes another person and a third lets one act on the other or on the owner.
Two owners show that setups of different people do not disturb each other; four calls are two each, or a
retry after two that overlap. Two connections are the smallest pool in which a call can nest and not halt.
Three updates of a profile are two that overlap and one that came earlier, later or beside both; an employee
is alone in them, since no statement touches two. Three calls on images are an item, a deletion and a second
deletion or addition; two files tell "some" from "all". Three lines hold a variant twice with another
between or after them; two variants of one item tell items from variants; quantities of 1 and 2 beside up to
2 customizations fit and do not fit; with `MaxMoney` 9 small totals are saved and the largest are refused.

*Deadlock.* It is checked everywhere but in `pool`, where the service really may stop: as many createOrder
calls as connections wait for each other.

## 4. Fairness

`QuoteOrder!FairSpec` has weak fairness of each call's `Continue`: the event loop runs every resolved
promise and PostgreSQL grants a row lock to its waiters. A client owes no call and nothing has to fail.
`ConnectionPool!FairSpec` has weak fairness of each call: the pool serves its queue in order, and a
behaviour has finitely many calls, so weak fairness says as much as the order does. The other modules have
no liveness property: in `Catalog`, `TenantSetup`, `EmployeeAccounts`, `Profile` and `Images` a failure or a
death may stop a call for good and nothing resumes it, and in `QuoteDetails` every call is one step.

## 5. Theorems

All are for every set of calls, rows and connections; the assumptions are the named `ASSUME` of each module
(totals positive, `None` distinct, `MaxInFlight` positive), which every run evaluates.

* `QuoteOrderProofs` has three inductive invariants. `TypeOK` is not inductive: a call between two steps
  must name a row (`CallsNameRows`), an order must belong to the createOrder that inserts it
  (`OrdersFollowCalls`), and a createOrder that has written its approval must have left the quote closed
  (`ApprovalPrecedesCommit`). With the row locks this is `IInv`, inductive by one step per action. From it:
  type correctness, `OrderedQuoteLeftPending`, `LocksBelongToOpenTransactions`, and the action property
  `OrderedQuoteIsClosed`, for which `IdleCallArrives` shows that a call leaves `idle` only by arriving.
  `PInv` rests on it and says where totals and approvals come from: each total that a quote has, a call has
  read or an order charges was written, with details, by a call that is over (`TotalsAreMade`), and each
  approval has a createOrder that goes on, placed its order or failed (`ApprovalsHaveCalls`). From it:
  `OrderPricedByCommittedEdit`, `TotalBackedByDetails`, `ApprovedHasOrderAtRest`. `SInv` assumes
  `MaxInFlight = 1` and finitely many calls. Then a call is alone (`Alone`), so what it has read holds until
  it ends (`WhatCallsRead`, one line per check). From it: one order per quote, at its price; totals that add
  up; `ReasonMeansCancelled`, which no run checks; and that the services implement `QuoteLifecycle`:
  `InitRefines` for the initial states, `StepRefines` with each step mapped to a step of the lifecycle or to
  a stutter.
* `QuoteLifecycle` is proved about in `QuoteOrderProofs` as well, where `Abstract` instantiates it over rows
  of its own (`quotes`, `orders`). One order per quote, and order and quote agree: an approved quote is
  neither edited nor cancelled, so no step on a pending quote disturbs an order. The same two hold of the
  services when calls do not overlap (`OrdersAgreeWhenServedAlone`): `SInv` gives them for the committed
  rows.
* `CatalogProofs`. All properties of `Catalog`. What a call has read is only as good as the calls that
  overlap it, so `IInv` has one conjunct per check that says what still holds of it: `NoVariantBut` (the
  combination was free), `NoDetailBut` (the variant was not quoted), `ItemsThereBut` (the items were there,
  or nothing referred to them), `NoDraftBut` and `CurrentBut` (no drafts, current prices), each "unless a
  call that overlapped did it". `Requests`, `Inserted` and `Together` tie a call to its arguments, a row to
  the call that inserted it, and two calls between their first and last step to `overlapped`. The proof does
  not go through every conjunct for every action: `StepGood` shows once that each action is a step of
  `Evolves`, which says what any step may do to items, variants, quotes and calls, and each conjunct is
  shown to survive any such step.
* `TenantSetupProofs`. The conditional update makes "the tenant assigned to the owner" a lock; `Ledger` says
  who holds it and what each step has written. From it: one workspace per owner that stands for good,
  agreement of database and Cognito, completeness of the rollback.
* `EmployeeAccountsProofs`. Cognito accepts one user per address, so a creation that got its user owns the
  address until it removes that user itself (`Creations`); the owner's groups are there before any check
  reads them, so no disable gets past `ReadRoles` (`Administration`). From it: answered accounts stand, no
  login without an employee, admins come from owners, and no disable reaches the owner. With
  `MaxStatusCalls` = 1 and finitely many calls a second invariant (`SInv`) follows one disable or
  reactivation through its steps, beside any other calls, and gives `StatusAgreesWhenAnswered`.
* `ConnectionPoolProofs`. Connections belong to calls, so none leaks; statements are left only to calls that
  nest (`OnlyNestingAsks`), so if all are stuck the pool is held by createOrder and updateQuote.
* `ProfileProofs`. What a call has read may come back, so the invariant speaks of the names in the row and
  of those that calls have read alike: each comes from a call that wrote it (`Sources`), and one older than
  an answered update is there only beside a rollback that overlapped (`RowKeepsAnswered`). The three
  properties follow, for any number of calls.
* `ImagesProofs`. A deletion that has passed its first step has tried its object (`DeletionsTried`), and a
  key that can still be uploaded has its row or was tried (`UploadsHaveRows`), which is what makes an upload
  stray or harmless. Rows come from ended calls, with all the others of the call (`RowsFollowCalls`).
* `QuoteDetailsProofs`. All properties of `QuoteDetails`, for any catalog, any prices and requests of any
  length. The invariant is short, since every operation is one step: total and details of a saved quote are
  those of the lines asked for (`SavedAsAsked`), only a saved quote is live (`LiveWereSaved`), and a quote
  with an order stays approved, live and at the total ordered (`OrdersHoldTheirQuotes`), so no edit or
  deletion reaches its details. The work is in the sums. Instead of taking a sum apart, the proofs count it:
  `Units(f, S)` holds `f[x]` elements for each `x` of `S`, and the sum of `f` is its cardinality
  (`SumCounts`). That needs one argument over all subsets of a finite set, which is made with a smallest
  counterexample (`SmallestSubset`), since induction is out of reach. From then on an injection compares two
  sums (`SumAlong`): details inject into the prices that were computed, and those into the lines that were
  asked for, each detail with the quantity of the last line of its variant. A line is left out exactly when
  a later one has its variant, and it has a price and a quantity of at least 1: that is why the total is
  then smaller, not only no larger. For `EditsAreExact`, `CountingFindsRepeats` shows that comparing the
  numbers of variants and lines, as updateQuote does, finds every repetition.

Only model-checked: liveness under fairness, which is `EveryCallEnds` and `CallsEndWhileConnectionsSuffice`.
It rests on `ENABLED`, which is beyond the prover used. Every invariant and every action property that a
passing run checks is a theorem.

## 6. Findings

The two violated runs are disagreements between what a message or a declaration of the repository says and
what the code does; `PROJECT.json` quotes the lines. Two createOrder calls that overlap place two orders on
one quote (`two_orders`); `one_at_a_time` and its theorems show that without overlap they do not. A creation
without images is refused after its item was saved (`images_optional`), so a client that retries makes a
second item.

The models contain more of the kind. Each is delimited by a property that holds, named at the end:

* Two edits of one quote that overlap leave the details of both: the DELETE of the second does not see what
  the first inserted (`quote.service.ts:327`). `TotalBackedByDetails`.
* A cancel, edit or delete that passed its check changes a quote approved since (`quote.service.ts:259`,
  `:321`, `:630`); updateStatus overwrites a cancellation (`:187`); updateOrderStatus and cancelOrder change
  a finished order (`order.service.ts:198`). They are why `ImplementsLifecycle` needs `MaxInFlight` = 1;
  `OrderedQuoteIsClosed`.
* deleteQuote refuses an approved quote with the advice to cancel its order first (`quote.service.ts:624`),
  but cancelling the order never changes the quote, which stays approved for good. `ImplementsLifecycle`.
* A setup whose link to Cognito applied and reported an error is rolled back, and the claim stays and names
  a tenant that is gone (`tenant.service.ts:84`). `ClaimAgreesWithAssignment`.
* An admin may reactivate the owner; when the row cannot be updated the rollback disables the owner
  (`admin.service.ts:231`), whom deleteEmployee refuses to disable (`:128`). `OwnerOnlyDisabledByRollback`.
* createQuote accepts a variant twice and charges its last line only (`quote.service.ts:63`), where
  updateQuote answers that a variant can only appear once (`:601`). `ChargedAsRequested`,
  `CustomizationsFitStored`.
* With a `STORAGE_PUBLIC_URL` that has a path, as `src/scripts/cognito-local-bootstrap.ts:133` writes it,
  `extractKeyFromUrl` returns the path and the key (`storage.service.ts:113`), so an image is answered as
  deleted and its object stays. `ObjectsHaveRows`, stated for URLs without a path.
* Two updates of a profile leave different names in row and Cognito, and a rollback takes back an update
  that was answered (`employee.service.ts:209`, `:215`). `CopiesAgree`, `AnsweredUpdatesLast`.
* The overlaps that the properties of `Catalog` except: the checks at `clothes-variants.service.ts:66` and
  `:208`, `clothes.service.ts:515` and `order.service.ts:62` can be overtaken.
* The limit on quantities is 100000 and its message says 10000 (`create-quote.dto.ts:64`); nothing depends
  on it.

## 7. Plan

The parts that decide something are modelled. Left:

1. Quantities in `Catalog`, so that `SavedAtCurrentPrices` covers whole totals and not only unit prices.
2. `QuoteLifecycle` without the bound on calls in flight, should createOrder come to approve inside its
   transaction and the updates to repeat their checks: `ImplementsLifecycle` should then hold in
   `quote_overlap`.

## 8. Not modelled, and why

Customers and searches are single statements whose result no other operation depends on. RequireTenantGuard
and the JWT strategy are functions of a token. The seeder is two idempotent upserts. The delivery-date
validator, the e-mail mask and the configuration are pure. The tenant of a row never changes and every query
is restricted to it, so `QuoteOrder` models one tenant. Addresses and delivery dates are written once and
read by nobody who decides anything. In `QuoteOrder` the draft check of createOrder and the prices of
updateQuote are free choices; `Catalog` has both, and the cascade of a deleted variant to quote details;
quantities and customizations are in `QuoteDetails`, whose customizations are counted and not read, as in
the code. `Images` leaves out whether a quote refers to an item that is deleted, which is in `Catalog`. In
`Catalog` a name, a description or a category of an item is left out, since nothing reads it. In `Profile`
the employee is the caller, whose row nothing deletes; the values of names are not compared, so a name given
twice counts as two.
