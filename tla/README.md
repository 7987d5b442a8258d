# Tenda: a verification of its sales, its stock and its screens

Tenda is a shop for small sellers: a Django application over PostgreSQL
(READ COMMITTED), with Celery workers and a beat scheduler, a web application
and a mobile one.  A seller keeps an inventory, makes sales with a public link
for the buyer, is paid in cash, by bank transfer or through Mercado Pago, and
ships what was paid.  This directory holds TLA+ modules that model the parts of
it whose state is hard to keep right, the TLC configurations that check them on
small instances, and theorems that TLAPS checks for every instance.

Server paths below are relative to `backend/apps/`, paths of the web to
`frontend/web/src/` and paths of the phone to `frontend/mobile/`.

## 1. The system

| Component | State it keeps | Operations | Talks to |
| --- | --- | --- | --- |
| Stock (`inventory/services.py`) | `StockBalance` (on hand, reserved), `StockMovement` ledger, `Product.catalog_status` | reserve, release, consume; movements; edit, archive, restore | sales call it inside their transactions |
| Sales (`sales/order_services.py`) | `Order`, `OrderItem`, `StockReservation`, `Payment`, `PaymentProof`, `BuyerSnapshot`, `OrderEvent`, `ReconciliationIssue` | create, publish, buyer's details, checkout, approve, confirm, cancel, restore, reissue, refund, expire, apply a provider snapshot | stock, shipments, outbox, payment provider |
| Receipts (`sales/uploads.py`) | `PaymentProof` and the `MediaAsset` it names | prepare, complete | sales, object storage |
| Payment inbox (`sales/webhooks.py`, `sales/api.py`) | `PaymentWebhookEvent` | receive, claim, query the provider, apply or fail, retry | provider, sales |
| Shipments (`shipping/services.py`) | `Shipment`, label, dispatch | create with a paid sale, register a dispatch, make a label | sales, outbox |
| Idempotency (`audit/idempotency.py`) | one row for each key with the stored answer | run once, replay, refuse another request | every command of the seller |
| Catalogue (`inventory/services.py`, `inventory/media.py`) | products, their columns and photos, the quota of the plan | create, edit, archive, restore, attach, choose, remove | storage, billing |
| Image search (`inventory/` and its providers) | one search for each key | begin, answer, fail | product form |
| Bank accounts (`users/`, `tenancy` profile) | the list of accounts of a shop | replace the whole list | profile pages |
| Screens of the seller | drafts, keys, dialogs, cached reads | the wizards, the sale page, the quick sale, the product form, its gallery and columns, the stock sheet, the list, the shipment, the profile | the server, under idempotency keys |
| Screens of the buyer | draft of the checkout, file of the receipt, last status | checkout, delivery data, upload, following the sale | the server, without an account |
| Outbox, OAuth, billing, imports, alerts, users | see "Not modelled" | | |

What is hard in it:

* **Interleaving.** Commands of sellers, requests of buyers, workers and the
  expiry job act on the same sale.  Most take the row lock of the order first,
  but several facts are read without it.  On the other side of the network a
  page acts on what it read last, while two tabs, two devices or two sellers
  do the same.
* **Delivery.** Answers are lost after their command was executed, and a
  request whose page gave up on it may arrive afterwards.  The screens answer
  with idempotency keys, so *when a key is drawn, kept and dropped* is most of
  what can go wrong in them: a key dropped too early repeats a command, one
  kept too long answers a new wish with the old result.
* **Ordering.** The provider's reports are fetched at any time and applied
  later; answers to old filters and slow saves arrive after newer ones.
* **Reversal.** A sale can be cancelled, restored, reissued and refunded, and
  its stock has to follow each of these exactly once.
* **Partial failure.** A sale without its link, a product without its photos, a
  provider's checkout whose transaction did not commit.
* **Time.** Reservations lapse; retries, timers and back-off race late answers.

`PROJECT.json` lists under "hazards" the places where one of these bites, with
the properties that would catch it going wrong.

## 2. The modules

### The server's sales and stock

| Module | What it is |
| --- | --- |
| `Stock` | the balances, the ledger, the seller's movements and the catalogue status |
| `SalesOrders` | extends `Stock`: the sales, their reservations, payments and receipts, and what the provider's reports do to them |
| `StockPromise` | the abstract specification: sales that are open, closed, lapsed, sold or refunded over a shelf, with no counters, rows or messages |
| `ExpiryJob` | extends `SalesOrders`: the job that expires lapsed reservations, with its query, its limit and the sales it visits one by one |
| `MCSalesOrders`, `MCExpiryJob` | the values and symmetries with which TLC runs the two |
| `SalesOrders_proofs` | the theorems about the sales and their stock (section 5) |

* **A transaction is a step.** Every command locks its order
  (`SELECT ... FOR UPDATE`) and the balances it moves until it commits, and a
  command that raises is rolled back.  So a command is one action whose guard
  is the conjunction of the checks that would raise, and a command that fails
  is no step.  The transaction is split wherever it uses something it read
  without a lock:
  * the ACTIVE check of the products of a new sale: `BeginCreateOrder`, then
    `ReserveDraftOrder` or `AbandonDraftOrder`;
  * the archived check of a movement: `BeginMovement`, then `AppendMovement` or
    `RefuseMovement`;
  * the snapshot of the provider: `ProviderSnapshot` applies any of
    `SnapshotKinds` at any time, which covers every delay, repetition and order
    of the queries that the webhook worker makes;
  * the payment and the order that `_fail_event` reads: `ReportFails` reads
    them and `FailEvent` writes what follows from that reading, any number of
    steps later.
* **Tables are functions.** `order[o]` is the order's row with its buyer, its
  shipment and those facts of its timeline that commands read back
  (`cancelledFrom`, `reissued`); `rows[o][p]` is the reservation row of the
  product p; `payment[o]` and `proof[o]` are the rows of those tables.
* **Lines are aggregated by product**, as `_aggregate_stock_requests` does
  before every balance is touched.  Prices, costs, addresses and names are left
  out: they are snapshots no later decision of these commands reads.
* **Time** is one bit, `due`: the reservation's date has passed.  `ExpiryJob`,
  whose query sorts by date, also keeps the open sales in the order of their
  dates.
* **Amounts** of a report are reduced to what the code tells apart: the report
  agrees or it does not (`mismatch`, `fee_mismatch`), and a refund is in full
  (`refunded`) or not (`partially_refunded`).
* **Issues** are kept as the kinds that are open.  Only the issue of a failed
  event is ever resolved, by a later success of that same event; with several
  failed events of one sale the model lets a success resolve the kind or leave
  it.

### The screens, each in front of its server

Every screen module holds the state of a page as its component keeps it (the
form, the dialog, the key, the request under way, the last read) *and* the rows
of the server that its requests reach, with the idempotency record that
`execute_idempotent` keeps.  `client` says which application runs where both
have the screen: definitions named `Web...` and `Phone...` are where they
differ, and what has no prefix is what they share.

| Module | Code | State and steps |
| --- | --- | --- |
| `SaleDesk` | `create_order`, `publish_order_link` behind `execute_idempotent` | what the wizards' requests do: `sold`, `published`, and `late` requests whose caller gave up |
| `NewSaleWeb` | `sales/NewSalePage.tsx`, `sales/model.ts` | draft in memory, draft in the browser's storage, the effect that copies one to the other, submissions that outlive the page |
| `NewSaleMobile` | `app/(app)/ventas/nueva.tsx`, `lib/sales-draft.ts` | hydration from the device, the write-back, the submission and its resumption |
| `DraftLines` | `validateDraftLines`, `lineFromProduct`, `discountedPrice` and the phone's counterparts | the lines being drafted, with their prices, discounts and a stock that was read earlier |
| `SaleActions` | `sales/SaleDetailPage.tsx`, `ventas/[orderId].tsx`, `packages/api-client/src/sales-view.ts` | dialogs, keys, the detail read last, the reads under way, commands executed and late ones |
| `BuyerContact` | `sales/SaleContactCards.tsx` and the phone's sheet | the buyer's row as stored, as read and as typed; a save sends all of it |
| `QuickSale` | `inventory/GenerateSaleDialog.tsx`, `generate-sale-sheet.tsx` | one opening with its two keys, requests that outlive it, the free units |
| `ProductForm` | `inventory/ProductFormPage.tsx`, `inventario/producto.tsx`, `create_product` | draft, key, queue of photos, products and the quota |
| `ProductColumns` | the same forms when editing, `CustomFieldDialog.tsx`, custom field commands | columns of the shop, values of the product, the schema the form knows |
| `AssistedSearch` | the photo search of the form | photos, phases, keys and searches under way |
| `ProductGallery` | `inventory/ProductMediaGallery.tsx`, `product-media.tsx`, `inventory/media.py` | assets, gallery in order, main photo, the list each page shows |
| `StockAdjust` | `StockAdjustDialog.tsx`, `stock-adjust-sheet.tsx`, `record_stock_movement` | openings, keys, calls under way, movements |
| `ProductList` | `InventoryListPage.tsx`, `(tabs)/inventario.tsx`, `tenda/pagination.py` | keyset pages over rows that change, the filter typed and the one requested |
| `ShipmentDetail` | `ShipmentDetailPage.tsx`, `despachos/[shipmentId].tsx`, `shipping/services.py` | registration split at the lock, mail to the buyer, labels that expire |
| `BankAccounts` | `app/BankDetailsSection.tsx`, `app/ProfilePage.tsx`, `mas/perfil.tsx`, `replace_bank_accounts` | the list stored, read and edited; saves under way |
| `PublicCheckout` | `public/PublicCheckoutPage.tsx`, `checkoutDraft.ts`, `initiate_mercado_pago_checkout` | tabs with a draft that survives a reload, checkouts at the provider, the one the payment names |
| `ReceiptUpload` | `public/PublicProofUpload.tsx` and its pages, `sales/uploads.py` | tabs, the file on its way in three requests, assets and the proof |
| `OrderStatus` | `public/PublicStatusPage.tsx` | the timer, attempts, visibility, the status shown |

What the modules tell apart in the data is little: a name, a form or a file is a
member of a small set, a text that does not parse is a value `Text`, a key or an
asset is a number drawn in order.

Requests are modelled by their fate.  In `NewSaleWeb`, `NewSaleMobile`,
`SaleActions`, `QuickSale`, `StockAdjust` and `BankAccounts` a request may be
executed *after* its page was told that it failed (`late`, `calls`), since
there a retry is a new request that the late one can overtake.  In
`ShipmentDetail`, `PublicCheckout` and `ReceiptUpload` a request is executed, or
not, before its page learns of its fate; either answer may be lost, and another
tab gives the interleavings that a late request would.  What is under way when a
page is left goes on without it: in `BankAccounts` (`here`), `ShipmentDetail`
(`left`), `SaleActions` (`late`), the wizards and the quick sale.  A button that
waits for a request waits only for those of the page that is mounted.

### Composition

`MCSales`, `MCShop` and `MCProgress` put the screens together.  The router of
each application mounts one screen at a time, and two screens meet only through
the server, whose other users every module contains as actions of its own (the
other seller, the other tab, the buyer, the workers).  So a behaviour of these
modules is that of one screen: `mounted` names it, and `s1`, `s2`, ... are its
variables.  Each `Init` and `Next` is the disjunction over the instances, some
screens appear with several instances (larger keys, fewer data; or the other
way round), and each property is the conjunction of what the instances promise.

Definitions marked "Fault" are the definition below them with a plausible
mistake; no specification uses them.  Each property is refuted by TLC when one
of them takes the place of the real definition (the pairs are in
`PROJECT.json`), so no property holds for want of something to break it.

## 3. The properties and the runs

### Sales and stock (`MCSalesOrders`)

Safety:

* `ReservedIsHeld`: the column `reserved` equals the units of the active rows.
* `NoOversell`: `0 <= reserved <= on_hand` for every product.
* `LedgerBalances`: on hand, plus what sales consumed, is what the seller's
  movements brought; a refund restocks nothing.
* `OpenSaleHoldsCart`, `ClosedSaleGaveBack`, `PaidSaleTookCart`: the rows of a
  sale are active, released or consumed exactly when its status says so, for
  its whole cart, and a shipment exists exactly for sales that were paid.
* `MoneyFollowsSale`: an approved payment belongs to a paid sale, and an open
  sale's payment is not a closed one.
* `ReviewHasReceipt`: a transfer is under review exactly while its payment is in
  validation and its receipt is ready.

What no step may do: `OpenSaleCanBePaid` (the defensive branch of
`_approve_payment` that opens `PAID_WITHOUT_STOCK` for an open sale is never
taken), `DoubtLeavesIssue` (a paid sale's approved payment does not become
doubtful without an issue), `EndsAreFinal`, `ArchiveFindsNoHold`,
`ReissueKeepsUnits` (nothing becomes available while an offer is reissued).

Progress (`ExpiryJob`): `LapsedSaleCloses`, every sale that is due is closed,
paid or sent to review, although each run of the job takes only some of them and
any command may come in between.  Refinement: `KeepsPromise`, which maps the tables
to `StockPromise` (`on_hand` to the shelf, the status to a phase, the lines to
the cart) and has no counterpart for the reserved column, so that the column has
to agree with what is promised for every step to be allowed.

### Screens that sell (`MCSales`)

* `ShownIsTrue`: the order a draft names exists; the link a quick sale shows is
  that of its own sale and is served.
* `NoOrphanSale`: every sale the server holds was shown as done, or its key is
  still in a draft that will ask for it again, or an answer is about to report it.
* `LinesFitStock`: a draft that may go on fits the stock the seller was shown;
  the two validators, which count differently, agree; price and discount explain
  each other after rounding.
* `OncePerIntent`: an opening of the quick sale makes one sale and a confirmed
  action is executed once, however often its request is sent.
* `SoldAsAsked`: the sale a seller is told of has the quantity and method of the
  attempt that is answered.
* `FreshAfterSuccess`: the page does not show a sale older than a success whose
  read has ended, whatever read was under way before.
* `CorrectionIsAccepted`: a corrected form is not refused because of its key.
* `DoneAsConfirmed`, `SavedAsTyped` (action properties): on the phone, the sale
  shown as done is the one that was reviewed when the button of the submission
  that ends was pressed, and a success closes the dialog of its own intent; a
  save keeps the fields its form does not show.

### The screens around the sales (`MCShop`)

* `OneRequestPerKey`: a key makes one product; no two searches share one.
* `MadeAsSent`: the product reported as made is the one that was sent, with the
  first photos of its queue in order.
* `GalleryIsSound`: the main photo is one of the gallery, within its limit.
* `DoneHasMoved`, `TwiceOnlyWhenLost`: an opening of the stock dialog that ended
  well moved the stock itself, and moved it twice only after a lost answer.
* `EachRowOnce`: keyset pages list a row that nothing moves exactly once.
* `RegisteredAsSaid`: a page that says it registered a dispatch did, and the
  buyer was told of that one.
* `OneCheckout`: all tabs lead to the checkout that the payment names.
* `ReviewIsBacked`: a sale under review has its delivery data and a receipt that
  was stored as announced.
* `LastSaveStands`: on the web, what the last save was reported to have stored
  is what buyers are shown, or else what a save brought back that its page did
  not see executed: its connection was lost, or the profile was left before its
  answer.
* `EditsKeepTheRest` (action property): the columns typed are stored, values of
  inactive columns stay, and a main photo is replaced only by a removal, by the
  choice of a seller, or by an upload that began on a page without photos.

### Progress of the screens (`MCProgress`)

`SearchEnds`: the page does not wait for a photo search for ever.
`ScreensCatchUp`: a list comes to show the filter that was typed last, and a
status page that stays visible comes to show the status of its sale.

### The runs

| Run | Instance | Shows |
| --- | --- | --- |
| `Transfer` | 3 transfers, 1 product with 2 units | `TypeOK`, `ReservedIsHeld`, `OpenSaleHoldsCart`, `ReviewHasReceipt`, `ReissueKeepsUnits` |
| `Provider` | 2 Mercado Pago sales of 1 or 2 units, 2 on hand, 4 kinds of report | `LedgerBalances`, `PaidSaleTookCart`, `ClosedSaleGaveBack` |
| `Reports` | 1 sale of up to 2 products, every kind of report, failures, 2 provider payments | `MoneyFollowsSale`, `OpenSaleCanBePaid`, `DoubtLeavesIssue`, `EndsAreFinal` |
| `Promise` | 2 sales of either method, which the provider approves, units taken away and products edited by the seller | `NoOversell`, `ArchiveFindsNoHold`, `KeepsPromise` |
| `Lapse` | `ExpiryJob`: 2 sales of one unit and either method, 2 on hand, a job that takes 1 at a time, with fairness | `LapsedSaleCloses` |
| `Sales` | 12 instances of the screens that sell | the properties of `MCSales` |
| `Shop` | 17 instances of the screens around the sales | the properties of `MCShop` |
| `Progress` | search, list and status page, with fairness | `SearchEnds`, `ScreensCatchUp` |
| `Reissued`, `MutedAdjust`, `ResentProduct`, `Unverified` | one module each | a violation each, section 4 |

### Bounds

`Orders` bounds the sales: three are needed for a reissue (two sales) with a
competitor for the same units, two elsewhere.  Two units on hand and carts of
one or two make sales that fit together, sales that collide, and sales that
only fit after another one ends.  `MaxMovements` bounds the movements in flight
and `MaxOnHand` the units a movement may reach.  One failed event of a sale is
in flight at a time (`ReportFails`).  Two identifiers of provider payments let a
buyer pay twice.  Symmetry is over orders and over the provider's identifiers,
in runs without liveness only.

In the screens, the keys (`MaxKeys`, `Keys`), openings (`MaxOpenings`), intents
and writes of others (`MaxMoves`, `MaxWrites`, `MaxChanges`) are bounded.  What
they have to allow is: a request that is lost, its retry, and one more of the
same kind after it, so that a key kept too long or dropped too early has
somebody to mislead.  Two keys and two openings do that; three or four keys
where an action may be confirmed again in between.  `MaxLate` bounds the
requests that arrive after their page gave up, one being enough to overtake a
retry.  Two tabs, two pages or two devices are the least that can race.
`PageSize` 1 puts a page boundary between any two of three rows.  `Limit` is the
quota with one place left, `MaxImages` is 2 for the order of photos and 1 where
two pages race for the last place.  `Limit` of `ExpiryJob` is 1 with two sales
that may be due: the job always leaves one behind.  The bank accounts appear
twice: `WebBank` has one account that two saves change, and `ProfileBank` two, on
both applications, while the rest of the profile changes.  `DraftLines` takes a price of 15, half of
which is rounded, and a discount of 150 that is refused.  `ReceiptUpload` has
two tabs that meet in one upload, and one tab with three; two tabs with an upload
each are in the reach of the theorem `ReviewsAreBacked` (and of `Unverified`).

Deadlock is not checked anywhere: sales end for good, keys and openings run out,
and a state in which nobody does anything more is one where the program rests.

### Fairness

`JobSpec` assumes of the server only that beat and its worker keep running:
weak fairness of `ReadDue`, the query with which a run of `expire_due_orders`
begins, and of `VisitNext`, its next sale (`tenda/settings/base.py` schedules
the task every 60 seconds).  That a particular sale is ever visited is not
assumed.  It follows from the order of the dates: a sale that is due is reached
because each sale before it is expired, or moves on, or was cancelled and
restored with a date after it, and a rejected receipt cancels its sale, so
nothing stays at the head of the query.  With the latest dates first
(`ReadLatestDue`) sales that keep lapsing hide the first one for ever, and TLC
shows how.  One run works at a time in the model; two that overlap only visit
more often.

`MCProgress!Fairness` assumes that a search that was begun proceeds (its upload
and its query end one way or another, since every request has a time limit),
that the debounce of the list fires and a query starts and is answered, possibly
with an error, and that the timer of a visible status page fires (weak fairness
of `Poll`).  Only for the status page does an answer have to get through: of a
read that is sent again and again, some answer is not lost (strong fairness of
`Read` and `Show`); without it a buyer who is offline for good would refute the
property.  Buyers, sellers and the provider may stop at any time.

## 4. Where the repository says something else

Four runs end in a violation, each of a statement of the repository; the
statements are quoted under "findings" in `PROJECT.json`.

* `Reissued` (`ReissuedStaysClosed`): the tests say a reissued sale cannot be
  restored.  `_restore_target_status` accepts any earlier cancellation, so a
  sale that was once cancelled and restored can be, beside its replacement.
* `MutedAdjust` (`DoneHasMoved` of `StockAdjust` for the phone's product page):
  the docs and the sheet's own comment promise a key for each opening.  The
  product page mounts the sheet once and a success draws no new key, so a second
  equal adjustment is answered with the first one and moves nothing.
* `ResentProduct` (`ResendIsAnswered`): the docs say a resent `createProduct`
  returns the original result.  The quota is asserted before the key is looked
  up, so when the product took the last place its own retry is refused.
* `Unverified` (`ReadyWasVerified`): the proof is found by its asset before the
  locks are taken; a second tab that prepares another receipt in between has
  pointed it at an asset whose bytes were never received, and the proof becomes
  ready with that one.

### Behaviours without a run

The models also take these steps.  No text of the repository denies them, or
not in a sentence that a property could quote, so no run states their opposite.

On the server:

* A movement whose archived check has passed is appended to a product that was
  archived meanwhile (`BeginMovement`, `AppendMovement`).
* A late pending report puts a refunded payment back to pending
  (`ProviderSnapshot`), and the provider's echo of the seller's own full refund
  is recorded as a partial refund that needs reconciliation.
* After a failed redelivery has overwritten an approved payment (`ReportFails`,
  an approval, `FailEvent`), a later success of the event resolves the issue
  without restoring the payment.  This is why `MoneyFollowsSale` does not say
  that a paid sale's payment is approved.
* A dispatch that has read that its sale is paid is registered, and mailed,
  after the sale was refunded (`LockShipment`, `RegisterDispatch`).
* A receipt that does not match is deleted from the storage, and the mark that
  says so is rolled back with the transaction that raises.
* A checkout that the provider made in a transaction that does not commit is
  left there; the retry makes a second one, and the buyer is sent to that.
* Replacing the bank accounts takes no version: of two devices the last writer
  wins, for the whole list.
* A sale whose products were found active reserves its units after one of them
  was archived (`BeginCreateOrder`, `ReserveDraftOrder`), so an archived product
  may have units on hold; `ArchiveFindsNoHold` is about the archiving alone.

On the screens:

* A seller who leaves the web wizard while its request is under way may never be
  told of the sale (`WebWizard` has no `NoOrphanSale`), and a submission that
  ends after the page was left can store its finished draft again.
* The web's sale page keeps the key of an action when its dialog closes after a
  failure, and the phone draws one for each opening.  So on the web a second
  opening may be answered with the stored result of the first, whose answer was
  lost; what was asked twice is then done once.  `DoneAsConfirmed` says of the
  phone only that a success is that of the dialog just confirmed.
* After a sale was made and the publication of its link failed, the seller may
  edit its lines.  The web keeps the order in its draft and publishes the sale
  that was made, with the old lines; an answer in cash clears a dialog that was
  opened since (`NewSaleWeb`).  The phone asks for the sale again under its key,
  and other lines are refused; `DoneAsConfirmed` is about the phone alone.
* A cash sale that ends after its quick sale dialog was closed closes the dialog
  opened since (`CashOK`).
* An upload that began on a page without photos makes its photo the main one,
  also when another seller has chosen one since (`ProductGallery`).
* The candidates of a photo that was removed while it was searched are shown for
  the photo that was added since (`Found` of `AssistedSearch`).
* A product that is sold or adjusted while a list is read page by page may be
  skipped or listed twice (`ChangeValue`); `EachRowOnce` is about the others.
* Sending a link by mail draws a new key after every failure, so a lost answer
  means two mails.
* A buyer known by telephone only is refused a Mercado Pago checkout
  (`BUYER_DETAILS_REQUIRED`) until the mail is added.
* After a receipt was rejected and the sale restored, the buyer cannot prepare
  another one.
* A photo whose attach answer was lost is added again by its retry, as an asset
  of its own; a product whose photos failed is reported with those that are in.
* A required column that is switched on again asks nothing of the products that
  were made while it was off, so they lack its value (`Reactivate`).
* The accounts of the profile are keyed by their position, so after a removal a
  new account may share a key with another, and editing one edits both.
* On the web the button of the accounts waits for the save of the mounted page
  only.  A seller who leaves the profile during a slow save and comes back can
  save again, and the first one may land last (`Reopen`, then `WebSave`).
* The phone's profile fills all fields again when the viewer is read anew, and
  its save button stays enabled, so an earlier save may land last without the
  page being left.  `LastSaveStands` is therefore stated for the web alone.

## 5. What is proved

Every property of the passing runs that is not about liveness is the subject of
a theorem.  Theorems start from the assumptions on the constants alone, which each module states as
`...Assumption` and TLC evaluates for the values of its runs.

| Module | Theorems about |
| --- | --- |
| `SalesOrders_proofs` | the sales, their stock, money and receipts, and the refinement of `StockPromise` |
| `SaleScreens_proofs` | the wizards, the quick sale, the page of a sale and the data of its buyer |
| `DraftLines_proofs` | the lines of a draft |
| `ShopScreens_proofs` | the form, columns and gallery of a product, its adjustment, the photo search, the shipment, the bank accounts and the checkout |
| `ProductList_proofs` | the list of the inventory |
| `ReceiptUpload_proofs` | the receipt of a transfer |
| `MCSales_proofs`, `MCShop_proofs` | the properties of the runs, for the screens behind their router |

The first six are about every value of the constants: any number of products,
orders, tabs, keys, openings and retries.  The last two carry that to `MCSales`
and `MCShop`.

### Sales and stock

*Types.*  `TypeCorrect`: `Spec => []TypeOK`.  `TypeOK` is inductive.  The argument follows the code: one lemma for each way a row is
edited, one for each helper (`_transition_order`, `_release_order_reservations`,
`_approve_payment`, ...), then one for each group of commands.  It is the base
of every other invariance proof, since SMT needs the types to reason about the
tables.

*What the sales do to the stock.*  Most of a command has nothing to do with stock, so the argument goes through the *moves* of a
sale: it keeps its stock (`Keeps`), is drafted (`Drafts`), takes its cart from
the shelf (`Takes`), gives it back (`GivesBack`), sells it (`Sells`), or is
replaced by another (`Replaces`).  `NextMoves` shows that each step is one of
them or a step of the seller's stock; the invariants are then shown for the
moves.

* `RowsMatchStatus` (`OpenSaleHoldsCart`), with `ClosedSalesHoldNothing`
  (`ClosedSaleGaveBack`) and `PaidSalesTookAll` (`PaidSaleTookCart`).  The
  inductive invariant is `SalesInv`: the rows of a sale are what its status says,
  for every product of the cart and no other, the shipment is there when the
  rows are consumed, and a sale has one of `Carts`.  It is needed because a command
  reads the rows, not the status, to know what to release or consume: without
  it a restore could claim half a cart.
* `NeverOversold` (`NoOversell`), inductive with the types: each move checks the
  balance of the very products it changes.
* `CountersAgree` (`ReservedIsHeld`) and `LedgerStands` (`LedgerBalances`).  The
  counters are sums over all sales.  A section on counting shows how a count moves when
  one owner joins or leaves; `MoveCount` and `ReplaceCount` turn that into: a
  move changes the count by what it changes of the sale's own share.

*What a step may never do*, from those invariants:
`OpenSalesCanBePaid` (since the counter is the sum of what open sales hold, each
sale's own units are always there to be consumed, so the defensive branch of
`_approve_payment` is never taken), `EndsStay`, `ArchiveIsSafe` and
`ReissueFreesNothing`.

*Money and receipts.*  A sale, its payment and its receipt: `MoneyAgrees`
(`MoneyFollowsSale`), `ReviewsHaveReceipts` (`ReviewHasReceipt`) and
`DoubtIsFlagged` (`DoubtLeavesIssue`).  None of the three is inductive.  The
strengthening is `Backed`: a receipt that waits while its sale is cancelled has a
cancelled payment, which a restore puts in validation again; only transfers have
receipts, and only sales of the provider have identifiers, issues or events that
failed, so that a report never meets a sale under review; and a sale that is not
there yet has none of them, so that a reissue starts from a clean row.  `Sound(o)`
is the same for one step of one sale, and there is one lemma for each group of
commands.  It stands on the stock invariants: that money accepted for an open
sale makes it paid, instead of leaving an issue, is `OpenCanConsume`.

*The refinement*, `SalesKeepPromise`: `Spec =>
KeepsPromise`.  The promise has no counters: it counts the units of the open
sales.  `PromisedIsReserved` shows that this count is the column `reserved`, so
what `reserve_stock` and `record_stock_movement` check is what the promise asks
for.  Each move is then an action of the promise or a stutter: `Takes` opens a
sale or reopens one, `GivesBack` closes it, `Sells` sells it, `Replaces` replaces
it, and `Follows` (what may become of a row) tells a
cancelled sale that comes back from a lapsed one, which never does.

### The screens

A screen's proof has the shape of its code: a lemma for each group of handlers,
then one lemma that `Next` keeps the invariant.  The types are part of each
invariant; what else it needs is the interesting part.

* **The wizards** (`DraftsTellTruth`, `NoSaleIsLost`, `PhoneSalesAreKept`,
  `PhoneSellsWhatWasReviewed`).  A
  sale is never forgotten because its key reaches the device before anything is
  sent, and the key of a draft changes only when its sale was shown as done.
  `WebKept` says so for every sale that exists, is asked for, or may still be
  made by a late request.  On the web this needs that submissions do not go on
  after their page (`~Background`): where they do, a draft that was finished
  may be stored again, and `NoSaleIsLost` says nothing of them.  On the phone
  they always go on; `PhoneSalesAreKept` assumes that cash is then not among
  the methods (`PhoneStays`), because a cash sale that is left under way clears
  the draft that was stored since, and its key with it.
  `PhoneSellsWhatWasReviewed` has no such condition: it holds for every
  instance, a cash sale that goes on after its screen included.
* **The quick sale** (`QuickSaleIsSafe`).  A key belongs to one opening, a sale to
  one key, and what an attempt is told was made under its own form.
* **The page of a sale** (`SaleActionsAreSafe`, `SuccessIsOfThisDialog`).  The
  requests the server has or may still receive (`Sent`) have one key for each
  intent.  The second theorem assumes the phone, which draws a key for each
  opening; the web, which may answer one opening with the result of another, does
  not have the property.
* **The buyer's data** (`SavesKeepTheRest`, `PhoneSavesAsTyped`).  `Composed` says
  what a save that is under way consists of.
* **The lines of a draft** (`LinesAreSafe`).  The two validators differ: one sums
  the lines of a product, the other subtracts them from its stock one by one.
  That both refuse the same drafts is about a sum folded over a set.  The folds of
  the library are recursive functions; that the fold exists and is a whole number
  is shown with `WFMin`: of the sets for which it fails, one has the fewest
  elements.
* **The form of a product** (`ProductsAreMade`).  A request has the key of the
  form, which no later one has; only the request that attaches, or the one that
  closed the form, has given its row photos, and they are the first of its queue.
* **Columns, gallery, adjustment, search, shipment, accounts**
  (`EditsKeepColumns`, `GalleryHolds`, `AdjustmentsAreMade`,
  `SearchesHaveTheirKeys`, `RegistrationsAreSaid`, `SavesStand`).  Each has an
  invariant that relates a request under way to the key and the page it came
  from.  `SavesStand` is about saves that their page saw executed: a save whose
  page was left, or whose connection was lost, may bring its list back.
  `GalleryHolds` gives the main photo a place in the gallery, the gallery its
  limit, and says who may replace a main photo; an upload that was begun when
  there was none may (section 4).  `AdjustmentsAreMade` gives `DoneHasMoved` where the sheet of the product
  page, which stays mounted and keeps its key, is not among the screens.
* **The types of the same screens** (`FormIsTyped`, `ColumnsAreTyped`,
  `GalleryIsTyped`, `SearchIsTyped`, `BankIsTyped`).  The types are not inductive
  either.  The bound on the keys of the search is a count, `KeysSpare`: a photo
  costs at most two keys, one when it leaves the queue and one when its search
  fails, so a photo of the queue and a search under way each have one to spare.
  No two live products share a name because every creation looks for the name
  first, and what is in a gallery was stored because a photo that is removed is
  no longer `ready` and none is attached before it is.  The key of a new account stays one of the drafts' because the form
  is never longer than the accounts a shop may have; that two accounts of a form
  may share a key (section 4) does not break it.
* **The checkout** (`TabsShareCheckout`), inductive with the types.  While the
  payment names no checkout no tab was sent to one, and `PaymentCheckout` never
  replaces the one it names, so a rolled-back transaction may leave checkouts at
  the provider but leads nobody to them.
* **The list of the inventory** (`EachRowIsOnce`).  The keyset filter and the
  order of the rows, with missing values last in both directions, are shown to be
  one strict total order of cursors (`Less`).  How many rows come before a row
  then numbers them without a gap, so that `Ordered` is the rows in their order
  and a page an interval of it (`PaginateReads`).  The invariant `Chain` says of
  the pages read that each covers what comes before its end and lists nothing
  that an earlier one does, apart from what moved meanwhile; it survives pages
  that are cut off, read again, or rebuilt from the first.  `Ordered` is written
  with places instead of the library's `SortSeq`, which the prover cannot open.
* **The receipt of a transfer** (`ReviewsAreBacked`).  The proof of a sale is one
  row that a later upload points to another asset, and a retried upload may store
  other bytes over the first.  `ReceiptInv` says why the asset that was found
  whole stays so: a tab that works on an upload has an asset of its own
  (`Apart`), and stores bytes only while that asset is pending (`Fresh`), so no
  step touches the object of a ready one; and only a completion or a restore puts
  a sale under review, each with its receipt ready.

### The screens behind their router

`MCSales` and `MCShop` mount one screen of several and never another.  For each
screen, `...Same` shows that it is an instance of what was proved, with its
constants; `...Mounted` that the steps of the router are its steps while it is
mounted; `...Holds`, `...Steps` or `...Typed` that it has its properties.  The
theorems collect them: `NoSaleIsOrphaned` is `Spec => []NoOrphanSale` of
`MCSales`, `RowsAreListedOnce` is `Spec => []EachRowOnce` of `MCShop`, and so
for each property of the runs `Sales` and `Shop`, their types
(`ScreensAreTyped`) included.  `MCShop` mounts some screens with several values
of their constants, so it takes three instances of `ShopScreens_proofs`; in that
module the constants and variables that two screens name alike but that differ
in an instance are renamed.  That library operators mean the same in two
instances (`...Count`, `...Finite`) has to be said to the prover too.

### What stays with TLC

* Liveness: `Lapse` and `Progress`, whose properties hold under fairness, which
  with ENABLED is beyond the prover.  In `SalesOrders_proofs` the invariants are
  proved for `Spec`, whose steps those of `ExpiryJob` are.
* The violated statements of section 4, which are counterexamples.

## 6. What is not modelled

`PROJECT.json` gives every component's status with a reason.  Left out of the
models altogether:

* **Outbox** (`notifications/outbox.py`).  Nothing else reads its rows.  Its
  hazards: an event that is PROCESSING is not excluded from a second worker, a
  worker that dies leaves its event PROCESSING for ever, and a mail may be sent
  twice or, as a dead letter, never.
* **The inbox's own rows** (`sales/webhooks.py`, `sales/api.py`).  A duplicate
  delivery puts a processed event back to received, and the retry job does so
  for a batch of them; for the sale both mean that a snapshot is applied again
  at any time, which `ProviderSnapshot` already does.
* **OAuth, billing, users**: an OAuth disconnect that races a checkout, a plan
  that is read without a lock and overwritten by a synchronisation, the count of
  `session_version`, and the rate-limit bucket that is saved in a transaction
  that then raises.  Each is a row of its own that no sale reads back; whether
  the provider is connected is an input of the models that sell.
* **Imports, exports, alerts**: batches of the commands that `ProductForm` and
  `StockAdjust` model one by one, and rows that follow a balance.
* **Locks and isolation.**  A transaction is a step, so a deadlock between
  `archive_product` (product, then balance) and a sale (balance, then the key
  share of a product) cannot be seen; PostgreSQL breaks it by rolling one back,
  which is a command that fails.
* **The stored 409 answers** of `execute_idempotent`: a replay of such a key
  gives the 409 again; the models replay successes.
* **The provider's side of a refund**: the refund is requested inside the
  transaction that records it; the models start where it was recorded.
* Layout, wording, formats, routes, the design system, GraphQL argument mapping,
  memberships and permissions, mail templates, storage adapters, thumbnails and
  scans, and how the image search finds its candidates.
