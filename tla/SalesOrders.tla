----------------------------- MODULE SalesOrders -----------------------------
(***************************************************************************)
(* The life of a sale: backend/apps/sales/order_services.py, with the      *)
(* receipt upload of sales/uploads.py and the shipment that                *)
(* shipping/services.py creates when a sale is paid.                       *)
(*                                                                         *)
(* The variables are the tables the commands write: the order with its     *)
(* timeline facts, its stock reservations, its payment and its proof of    *)
(* payment.  Every command takes the order's row lock first and keeps it   *)
(* to the end of its transaction, so a command is one step; a command      *)
(* that raises is rolled back, so it is no step at all.  Two things are    *)
(* not under that lock and are modelled apart: the ACTIVE check of the     *)
(* products of a new sale (BeginCreateOrder, then ReserveDraftOrder) and   *)
(* what the payment provider says.  That is any snapshot at any time       *)
(* (ApplySnapshot), since a query may be answered late, twice or out of    *)
(* order, or no snapshot at all: then the worker reads the sale without a  *)
(* lock and writes what it makes of it (ReportFails, FailEvent).           *)
(***************************************************************************)
EXTENDS Stock

CONSTANTS
    Orders,             \* the orders that may be created
    Methods,            \* the payment methods in use, a part of PaymentMethod
    Carts,              \* the carts a seller may sell: units of each product
    BuyerDetails,       \* the contact data a buyer may leave: "email", "phone"
    SnapshotKinds,      \* what the provider may report, a part of SnapshotKind
    ProviderPayments,   \* the provider's payment identifiers
    NoProviderPayment,  \* the empty provider_payment_id
    MaxLineQuantity     \* MAX_LINE_QUANTITY

PaymentMethod == {"mercado_pago", "bank_transfer", "cash"}

SnapshotKind ==
    {"approved", "rejected", "cancelled", "pending", "refunded",
     "partially_refunded", "other", "fee_mismatch", "mismatch", "unavailable"}

ASSUME SalesAssumption ==
    /\ IsFiniteSet(Orders)
    /\ Methods \subseteq PaymentMethod
    /\ MaxLineQuantity \in Nat
    /\ Carts \subseteq [Products -> 0..MaxLineQuantity]
    /\ \A cart \in Carts : \E p \in Products : cart[p] > 0
    /\ BuyerDetails \subseteq {"email", "phone"}
    /\ SnapshotKinds \subseteq SnapshotKind
    /\ NoProviderPayment \notin ProviderPayments

VARIABLES
    order,      \* Order, with BuyerSnapshot, Shipment, issues and timeline facts
    rows,       \* StockReservation: one row for each product of the cart
    payment,    \* Payment
    proof       \* PaymentProof.status, "none" when there is no row

saleVars == <<order, rows, payment, proof>>
vars == <<stockVars, saleVars>>

OrderStatus ==
    {"absent", "draft", "reserved", "purchase_in_progress",
     "purchase_validation", "paid", "cancelled", "expired", "refunded"}

RowStatus == {"none", "active", "released", "consumed"}

PaymentStatus ==
    {"none", "pending", "validation", "approved", "rejected", "cancelled",
     "refunded", "reconciliation_required"}

ProofStatus == {"none", "pending", "ready", "approved", "rejected"}

IssueKind ==
    {"unknown_payment", "payment_mismatch", "paid_without_stock",
     "webhook_pending", "fee_mismatch", "partial_refund", "provider_status"}

\* Was the payment settled, was the sale flagged already?
StaleRead == [settled : BOOLEAN, flagged : BOOLEAN]

OrderRow ==
    [status : OrderStatus,
     method : PaymentMethod \cup {"none"},
     lines : [Products -> 0..MaxLineQuantity],   \* units of each product
     due : BOOLEAN,                  \* reservation_expires_at has passed
     buyer : {"none", "email", "phone"},
     cancelledFrom : OrderStatus,    \* from_status of the last order.cancelled
     reissued : BOOLEAN,             \* an order.reissued event is in the timeline
     reconciliation : {"ok", "required", "retrying"},
     issues : SUBSET IssueKind,      \* the kinds of its unresolved issues
     failing : SUBSET StaleRead,     \* what a worker has read of it, unlocked
     shipment : {"none", "pending"}]

PaymentRow ==
    [status : PaymentStatus,
     provider : ProviderPayments \cup {NoProviderPayment}]

\* Before its creation an order has no row: "absent" stands for that, and
\* "draft" for a row that the transaction creating it has not committed.
AbsentOrder ==
    [status |-> "absent", method |-> "none", lines |-> [p \in Products |-> 0],
     due |-> FALSE, buyer |-> "none", cancelledFrom |-> "absent",
     reissued |-> FALSE, reconciliation |-> "ok", issues |-> {},
     failing |-> {}, shipment |-> "none"]

NoPayment == [status |-> "none", provider |-> NoProviderPayment]

TypeOK ==
    /\ StockTypeOK
    /\ order \in [Orders -> OrderRow]
    /\ rows \in [Orders -> [Products -> RowStatus]]
    /\ payment \in [Orders -> PaymentRow]
    /\ proof \in [Orders -> ProofStatus]

Init ==
    /\ StockInit
    /\ order = [o \in Orders |-> AbsentOrder]
    /\ rows = [o \in Orders |-> [p \in Products |-> "none"]]
    /\ payment = [o \in Orders |-> NoPayment]
    /\ proof = [o \in Orders |-> "none"]

----------------------------------------------------------------------------
(* Statuses and transitions.                                               *)

ActiveStatus == {"reserved", "purchase_in_progress", "purchase_validation"}

ExpirableStatus == {"reserved", "purchase_in_progress"}

Transitions ==
    [s \in OrderStatus |->
        CASE s = "draft" -> {"reserved", "cancelled"}
          [] s = "reserved" -> {"purchase_in_progress", "purchase_validation",
                                "paid", "cancelled", "expired"}
          [] s = "purchase_in_progress" -> {"purchase_validation", "paid",
                                            "cancelled", "expired"}
          [] s = "purchase_validation" -> {"paid", "cancelled"}
          [] s = "paid" -> {"refunded"}
          [] s = "cancelled" -> ActiveStatus
          [] OTHER -> {}]

\* Fault: only a sale that becomes paid right now keeps its shipment.
TransitionDropsShipment(o, r, target) ==
    /\ target \in Transitions[r.status]
    /\ order' = [order EXCEPT ![o] =
          [r EXCEPT !.status = target,
                    !.shipment = IF target = "paid" THEN "pending" ELSE "none"]]

\* The order leaves its status; a sale that becomes paid gets its shipment.
\* r is the order's row with whatever the command has changed in it so far.
Transition(o, r, target) ==
    /\ target \in Transitions[r.status]
    /\ order' = [order EXCEPT ![o] =
          [r EXCEPT !.status = target,
                    !.shipment = IF target = "paid" THEN "pending" ELSE @]]

PayStatus(o, status) == [payment EXCEPT ![o].status = status]

----------------------------------------------------------------------------
(* Reservations of one order.                                              *)

LineProducts(o) == {p \in Products : order[o].lines[p] > 0}

\* Fault: the filter of _active_reservations is the wrong way round.
HeldIsReleased(o) == {p \in Products : rows[o][p] = "released"}

Held(o) == {p \in Products : rows[o][p] = "active"}

\* The aggregate request for the lines of the products in S.
Claim(o, S) == [p \in Products |-> IF p \in S THEN order[o].lines[p] ELSE 0]

SetRows(o, S, status) ==
    [rows EXCEPT ![o] = [p \in Products |-> IF p \in S THEN status ELSE @[p]]]

\* Fault: the balances are given back, the rows are not closed.
ReleaseWithoutRows(o) ==
    /\ ReleaseStock(Claim(o, Held(o)))
    /\ UNCHANGED rows

ReleaseReservations(o) ==
    /\ ReleaseStock(Claim(o, Held(o)))
    /\ rows' = SetRows(o, Held(o), "released")

ReserveLines(o, S) ==
    /\ ReserveStock(Claim(o, S))
    /\ rows' = SetRows(o, S, "active")

----------------------------------------------------------------------------
(* Reconciliation.                                                         *)

\* The order's row r with an issue of that kind.
Flagged(r, kind) ==
    [r EXCEPT !.issues = @ \cup {kind}, !.reconciliation = "required"]

FlaggedPayments(payments, o) ==
    [payments EXCEPT ![o].status = "reconciliation_required"]

\* The command ends by opening an issue: the stock and the status stay.  r and
\* payments are the order's row and the payment table so far.
MarkReconciliation(o, r, payments, kind) ==
    /\ order' = [order EXCEPT ![o] = Flagged(r, kind)]
    /\ payment' = FlaggedPayments(payments, o)
    /\ UNCHANGED <<stockVars, rows>>

\* The order's row when issues of the kinds in resolved are resolved: a sale
\* with no issue left is clear.
Cleared(r, resolved) ==
    [r EXCEPT !.issues = @ \ resolved,
              !.reconciliation = IF r.issues \subseteq resolved THEN "ok" ELSE @]

\* The seller asks for an issue to be tried again.
RetryIssue(o) ==
    /\ order[o].issues # {}
    /\ order' = [order EXCEPT ![o].reconciliation = "retrying"]
    /\ UNCHANGED <<stockVars, rows, payment, proof>>

----------------------------------------------------------------------------
(* Creation.                                                               *)

\* The transaction that creates a sale has found every product active.
BeginCreateOrder(o, method, cart) ==
    /\ order[o].status = "absent"
    /\ \A p \in Products : cart[p] > 0 => catalog[p] = "active"
    /\ order' = [order EXCEPT ![o].status = "draft",
                              ![o].method = method,
                              ![o].lines = cart]
    /\ UNCHANGED <<stockVars, rows, payment, proof>>

\* It takes the balances, reserves the cart and commits.
ReserveDraftOrder(o) ==
    /\ order[o].status = "draft"
    /\ ReserveLines(o, LineProducts(o))
    /\ Transition(o, order[o], "reserved")
    /\ UNCHANGED <<payment, proof>>

\* INSUFFICIENT_STOCK: the whole creation is rolled back.
AbandonDraftOrder(o) ==
    /\ order[o].status = "draft"
    /\ ~CanReserve(Claim(o, LineProducts(o)))
    /\ order' = [order EXCEPT ![o] = AbsentOrder]
    /\ UNCHANGED <<stockVars, rows, payment, proof>>

----------------------------------------------------------------------------
(* The buyer's side, through the public link.                              *)

\* The buyer's first step in the checkout moves a reserved sale on.
CheckoutStatus(status) ==
    IF status = "reserved" THEN "purchase_in_progress" ELSE status

\* Fault: a late form writes the next status whatever the sale's is.
SetBuyerDetailsAnyStatus(o, details) ==
    /\ order[o].status \notin {"absent", "draft"}
    /\ order' = [order EXCEPT ![o].buyer = details,
                              ![o].status = "purchase_in_progress"]
    /\ UNCHANGED <<stockVars, rows, payment, proof>>

SetBuyerDetails(o, details) ==
    /\ order[o].status \in ExpirableStatus
    /\ order' = [order EXCEPT ![o].buyer = details, ![o].status = CheckoutStatus(@)]
    /\ UNCHANGED <<stockVars, rows, payment, proof>>

\* The seller corrects the buyer's data; the status stays.
UpdateOrderBuyer(o, details) ==
    /\ order[o].status \in ActiveStatus \cup {"paid"}
    /\ order' = [order EXCEPT ![o].buyer = details]
    /\ UNCHANGED <<stockVars, rows, payment, proof>>

\* get_or_create: a payment row that exists is kept as it is.
EnsuredPayment(o) ==
    IF payment[o].status = "none" THEN PayStatus(o, "pending") ELSE payment

InitiateCheckout(o) ==
    /\ order[o].method = "mercado_pago"
    /\ order[o].status \in ExpirableStatus
    /\ order[o].buyer = "email"
    /\ payment' = EnsuredPayment(o)
    /\ order' = [order EXCEPT ![o].status = CheckoutStatus(@)]
    /\ UNCHANGED <<stockVars, rows, proof>>

PrepareReceiptUpload(o) ==
    /\ order[o].method = "bank_transfer"
    /\ order[o].status \in ExpirableStatus
    /\ order[o].buyer # "none"
    /\ proof[o] \in {"none", "pending"}
    /\ payment' = EnsuredPayment(o)
    /\ proof' = [proof EXCEPT ![o] = "pending"]
    /\ UNCHANGED <<stockVars, order, rows>>

\* The stored object matched, and the proof waits for the seller's review.
CompleteReceiptUpload(o) ==
    /\ proof[o] \notin {"none", "ready"}
    /\ order[o].status \in ExpirableStatus
    /\ proof' = [proof EXCEPT ![o] = "ready"]
    /\ payment' = PayStatus(o, "validation")
    /\ Transition(o, order[o], "purchase_validation")
    /\ UNCHANGED <<stockVars, rows>>

----------------------------------------------------------------------------
(* Payment.                                                                *)

\* The money is accepted: the reservations become exits.  When they are not
\* there to consume, the payment is flagged and the sale stays open.  r and
\* payments are the order's row and the payment table as the caller has them.
ApprovePayment(o, r, payments) ==
    /\ order[o].status \in ActiveStatus
    /\ IF Held(o) # {} /\ CanConsume(Claim(o, Held(o)))
       THEN /\ ConsumeStock(Claim(o, Held(o)))
            /\ rows' = SetRows(o, Held(o), "consumed")
            /\ payment' = [payments EXCEPT ![o].status = "approved"]
            /\ Transition(o, r, "paid")
       ELSE MarkReconciliation(o, r, payments, "paid_without_stock")

ConfirmManualPayment(o) ==
    /\ order[o].method \in {"cash", "bank_transfer"}
    /\ order[o].method = "bank_transfer" => order[o].status # "purchase_validation"
    /\ ApprovePayment(o, order[o], EnsuredPayment(o))
    /\ UNCHANGED proof

ApproveProof(o) ==
    /\ proof[o] \notin {"none", "pending"}
    /\ order[o].status = "purchase_validation"
    /\ proof' = [proof EXCEPT ![o] = "approved"]
    /\ ApprovePayment(o, order[o], payment)

RejectProof(o) ==
    /\ proof[o] \notin {"none", "pending"}
    /\ order[o].status = "purchase_validation"
    /\ proof' = [proof EXCEPT ![o] = "rejected"]
    /\ payment' = PayStatus(o, "rejected")
    /\ ReleaseReservations(o)
    /\ Transition(o, order[o], "cancelled")

\* Only a paid sale; the stock that was sold is not put back.
RefundPayment(o) ==
    /\ order[o].status = "paid"
    /\ payment[o].status = "approved"
    /\ IF order[o].method = "mercado_pago" /\ payment[o].provider = NoProviderPayment
       THEN MarkReconciliation(o, order[o], payment, "unknown_payment")
       ELSE /\ payment' = PayStatus(o, "refunded")
            /\ Transition(o, order[o], "refunded")
            /\ UNCHANGED <<stockVars, rows>>
    /\ UNCHANGED proof

----------------------------------------------------------------------------
(* Closing and reopening.                                                  *)

\* Fault: the payment is given the order's status.
PaymentTakesOrderStatus(o, statuses) ==
    IF payment[o].status \in statuses THEN PayStatus(o, order[o].status) ELSE payment

CancelledPayment(o, statuses) ==
    IF payment[o].status \in statuses THEN PayStatus(o, "cancelled") ELSE payment

CancelOrder(o) ==
    /\ order[o].status \in ActiveStatus
    /\ ReleaseReservations(o)
    /\ payment' = CancelledPayment(o, {"pending", "validation"})
    /\ Transition(o, [order[o] EXCEPT !.cancelledFrom = order[o].status], "cancelled")
    /\ UNCHANGED proof

\* reservation_expires_at passes.  The date is read only while the order may
\* expire, and a restore writes a new one.
ReservationLapses(o) ==
    /\ order[o].status \in ExpirableStatus
    /\ ~order[o].due
    /\ order' = [order EXCEPT ![o].due = TRUE]
    /\ UNCHANGED <<stockVars, rows, payment, proof>>

ExpireOrder(o) ==
    /\ order[o].status \in ExpirableStatus
    /\ order[o].due
    /\ ReleaseReservations(o)
    /\ payment' = CancelledPayment(o, {"pending"})
    /\ Transition(o, order[o], "expired")
    /\ UNCHANGED proof

\* Fault: back to review without looking for a proof.
RestoreTargetAsLeft(o) == order[o].cancelledFrom

\* Where a cancelled sale goes back to: the status its last cancellation left,
\* but under review only when there still is a proof to review.
RestoreTarget(o) ==
    IF order[o].cancelledFrom # "purchase_validation" THEN order[o].cancelledFrom
    ELSE IF proof[o] = "ready" THEN "purchase_validation"
    ELSE IF order[o].buyer # "none" THEN "purchase_in_progress"
    ELSE "reserved"

ReleasedRows(o) == {p \in Products : rows[o][p] = "released"}

\* Fault: the sale is reopened without its stock.
ReopenWithoutStock(o) == UNCHANGED <<stockVars, rows>>

\* Rows that are active are kept; else the released rows are claimed again;
\* an order with no row at all gets rows for its lines.
ReopenReservations(o) ==
    IF Held(o) # {} THEN UNCHANGED <<stockVars, rows>>
    ELSE ReserveLines(o, IF ReleasedRows(o) # {} THEN ReleasedRows(o) ELSE LineProducts(o))

RestoreOrder(o) ==
    /\ order[o].status = "cancelled"
    /\ order[o].cancelledFrom \in ActiveStatus
    /\ ReopenReservations(o)
    /\ payment' = IF payment[o].status # "cancelled" THEN payment
                  ELSE PayStatus(o, IF RestoreTarget(o) = "purchase_validation"
                                    THEN "validation" ELSE "pending")
    /\ Transition(o, [order[o] EXCEPT !.due = FALSE], RestoreTarget(o))
    /\ UNCHANGED proof

\* A transfer under review is closed and its cart is offered again under the
\* new order n, all in one transaction that holds the balances throughout.
ReissueOffer(o, n) ==
    /\ order[o].method = "bank_transfer"
    /\ order[o].status = "purchase_validation"
    /\ order[n].status = "absent"
    /\ \A p \in LineProducts(o) : catalog[p] = "active"
    /\ CanRelease(Claim(o, Held(o)))
    /\ \A p \in LineProducts(o) :
          order[o].lines[p] <= Available(p) + Claim(o, Held(o))[p]
    /\ reserved' = [p \in Products |->
                      reserved[p] - Claim(o, Held(o))[p] + order[o].lines[p]]
    /\ rows' = [SetRows(o, Held(o), "released") EXCEPT ![n] =
                  [p \in Products |-> IF p \in LineProducts(o) THEN "active" ELSE @[p]]]
    /\ payment' = CancelledPayment(o, {"pending", "validation"})
    /\ proof' = IF proof[o] = "ready" THEN [proof EXCEPT ![o] = "rejected"] ELSE proof
    /\ order' = [order EXCEPT
          ![o].status = "cancelled", ![o].reissued = TRUE,
          ![n] = [@ EXCEPT !.status = "reserved", !.method = "bank_transfer",
                           !.lines = order[o].lines]]
    /\ UNCHANGED <<onHand, adjusted, catalog, moving>>

----------------------------------------------------------------------------
(* What the payment provider reports.                                      *)

\* r is the order's row, cleared of the failure of this very event.

SnapshotMismatch(o, r, kind) ==
    /\ kind \in {"fee_mismatch", "mismatch"}
    /\ MarkReconciliation(o, r, payment,
                          IF kind = "mismatch" THEN "payment_mismatch" ELSE kind)

\* The rest first save the identifier the snapshot names: seen is the payment
\* table with it.
KeepSale(o, r, seen) ==
    /\ order' = [order EXCEPT ![o] = r]
    /\ payment' = seen
    /\ UNCHANGED <<stockVars, rows>>

SnapshotApproved(o, r, seen) ==
    CASE order[o].status = "paid" /\ payment[o].status = "approved" -> KeepSale(o, r, seen)
      [] order[o].status \in {"cancelled", "expired"} ->
            MarkReconciliation(o, r, seen, "paid_without_stock")
      [] order[o].status = "refunded" -> KeepSale(o, r, seen)
      [] OTHER -> ApprovePayment(o, r, seen)

\* Fault: the rejected sale is closed and its reservations are left.
RejectedKeepsHold(o, r, seen, kind) ==
    CASE order[o].status = "paid" -> MarkReconciliation(o, r, seen, "provider_status")
      [] order[o].status \in ActiveStatus ->
            /\ payment' = [seen EXCEPT ![o].status = kind]
            /\ Transition(o, r, "cancelled")
            /\ UNCHANGED <<stockVars, rows>>
      [] OTHER -> KeepSale(o, r, seen)

SnapshotRejected(o, r, seen, kind) ==
    CASE order[o].status = "paid" -> MarkReconciliation(o, r, seen, "provider_status")
      [] order[o].status \in ActiveStatus ->
            /\ ReleaseReservations(o)
            /\ payment' = [seen EXCEPT ![o].status = kind]
            /\ Transition(o, r, "cancelled")
      [] OTHER -> KeepSale(o, r, seen)

\* Fault: a pending report is believed even of money that was accepted.
PendingAlways(o, r, seen) == KeepSale(o, r, [seen EXCEPT ![o].status = "pending"])

SnapshotPending(o, r, seen) ==
    KeepSale(o, r, IF payment[o].status = "approved" THEN seen
                   ELSE [seen EXCEPT ![o].status = "pending"])

\* Fault: the sale is refunded and the payment is not saved.
RefundedOrderOnly(o, r, seen, kind) ==
    IF kind = "refunded" /\ order[o].status = "paid"
    THEN /\ payment' = seen
         /\ Transition(o, r, "refunded")
         /\ UNCHANGED <<stockVars, rows>>
    ELSE MarkReconciliation(o, r, seen, "partial_refund")

SnapshotRefunded(o, r, seen, kind) ==
    IF kind = "refunded" /\ order[o].status = "paid"
    THEN /\ payment' = [seen EXCEPT ![o].status = "refunded"]
         /\ Transition(o, r, "refunded")
         /\ UNCHANGED <<stockVars, rows>>
    ELSE MarkReconciliation(o, r, seen, "partial_refund")

ApplySnapshot(o, r, kind, id) ==
    LET seen == [payment EXCEPT ![o].provider = id]
    IN  CASE kind \in {"fee_mismatch", "mismatch"} -> SnapshotMismatch(o, r, kind)
          [] kind = "approved" -> SnapshotApproved(o, r, seen)
          [] kind \in {"rejected", "cancelled"} -> SnapshotRejected(o, r, seen, kind)
          [] kind = "pending" -> SnapshotPending(o, r, seen)
          [] kind \in {"refunded", "partially_refunded"} ->
                SnapshotRefunded(o, r, seen, kind)
          [] OTHER -> MarkReconciliation(o, r, seen, "provider_status")

\* The provider knows only orders whose checkout was started, and each of its
\* payments is for one order.  The event that is processed may be the one whose
\* failure is an open issue of the sale: that issue is then resolved.
ProviderSnapshot(o, kind, id) ==
    /\ order[o].method = "mercado_pago"
    /\ payment[o].status # "none"
    /\ kind # "unavailable"
    /\ \A n \in Orders \ {o} : payment[n].provider # id
    /\ \E resolved \in SUBSET (order[o].issues \cap {"webhook_pending"}) :
          ApplySnapshot(o, Cleared(order[o], resolved), kind, id)
    /\ UNCHANGED proof

\* An event knows its order only once it has been applied to it.
Reported(o) ==
    \/ payment[o].provider # NoProviderPayment
    \/ order[o].issues \cap {"fee_mismatch", "payment_mismatch"} # {}

\* Such an event comes again and cannot be processed: the worker reads the
\* payment and the order, without a lock on either.  One event of a sale fails
\* at a time.
ReportFails(o) ==
    /\ "unavailable" \in SnapshotKinds
    /\ order[o].failing = {}
    /\ Reported(o)
    /\ order' = [order EXCEPT ![o].failing =
          {[settled |-> payment[o].status \in {"approved", "refunded"},
            flagged |-> order[o].reconciliation = "required"]}]
    /\ UNCHANGED <<stockVars, rows, payment, proof>>

\* It opens the issue and writes what follows from what it has read.
FailEvent(o) ==
    \E read \in order[o].failing :
        /\ order' = [order EXCEPT
              ![o].failing = {},
              ![o].issues = @ \cup {"webhook_pending"},
              ![o].reconciliation = IF read.flagged THEN @ ELSE "required"]
        /\ payment' = IF read.settled THEN payment ELSE FlaggedPayments(payment, o)
        /\ UNCHANGED <<stockVars, rows, proof>>

----------------------------------------------------------------------------

BuyerStep(o) ==
    \/ \E details \in BuyerDetails : SetBuyerDetails(o, details)
    \/ InitiateCheckout(o)
    \/ PrepareReceiptUpload(o)
    \/ CompleteReceiptUpload(o)

SellerStep(o) ==
    \/ \E method \in Methods, cart \in Carts : BeginCreateOrder(o, method, cart)
    \/ ReserveDraftOrder(o)
    \/ AbandonDraftOrder(o)
    \/ \E details \in BuyerDetails : UpdateOrderBuyer(o, details)
    \/ ConfirmManualPayment(o)
    \/ ApproveProof(o)
    \/ RejectProof(o)
    \/ RefundPayment(o)
    \/ CancelOrder(o)
    \/ RestoreOrder(o)
    \/ \E n \in Orders \ {o} : ReissueOffer(o, n)
    \/ RetryIssue(o)

ReportStep(o) ==
    \/ \E kind \in SnapshotKinds, id \in ProviderPayments : ProviderSnapshot(o, kind, id)
    \/ ReportFails(o)
    \/ FailEvent(o)

WorkerStep(o) == ReservationLapses(o) \/ ExpireOrder(o) \/ ReportStep(o)

Next ==
    \/ \E o \in Orders : BuyerStep(o) \/ SellerStep(o) \/ WorkerStep(o)
    \/ StockStep /\ UNCHANGED saleVars

Spec == Init /\ [][Next]_vars

----------------------------------------------------------------------------
(* Safety.  A unit of a line is <<its order, its number within the line>>. *)

UnitsIn(p, status) ==
    {u \in Orders \X (1..MaxLineQuantity) :
        rows[u[1]][p] = status /\ u[2] <= order[u[1]].lines[p]}

\* The column StockBalance.reserved, which every command adds to or takes
\* from, always equals the units of the open reservation rows: no command
\* releases or consumes twice, and none forgets to.
ReservedIsHeld == \A p \in Products : reserved[p] = Cardinality(UnitsIn(p, "active"))

\* Whatever sales, movements and reports interleave, no product has more units
\* reserved than it has, so available (on_hand - reserved) is never negative.
NoOversell == \A p \in Products : 0 <= reserved[p] /\ reserved[p] <= onHand[p]

\* The ledger adds up: what is on hand and what sales have taken is what the
\* seller's movements brought.  A sale takes its units once, when it is paid,
\* and neither its refund nor anything else puts them back.
LedgerBalances ==
    \A p \in Products : onHand[p] + Cardinality(UnitsIn(p, "consumed")) = adjusted[p]

\* An open sale holds its whole cart, and a sale that is not open holds
\* nothing, through cancellations, restores, reissues and expiries.
OpenSaleHoldsCart ==
    \A o \in Orders, p \in Products :
        rows[o][p] = "active" <=> order[o].status \in ActiveStatus /\ order[o].lines[p] > 0

\* A sale that was closed or has lapsed has given back its cart, the whole of
\* it, so a restore that claims the released rows claims the cart again.
ClosedSaleGaveBack ==
    \A o \in Orders, p \in Products :
        rows[o][p] = "released" <=>
           order[o].status \in {"cancelled", "expired"} /\ order[o].lines[p] > 0

\* A sale has taken its cart from the stock, and has a shipment, exactly when
\* it was paid, also after it is refunded.
PaidSaleTookCart ==
    \A o \in Orders :
        /\ order[o].shipment = "pending" <=> order[o].status \in {"paid", "refunded"}
        /\ \A p \in Products :
              rows[o][p] = "consumed" <=>
                 order[o].status \in {"paid", "refunded"} /\ order[o].lines[p] > 0

\* The payment and the sale agree: money is accepted only for a sale that is
\* paid, and the payment of an open sale is never one that was closed.
MoneyFollowsSale ==
    \A o \in Orders :
        /\ payment[o].status = "approved" => order[o].status = "paid"
        /\ order[o].status \in ActiveStatus =>
              payment[o].status \notin {"cancelled", "refunded"}

\* A transfer is under review exactly while its payment is in validation, and
\* then there is a receipt to review; a receipt that waits for a review
\* belongs to a sale under review or to one that a restore would put back
\* under review.
ReviewHasReceipt ==
    \A o \in Orders :
        /\ order[o].status = "purchase_validation" <=> payment[o].status = "validation"
        /\ order[o].status = "purchase_validation" => proof[o] = "ready"
        /\ proof[o] = "ready" =>
              \/ order[o].status = "purchase_validation"
              \/ order[o].status = "cancelled" /\ RestoreTarget(o) = "purchase_validation"

----------------------------------------------------------------------------
(* What a step may never do.                                               *)

\* A payment is never accepted for an open sale whose stock is not there: the
\* branch of _approve_payment that opens PAID_WITHOUT_STOCK is never taken, and
\* that issue comes only from money that arrives after the sale was closed.
OpenSaleCanBePaid ==
    [][\A o \in Orders :
          "paid_without_stock" \in order'[o].issues \ order[o].issues =>
             order[o].status \in {"cancelled", "expired"}]_vars

\* Accepted money does not become doubtful in silence: whatever takes the
\* payment of a paid sale out of "approved", save its refund, leaves an issue.
DoubtLeavesIssue ==
    [][\A o \in Orders :
          /\ order[o].status = "paid" /\ payment[o].status = "approved"
          /\ payment'[o].status \notin {"approved", "refunded"}
          => order'[o].issues # {}]_vars

\* No report of the provider, however late, and no command undoes an end: an
\* expired or refunded sale stays so, and a paid one is at most refunded.
EndsAreFinal ==
    [][\A o \in Orders :
          /\ order[o].status \in {"expired", "refunded"} =>
                order'[o].status = order[o].status
          /\ order[o].status = "paid" => order'[o].status \in {"paid", "refunded"}]_vars

\* archive_product looks at the column reserved alone, and that is enough: when
\* it archives a product, no sale holds a unit of it.
ArchiveFindsNoHold ==
    [][\A p \in Products :
          catalog[p] # "archived" /\ catalog'[p] = "archived" =>
             \A o \in Orders : rows[o][p] # "active"]_vars

\* Reissuing an offer moves the units of the closed sale to its replacement:
\* in between they are nobody else's, so nothing becomes available.
ReissueKeepsUnits ==
    [][\A o \in Orders :
          order'[o].reissued /\ ~order[o].reissued => reserved' = reserved]_vars

----------------------------------------------------------------------------
(* The promise the sales keep.                                             *)

PhaseOf(o) ==
    CASE order[o].status \in {"absent", "draft"} -> "none"
      [] order[o].status \in ActiveStatus -> "open"
      [] order[o].status = "cancelled" -> "closed"
      [] order[o].status = "expired" -> "lapsed"
      [] order[o].status = "paid" -> "sold"
      [] order[o].status = "refunded" -> "refunded"

Promise ==
    INSTANCE StockPromise WITH
        Sales <- Orders,
        MaxQuantity <- MaxLineQuantity,
        FirstStock <- InitialStock,
        shelf <- onHand,
        phase <- [o \in Orders |-> PhaseOf(o)],
        cart <- [o \in Orders |->
                   IF order[o].status \in {"absent", "draft"}
                   THEN [p \in Products |-> 0] ELSE order[o].lines]

\* The tables, counters and reports together implement StockPromise.
KeepsPromise == Promise!Spec

----------------------------------------------------------------------------
(* What the repository says of the program and the program does not do.    *)

\* tests/test_sales_deposit_offer.py: a sale whose offer was reissued is not
\* restored (restore_order raises ORDER_TRANSITION_NOT_ALLOWED).
ReissuedStaysClosed ==
    [][\A o \in Orders :
          order[o].reissued /\ order[o].status = "cancelled" =>
             order'[o].status = "cancelled"]_vars
=============================================================================
