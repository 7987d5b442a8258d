------------------------- MODULE SalesOrders_proofs -------------------------
(***************************************************************************)
(* Proofs about the sales and the stock that they hold, for every          *)
(* inventory, every set of orders and carts and every report of the        *)
(* provider.                                                               *)
(*                                                                         *)
(* TypeOK is inductive by itself.  The proof follows Next: a lemma for     *)
(* each way a row is edited, one for each helper that several commands     *)
(* call (Transition, ReleaseReservations, ReserveLines, ApprovePayment),   *)
(* then one for each disjunct of Next.                                     *)
(*                                                                         *)
(* The argument about the stock goes through five moves of a sale (Keeps,  *)
(* Drafts, Takes, GivesBack, Sells) and the replacement of one sale by     *)
(* another: NextMoves shows that whatever a command does to buyers,        *)
(* payments and proofs, what it does to the stock is one of them.          *)
(* SalesInv, the inductive invariant on rows and shipments, and then the   *)
(* counters are shown for the moves.                                       *)
(*                                                                         *)
(* Follows(r, s) says what may become of a row r of the order table.  Each *)
(* command is shown to write a row that follows the one it read.  The      *)
(* invariants about the stock carry the two steps that depend on it: the   *)
(* sale that is paid and the product that is archived.                     *)
(*                                                                         *)
(* On this rest two more results.  Backed(r, pay, receipt) says what a row *)
(* of the order table, its payment and its proof have to do with each      *)
(* other; money accepted for an open sale finds its stock.  And the moves  *)
(* map to the actions of StockPromise or to stutters.                      *)
(***************************************************************************)
EXTENDS SalesOrders, FiniteSetTheorems, TLAPS

USE StockAssumption, SalesAssumption

\* The conjuncts of TypeOK about sales, named so that steps can cite them.
OrderTypeOK == order \in [Orders -> OrderRow]
RowsTypeOK == rows \in [Orders -> [Products -> RowStatus]]
PaymentTypeOK == payment \in [Orders -> PaymentRow]
ProofTypeOK == proof \in [Orders -> ProofStatus]

\* Editing one field of an order row gives an order row.
LEMMA EditOrder ==
    ASSUME NEW r \in OrderRow
    PROVE  /\ r.status \in OrderStatus /\ r.lines \in [Products -> 0..MaxLineQuantity]
           /\ r.shipment \in {"none", "pending"}
           /\ \A x \in OrderStatus : [r EXCEPT !.status = x] \in OrderRow
           /\ \A x \in PaymentMethod \cup {"none"} : [r EXCEPT !.method = x] \in OrderRow
           /\ \A x \in [Products -> 0..MaxLineQuantity] : [r EXCEPT !.lines = x] \in OrderRow
           /\ \A x \in {"none", "email", "phone"} : [r EXCEPT !.buyer = x] \in OrderRow
           /\ \A x \in OrderStatus : [r EXCEPT !.cancelledFrom = x] \in OrderRow
           /\ \A x \in BOOLEAN : [r EXCEPT !.due = x] \in OrderRow
           /\ \A x \in BOOLEAN : [r EXCEPT !.reissued = x] \in OrderRow
           /\ \A x \in {"none", "pending"} : [r EXCEPT !.shipment = x] \in OrderRow
           /\ \A x \in IssueKind :
                 [r EXCEPT !.issues = @ \cup {x}, !.reconciliation = "required"] \in OrderRow
           /\ \A x : Cleared(r, x) \in OrderRow
           /\ [r EXCEPT !.reconciliation = "retrying"] \in OrderRow
           /\ \A x \in SUBSET StaleRead : [r EXCEPT !.failing = x] \in OrderRow
  BY DEF OrderRow, Cleared

\* Editing the status or the identifier of a payment row gives a payment row.
LEMMA EditPayment ==
    ASSUME NEW r \in PaymentRow
    PROVE  /\ r.status \in PaymentStatus
           /\ \A x \in PaymentStatus : [r EXCEPT !.status = x] \in PaymentRow
           /\ \A x \in ProviderPayments : [r EXCEPT !.provider = x] \in PaymentRow
  BY DEF PaymentRow

\* The empty tables have the types.
LEMMA InitType == Init => TypeOK
  BY DEF Init, StockInit, TypeOK, StockTypeOK, OrderRow, PaymentRow, AbsentOrder,
         NoPayment, OrderStatus, RowStatus, PaymentStatus, ProofStatus,
         PaymentMethod, CatalogStatus, Movement, IssueKind

\* A payment table with one status written is a payment table.
LEMMA PaymentTableType ==
    ASSUME NEW table \in [Orders -> PaymentRow], NEW o \in Orders, NEW status \in PaymentStatus
    PROVE  [table EXCEPT ![o].status = status] \in [Orders -> PaymentRow]
  BY EditPayment

\* So does PayStatus, which writes the status of one payment.
LEMMA PayStatusType ==
    ASSUME PaymentTypeOK, NEW o \in Orders, NEW status \in PaymentStatus
    PROVE  PayStatus(o, status) \in [Orders -> PaymentRow]
  BY EditPayment DEF PaymentTypeOK, PayStatus

\* get_or_create keeps or adds one pending payment.
LEMMA EnsuredPaymentType ==
    ASSUME PaymentTypeOK, NEW o \in Orders
    PROVE  EnsuredPayment(o) \in [Orders -> PaymentRow]
  BY PayStatusType DEF PaymentTypeOK, EnsuredPayment, PaymentStatus

\* Closing a sale leaves its payment or cancels it.
LEMMA CancelledPaymentType ==
    ASSUME PaymentTypeOK, NEW o \in Orders, NEW S
    PROVE  CancelledPayment(o, S) \in [Orders -> PaymentRow]
  BY PayStatusType DEF PaymentTypeOK, CancelledPayment, PaymentStatus

\* _transition_order keeps the type of the orders.
LEMMA TransitionType ==
    ASSUME OrderTypeOK, NEW o \in Orders, NEW r \in OrderRow, NEW target \in OrderStatus,
           Transition(o, r, target)
    PROVE  OrderTypeOK'
  <1> DEFINE r1 == [r EXCEPT !.status = target]
             r2 == [r1 EXCEPT !.shipment = IF target = "paid" THEN "pending" ELSE @]
  <1>1. r1 \in OrderRow  BY EditOrder
  <1>2. r2 \in OrderRow  BY <1>1, EditOrder
  <1>3. order' = [order EXCEPT ![o] = r2]  BY DEF Transition
  <1> QED  BY <1>2, <1>3 DEF OrderTypeOK

\* _mark_reconciliation_required keeps the types of all the tables.
LEMMA MarkReconciliationType ==
    ASSUME TypeOK, NEW o \in Orders, NEW r \in OrderRow,
           NEW payments \in [Orders -> PaymentRow], NEW kind \in IssueKind,
           MarkReconciliation(o, r, payments, kind)
    PROVE  StockTypeOK' /\ OrderTypeOK' /\ RowsTypeOK' /\ PaymentTypeOK'
  <1>1. OrderTypeOK'
    BY EditOrder DEF TypeOK, OrderTypeOK, MarkReconciliation, Flagged
  <1>2. PaymentTypeOK'
    <2>1. "reconciliation_required" \in PaymentStatus
      BY DEF PaymentStatus
    <2> QED
      BY <2>1, PaymentTableType DEF MarkReconciliation, FlaggedPayments, PaymentTypeOK
  <1>3. StockTypeOK' /\ RowsTypeOK'
    BY DEF MarkReconciliation, TypeOK, RowsTypeOK, stockVars, StockTypeOK
  <1> QED  BY <1>1, <1>2, <1>3

\* Writing one status in some rows of an order keeps their type.
LEMMA SetRowsType ==
    ASSUME RowsTypeOK, NEW o \in Orders, NEW S, NEW status \in RowStatus
    PROVE  SetRows(o, S, status) \in [Orders -> [Products -> RowStatus]]
  BY DEF RowsTypeOK, SetRows

\* An aggregate request asks a natural number of each product.
LEMMA ClaimType ==
    ASSUME OrderTypeOK, NEW o \in Orders, NEW S
    PROVE  Claim(o, S) \in [Products -> 0..MaxLineQuantity]
  <1>1. order[o].lines \in [Products -> 0..MaxLineQuantity]
    BY EditOrder DEF OrderTypeOK
  <1>2. \A p \in Products : order[o].lines[p] \in 0..MaxLineQuantity
    BY <1>1
  <1>3. 0 \in 0..MaxLineQuantity
    OBVIOUS
  <1> QED  BY <1>2, <1>3 DEF Claim

\* reserve_stock, release_stock and consume_stock keep integer balances.
LEMMA StockMovesType ==
    ASSUME StockTypeOK, NEW req \in [Products -> Nat],
           ReserveStock(req) \/ ReleaseStock(req) \/ ConsumeStock(req)
    PROVE  StockTypeOK'
  <1>1. CASE ReserveStock(req)
    BY <1>1 DEF StockTypeOK, ReserveStock
  <1>2. CASE ReleaseStock(req)
    BY <1>2 DEF StockTypeOK, ReleaseStock
  <1>3. CASE ConsumeStock(req)
    BY <1>3 DEF StockTypeOK, ConsumeStock
  <1> QED  BY <1>1, <1>2, <1>3

\* _release_order_reservations keeps the types of balances and rows.
LEMMA ReleaseReservationsType ==
    ASSUME StockTypeOK, OrderTypeOK, RowsTypeOK, NEW o \in Orders, ReleaseReservations(o)
    PROVE  StockTypeOK' /\ RowsTypeOK'
  <1>1. StockTypeOK'
    BY ClaimType, StockMovesType DEF ReleaseReservations
  <1>2. RowsTypeOK'
    BY SetRowsType DEF ReleaseReservations, RowsTypeOK, RowStatus
  <1> QED BY <1>1, <1>2

\* Reserving lines keeps the types of balances and rows.
LEMMA ReserveLinesType ==
    ASSUME StockTypeOK, OrderTypeOK, RowsTypeOK, NEW o \in Orders, NEW S, ReserveLines(o, S)
    PROVE  StockTypeOK' /\ RowsTypeOK'
  <1>1. StockTypeOK'
    BY ClaimType, StockMovesType DEF ReserveLines
  <1>2. RowsTypeOK'
    BY SetRowsType DEF ReserveLines, RowsTypeOK, RowStatus
  <1> QED BY <1>1, <1>2

\* The commands of the public link keep every type.
LEMMA BuyerStepType ==
    ASSUME TypeOK, NEW o \in Orders, BuyerStep(o)
    PROVE  TypeOK'
  <1> USE DEF TypeOK, OrderTypeOK, RowsTypeOK, PaymentTypeOK, ProofTypeOK
  <1>1. ASSUME NEW details \in BuyerDetails, SetBuyerDetails(o, details)  PROVE TypeOK'
    <2> DEFINE named == [order[o] EXCEPT !.buyer = details]
               moved == [named EXCEPT !.status = CheckoutStatus(order[o].status)]
    <2>1. named \in OrderRow
      BY EditOrder
    <2>2. moved \in OrderRow
      BY <2>1, EditOrder DEF CheckoutStatus, OrderStatus
    <2>3. order' = [order EXCEPT ![o] = moved]
      BY <1>1 DEF SetBuyerDetails
    <2> QED  BY <1>1, <2>2, <2>3 DEF SetBuyerDetails, StockTypeOK, stockVars
  <1>2. CASE InitiateCheckout(o)
    BY <1>2, EditOrder, EnsuredPaymentType
       DEF InitiateCheckout, CheckoutStatus, OrderStatus, StockTypeOK, stockVars
  <1>3. CASE PrepareReceiptUpload(o)
    BY <1>3, EnsuredPaymentType DEF PrepareReceiptUpload, ProofStatus, StockTypeOK, stockVars
  <1>4. CASE CompleteReceiptUpload(o)
    <2>1. OrderTypeOK'
      BY <1>4, TransitionType DEF CompleteReceiptUpload, OrderStatus
    <2>2. PaymentTypeOK'
      BY <1>4, PayStatusType DEF CompleteReceiptUpload, PaymentStatus
    <2> QED
      BY <1>4, <2>1, <2>2 DEF CompleteReceiptUpload, ProofStatus, StockTypeOK, stockVars
  <1> QED  BY <1>1, <1>2, <1>3, <1>4 DEF BuyerStep

\* _approve_payment keeps every type, consumed or flagged.
LEMMA ApprovePaymentType ==
    ASSUME TypeOK, NEW o \in Orders, NEW r \in OrderRow,
           NEW payments \in [Orders -> PaymentRow], ApprovePayment(o, r, payments)
    PROVE  StockTypeOK' /\ OrderTypeOK' /\ RowsTypeOK' /\ PaymentTypeOK'
  <1> USE DEF TypeOK, OrderTypeOK, RowsTypeOK, PaymentTypeOK, ProofTypeOK
  <1>1. CASE Held(o) # {} /\ CanConsume(Claim(o, Held(o)))
    <2>1. StockTypeOK'
      BY <1>1, ClaimType, StockMovesType DEF ApprovePayment
    <2>2. OrderTypeOK'
      BY <1>1, TransitionType DEF ApprovePayment, OrderStatus
    <2>3. RowsTypeOK'
      BY <1>1, SetRowsType DEF ApprovePayment, RowStatus
    <2>4. PaymentTypeOK'
      <3>1. payment' = [payments EXCEPT ![o].status = "approved"]
        BY <1>1 DEF ApprovePayment
      <3>2. "approved" \in PaymentStatus
        BY DEF PaymentStatus
      <3> QED  BY <3>1, <3>2, PaymentTableType
    <2> QED  BY <2>1, <2>2, <2>3, <2>4
  <1>2. CASE ~(Held(o) # {} /\ CanConsume(Claim(o, Held(o))))
    BY <1>2, MarkReconciliationType DEF ApprovePayment, IssueKind
  <1> QED  BY <1>1, <1>2

\* reissue_bank_transfer_offer, which writes two orders, keeps every type.
LEMMA ReissueOfferType ==
    ASSUME TypeOK, NEW o \in Orders, NEW n \in Orders \ {o}, ReissueOffer(o, n)
    PROVE  TypeOK'
  <1> USE DEF TypeOK, OrderTypeOK, RowsTypeOK, PaymentTypeOK, ProofTypeOK
  <1>1. OrderTypeOK'
    <2> DEFINE closed == [[order[o] EXCEPT !.status = "cancelled"] EXCEPT !.reissued = TRUE]
               offered == [[[order[n] EXCEPT !.status = "reserved"]
                              EXCEPT !.method = "bank_transfer"]
                              EXCEPT !.lines = order[o].lines]
    <2>1. closed \in OrderRow
      BY EditOrder DEF OrderStatus
    <2>2. offered \in OrderRow
      <3>1. [order[n] EXCEPT !.status = "reserved"] \in OrderRow
        BY EditOrder DEF OrderStatus
      <3>2. [[order[n] EXCEPT !.status = "reserved"]
               EXCEPT !.method = "bank_transfer"] \in OrderRow
        BY <3>1, EditOrder DEF PaymentMethod
      <3> QED  BY <3>2, EditOrder
    <2>3. order' = [[order EXCEPT ![o] = closed] EXCEPT ![n] = offered]
      BY DEF ReissueOffer
    <2> QED  BY <2>1, <2>2, <2>3
  <1>2. RowsTypeOK'
    BY SetRowsType DEF ReissueOffer, RowStatus
  <1>3. PaymentTypeOK'
    BY CancelledPaymentType DEF ReissueOffer
  <1>4. ProofTypeOK'
    BY DEF ReissueOffer, ProofStatus
  <1>5. StockTypeOK'
    <2>1. Claim(o, Held(o)) \in [Products -> 0..MaxLineQuantity]
      BY ClaimType
    <2>2. order[o].lines \in [Products -> 0..MaxLineQuantity]
      BY EditOrder
    <2>3. reserved' \in [Products -> Int]
      BY <2>1, <2>2 DEF ReissueOffer, StockTypeOK
    <2> QED  BY <2>3 DEF ReissueOffer, StockTypeOK
  <1> QED  BY <1>1, <1>2, <1>3, <1>4, <1>5

\* _reopen_order_reservations keeps the types of balances and rows.
LEMMA ReopenReservationsType ==
    ASSUME TypeOK, NEW o \in Orders, ReopenReservations(o)
    PROVE  StockTypeOK' /\ RowsTypeOK'
  <1> USE DEF TypeOK, OrderTypeOK, RowsTypeOK, PaymentTypeOK, ProofTypeOK
  <1>1. CASE Held(o) # {}
    BY <1>1 DEF ReopenReservations, stockVars, StockTypeOK
  <1>2. CASE Held(o) = {}
    BY <1>2, ReserveLinesType DEF ReopenReservations
  <1> QED  BY <1>1, <1>2

\* The commands of the seller keep every type.
LEMMA SellerStepType ==
    ASSUME TypeOK, NEW o \in Orders, SellerStep(o)
    PROVE  TypeOK'
  <1> USE DEF TypeOK, OrderTypeOK, RowsTypeOK, PaymentTypeOK, ProofTypeOK
  <1>1. ASSUME NEW method \in Methods, NEW cart \in Carts, BeginCreateOrder(o, method, cart)
        PROVE  TypeOK'
    <2> DEFINE drafted == [[[order[o] EXCEPT !.status = "draft"]
                              EXCEPT !.method = method] EXCEPT !.lines = cart]
    <2>1. drafted \in OrderRow
      <3>1. [order[o] EXCEPT !.status = "draft"] \in OrderRow
        BY EditOrder DEF OrderStatus
      <3>2. [[order[o] EXCEPT !.status = "draft"] EXCEPT !.method = method] \in OrderRow
        BY <3>1, EditOrder
      <3> QED  BY <3>2, EditOrder
    <2>2. order' = [order EXCEPT ![o] = drafted]
      BY <1>1 DEF BeginCreateOrder
    <2> QED  BY <1>1, <2>1, <2>2 DEF BeginCreateOrder, stockVars, StockTypeOK
  <1>2. CASE ReserveDraftOrder(o)
    <2>1. StockTypeOK' /\ RowsTypeOK'
      BY <1>2, ReserveLinesType DEF ReserveDraftOrder
    <2>2. OrderTypeOK'
      BY <1>2, TransitionType DEF ReserveDraftOrder, OrderStatus
    <2> QED  BY <1>2, <2>1, <2>2 DEF ReserveDraftOrder
  <1>3. CASE AbandonDraftOrder(o)
    <2>1. AbsentOrder \in OrderRow
      BY DEF AbsentOrder, OrderRow, OrderStatus
    <2> QED  BY <1>3, <2>1 DEF AbandonDraftOrder, stockVars, StockTypeOK
  <1>4. ASSUME NEW details \in BuyerDetails, UpdateOrderBuyer(o, details)  PROVE TypeOK'
    BY <1>4, EditOrder DEF UpdateOrderBuyer, stockVars, StockTypeOK
  <1>5. CASE ConfirmManualPayment(o)
    BY <1>5, EnsuredPaymentType, ApprovePaymentType DEF ConfirmManualPayment
  <1>6. CASE ApproveProof(o)
    <2>1. ProofTypeOK'
      BY <1>6 DEF ApproveProof, ProofStatus
    <2> QED  BY <1>6, <2>1, ApprovePaymentType DEF ApproveProof
  <1>7. CASE RejectProof(o)
    <2>1. StockTypeOK' /\ RowsTypeOK'
      BY <1>7, ReleaseReservationsType DEF RejectProof
    <2>2. OrderTypeOK'
      BY <1>7, TransitionType DEF RejectProof, OrderStatus
    <2>3. PaymentTypeOK' /\ ProofTypeOK'
      BY <1>7, PayStatusType DEF RejectProof, PaymentStatus, ProofStatus
    <2> QED  BY <2>1, <2>2, <2>3
  <1>8. CASE RefundPayment(o)
    <2>1. CASE order[o].method = "mercado_pago" /\ payment[o].provider = NoProviderPayment
      BY <1>8, <2>1, MarkReconciliationType DEF RefundPayment, IssueKind
    <2>2. CASE ~(order[o].method = "mercado_pago" /\ payment[o].provider = NoProviderPayment)
      <3>1. OrderTypeOK'
        BY <1>8, <2>2, TransitionType DEF RefundPayment, OrderStatus
      <3>2. PaymentTypeOK'
        BY <1>8, <2>2, PayStatusType DEF RefundPayment, PaymentStatus
      <3> QED
        BY <1>8, <2>2, <3>1, <3>2 DEF RefundPayment, stockVars, StockTypeOK
    <2> QED  BY <2>1, <2>2
  <1>9. CASE CancelOrder(o)
    <2>1. StockTypeOK' /\ RowsTypeOK'
      BY <1>9, ReleaseReservationsType DEF CancelOrder
    <2>2. OrderTypeOK'
      <3>1. [order[o] EXCEPT !.cancelledFrom = order[o].status] \in OrderRow
        BY EditOrder
      <3> QED  BY <1>9, <3>1, TransitionType DEF CancelOrder, OrderStatus
    <2>3. PaymentTypeOK'
      BY <1>9, CancelledPaymentType DEF CancelOrder
    <2> QED  BY <1>9, <2>1, <2>2, <2>3 DEF CancelOrder
  <1>10. CASE RestoreOrder(o)
    <2>1. StockTypeOK' /\ RowsTypeOK'
      BY <1>10, ReopenReservationsType DEF RestoreOrder
    <2>2. OrderTypeOK'
      <3>1. [order[o] EXCEPT !.due = FALSE] \in OrderRow
        BY EditOrder
      <3>2. RestoreTarget(o) \in OrderStatus
        BY <1>10 DEF RestoreOrder, RestoreTarget, ActiveStatus, OrderStatus
      <3> QED  BY <1>10, <3>1, <3>2, TransitionType DEF RestoreOrder
    <2>3. PaymentTypeOK'
      <3>1. /\ PayStatus(o, "validation") \in [Orders -> PaymentRow]
            /\ PayStatus(o, "pending") \in [Orders -> PaymentRow]
        BY PayStatusType DEF PaymentStatus
      <3> QED  BY <1>10, <3>1 DEF RestoreOrder
    <2> QED  BY <1>10, <2>1, <2>2, <2>3 DEF RestoreOrder
  <1>11. ASSUME NEW n \in Orders \ {o}, ReissueOffer(o, n)  PROVE TypeOK'
    BY <1>11, ReissueOfferType
  <1>12. CASE RetryIssue(o)
    BY <1>12, EditOrder DEF RetryIssue, stockVars, StockTypeOK
  <1> QED  BY <1>1, <1>2, <1>3, <1>4, <1>5, <1>6, <1>7, <1>8, <1>9, <1>10, <1>11, <1>12
           DEF SellerStep

\* apply_provider_snapshot keeps every type, whatever is reported.
LEMMA ApplySnapshotType ==
    ASSUME TypeOK, NEW o \in Orders, NEW r \in OrderRow,
           NEW kind \in SnapshotKinds, kind # "unavailable",
           NEW id \in ProviderPayments, ApplySnapshot(o, r, kind, id)
    PROVE  StockTypeOK' /\ OrderTypeOK' /\ RowsTypeOK' /\ PaymentTypeOK'
  <1> USE DEF TypeOK, OrderTypeOK, RowsTypeOK, PaymentTypeOK, ProofTypeOK
  <1> DEFINE seen == [payment EXCEPT ![o].provider = id]
  <1>1. seen \in [Orders -> PaymentRow]
    BY EditPayment
  <1> HIDE DEF seen
  <1>2. ASSUME NEW issue \in IssueKind, MarkReconciliation(o, r, seen, issue)
        PROVE  StockTypeOK' /\ OrderTypeOK' /\ RowsTypeOK' /\ PaymentTypeOK'
    BY <1>1, <1>2, MarkReconciliationType
  <1>3. ASSUME NEW table \in [Orders -> PaymentRow], KeepSale(o, r, table)
        PROVE  StockTypeOK' /\ OrderTypeOK' /\ RowsTypeOK' /\ PaymentTypeOK'
    BY <1>3 DEF KeepSale, stockVars, StockTypeOK
  <1>4. CASE SnapshotMismatch(o, r, kind)
    <2> DEFINE issue == IF kind = "mismatch" THEN "payment_mismatch" ELSE kind
    <2>1. issue \in IssueKind /\ MarkReconciliation(o, r, payment, issue)
      BY <1>4 DEF SnapshotMismatch, IssueKind
    <2> QED  BY <2>1, MarkReconciliationType
  <1>5. CASE SnapshotApproved(o, r, seen)
    BY <1>1, <1>2, <1>3, <1>5, ApprovePaymentType DEF SnapshotApproved, IssueKind
  <1>6. CASE kind \in {"rejected", "cancelled"} /\ SnapshotRejected(o, r, seen, kind)
    <2>1. CASE /\ ReleaseReservations(o)
               /\ payment' = [seen EXCEPT ![o].status = kind]
               /\ Transition(o, r, "cancelled")
      <3>1. StockTypeOK' /\ RowsTypeOK'
        BY <2>1, ReleaseReservationsType
      <3>2. OrderTypeOK'
        BY <2>1, TransitionType DEF OrderStatus
      <3>3. PaymentTypeOK'
        BY <1>1, <1>6, <2>1, EditPayment DEF PaymentStatus
      <3> QED  BY <3>1, <3>2, <3>3
    <2> QED  BY <1>1, <1>2, <1>3, <1>6, <2>1 DEF SnapshotRejected, IssueKind
  <1>7. CASE SnapshotPending(o, r, seen)
    <2>1. [seen EXCEPT ![o].status = "pending"] \in [Orders -> PaymentRow]
      BY <1>1, EditPayment DEF PaymentStatus
    <2> QED  BY <1>1, <1>3, <1>7, <2>1 DEF SnapshotPending
  <1>8. CASE SnapshotRefunded(o, r, seen, kind)
    <2>1. CASE kind = "refunded" /\ order[o].status = "paid"
      <3>1. OrderTypeOK'
        BY <1>8, <2>1, TransitionType DEF SnapshotRefunded, OrderStatus
      <3>2. PaymentTypeOK'
        <4>1. payment' = [seen EXCEPT ![o].status = "refunded"]
          BY <1>8, <2>1 DEF SnapshotRefunded
        <4>2. "refunded" \in PaymentStatus
          BY DEF PaymentStatus
        <4> QED  BY <1>1, <4>1, <4>2, PaymentTableType
      <3> QED
        BY <1>8, <2>1, <3>1, <3>2 DEF SnapshotRefunded, stockVars, StockTypeOK
    <2>2. CASE ~(kind = "refunded" /\ order[o].status = "paid")
      BY <1>2, <1>8, <2>2 DEF SnapshotRefunded, IssueKind
    <2> QED  BY <2>1, <2>2
  <1>9. CASE MarkReconciliation(o, r, seen, "provider_status")
    BY <1>2, <1>9 DEF IssueKind
  <1> QED
    BY <1>4, <1>5, <1>6, <1>7, <1>8, <1>9 DEF ApplySnapshot, seen

\* Expiry, reports and their failures keep every type.
LEMMA WorkerStepType ==
    ASSUME TypeOK, NEW o \in Orders, WorkerStep(o)
    PROVE  TypeOK'
  <1> USE DEF TypeOK, OrderTypeOK, RowsTypeOK, PaymentTypeOK, ProofTypeOK
  <1>1. CASE ReservationLapses(o)
    BY <1>1, EditOrder DEF ReservationLapses, stockVars, StockTypeOK
  <1>2. CASE ExpireOrder(o)
    <2>1. StockTypeOK' /\ RowsTypeOK'
      BY <1>2, ReleaseReservationsType DEF ExpireOrder
    <2>2. OrderTypeOK'
      BY <1>2, TransitionType DEF ExpireOrder, OrderStatus
    <2>3. PaymentTypeOK'
      BY <1>2, CancelledPaymentType DEF ExpireOrder
    <2> QED  BY <1>2, <2>1, <2>2, <2>3 DEF ExpireOrder
  <1>3. ASSUME NEW kind \in SnapshotKinds, NEW id \in ProviderPayments,
               ProviderSnapshot(o, kind, id)
        PROVE  TypeOK'
    <2>1. PICK resolved : ApplySnapshot(o, Cleared(order[o], resolved), kind, id)
      BY <1>3 DEF ProviderSnapshot
    <2>2. Cleared(order[o], resolved) \in OrderRow
      BY EditOrder
    <2> QED  BY <1>3, <2>1, <2>2, ApplySnapshotType DEF ProviderSnapshot
  <1>4. CASE ReportFails(o)
    <2> DEFINE read == [settled |-> payment[o].status \in {"approved", "refunded"},
                        flagged |-> order[o].reconciliation = "required"]
    <2>1. {read} \in SUBSET StaleRead
      BY DEF StaleRead
    <2>2. order' = [order EXCEPT ![o].failing = {read}]
      BY <1>4 DEF ReportFails
    <2> HIDE DEF read
    <2>3. OrderTypeOK'
      BY <2>1, <2>2, EditOrder
    <2> QED  BY <1>4, <2>3 DEF ReportFails, stockVars, StockTypeOK
  <1>5. CASE FailEvent(o)
    <2>1. PICK read \in order[o].failing :
             /\ order' = [order EXCEPT
                   ![o].failing = {},
                   ![o].issues = @ \cup {"webhook_pending"},
                   ![o].reconciliation = IF read.flagged THEN @ ELSE "required"]
             /\ payment' = IF read.settled THEN payment ELSE FlaggedPayments(payment, o)
             /\ UNCHANGED <<stockVars, rows, proof>>
      BY <1>5 DEF FailEvent
    <2>2. OrderTypeOK'
      <3> DEFINE flag == IF read.flagged THEN order[o].reconciliation ELSE "required"
                 forgot == [order[o] EXCEPT !.failing = {}]
                 opened == [forgot EXCEPT !.issues = order[o].issues \cup {"webhook_pending"}]
                 noted == [opened EXCEPT !.reconciliation = flag]
      <3>1. flag \in {"ok", "required", "retrying"}
        BY DEF OrderRow
      <3>2. noted \in OrderRow
        <4>1. forgot \in OrderRow
          BY EditOrder
        <4>2. opened \in OrderRow
          BY <4>1 DEF OrderRow, IssueKind
        <4> QED  BY <3>1, <4>2 DEF OrderRow
      <3>3. order' = [order EXCEPT ![o] = noted]
        BY <2>1
      <3> QED  BY <3>2, <3>3
    <2>3. PaymentTypeOK'
      <3>1. "reconciliation_required" \in PaymentStatus
        BY DEF PaymentStatus
      <3> QED  BY <2>1, <3>1, PaymentTableType DEF FlaggedPayments
    <2> QED  BY <2>1, <2>2, <2>3 DEF stockVars, StockTypeOK
  <1> QED  BY <1>1, <1>2, <1>3, <1>4, <1>5 DEF WorkerStep, ReportStep

\* The seller's movements and catalogue edits keep the types of the stock.
LEMMA StockStepType ==
    ASSUME StockTypeOK, StockStep
    PROVE  StockTypeOK'
  <1>1. ASSUME NEW p \in Products, NEW n \in Adjustments, BeginMovement(p, n)
        PROVE  StockTypeOK'
    BY <1>1 DEF BeginMovement, StockTypeOK, Movement
  <1>2. ASSUME NEW m \in moving, AppendMovement(m)  PROVE StockTypeOK'
    <2>1. m \in Movement
      BY DEF StockTypeOK
    <2>2. m.product \in Products /\ m.quantity \in Int
      BY <2>1 DEF Movement
    <2>3. onHand' \in [Products -> Int] /\ adjusted' \in [Products -> Int]
      BY <1>2, <2>2 DEF AppendMovement, StockTypeOK
    <2> QED  BY <1>2, <2>3 DEF AppendMovement, StockTypeOK
  <1>3. ASSUME NEW m \in moving, RefuseMovement(m)  PROVE StockTypeOK'
    BY <1>3 DEF RefuseMovement, StockTypeOK
  <1>4. ASSUME NEW p \in EditedProducts, CatalogueStep(p)  PROVE StockTypeOK'
    BY <1>4 DEF CatalogueStep, SetCatalogStatus, ArchiveProduct, RestoreProduct,
                StockTypeOK, CatalogStatus
  <1> QED  BY <1>1, <1>2, <1>3, <1>4 DEF StockStep

\* TypeOK is inductive.
LEMMA NextType == TypeOK /\ [Next]_vars => TypeOK'
  <1> SUFFICES ASSUME TypeOK, [Next]_vars  PROVE TypeOK'
    OBVIOUS
  <1>1. ASSUME NEW o \in Orders, BuyerStep(o) \/ SellerStep(o) \/ WorkerStep(o)
        PROVE  TypeOK'
    BY <1>1, BuyerStepType, SellerStepType, WorkerStepType
  <1>2. CASE StockStep /\ UNCHANGED saleVars
    BY <1>2, StockStepType DEF TypeOK, saleVars
  <1>3. CASE UNCHANGED vars
    BY <1>3 DEF vars, stockVars, saleVars, TypeOK, StockTypeOK
  <1> QED  BY <1>1, <1>2, <1>3 DEF Next

\* Every state the commands, the workers and the provider can produce has the
\* types of the tables: no status outside its enumeration, no negative request.
THEOREM TypeCorrect == Spec => []TypeOK
  BY InitType, NextType, PTL DEF Spec

HIDE SalesAssumption
HIDE StockAssumption

----------------------------------------------------------------------------
(* Counting the units of a set of owners: owner a has the units <<a, 1>>,  *)
(* ..., <<a, L[a]>>.  The lemmas say how the count moves with one owner.   *)

Units(A, L, max) == {u \in A \X (1..max) : u[2] <= L[u[1]]}

\* The units of a finite set of owners are finitely many.
LEMMA UnitsFinite ==
    ASSUME NEW A, IsFiniteSet(A), NEW max \in Nat, NEW L
    PROVE  IsFiniteSet(Units(A, L, max)) /\ Cardinality(Units(A, L, max)) \in Nat
  <1>1. IsFiniteSet(A \X (1..max))
    <2>1. IsFiniteSet(1..max)
      BY FS_Interval
    <2> QED  BY <2>1, FS_Product
  <1>2. Units(A, L, max) \subseteq A \X (1..max)
    BY DEF Units
  <1> QED  BY <1>1, <1>2, FS_Subset, FS_CardinalityType

\* One owner has as many units as it is said to have.
LEMMA UnitsOfOne ==
    ASSUME NEW a, NEW max \in Nat, NEW L, L[a] \in 0..max
    PROVE  Cardinality(Units({a}, L, max)) = L[a]
  <1>1. Units({a}, L, max) = {a} \X (1..L[a])
    <2>1. \A u \in {a} \X (1..max) : u[2] <= L[u[1]] => u \in {a} \X (1..L[a])
      OBVIOUS
    <2>2. \A u \in {a} \X (1..L[a]) : u \in {a} \X (1..max) /\ u[2] <= L[u[1]]
      OBVIOUS
    <2> QED  BY <2>1, <2>2 DEF Units
  <1>2. IsFiniteSet({a}) /\ Cardinality({a}) = 1
    BY FS_Singleton
  <1>3. ASSUME NEW q \in Nat  PROVE Cardinality({a} \X (1..q)) = q
    <2>1. IsFiniteSet(1..q) /\ Cardinality(1..q) = q
      <3>1. 1 \in Int /\ q \in Int
        OBVIOUS
      <3>2. /\ IsFiniteSet(1..q)
            /\ Cardinality(1..q) = IF 1 > q THEN 0 ELSE q - 1 + 1
        BY <3>1, FS_Interval
      <3> QED  BY <3>2
    <2>2. Cardinality({a} \X (1..q)) = Cardinality({a}) * Cardinality(1..q)
      BY <1>2, <2>1, FS_Product
    <2> QED  BY <1>2, <2>1, <2>2
  <1>4. L[a] \in Nat
    OBVIOUS
  <1> QED  BY <1>1, <1>3, <1>4

\* Only what the owners in A have matters.
LEMMA UnitsSame ==
    ASSUME NEW A, NEW max, NEW L, NEW K, \A x \in A : K[x] = L[x]
    PROVE  Units(A, K, max) = Units(A, L, max)
  BY DEF Units

\* An owner that joins brings its units; read backwards, one that leaves takes
\* them away.
LEMMA UnitsSplit ==
    ASSUME NEW A, IsFiniteSet(A), NEW a, a \notin A, NEW max \in Nat,
           NEW L, L[a] \in 0..max
    PROVE  Cardinality(Units(A \cup {a}, L, max)) = Cardinality(Units(A, L, max)) + L[a]
  <1>1. Units(A \cup {a}, L, max) = Units(A, L, max) \cup Units({a}, L, max)
    BY DEF Units
  <1>2. Units(A, L, max) \cap Units({a}, L, max) = {}
    BY DEF Units
  <1>3. IsFiniteSet(Units(A, L, max)) /\ IsFiniteSet(Units({a}, L, max))
    BY UnitsFinite, FS_Singleton
  <1>4. Cardinality(Units({a}, L, max)) = L[a]
    BY UnitsOfOne
  <1>5. Cardinality(Units(A, L, max)) \in Nat /\ Cardinality(Units({a}, L, max)) \in Nat
    BY UnitsFinite, FS_Singleton
  <1>6. Cardinality(Units(A \cup {a}, L, max)) =
           Cardinality(Units(A, L, max)) + Cardinality(Units({a}, L, max)) - Cardinality({})
    BY <1>1, <1>2, <1>3, FS_Union
  <1> QED  BY <1>4, <1>5, <1>6, FS_EmptySet

\* The same when the account changes for the owner that joins, and for no other.
LEMMA UnitsJoin ==
    ASSUME NEW A, IsFiniteSet(A), NEW a, a \notin A, NEW max \in Nat,
           NEW L, NEW K, K[a] \in 0..max, \A x \in A : K[x] = L[x]
    PROVE  Cardinality(Units(A \cup {a}, K, max)) = Cardinality(Units(A, L, max)) + K[a]
  <1>1. Cardinality(Units(A \cup {a}, K, max)) = Cardinality(Units(A, K, max)) + K[a]
    BY UnitsSplit
  <1>2. Units(A, K, max) = Units(A, L, max)
    BY UnitsSame
  <1> QED  BY <1>1, <1>2

----------------------------------------------------------------------------
(* What a sale holds.                                                      *)

\* What a sale in each status does to the stock of its lines.
RowOf(status) ==
    CASE status \in ActiveStatus -> "active"
      [] status \in {"cancelled", "expired"} -> "released"
      [] status \in {"paid", "refunded"} -> "consumed"
      [] OTHER -> "none"

RowsFollowSale(o) ==
    \A p \in Products :
        rows[o][p] = IF order[o].lines[p] > 0 THEN RowOf(order[o].status) ELSE "none"

ShipmentFollowsSale(o) == order[o].shipment = "pending" <=> RowOf(order[o].status) = "consumed"

HasCart(o) == order[o].status # "absent" => order[o].lines \in Carts

\* The strengthening of the three invariants on rows and shipments.
SalesInv ==
    /\ TypeOK
    /\ \A o \in Orders : RowsFollowSale(o) /\ ShipmentFollowsSale(o) /\ HasCart(o)

----------------------------------------------------------------------------
(* The moves of a sale.  Whatever a command does to buyers, payments,      *)
(* proofs and issues, its effect on the stock is one of these.             *)

OnlySale(o) ==
    \A x \in Orders \ {o} : order'[x] = order[x] /\ rows'[x] = rows[x]

SameCart(o) == order'[o].lines = order[o].lines

SetAll(o, status) == rows' = SetRows(o, LineProducts(o), status)

MovesTo(o, status) == RowOf(order'[o].status) = status

Keeps(o) ==
    /\ OnlySale(o) /\ SameCart(o)
    /\ UNCHANGED <<stockVars, rows>>
    /\ MovesTo(o, RowOf(order[o].status))
    /\ order'[o].shipment = order[o].shipment
    /\ order'[o].status = "absent" <=> order[o].status = "absent"

Drafts(o) ==
    /\ OnlySale(o)
    /\ UNCHANGED <<stockVars, rows>>
    /\ RowOf(order[o].status) = "none" /\ MovesTo(o, "none")
    /\ order'[o].shipment # "pending"
    /\ HasCart(o)'

Takes(o) ==
    /\ OnlySale(o) /\ SameCart(o)
    /\ RowOf(order[o].status) \in {"none", "released"} /\ MovesTo(o, "active")
    /\ ReserveStock(order[o].lines)
    /\ SetAll(o, "active")
    /\ order'[o].shipment = order[o].shipment
    /\ order[o].status # "absent"

GivesBack(o) ==
    /\ OnlySale(o) /\ SameCart(o)
    /\ RowOf(order[o].status) = "active" /\ MovesTo(o, "released")
    /\ ReleaseStock(order[o].lines)
    /\ SetAll(o, "released")
    /\ order'[o].shipment = order[o].shipment

Sells(o) ==
    /\ OnlySale(o) /\ SameCart(o)
    /\ RowOf(order[o].status) = "active" /\ MovesTo(o, "consumed")
    /\ ConsumeStock(order[o].lines)
    /\ SetAll(o, "consumed")
    /\ order'[o].shipment = "pending"

Replaces(o, n) ==
    /\ n # o
    /\ \A x \in Orders \ {o, n} : order'[x] = order[x] /\ rows'[x] = rows[x]
    /\ RowOf(order[o].status) = "active" /\ MovesTo(o, "released") /\ SameCart(o)
    /\ order'[o].status = "cancelled"
    /\ order[n].status = "absent" /\ MovesTo(n, "active")
    /\ order'[n].lines = order[o].lines
    /\ order'[o].shipment = order[o].shipment
    /\ order'[n].shipment = order[n].shipment
    /\ UNCHANGED stockVars
    /\ rows'[o] = [p \in Products |-> IF p \in LineProducts(o) THEN "released" ELSE rows[o][p]]
    /\ rows'[n] = [p \in Products |-> IF p \in LineProducts(o) THEN "active" ELSE rows[n][p]]

SaleMoves(o) == Keeps(o) \/ Drafts(o) \/ Takes(o) \/ GivesBack(o) \/ Sells(o)

----------------------------------------------------------------------------
(* Lines, claims and rows.                                                 *)

\* The cart of a sale has a number of units of each product.
LEMMA LinesType ==
    ASSUME TypeOK, NEW o \in Orders
    PROVE  /\ order[o] \in OrderRow
           /\ order[o].lines \in [Products -> 0..MaxLineQuantity]
           /\ order[o].lines \in [Products -> Nat]
           /\ \A p \in Products : order[o].lines[p] \in Nat
  <1>1. order[o] \in OrderRow
    BY DEF TypeOK
  <1>2. order[o].lines \in [Products -> 0..MaxLineQuantity]
    BY <1>1, EditOrder
  <1>3. \A p \in Products : order[o].lines[p] \in Nat
    BY <1>2
  <1> QED  BY <1>1, <1>2, <1>3

\* The request for all the lines of a sale is its cart.
LEMMA ClaimAll ==
    ASSUME TypeOK, NEW o \in Orders
    PROVE  Claim(o, LineProducts(o)) = order[o].lines
  <1>1. order[o].lines = [p \in Products |-> order[o].lines[p]]
    BY LinesType
  <1>2. \A p \in Products :
           (IF p \in LineProducts(o) THEN order[o].lines[p] ELSE 0) = order[o].lines[p]
    BY LinesType DEF LineProducts
  <1> QED  BY <1>1, <1>2 DEF Claim

\* Which rows are open or released follows from the status.
LEMMA HeldIs ==
    ASSUME SalesInv, NEW o \in Orders
    PROVE  /\ RowOf(order[o].status) = "active" => Held(o) = LineProducts(o)
           /\ RowOf(order[o].status) # "active" => Held(o) = {}
           /\ RowOf(order[o].status) = "released" => ReleasedRows(o) = LineProducts(o)
           /\ RowOf(order[o].status) # "released" => ReleasedRows(o) = {}
  BY DEF SalesInv, RowsFollowSale, Held, LineProducts, ReleasedRows

\* A move of one sale keeps the rows in step with the statuses.
LEMMA MovesKeepInv ==
    ASSUME SalesInv, TypeOK', NEW o \in Orders, SaleMoves(o)
    PROVE  SalesInv'
  <1>1. ASSUME NEW x \in Orders \ {o}
        PROVE  RowsFollowSale(x)' /\ ShipmentFollowsSale(x)' /\ HasCart(x)'
    <2>1. order'[x] = order[x] /\ rows'[x] = rows[x]
      BY DEF SaleMoves, Keeps, Drafts, Takes, GivesBack, Sells, OnlySale
    <2> QED
      BY <2>1 DEF SalesInv, RowsFollowSale, ShipmentFollowsSale, HasCart
  <1>2. ASSUME NEW status \in {"active", "released", "consumed"},
               SameCart(o), SetAll(o, status), MovesTo(o, status)
        PROVE  RowsFollowSale(o)'
    <2>1. ASSUME NEW p \in Products
          PROVE  rows'[o][p] = IF p \in LineProducts(o) THEN status ELSE rows[o][p]
      BY <1>2 DEF SetAll, SetRows, SalesInv, TypeOK
    <2> QED
      BY <1>2, <2>1 DEF SalesInv, RowsFollowSale, SameCart, MovesTo, LineProducts
  <1>3. CASE Keeps(o)
    <2>1. RowsFollowSale(o)' /\ ShipmentFollowsSale(o)' /\ HasCart(o)'
      BY <1>3 DEF Keeps, SalesInv, RowsFollowSale, ShipmentFollowsSale, HasCart,
                  SameCart, MovesTo
    <2> QED  BY <1>1, <2>1 DEF SalesInv
  <1>4. CASE Drafts(o)
    <2>1. RowsFollowSale(o)' /\ ShipmentFollowsSale(o)' /\ HasCart(o)'
      BY <1>4 DEF Drafts, SalesInv, RowsFollowSale, ShipmentFollowsSale, MovesTo
    <2> QED  BY <1>1, <2>1 DEF SalesInv
  <1>5. CASE Takes(o)
    <2>1. RowsFollowSale(o)'
      BY <1>2, <1>5 DEF Takes
    <2>2. ShipmentFollowsSale(o)' /\ HasCart(o)'
      BY <1>5 DEF Takes, SalesInv, ShipmentFollowsSale, HasCart, SameCart, MovesTo
    <2> QED  BY <1>1, <2>1, <2>2 DEF SalesInv
  <1>6. CASE GivesBack(o)
    <2>1. RowsFollowSale(o)'
      BY <1>2, <1>6 DEF GivesBack
    <2>2. order[o].status # "absent"
      BY <1>6 DEF GivesBack, RowOf, ActiveStatus
    <2>3. ShipmentFollowsSale(o)' /\ HasCart(o)'
      BY <1>6, <2>2 DEF GivesBack, SalesInv, ShipmentFollowsSale, HasCart, SameCart, MovesTo
    <2> QED  BY <1>1, <2>1, <2>3 DEF SalesInv
  <1>7. CASE Sells(o)
    <2>1. RowsFollowSale(o)'
      BY <1>2, <1>7 DEF Sells
    <2>2. order[o].status # "absent"
      BY <1>7 DEF Sells, RowOf, ActiveStatus
    <2>3. ShipmentFollowsSale(o)' /\ HasCart(o)'
      BY <1>7, <2>2 DEF Sells, SalesInv, ShipmentFollowsSale, HasCart, SameCart, MovesTo
    <2> QED  BY <1>1, <2>1, <2>3 DEF SalesInv
  <1> QED  BY <1>3, <1>4, <1>5, <1>6, <1>7 DEF SaleMoves

\* So does the replacement of one sale by another.
LEMMA ReplaceKeepsInv ==
    ASSUME SalesInv, TypeOK', NEW o \in Orders, NEW n \in Orders, Replaces(o, n)
    PROVE  SalesInv'
  <1>1. ASSUME NEW x \in Orders \ {o, n}
        PROVE  RowsFollowSale(x)' /\ ShipmentFollowsSale(x)' /\ HasCart(x)'
    <2>1. order'[x] = order[x] /\ rows'[x] = rows[x]
      BY DEF Replaces
    <2> QED
      BY <2>1 DEF SalesInv, RowsFollowSale, ShipmentFollowsSale, HasCart
  <1>2. RowsFollowSale(o)' /\ ShipmentFollowsSale(o)' /\ HasCart(o)'
    <2>1. order[o].status # "absent"
      BY DEF Replaces, RowOf, ActiveStatus
    <2>2. RowsFollowSale(o)'
      BY DEF Replaces, SalesInv, RowsFollowSale, SameCart, MovesTo, LineProducts
    <2> QED
      BY <2>1, <2>2 DEF Replaces, SalesInv, ShipmentFollowsSale, HasCart, SameCart, MovesTo
  <1>3. RowsFollowSale(n)' /\ ShipmentFollowsSale(n)' /\ HasCart(n)'
    <2>1. order[o].status # "absent"
      BY DEF Replaces, RowOf, ActiveStatus
    <2>2. RowOf(order[n].status) = "none"
      BY DEF Replaces, RowOf, ActiveStatus
    <2>3. \A p \in Products : rows[n][p] = "none"
      BY <2>2 DEF SalesInv, RowsFollowSale
    <2>4. RowsFollowSale(n)'
      BY <2>3 DEF Replaces, RowsFollowSale, MovesTo, LineProducts
    <2> QED
      BY <2>1, <2>2, <2>4 DEF Replaces, SalesInv, ShipmentFollowsSale, HasCart, MovesTo
  <1> QED  BY <1>1, <1>2, <1>3 DEF SalesInv
----------------------------------------------------------------------------
(* Every command is one of the moves.                                      *)

\* The row r has what matters of the order's row.
Like(r, o) ==
    /\ r \in OrderRow
    /\ r.status = order[o].status
    /\ r.lines = order[o].lines
    /\ r.shipment = order[o].shipment

\* The rows that commands hand over differ in other fields only.
LEMMA LikeItself ==
    ASSUME TypeOK, NEW o \in Orders
    PROVE  /\ Like(order[o], o)
           /\ \A x \in OrderStatus : Like([order[o] EXCEPT !.cancelledFrom = x], o)
           /\ \A x \in BOOLEAN : Like([order[o] EXCEPT !.due = x], o)
           /\ \A x : Like(Cleared(order[o], x), o)
  <1>1. order[o] \in OrderRow
    BY LinesType
  <1>2. /\ \A x \in OrderStatus : [order[o] EXCEPT !.cancelledFrom = x] \in OrderRow
        /\ \A x \in BOOLEAN : [order[o] EXCEPT !.due = x] \in OrderRow
        /\ \A x : Cleared(order[o], x) \in OrderRow
    BY <1>1, EditOrder
  <1>3. Like(order[o], o)
    BY <1>1 DEF Like
  <1>4. ASSUME NEW x \in OrderStatus
        PROVE  Like([order[o] EXCEPT !.cancelledFrom = x], o)
    <2> DEFINE r == [order[o] EXCEPT !.cancelledFrom = x]
    <2>1. r.status = order[o].status /\ r.lines = order[o].lines /\ r.shipment = order[o].shipment
      BY <1>1 DEF OrderRow
    <2> QED  BY <1>2, <2>1 DEF Like
  <1>5. ASSUME NEW x \in BOOLEAN
        PROVE  Like([order[o] EXCEPT !.due = x], o)
    <2> DEFINE r == [order[o] EXCEPT !.due = x]
    <2>1. r.status = order[o].status /\ r.lines = order[o].lines /\ r.shipment = order[o].shipment
      BY <1>1 DEF OrderRow
    <2> QED  BY <1>2, <2>1 DEF Like
  <1>6. ASSUME NEW x
        PROVE  Like(Cleared(order[o], x), o)
    <2> DEFINE r == Cleared(order[o], x)
    <2>1. r.status = order[o].status /\ r.lines = order[o].lines /\ r.shipment = order[o].shipment
      BY <1>1 DEF OrderRow, Cleared
    <2> QED  BY <1>2, <2>1 DEF Like
  <1> QED  BY <1>3, <1>4, <1>5, <1>6

\* An edit of the order's row that stays in its group of statuses keeps the stock.
LEMMA EditKeeps ==
    ASSUME TypeOK, NEW o \in Orders, NEW r, order' = [order EXCEPT ![o] = r],
           UNCHANGED <<stockVars, rows>>,
           r.lines = order[o].lines, r.shipment = order[o].shipment,
           RowOf(r.status) = RowOf(order[o].status),
           r.status = "absent" <=> order[o].status = "absent"
    PROVE  Keeps(o)
  <1>1. order'[o] = r /\ \A x \in Orders \ {o} : order'[x] = order[x]
    BY DEF TypeOK
  <1>2. OnlySale(o)
    BY <1>1 DEF OnlySale
  <1> QED  BY <1>1, <1>2 DEF Keeps, SameCart, MovesTo

\* A transition changes the status, and the shipment of a sale that becomes paid.
LEMMA TransitionEffect ==
    ASSUME TypeOK, NEW o \in Orders, NEW r, Like(r, o), NEW target \in OrderStatus,
           Transition(o, r, target)
    PROVE  /\ \A x \in Orders \ {o} : order'[x] = order[x]
           /\ SameCart(o)
           /\ order'[o].status = target
           /\ order'[o].shipment = IF target = "paid" THEN "pending" ELSE order[o].shipment
           /\ target \in Transitions[order[o].status]
  <1> DEFINE moved == [r EXCEPT !.status = target,
                                !.shipment = IF target = "paid" THEN "pending" ELSE @]
  <1>1. order' = [order EXCEPT ![o] = moved]
    BY DEF Transition
  <1>2. order'[o] = moved /\ \A x \in Orders \ {o} : order'[x] = order[x]
    BY <1>1 DEF TypeOK
  <1>3. /\ moved.status = target
        /\ moved.lines = r.lines
        /\ moved.shipment = IF target = "paid" THEN "pending" ELSE r.shipment
    BY DEF Like, OrderRow
  <1> QED  BY <1>2, <1>3 DEF Like, SameCart, Transition

\* Closing or opening rows of one sale leaves those of the others.
LEMMA OthersRows ==
    ASSUME TypeOK, NEW o \in Orders, NEW S, NEW status, rows' = SetRows(o, S, status)
    PROVE  \A x \in Orders \ {o} : rows'[x] = rows[x]
  BY DEF SetRows, TypeOK

\* Releasing and closing an open sale gives back its cart.
LEMMA GiveBackMove ==
    ASSUME SalesInv, NEW o \in Orders, NEW r, Like(r, o), order[o].status \in ActiveStatus,
           NEW target \in {"cancelled", "expired"},
           ReleaseReservations(o), Transition(o, r, target)
    PROVE  GivesBack(o)
  <1>1. RowOf(order[o].status) = "active" /\ RowOf(target) = "released"
    BY DEF RowOf, ActiveStatus
  <1>2. Held(o) = LineProducts(o)
    BY <1>1, HeldIs
  <1>3. ReleaseStock(order[o].lines) /\ SetAll(o, "released")
    BY <1>2, ClaimAll DEF ReleaseReservations, SetAll, SalesInv
  <1>4. \A x \in Orders \ {o} : rows'[x] = rows[x]
    BY <1>3, OthersRows DEF SetAll, SalesInv
  <1>5. /\ \A x \in Orders \ {o} : order'[x] = order[x]
        /\ SameCart(o)
        /\ order'[o].status = target
        /\ order'[o].shipment = order[o].shipment
    BY TransitionEffect DEF SalesInv, OrderStatus
  <1> QED  BY <1>1, <1>3, <1>4, <1>5 DEF GivesBack, OnlySale, MovesTo

\* Reserving the cart and opening the sale takes the cart.
LEMMA TakeMove ==
    ASSUME SalesInv, NEW o \in Orders, NEW r, Like(r, o),
           order[o].status \in {"draft", "cancelled"}, NEW target \in ActiveStatus,
           ReserveLines(o, LineProducts(o)), Transition(o, r, target)
    PROVE  Takes(o)
  <1>1. RowOf(order[o].status) \in {"none", "released"} /\ RowOf(target) = "active"
    BY DEF RowOf, ActiveStatus
  <1>2. ReserveStock(order[o].lines) /\ SetAll(o, "active")
    BY ClaimAll DEF ReserveLines, SetAll, SalesInv
  <1>3. \A x \in Orders \ {o} : rows'[x] = rows[x]
    BY <1>2, OthersRows DEF SetAll, SalesInv
  <1>4. /\ \A x \in Orders \ {o} : order'[x] = order[x]
        /\ SameCart(o)
        /\ order'[o].status = target
        /\ order'[o].shipment = order[o].shipment
    BY TransitionEffect DEF SalesInv, OrderStatus, ActiveStatus
  <1> QED  BY <1>1, <1>2, <1>3, <1>4 DEF Takes, OnlySale, MovesTo

\* Opening an issue keeps the stock.
LEMMA FlagMove ==
    ASSUME TypeOK, NEW o \in Orders, NEW r, Like(r, o), NEW payments, NEW kind,
           MarkReconciliation(o, r, payments, kind)
    PROVE  Keeps(o)
  <1> DEFINE flagged == Flagged(r, kind)
  <1>1. /\ flagged.lines = r.lines /\ flagged.shipment = r.shipment
        /\ flagged.status = r.status
    BY DEF Flagged, Like, OrderRow
  <1>2. order' = [order EXCEPT ![o] = flagged] /\ UNCHANGED <<stockVars, rows>>
    BY DEF MarkReconciliation, stockVars
  <1> HIDE DEF flagged
  <1> QED  BY <1>1, <1>2, EditKeeps DEF Like

\* Accepting the money sells the cart, or opens an issue.
LEMMA ApproveMove ==
    ASSUME SalesInv, NEW o \in Orders, NEW r, Like(r, o), NEW payments,
           ApprovePayment(o, r, payments)
    PROVE  Keeps(o) \/ Sells(o)
  <1>1. CASE ~(Held(o) # {} /\ CanConsume(Claim(o, Held(o))))
    BY <1>1, FlagMove DEF ApprovePayment, SalesInv
  <1>2. CASE Held(o) # {} /\ CanConsume(Claim(o, Held(o)))
    <2>1. RowOf(order[o].status) = "active" /\ RowOf("paid") = "consumed"
      BY DEF ApprovePayment, RowOf, ActiveStatus
    <2>2. Held(o) = LineProducts(o)
      BY <2>1, HeldIs
    <2>3. ConsumeStock(order[o].lines) /\ SetAll(o, "consumed")
      BY <1>2, <2>2, ClaimAll DEF ApprovePayment, SetAll, SalesInv
    <2>4. \A x \in Orders \ {o} : rows'[x] = rows[x]
      BY <2>3, OthersRows DEF SetAll, SalesInv
    <2>5. /\ \A x \in Orders \ {o} : order'[x] = order[x]
          /\ SameCart(o)
          /\ order'[o].status = "paid"
          /\ order'[o].shipment = "pending"
      <3>1. Transition(o, r, "paid")
        BY <1>2 DEF ApprovePayment
      <3>2. "paid" \in OrderStatus
        BY DEF OrderStatus
      <3> QED  BY <3>1, <3>2, TransitionEffect DEF SalesInv
    <2> QED  BY <2>1, <2>3, <2>4, <2>5 DEF Sells, OnlySale, MovesTo
  <1> QED  BY <1>1, <1>2

\* Refunding a paid sale keeps the stock, and its shipment.
LEMMA MoneyBackMove ==
    ASSUME TypeOK, NEW o \in Orders, NEW r, Like(r, o), order[o].status = "paid",
           Transition(o, r, "refunded"), UNCHANGED <<stockVars, rows>>
    PROVE  Keeps(o)
  <1>1. /\ \A x \in Orders \ {o} : order'[x] = order[x]
        /\ SameCart(o)
        /\ order'[o].status = "refunded"
        /\ order'[o].shipment = order[o].shipment
    BY TransitionEffect DEF OrderStatus
  <1>2. RowOf("refunded") = RowOf("paid")
    BY DEF RowOf, ActiveStatus
  <1> QED
    BY <1>1, <1>2 DEF Keeps, OnlySale, MovesTo, stockVars

\* The buyer's edits touch no stock; the receipt closes nothing.
LEMMA BuyerMoves ==
    ASSUME SalesInv, NEW o \in Orders, BuyerStep(o)
    PROVE  SaleMoves(o)
  <1>1. ASSUME NEW details \in BuyerDetails, SetBuyerDetails(o, details)
        PROVE  Keeps(o)
    <2> DEFINE r == [order[o] EXCEPT !.buyer = details,
                                     !.status = CheckoutStatus(order[o].status)]
    <2>1. order' = [order EXCEPT ![o] = r] /\ UNCHANGED <<stockVars, rows>>
      BY <1>1 DEF SetBuyerDetails, SalesInv, TypeOK, stockVars
    <2>2. /\ r.lines = order[o].lines /\ r.shipment = order[o].shipment
          /\ r.status = CheckoutStatus(order[o].status)
      BY LinesType DEF SalesInv, OrderRow
    <2>3. /\ RowOf(r.status) = RowOf(order[o].status)
          /\ r.status = "absent" <=> order[o].status = "absent"
      BY <1>1, <2>2 DEF SetBuyerDetails, ExpirableStatus, CheckoutStatus, RowOf, ActiveStatus
    <2> HIDE DEF r
    <2> QED  BY <2>1, <2>2, <2>3, EditKeeps DEF SalesInv
  <1>2. CASE InitiateCheckout(o)
    <2> DEFINE r == [order[o] EXCEPT !.status = CheckoutStatus(order[o].status)]
    <2>1. order' = [order EXCEPT ![o] = r] /\ UNCHANGED <<stockVars, rows>>
      BY <1>2 DEF InitiateCheckout, SalesInv, TypeOK, stockVars
    <2>2. /\ r.lines = order[o].lines /\ r.shipment = order[o].shipment
          /\ r.status = CheckoutStatus(order[o].status)
      BY LinesType DEF SalesInv, OrderRow
    <2>3. /\ RowOf(r.status) = RowOf(order[o].status)
          /\ r.status = "absent" <=> order[o].status = "absent"
      BY <1>2, <2>2 DEF InitiateCheckout, ExpirableStatus, CheckoutStatus, RowOf, ActiveStatus
    <2> HIDE DEF r
    <2> QED  BY <2>1, <2>2, <2>3, EditKeeps DEF SalesInv, SaleMoves
  <1>3. CASE PrepareReceiptUpload(o)
    <2>1. order' = [order EXCEPT ![o] = order[o]] /\ UNCHANGED <<stockVars, rows>>
      BY <1>3 DEF PrepareReceiptUpload, SalesInv, TypeOK, stockVars
    <2> QED  BY <2>1, EditKeeps DEF SalesInv, SaleMoves
  <1>4. CASE CompleteReceiptUpload(o)
    <2>1. Like(order[o], o)
      BY LikeItself DEF SalesInv
    <2>2. Transition(o, order[o], "purchase_validation") /\ UNCHANGED <<stockVars, rows>>
      BY <1>4 DEF CompleteReceiptUpload, stockVars
    <2>3. order[o].status \in ExpirableStatus
      BY <1>4 DEF CompleteReceiptUpload
    <2>4. /\ \A x \in Orders \ {o} : order'[x] = order[x]
          /\ SameCart(o)
          /\ order'[o].status = "purchase_validation"
          /\ order'[o].shipment = order[o].shipment
      BY <2>1, <2>2, TransitionEffect DEF SalesInv, OrderStatus
    <2>5. RowOf("purchase_validation") = "active" /\ RowOf(order[o].status) = "active"
      BY <2>3 DEF RowOf, ActiveStatus, ExpirableStatus
    <2>6. order[o].status # "absent"
      BY <2>3 DEF ExpirableStatus
    <2> QED  BY <2>2, <2>4, <2>5, <2>6 DEF SaleMoves, Keeps, OnlySale, MovesTo
  <1> QED  BY <1>1, <1>2, <1>3, <1>4 DEF BuyerStep, SaleMoves

\* A draft is made of a cart and holds nothing; abandoning it leaves nothing.
LEMMA DraftMoves ==
    ASSUME SalesInv, NEW o \in Orders,
           \/ \E method \in Methods, cart \in Carts : BeginCreateOrder(o, method, cart)
           \/ AbandonDraftOrder(o)
    PROVE  Drafts(o)
  <1>1. ASSUME NEW method \in Methods, NEW cart \in Carts, BeginCreateOrder(o, method, cart)
        PROVE  Drafts(o)
    <2> DEFINE r == [order[o] EXCEPT !.status = "draft", !.method = method, !.lines = cart]
    <2>1. order' = [order EXCEPT ![o] = r] /\ UNCHANGED <<stockVars, rows>>
      BY <1>1 DEF BeginCreateOrder, SalesInv, TypeOK, stockVars
    <2>2. r.lines = cart /\ r.shipment = order[o].shipment /\ r.status = "draft"
      BY LinesType DEF SalesInv, OrderRow
    <2>3. RowOf("draft") = "none" /\ RowOf("absent") = "none"
      BY DEF RowOf, ActiveStatus
    <2>4. order[o].shipment # "pending"
      BY <1>1, <2>3 DEF BeginCreateOrder, SalesInv, ShipmentFollowsSale
    <2>5. order'[o] = r /\ \A x \in Orders \ {o} : order'[x] = order[x]
      BY <2>1 DEF SalesInv, TypeOK
    <2>6. HasCart(o)'
      BY <2>2, <2>5 DEF HasCart
    <2> HIDE DEF r
    <2> QED
      BY <1>1, <2>1, <2>2, <2>3, <2>4, <2>5, <2>6
         DEF Drafts, OnlySale, MovesTo, BeginCreateOrder
  <1>2. CASE AbandonDraftOrder(o)
    <2>1. order' = [order EXCEPT ![o] = AbsentOrder] /\ UNCHANGED <<stockVars, rows>>
      BY <1>2 DEF AbandonDraftOrder, stockVars
    <2>2. order'[o] = AbsentOrder /\ \A x \in Orders \ {o} : order'[x] = order[x]
      BY <2>1 DEF SalesInv, TypeOK
    <2>3. RowOf("draft") = "none" /\ RowOf("absent") = "none"
      BY DEF RowOf, ActiveStatus
    <2>4. AbsentOrder.status = "absent" /\ AbsentOrder.shipment = "none"
      BY DEF AbsentOrder
    <2>5. HasCart(o)'
      BY <2>2, <2>4 DEF HasCart
    <2> QED
      BY <1>2, <2>1, <2>2, <2>3, <2>4, <2>5
         DEF Drafts, OnlySale, MovesTo, AbandonDraftOrder
  <1> QED  BY <1>1, <1>2

\* The commands that take units from the shelf.
LEMMA ReserveMoves ==
    ASSUME SalesInv, NEW o \in Orders, ReserveDraftOrder(o) \/ RestoreOrder(o)
    PROVE  Takes(o)
  <1>1. CASE ReserveDraftOrder(o)
    <2>1. Like(order[o], o)
      BY LikeItself DEF SalesInv
    <2>2. /\ order[o].status \in {"draft", "cancelled"}
          /\ ReserveLines(o, LineProducts(o))
          /\ Transition(o, order[o], "reserved")
      BY <1>1 DEF ReserveDraftOrder
    <2>3. "reserved" \in ActiveStatus
      BY DEF ActiveStatus
    <2> QED  BY <2>1, <2>2, <2>3, TakeMove
  <1>2. CASE RestoreOrder(o)
    <2> DEFINE r == [order[o] EXCEPT !.due = FALSE]
    <2>1. Like(r, o)
      BY LikeItself DEF SalesInv
    <2>2. order[o].status = "cancelled" /\ Transition(o, r, RestoreTarget(o))
      BY <1>2 DEF RestoreOrder
    <2>3. RowOf(order[o].status) = "released"
      BY <2>2 DEF RowOf, ActiveStatus
    <2>4. Held(o) = {} /\ ReleasedRows(o) = LineProducts(o)
      BY <2>3, HeldIs
    <2>5. ReserveLines(o, LineProducts(o))
      BY <1>2, <2>4 DEF RestoreOrder, ReopenReservations
    <2>6. RestoreTarget(o) \in ActiveStatus
      BY <1>2 DEF RestoreOrder, RestoreTarget, ActiveStatus
    <2> HIDE DEF r
    <2> QED  BY <2>1, <2>2, <2>5, <2>6, TakeMove
  <1> QED  BY <1>1, <1>2

\* The commands that give units back.
LEMMA CloseMoves ==
    ASSUME SalesInv, NEW o \in Orders, RejectProof(o) \/ CancelOrder(o) \/ ExpireOrder(o)
    PROVE  GivesBack(o)
  <1>1. CASE RejectProof(o)
    <2>1. Like(order[o], o)
      BY LikeItself DEF SalesInv
    <2>2. order[o].status \in ActiveStatus
      BY <1>1 DEF RejectProof, ActiveStatus
    <2>3. ReleaseReservations(o) /\ Transition(o, order[o], "cancelled")
      BY <1>1 DEF RejectProof
    <2> QED  BY <2>1, <2>2, <2>3, GiveBackMove
  <1>2. CASE CancelOrder(o)
    <2> DEFINE r == [order[o] EXCEPT !.cancelledFrom = order[o].status]
    <2>1. order[o].status \in OrderStatus
      BY LinesType, EditOrder DEF SalesInv
    <2>2. Like(r, o)
      BY <2>1, LikeItself DEF SalesInv
    <2>3. order[o].status \in ActiveStatus /\ ReleaseReservations(o) /\ Transition(o, r, "cancelled")
      BY <1>2 DEF CancelOrder
    <2> HIDE DEF r
    <2> QED  BY <2>2, <2>3, GiveBackMove
  <1>3. CASE ExpireOrder(o)
    <2>1. Like(order[o], o)
      BY LikeItself DEF SalesInv
    <2>2. order[o].status \in ActiveStatus
      BY <1>3 DEF ExpireOrder, ExpirableStatus, ActiveStatus
    <2>3. ReleaseReservations(o) /\ Transition(o, order[o], "expired")
      BY <1>3 DEF ExpireOrder
    <2> QED  BY <2>1, <2>2, <2>3, GiveBackMove
  <1> QED  BY <1>1, <1>2, <1>3

\* A reissue closes the sale and puts its cart in the hands of the new one.
LEMMA ReissueMoves ==
    ASSUME SalesInv, NEW o \in Orders, NEW n \in Orders \ {o}, ReissueOffer(o, n)
    PROVE  Replaces(o, n)
  <1>1. RowOf(order[o].status) = "active" /\ RowOf("cancelled") = "released"
        /\ RowOf("reserved") = "active"
    BY DEF ReissueOffer, RowOf, ActiveStatus
  <1>2. Held(o) = LineProducts(o) /\ Claim(o, Held(o)) = order[o].lines
    BY <1>1, HeldIs, ClaimAll DEF SalesInv
  <1>3. \A p \in Products : order[o].lines[p] \in Nat
    BY LinesType DEF SalesInv
  <1>4. reserved \in [Products -> Int]
    BY DEF SalesInv, TypeOK, StockTypeOK
  <1>5. UNCHANGED stockVars
    <2>1. reserved' = [p \in Products |-> reserved[p] - order[o].lines[p] + order[o].lines[p]]
      BY <1>2 DEF ReissueOffer
    <2>2. \A p \in Products : reserved[p] - order[o].lines[p] + order[o].lines[p] = reserved[p]
      BY <1>3, <1>4
    <2>3. reserved' = reserved
      BY <1>4, <2>1, <2>2
    <2> QED  BY <2>3 DEF ReissueOffer, stockVars
  <1>6. rows' = [SetRows(o, LineProducts(o), "released") EXCEPT ![n] =
                   [p \in Products |-> IF p \in LineProducts(o) THEN "active" ELSE @[p]]]
    BY <1>2 DEF ReissueOffer
  <1>7. SetRows(o, LineProducts(o), "released") =
           [rows EXCEPT ![o] = [p \in Products |->
               IF p \in LineProducts(o) THEN "released" ELSE rows[o][p]]]
    BY DEF SetRows, SalesInv, TypeOK
  <1>8. /\ rows'[o] = [p \in Products |-> IF p \in LineProducts(o) THEN "released" ELSE rows[o][p]]
        /\ rows'[n] = [p \in Products |-> IF p \in LineProducts(o) THEN "active" ELSE rows[n][p]]
        /\ \A x \in Orders \ {o, n} : rows'[x] = rows[x]
    BY <1>6, <1>7 DEF SalesInv, TypeOK
  <1> DEFINE closed == [order[o] EXCEPT !.status = "cancelled", !.reissued = TRUE]
             opened == [order[n] EXCEPT !.status = "reserved", !.method = "bank_transfer",
                                        !.lines = order[o].lines]
  <1>9. order' = [order EXCEPT ![o] = closed, ![n] = opened]
    BY DEF ReissueOffer, SalesInv, TypeOK
  <1>10. order'[o] = closed /\ order'[n] = opened /\ \A x \in Orders \ {o, n} : order'[x] = order[x]
    BY <1>9 DEF SalesInv, TypeOK
  <1>11. /\ closed.status = "cancelled" /\ closed.lines = order[o].lines
         /\ closed.shipment = order[o].shipment
    BY LinesType DEF SalesInv, OrderRow
  <1>12. /\ opened.status = "reserved" /\ opened.lines = order[o].lines
         /\ opened.shipment = order[n].shipment
    BY LinesType DEF SalesInv, OrderRow
  <1>13. order[n].status = "absent"
    BY DEF ReissueOffer
  <1> HIDE DEF closed, opened
  <1> QED
    BY <1>1, <1>5, <1>8, <1>10, <1>11, <1>12, <1>13 DEF Replaces, MovesTo, SameCart

\* Accepting, refunding and retrying: a sale is sold, or its stock stays.
LEMMA PaymentMoves ==
    ASSUME SalesInv, NEW o \in Orders,
           \/ ConfirmManualPayment(o) \/ ApproveProof(o) \/ RefundPayment(o)
           \/ RetryIssue(o)
           \/ \E details \in BuyerDetails : UpdateOrderBuyer(o, details)
    PROVE  Keeps(o) \/ Sells(o)
  <1>1. Like(order[o], o)
    BY LikeItself DEF SalesInv
  <1>2. CASE ConfirmManualPayment(o)
    <2>1. ApprovePayment(o, order[o], EnsuredPayment(o))
      BY <1>2 DEF ConfirmManualPayment
    <2> QED  BY <1>1, <2>1, ApproveMove
  <1>3. CASE ApproveProof(o)
    <2>1. ApprovePayment(o, order[o], payment)
      BY <1>3 DEF ApproveProof
    <2> QED  BY <1>1, <2>1, ApproveMove
  <1>4. CASE RefundPayment(o)
    <2>1. CASE MarkReconciliation(o, order[o], payment, "unknown_payment")
      BY <1>1, <2>1, FlagMove DEF SalesInv
    <2>2. CASE Transition(o, order[o], "refunded") /\ UNCHANGED <<stockVars, rows>>
      BY <1>1, <1>4, <2>2, MoneyBackMove DEF RefundPayment, SalesInv
    <2> QED  BY <1>4, <2>1, <2>2 DEF RefundPayment
  <1>5. CASE RetryIssue(o)
    <2> DEFINE r == [order[o] EXCEPT !.reconciliation = "retrying"]
    <2>1. order' = [order EXCEPT ![o] = r] /\ UNCHANGED <<stockVars, rows>>
      BY <1>5 DEF RetryIssue, SalesInv, TypeOK, stockVars
    <2>2. /\ r.lines = order[o].lines /\ r.shipment = order[o].shipment
          /\ r.status = order[o].status
      BY LinesType DEF SalesInv, OrderRow
    <2> HIDE DEF r
    <2> QED  BY <2>1, <2>2, EditKeeps DEF SalesInv
  <1>6. ASSUME NEW details \in BuyerDetails, UpdateOrderBuyer(o, details)
        PROVE  Keeps(o)
    <2> DEFINE r == [order[o] EXCEPT !.buyer = details]
    <2>1. order' = [order EXCEPT ![o] = r] /\ UNCHANGED <<stockVars, rows>>
      BY <1>6 DEF UpdateOrderBuyer, SalesInv, TypeOK, stockVars
    <2>2. /\ r.lines = order[o].lines /\ r.shipment = order[o].shipment
          /\ r.status = order[o].status
      BY LinesType DEF SalesInv, OrderRow
    <2> HIDE DEF r
    <2> QED  BY <2>1, <2>2, EditKeeps DEF SalesInv
  <1> QED  BY <1>2, <1>3, <1>4, <1>5, <1>6

\* A report of the provider sells an open sale, closes it, or leaves the stock.
LEMMA SnapshotMoves ==
    ASSUME SalesInv, NEW o \in Orders, NEW r, Like(r, o), NEW kind \in SnapshotKinds,
           NEW id, ApplySnapshot(o, r, kind, id)
    PROVE  SaleMoves(o)
  <1> DEFINE seen == [payment EXCEPT ![o].provider = id]
  <1> HIDE DEF seen
  <1>1. ASSUME NEW payments, NEW issue, MarkReconciliation(o, r, payments, issue)
        PROVE  SaleMoves(o)
    BY <1>1, FlagMove DEF SalesInv, SaleMoves
  <1>2. ASSUME NEW payments, KeepSale(o, r, payments)
        PROVE  SaleMoves(o)
    <2>1. order' = [order EXCEPT ![o] = r] /\ UNCHANGED <<stockVars, rows>>
      BY <1>2 DEF KeepSale, stockVars
    <2> QED  BY <2>1, EditKeeps DEF SalesInv, SaleMoves, Like
  <1>3. CASE SnapshotMismatch(o, r, kind)
    BY <1>1, <1>3 DEF SnapshotMismatch
  <1>4. CASE SnapshotApproved(o, r, seen)
    <2>1. ApprovePayment(o, r, seen) => SaleMoves(o)
      BY ApproveMove DEF SaleMoves
    <2>2. \/ KeepSale(o, r, seen)
          \/ MarkReconciliation(o, r, seen, "paid_without_stock")
          \/ ApprovePayment(o, r, seen)
      BY <1>4 DEF SnapshotApproved
    <2> QED  BY <1>1, <1>2, <2>1, <2>2
  <1>5. CASE SnapshotRejected(o, r, seen, kind)
    <2>1. CASE /\ order[o].status \in ActiveStatus
               /\ ReleaseReservations(o) /\ Transition(o, r, "cancelled")
      BY <2>1, GiveBackMove DEF SaleMoves
    <2>2. \/ MarkReconciliation(o, r, seen, "provider_status")
          \/ KeepSale(o, r, seen)
          \/ /\ order[o].status \in ActiveStatus
             /\ ReleaseReservations(o) /\ Transition(o, r, "cancelled")
      BY <1>5 DEF SnapshotRejected
    <2> QED  BY <1>1, <1>2, <2>1, <2>2
  <1>6. CASE SnapshotPending(o, r, seen)
    BY <1>2, <1>6 DEF SnapshotPending
  <1>7. CASE SnapshotRefunded(o, r, seen, kind)
    <2>1. CASE /\ order[o].status = "paid" /\ Transition(o, r, "refunded")
               /\ UNCHANGED <<stockVars, rows>>
      BY <2>1, MoneyBackMove DEF SaleMoves, SalesInv
    <2>2. \/ MarkReconciliation(o, r, seen, "partial_refund")
          \/ /\ order[o].status = "paid" /\ Transition(o, r, "refunded")
             /\ UNCHANGED <<stockVars, rows>>
      BY <1>7 DEF SnapshotRefunded
    <2> QED  BY <1>1, <2>1, <2>2
  <1>8. CASE MarkReconciliation(o, r, seen, "provider_status")
    BY <1>1, <1>8
  <1> QED
    BY <1>3, <1>4, <1>5, <1>6, <1>7, <1>8 DEF ApplySnapshot, seen

\* What the worker does with a sale.
LEMMA WorkerMoves ==
    ASSUME SalesInv, NEW o \in Orders, WorkerStep(o)
    PROVE  SaleMoves(o)
  <1>1. CASE ReservationLapses(o)
    <2> DEFINE r == [order[o] EXCEPT !.due = TRUE]
    <2>1. order' = [order EXCEPT ![o] = r] /\ UNCHANGED <<stockVars, rows>>
      BY <1>1 DEF ReservationLapses, SalesInv, TypeOK, stockVars
    <2>2. Like(r, o)
      BY LikeItself DEF SalesInv
    <2> HIDE DEF r
    <2> QED  BY <2>1, <2>2, EditKeeps DEF SalesInv, SaleMoves, Like
  <1>2. CASE ExpireOrder(o)
    BY <1>2, CloseMoves DEF SaleMoves
  <1>3. ASSUME NEW kind \in SnapshotKinds, NEW id \in ProviderPayments,
               ProviderSnapshot(o, kind, id)
        PROVE  SaleMoves(o)
    <2>1. PICK resolved \in SUBSET (order[o].issues \cap {"webhook_pending"}) :
             ApplySnapshot(o, Cleared(order[o], resolved), kind, id)
      BY <1>3 DEF ProviderSnapshot
    <2>2. Like(Cleared(order[o], resolved), o)
      BY LikeItself DEF SalesInv
    <2> QED  BY <2>1, <2>2, SnapshotMoves
  <1>4. CASE ReportFails(o)
    <2> DEFINE read == [settled |-> payment[o].status \in {"approved", "refunded"},
                        flagged |-> order[o].reconciliation = "required"]
               r == [order[o] EXCEPT !.failing = {read}]
    <2>1. order' = [order EXCEPT ![o] = r] /\ UNCHANGED <<stockVars, rows>>
      BY <1>4 DEF ReportFails, SalesInv, TypeOK, stockVars
    <2>2. /\ r.lines = order[o].lines /\ r.shipment = order[o].shipment
          /\ r.status = order[o].status
      BY LinesType DEF SalesInv, OrderRow
    <2> HIDE DEF r
    <2> QED  BY <2>1, <2>2, EditKeeps DEF SalesInv, SaleMoves
  <1>5. CASE FailEvent(o)
    <2>1. PICK read \in order[o].failing :
             order' = [order EXCEPT
                ![o].failing = {},
                ![o].issues = @ \cup {"webhook_pending"},
                ![o].reconciliation = IF read.flagged THEN @ ELSE "required"]
      BY <1>5 DEF FailEvent
    <2> DEFINE r == [order[o] EXCEPT
                       !.failing = {},
                       !.issues = @ \cup {"webhook_pending"},
                       !.reconciliation = IF read.flagged THEN @ ELSE "required"]
    <2>2. order' = [order EXCEPT ![o] = r] /\ UNCHANGED <<stockVars, rows>>
      BY <1>5, <2>1 DEF FailEvent, SalesInv, TypeOK, stockVars
    <2>3. /\ r.lines = order[o].lines /\ r.shipment = order[o].shipment
          /\ r.status = order[o].status
      BY LinesType DEF SalesInv, OrderRow
    <2> HIDE DEF r
    <2> QED  BY <2>2, <2>3, EditKeeps DEF SalesInv, SaleMoves
  <1> QED  BY <1>1, <1>2, <1>3, <1>4, <1>5 DEF WorkerStep, ReportStep

\* Every step of the system is a step of the seller's stock, a move of one
\* sale, a replacement of one by another, or leaves everything.
LEMMA NextMoves ==
    ASSUME SalesInv, [Next]_vars
    PROVE  \/ UNCHANGED vars
           \/ StockStep /\ UNCHANGED saleVars
           \/ \E o \in Orders : SaleMoves(o)
           \/ \E o \in Orders : \E n \in Orders : Replaces(o, n)
  <1>1. ASSUME NEW o \in Orders, BuyerStep(o)  PROVE SaleMoves(o)
    BY <1>1, BuyerMoves
  <1>2. ASSUME NEW o \in Orders, WorkerStep(o)  PROVE SaleMoves(o)
    BY <1>2, WorkerMoves
  <1>3. ASSUME NEW o \in Orders, SellerStep(o)
        PROVE  SaleMoves(o) \/ \E n \in Orders : Replaces(o, n)
    <2>1. CASE \/ \E method \in Methods, cart \in Carts : BeginCreateOrder(o, method, cart)
               \/ AbandonDraftOrder(o)
      BY <2>1, DraftMoves DEF SaleMoves
    <2>2. CASE ReserveDraftOrder(o) \/ RestoreOrder(o)
      BY <2>2, ReserveMoves DEF SaleMoves
    <2>3. CASE RejectProof(o) \/ CancelOrder(o)
      BY <2>3, CloseMoves DEF SaleMoves
    <2>4. CASE \/ ConfirmManualPayment(o) \/ ApproveProof(o) \/ RefundPayment(o)
               \/ RetryIssue(o)
               \/ \E details \in BuyerDetails : UpdateOrderBuyer(o, details)
      BY <2>4, PaymentMoves DEF SaleMoves
    <2>5. CASE \E n \in Orders \ {o} : ReissueOffer(o, n)
      BY <2>5, ReissueMoves
    <2> QED  BY <1>3, <2>1, <2>2, <2>3, <2>4, <2>5 DEF SellerStep
  <1> QED  BY <1>1, <1>2, <1>3 DEF Next

----------------------------------------------------------------------------
(* The rows and the shipment follow the status of the sale.                *)

\* With no sale there is no row and no shipment.
LEMMA InitSales == Init => SalesInv
  <1> SUFFICES ASSUME Init PROVE SalesInv
    OBVIOUS
  <1>1. TypeOK
    BY InitType
  <1>2. ASSUME NEW o \in Orders
        PROVE  order[o] = AbsentOrder /\ \A p \in Products : rows[o][p] = "none"
    BY DEF Init
  <1>3. /\ AbsentOrder.status = "absent" /\ AbsentOrder.shipment = "none"
        /\ RowOf("absent") = "none"
    BY DEF AbsentOrder, RowOf, ActiveStatus
  <1> QED
    BY <1>1, <1>2, <1>3 DEF SalesInv, RowsFollowSale, ShipmentFollowsSale, HasCart

\* The strengthening is inductive.
LEMMA NextSales == SalesInv /\ [Next]_vars => SalesInv'
  <1> SUFFICES ASSUME SalesInv, [Next]_vars PROVE SalesInv'
    OBVIOUS
  <1>1. TypeOK'
    BY NextType DEF SalesInv
  <1>2. CASE UNCHANGED <<order, rows>>
    BY <1>1, <1>2 DEF SalesInv, RowsFollowSale, ShipmentFollowsSale, HasCart
  <1>3. ASSUME NEW o \in Orders, SaleMoves(o)  PROVE SalesInv'
    BY <1>1, <1>3, MovesKeepInv
  <1>4. ASSUME NEW o \in Orders, NEW n \in Orders, Replaces(o, n)  PROVE SalesInv'
    BY <1>1, <1>4, ReplaceKeepsInv
  <1> QED
    BY <1>2, <1>3, <1>4, NextMoves DEF vars, saleVars

\* The strengthening is invariant.
LEMMA SalesInvariant == Spec => []SalesInv
  BY InitSales, NextSales, PTL DEF Spec

\* Open sales hold their whole cart and the others hold nothing, closed sales
\* have given theirs back, and sales that were paid have taken theirs: no order
\* of commands, reports and lapses leaves a row behind or closes one twice.
THEOREM RowsMatchStatus ==
    Spec => [](OpenSaleHoldsCart /\ ClosedSaleGaveBack /\ PaidSaleTookCart)
  <1>1. SalesInv => OpenSaleHoldsCart /\ ClosedSaleGaveBack /\ PaidSaleTookCart
    <2> SUFFICES ASSUME SalesInv, NEW o \in Orders
                 PROVE  /\ \A p \in Products :
                             /\ rows[o][p] = "active" <=>
                                   order[o].status \in ActiveStatus /\ order[o].lines[p] > 0
                             /\ rows[o][p] = "released" <=>
                                   order[o].status \in {"cancelled", "expired"} /\ order[o].lines[p] > 0
                             /\ rows[o][p] = "consumed" <=>
                                   order[o].status \in {"paid", "refunded"} /\ order[o].lines[p] > 0
                        /\ order[o].shipment = "pending" <=>
                              order[o].status \in {"paid", "refunded"}
      BY DEF OpenSaleHoldsCart, ClosedSaleGaveBack, PaidSaleTookCart
    <2>1. /\ RowOf(order[o].status) = "active" <=> order[o].status \in ActiveStatus
          /\ RowOf(order[o].status) = "released" <=> order[o].status \in {"cancelled", "expired"}
          /\ RowOf(order[o].status) = "consumed" <=> order[o].status \in {"paid", "refunded"}
      BY DEF RowOf, ActiveStatus
    <2> QED
      BY <2>1 DEF SalesInv, RowsFollowSale, ShipmentFollowsSale
  <1> QED  BY <1>1, SalesInvariant, PTL

----------------------------------------------------------------------------
(* No product has more reserved than it has.                               *)

\* The seller's steps keep within what sales leave free.
LEMMA StockStepNoOversell ==
    ASSUME StockTypeOK, NoOversell, StockStep
    PROVE  NoOversell'
  <1>1. CASE UNCHANGED <<onHand, reserved>>
    BY <1>1 DEF NoOversell
  <1>2. ASSUME NEW m \in moving, AppendMovement(m)  PROVE NoOversell'
    <2>1. m.product \in Products /\ m.quantity \in Int
      <3>1. m \in Movement
        BY DEF StockTypeOK
      <3>2. Adjustments \subseteq Int
        BY StockAssumption
      <3> QED  BY <3>1, <3>2 DEF Movement
    <2>2. /\ reserved' = reserved
          /\ onHand' = [onHand EXCEPT ![m.product] = @ + m.quantity]
          /\ onHand[m.product] + m.quantity >= reserved[m.product]
      BY <1>2 DEF AppendMovement, MovementFits
    <2>3. ASSUME NEW p \in Products
          PROVE  0 <= reserved'[p] /\ reserved'[p] <= onHand'[p]
      <3>1. CASE p = m.product
        BY <2>1, <2>2, <3>1 DEF StockTypeOK, NoOversell
      <3>2. CASE p # m.product
        BY <2>1, <2>2, <3>2 DEF StockTypeOK, NoOversell
      <3> QED  BY <3>1, <3>2
    <2> QED  BY <2>3 DEF NoOversell
  <1> QED
    BY <1>1, <1>2 DEF StockStep, BeginMovement, RefuseMovement, CatalogueStep,
                      SetCatalogStatus, ArchiveProduct, RestoreProduct

\* What the moves of a sale do to the balances of one product.
LEMMA MovesBalance ==
    ASSUME SalesInv, NEW o \in Orders, SaleMoves(o), NEW p \in Products
    PROVE  LET q == order[o].lines[p]
           IN  \/ Takes(o) /\ reserved'[p] = reserved[p] + q /\ onHand'[p] = onHand[p]
                           /\ (q > 0 => q <= onHand[p] - reserved[p])
               \/ GivesBack(o) /\ reserved'[p] = reserved[p] - q /\ onHand'[p] = onHand[p]
                               /\ (q > 0 => q <= reserved[p])
               \/ Sells(o) /\ reserved'[p] = reserved[p] - q /\ onHand'[p] = onHand[p] - q
                           /\ (q > 0 => q <= reserved[p] /\ q <= onHand[p])
               \/ (Keeps(o) \/ Drafts(o)) /\ reserved'[p] = reserved[p] /\ onHand'[p] = onHand[p]
  <1>1. CASE Keeps(o) \/ Drafts(o)
    BY <1>1 DEF Keeps, Drafts, stockVars
  <1>2. CASE Takes(o)
    BY <1>2 DEF Takes, ReserveStock, CanReserve, Available
  <1>3. CASE GivesBack(o)
    BY <1>3 DEF GivesBack, ReleaseStock, CanRelease
  <1>4. CASE Sells(o)
    BY <1>4 DEF Sells, ConsumeStock, CanConsume
  <1> QED  BY <1>1, <1>2, <1>3, <1>4 DEF SaleMoves

\* What is reserved of a product is never more than what there is of it: the
\* checks of reserve_stock and record_stock_movement are enough whatever
\* commands interleave, so the available quantity is never negative.
THEOREM NeverOversold == Spec => []NoOversell
  <1>1. Init => NoOversell
    <2> SUFFICES ASSUME Init, NEW p \in Products
                 PROVE  0 <= reserved[p] /\ reserved[p] <= onHand[p]
      BY DEF NoOversell
    <2>1. reserved[p] = 0 /\ onHand[p] = InitialStock[p]
      BY DEF Init, StockInit
    <2>2. InitialStock[p] \in Nat
      BY StockAssumption
    <2> QED  BY <2>1, <2>2
  <1>2. SalesInv /\ NoOversell /\ [Next]_vars => NoOversell'
    <2> SUFFICES ASSUME SalesInv, NoOversell, [Next]_vars PROVE NoOversell'
      OBVIOUS
    <2>1. CASE UNCHANGED <<onHand, reserved>>
      BY <2>1 DEF NoOversell
    <2>2. CASE StockStep
      BY <2>2, StockStepNoOversell DEF SalesInv, TypeOK
    <2>3. ASSUME NEW o \in Orders, SaleMoves(o)  PROVE NoOversell'
      <3> SUFFICES ASSUME NEW p \in Products
                   PROVE  0 <= reserved'[p] /\ reserved'[p] <= onHand'[p]
        BY DEF NoOversell
      <3>1. /\ order[o].lines[p] \in Nat /\ reserved[p] \in Int /\ onHand[p] \in Int
            /\ 0 <= reserved[p] /\ reserved[p] <= onHand[p]
        BY LinesType DEF SalesInv, TypeOK, StockTypeOK, NoOversell
      <3> QED  BY <2>3, <3>1, MovesBalance
    <2>4. ASSUME NEW o \in Orders, NEW n \in Orders, Replaces(o, n)  PROVE NoOversell'
      BY <2>1, <2>4 DEF Replaces, stockVars
    <2> QED
      BY <2>1, <2>2, <2>3, <2>4, NextMoves DEF vars, stockVars
  <1> QED  BY <1>1, <1>2, SalesInvariant, PTL DEF Spec

----------------------------------------------------------------------------
(* The counters agree with the rows.                                       *)

\* The units of the product that the sale has in rows of that status.
Share(o, p, status) == IF rows[o][p] = status THEN order[o].lines[p] ELSE 0

\* What a sale has in rows of that status: the whole line or nothing.
LEMMA ShareIs ==
    ASSUME SalesInv, NEW o \in Orders, NEW p \in Products, NEW status \in {"active", "consumed"}
    PROVE  /\ Share(o, p, status) = IF RowOf(order[o].status) = status
                                    THEN order[o].lines[p] ELSE 0
           /\ Share(o, p, status) \in 0..MaxLineQuantity
  <1>1. order[o].lines[p] \in 0..MaxLineQuantity
    BY LinesType DEF SalesInv
  <1>2. rows[o][p] = IF order[o].lines[p] > 0 THEN RowOf(order[o].status) ELSE "none"
    BY DEF SalesInv, RowsFollowSale
  <1>3. Share(o, p, status) = IF RowOf(order[o].status) = status
                              THEN order[o].lines[p] ELSE 0
    <2>1. CASE order[o].lines[p] > 0
      <3>1. rows[o][p] = RowOf(order[o].status)
        BY <1>2, <2>1
      <3> QED  BY <3>1 DEF Share
    <2>2. CASE ~(order[o].lines[p] > 0)
      <3>1. order[o].lines[p] = 0
        BY <1>1, <2>2
      <3>2. rows[o][p] = "none"
        BY <1>2, <2>2
      <3> QED  BY <3>1, <3>2 DEF Share
    <2> QED  BY <2>1, <2>2
  <1>4. Share(o, p, status) \in 0..MaxLineQuantity
    <2>1. 0 \in 0..MaxLineQuantity
      BY SalesAssumption
    <2> QED  BY <1>1, <2>1 DEF Share
  <1> QED  BY <1>3, <1>4

\* The units in rows of that status, counted by their sales.
LEMMA UnitsByShare ==
    ASSUME SalesInv, NEW p \in Products, NEW status \in {"active", "consumed"}
    PROVE  UnitsIn(p, status) =
              Units(Orders, [o \in Orders |-> Share(o, p, status)], MaxLineQuantity)
  <1> DEFINE L == [o \in Orders |-> Share(o, p, status)]
  <1>1. ASSUME NEW u \in Orders \X (1..MaxLineQuantity)
        PROVE  (rows[u[1]][p] = status /\ u[2] <= order[u[1]].lines[p]) <=> u[2] <= L[u[1]]
    <2>1. u[1] \in Orders /\ u[2] \in 1..MaxLineQuantity
      BY <1>1
    <2>2. L[u[1]] = IF rows[u[1]][p] = status THEN order[u[1]].lines[p] ELSE 0
      BY <2>1 DEF Share
    <2> QED  BY <2>1, <2>2
  <1> HIDE DEF L
  <1>2. UnitsIn(p, status) = Units(Orders, L, MaxLineQuantity)
    BY <1>1 DEF UnitsIn, Units
  <1> QED  BY <1>2 DEF L

\* The same after the step.
LEMMA UnitsByShareNext ==
    ASSUME SalesInv', NEW p \in Products, NEW status \in {"active", "consumed"}
    PROVE  UnitsIn(p, status)' =
              Units(Orders, [o \in Orders |-> Share(o, p, status)'], MaxLineQuantity)
  <1> DEFINE L == [o \in Orders |-> Share(o, p, status)']
  <1>1. ASSUME NEW u \in Orders \X (1..MaxLineQuantity)
        PROVE  (rows'[u[1]][p] = status /\ u[2] <= order'[u[1]].lines[p]) <=> u[2] <= L[u[1]]
    <2>1. u[1] \in Orders /\ u[2] \in 1..MaxLineQuantity
      BY <1>1
    <2>2. L[u[1]] = IF rows'[u[1]][p] = status THEN order'[u[1]].lines[p] ELSE 0
      BY <2>1 DEF Share
    <2> QED  BY <2>1, <2>2
  <1> HIDE DEF L
  <1>2. UnitsIn(p, status)' = Units(Orders, L, MaxLineQuantity)
    BY <1>1 DEF UnitsIn, Units
  <1> QED  BY <1>2 DEF L

\* A set of orders and two of them.
LEMMA TakeOut ==
    ASSUME NEW o \in Orders, NEW n \in Orders, o # n
    PROVE  /\ IsFiniteSet(Orders \ {o}) /\ IsFiniteSet(Orders \ {o, n})
           /\ Orders = (Orders \ {o}) \cup {o}
           /\ Orders \ {o} = (Orders \ {o, n}) \cup {n}
  BY SalesAssumption, FS_Subset

\* A set without one of its orders.
LEMMA TakeOutOne ==
    ASSUME NEW o \in Orders
    PROVE  IsFiniteSet(Orders \ {o}) /\ Orders = (Orders \ {o}) \cup {o}
  BY SalesAssumption, FS_Subset

\* A move changes the count by what it changes of its own sale's share.
LEMMA MoveCount ==
    ASSUME SalesInv, SalesInv', NEW o \in Orders, OnlySale(o),
           NEW p \in Products, NEW status \in {"active", "consumed"}
    PROVE  Cardinality(UnitsIn(p, status)') =
              Cardinality(UnitsIn(p, status)) - Share(o, p, status) + Share(o, p, status)'
  <1> DEFINE L == [x \in Orders |-> Share(x, p, status)]
             K == [x \in Orders |-> Share(x, p, status)']
             A == Orders \ {o}
             kept == Cardinality(Units(A, L, MaxLineQuantity))
  <1>1. IsFiniteSet(A) /\ Orders = A \cup {o} /\ o \notin A
    BY TakeOutOne
  <1>2. \A x \in A : K[x] = L[x]
    BY DEF OnlySale, Share
  <1>3. L[o] \in 0..MaxLineQuantity /\ L[o] = Share(o, p, status)
    BY ShareIs
  <1>4. K[o] \in 0..MaxLineQuantity /\ K[o] = Share(o, p, status)'
    <2>1. order'[o].lines[p] \in 0..MaxLineQuantity
      BY DEF SalesInv, TypeOK, OrderRow
    <2>2. 0 \in 0..MaxLineQuantity
      BY SalesAssumption
    <2> QED  BY <2>1, <2>2 DEF Share
  <1>5. MaxLineQuantity \in Nat
    BY SalesAssumption
  <1>6. UnitsIn(p, status) = Units(Orders, L, MaxLineQuantity)
    BY UnitsByShare
  <1>7. UnitsIn(p, status)' = Units(Orders, K, MaxLineQuantity)
    BY UnitsByShareNext
  <1> HIDE DEF L, K, A
  <1>8. Cardinality(Units(Orders, L, MaxLineQuantity)) = kept + L[o]
    BY <1>1, <1>3, <1>5, UnitsSplit
  <1>9. Cardinality(Units(Orders, K, MaxLineQuantity)) = kept + K[o]
    BY <1>1, <1>2, <1>4, <1>5, UnitsJoin
  <1>10. kept \in Nat
    BY <1>1, <1>5, UnitsFinite
  <1> QED
    BY <1>3, <1>4, <1>6, <1>7, <1>8, <1>9, <1>10

\* No sale holds more than what is held altogether.
LEMMA ShareFits ==
    ASSUME SalesInv, NEW o \in Orders, NEW p \in Products, NEW status \in {"active", "consumed"}
    PROVE  Share(o, p, status) <= Cardinality(UnitsIn(p, status))
  <1> DEFINE L == [x \in Orders |-> Share(x, p, status)]
             A == Orders \ {o}
             kept == Cardinality(Units(A, L, MaxLineQuantity))
  <1>1. IsFiniteSet(A) /\ Orders = A \cup {o} /\ o \notin A
    BY TakeOutOne
  <1>2. L[o] \in 0..MaxLineQuantity /\ L[o] = Share(o, p, status)
    BY ShareIs
  <1>3. MaxLineQuantity \in Nat
    BY SalesAssumption
  <1>4. UnitsIn(p, status) = Units(Orders, L, MaxLineQuantity)
    BY UnitsByShare
  <1> HIDE DEF L, A
  <1>5. Cardinality(Units(Orders, L, MaxLineQuantity)) = kept + L[o]
    BY <1>1, <1>2, <1>3, UnitsSplit
  <1>6. kept \in Nat
    BY <1>1, <1>3, UnitsFinite
  <1> QED
    BY <1>2, <1>4, <1>5, <1>6

\* A replacement changes the count by what it changes of the two shares.
LEMMA ReplaceCount ==
    ASSUME SalesInv, SalesInv', NEW o \in Orders, NEW n \in Orders, Replaces(o, n),
           NEW p \in Products, NEW status \in {"active", "consumed"}
    PROVE  Cardinality(UnitsIn(p, status)') =
              Cardinality(UnitsIn(p, status))
                 - Share(o, p, status) - Share(n, p, status)
                 + Share(o, p, status)' + Share(n, p, status)'
  <1> DEFINE L == [x \in Orders |-> Share(x, p, status)]
             K == [x \in Orders |-> Share(x, p, status)']
             A == Orders \ {o, n}
             B == Orders \ {o}
             kept == Cardinality(Units(A, L, MaxLineQuantity))
  <1>1. /\ IsFiniteSet(A) /\ IsFiniteSet(B)
        /\ Orders = B \cup {o} /\ B = A \cup {n} /\ o \notin B /\ n \notin A
    BY TakeOut DEF Replaces
  <1>2. \A x \in A : K[x] = L[x]
    BY DEF Replaces, Share
  <1>3. \A x \in Orders : L[x] \in 0..MaxLineQuantity /\ L[x] = Share(x, p, status)
    BY ShareIs
  <1>4. \A x \in Orders : K[x] \in 0..MaxLineQuantity /\ K[x] = Share(x, p, status)'
    <2>1. \A x \in Orders : order'[x].lines[p] \in 0..MaxLineQuantity
      BY DEF SalesInv, TypeOK, OrderRow
    <2>2. 0 \in 0..MaxLineQuantity
      BY SalesAssumption
    <2> QED  BY <2>1, <2>2 DEF Share
  <1>5. MaxLineQuantity \in Nat
    BY SalesAssumption
  <1>6. UnitsIn(p, status) = Units(Orders, L, MaxLineQuantity)
    BY UnitsByShare
  <1>7. UnitsIn(p, status)' = Units(Orders, K, MaxLineQuantity)
    BY UnitsByShareNext
  <1> HIDE DEF L, K, A, B
  <1>8. Cardinality(Units(Orders, L, MaxLineQuantity)) = kept + L[n] + L[o]
    <2>1. Cardinality(Units(B, L, MaxLineQuantity)) = kept + L[n]
      BY <1>1, <1>3, <1>5, UnitsSplit
    <2>2. Cardinality(Units(Orders, L, MaxLineQuantity))
             = Cardinality(Units(B, L, MaxLineQuantity)) + L[o]
      <3>1. L[o] \in 0..MaxLineQuantity
        BY <1>3
      <3>2. IsFiniteSet(B) /\ o \notin B
        BY <1>1
      <3>3. Cardinality(Units(B \cup {o}, L, MaxLineQuantity))
               = Cardinality(Units(B, L, MaxLineQuantity)) + L[o]
        BY <1>5, <3>1, <3>2, UnitsSplit
      <3> QED  BY <1>1, <3>3
    <2> QED  BY <2>1, <2>2
  <1>9. Cardinality(Units(Orders, K, MaxLineQuantity)) = kept + K[n] + K[o]
    <2>1. Cardinality(Units(B, K, MaxLineQuantity)) = kept + K[n]
      BY <1>1, <1>2, <1>4, <1>5, UnitsJoin
    <2>2. Cardinality(Units(Orders, K, MaxLineQuantity))
             = Cardinality(Units(B, K, MaxLineQuantity)) + K[o]
      <3>1. K[o] \in 0..MaxLineQuantity
        BY <1>4
      <3>2. IsFiniteSet(B) /\ o \notin B
        BY <1>1
      <3>3. Cardinality(Units(B \cup {o}, K, MaxLineQuantity))
               = Cardinality(Units(B, K, MaxLineQuantity)) + K[o]
        BY <1>5, <3>1, <3>2, UnitsSplit
      <3> QED  BY <1>1, <3>3
    <2> QED  BY <2>1, <2>2
  <1>10. kept \in Nat
    BY <1>1, <1>5, UnitsFinite
  <1>11. /\ L[o] \in Int /\ L[n] \in Int /\ K[o] \in Int /\ K[n] \in Int
         /\ L[o] = Share(o, p, status) /\ L[n] = Share(n, p, status)
         /\ K[o] = Share(o, p, status)' /\ K[n] = Share(n, p, status)'
    BY <1>3, <1>4
  <1> QED
    BY <1>6, <1>7, <1>8, <1>9, <1>10, <1>11

\* The counters are the counts, and counts are numbers.
LEMMA CountsAreNat ==
    ASSUME NEW p \in Products, NEW status
    PROVE  IsFiniteSet(UnitsIn(p, status)) /\ Cardinality(UnitsIn(p, status)) \in Nat
  <1>1. IsFiniteSet(Orders \X (1..MaxLineQuantity))
    <2>1. 1 \in Int /\ MaxLineQuantity \in Int
      BY SalesAssumption
    <2>2. IsFiniteSet(1..MaxLineQuantity)
      BY <2>1, FS_Interval
    <2> QED  BY <2>2, SalesAssumption, FS_Product
  <1>2. UnitsIn(p, status) \subseteq Orders \X (1..MaxLineQuantity)
    BY DEF UnitsIn
  <1> QED  BY <1>1, <1>2, FS_Subset, FS_CardinalityType

\* A step of the seller's stock leaves what is reserved, and moves what is on
\* hand with the ledger.
LEMMA StockStepBalances ==
    ASSUME StockTypeOK, StockStep, NEW p \in Products
    PROVE  reserved' = reserved /\ adjusted'[p] - onHand'[p] = adjusted[p] - onHand[p]
  <1>1. CASE UNCHANGED <<onHand, reserved, adjusted>>
    BY <1>1 DEF StockTypeOK
  <1>2. ASSUME NEW m \in moving, AppendMovement(m)
        PROVE  reserved' = reserved /\ adjusted'[p] - onHand'[p] = adjusted[p] - onHand[p]
    <2>1. m.product \in Products /\ m.quantity \in Int
      <3>1. m \in Movement
        BY DEF StockTypeOK
      <3>2. Adjustments \subseteq Int
        BY StockAssumption
      <3> QED  BY <3>1, <3>2 DEF Movement
    <2>2. /\ reserved' = reserved
          /\ onHand' = [onHand EXCEPT ![m.product] = @ + m.quantity]
          /\ adjusted' = [adjusted EXCEPT ![m.product] = @ + m.quantity]
      BY <1>2 DEF AppendMovement
    <2>3. CASE p = m.product
      BY <2>1, <2>2, <2>3 DEF StockTypeOK
    <2>4. CASE p # m.product
      BY <2>1, <2>2, <2>4 DEF StockTypeOK
    <2> QED  BY <2>3, <2>4
  <1> QED
    BY <1>1, <1>2 DEF StockStep, BeginMovement, RefuseMovement, CatalogueStep,
                      SetCatalogStatus, ArchiveProduct, RestoreProduct

\* What a move changes of the sale's own shares.
LEMMA MovesShares ==
    ASSUME SalesInv, SalesInv', NEW o \in Orders, SaleMoves(o), NEW p \in Products
    PROVE  LET q == order[o].lines[p]
           IN  /\ Takes(o) => /\ Share(o, p, "active") = 0 /\ Share(o, p, "active")' = q
                              /\ Share(o, p, "consumed") = 0 /\ Share(o, p, "consumed")' = 0
               /\ GivesBack(o) => /\ Share(o, p, "active") = q /\ Share(o, p, "active")' = 0
                                  /\ Share(o, p, "consumed") = 0 /\ Share(o, p, "consumed")' = 0
               /\ Sells(o) => /\ Share(o, p, "active") = q /\ Share(o, p, "active")' = 0
                              /\ Share(o, p, "consumed") = 0 /\ Share(o, p, "consumed")' = q
               /\ Keeps(o) \/ Drafts(o) =>
                     /\ Share(o, p, "active")' = Share(o, p, "active")
                     /\ Share(o, p, "consumed")' = Share(o, p, "consumed")
  <1>1. /\ Share(o, p, "active") = IF RowOf(order[o].status) = "active"
                                   THEN order[o].lines[p] ELSE 0
        /\ Share(o, p, "consumed") = IF RowOf(order[o].status) = "consumed"
                                     THEN order[o].lines[p] ELSE 0
    BY ShareIs
  <1>2. /\ order[o].lines[p] \in Nat /\ order'[o].lines[p] \in Nat
    BY DEF SalesInv, TypeOK, OrderRow
  <1>3. rows'[o][p] = IF order'[o].lines[p] > 0 THEN RowOf(order'[o].status) ELSE "none"
    BY DEF SalesInv, RowsFollowSale
  <1>4. ASSUME NEW status \in {"active", "consumed"}
        PROVE  Share(o, p, status)' = IF RowOf(order'[o].status) = status
                                      THEN order'[o].lines[p] ELSE 0
    <2>1. CASE order'[o].lines[p] > 0
      <3>1. rows'[o][p] = RowOf(order'[o].status)
        BY <1>3, <2>1
      <3> QED  BY <3>1 DEF Share
    <2>2. CASE ~(order'[o].lines[p] > 0)
      <3>1. order'[o].lines[p] = 0
        BY <1>2, <2>2
      <3>2. rows'[o][p] = "none"
        BY <1>3, <2>2
      <3> QED  BY <3>1, <3>2 DEF Share
    <2> QED  BY <2>1, <2>2
  <1>5. Drafts(o) => /\ Share(o, p, "active")' = Share(o, p, "active")
                     /\ Share(o, p, "consumed")' = Share(o, p, "consumed")
    BY <1>1, <1>4 DEF Drafts, MovesTo
  <1>6. Keeps(o) => /\ Share(o, p, "active")' = Share(o, p, "active")
                    /\ Share(o, p, "consumed")' = Share(o, p, "consumed")
    BY <1>1, <1>4 DEF Keeps, MovesTo, SameCart
  <1>7. Takes(o) => /\ Share(o, p, "active") = 0
                    /\ Share(o, p, "active")' = order[o].lines[p]
                    /\ Share(o, p, "consumed") = 0 /\ Share(o, p, "consumed")' = 0
    BY <1>1, <1>4 DEF Takes, MovesTo, SameCart
  <1>8. GivesBack(o) => /\ Share(o, p, "active") = order[o].lines[p]
                        /\ Share(o, p, "active")' = 0
                        /\ Share(o, p, "consumed") = 0 /\ Share(o, p, "consumed")' = 0
    BY <1>1, <1>4 DEF GivesBack, MovesTo
  <1>9. Sells(o) => /\ Share(o, p, "active") = order[o].lines[p]
                    /\ Share(o, p, "active")' = 0
                    /\ Share(o, p, "consumed") = 0
                    /\ Share(o, p, "consumed")' = order[o].lines[p]
    BY <1>1, <1>4 DEF Sells, MovesTo, SameCart
  <1> QED  BY <1>5, <1>6, <1>7, <1>8, <1>9

\* The counters and the ledger of one product agree with the rows.
Agrees(p) ==
    /\ reserved[p] = Cardinality(UnitsIn(p, "active"))
    /\ onHand[p] + Cardinality(UnitsIn(p, "consumed")) = adjusted[p]

\* A move of a sale keeps the agreement.
LEMMA MovesAgree ==
    ASSUME SalesInv, SalesInv', NEW o \in Orders, SaleMoves(o),
           NEW p \in Products, Agrees(p)
    PROVE  Agrees(p)'
  <1> DEFINE active == Cardinality(UnitsIn(p, "active"))
             taken == Cardinality(UnitsIn(p, "consumed"))
             q == order[o].lines[p]
  <1>1. OnlySale(o)
    BY DEF SaleMoves, Keeps, Drafts, Takes, GivesBack, Sells
  <1>2. /\ active' = active - Share(o, p, "active") + Share(o, p, "active")'
        /\ taken' = taken - Share(o, p, "consumed") + Share(o, p, "consumed")'
    BY <1>1, MoveCount
  <1>3. adjusted' = adjusted
    BY DEF SaleMoves, Keeps, Drafts, Takes, GivesBack, Sells, stockVars,
           ReserveStock, ReleaseStock, ConsumeStock
  <1>4. /\ active \in Nat /\ taken \in Nat /\ q \in Nat
        /\ reserved[p] \in Int /\ onHand[p] \in Int /\ adjusted[p] \in Int
        /\ Share(o, p, "active") \in Int /\ Share(o, p, "consumed") \in Int
    BY CountsAreNat, LinesType, ShareIs DEF SalesInv, TypeOK, StockTypeOK
  <1>5. reserved[p] = active /\ onHand[p] + taken = adjusted[p]
    BY DEF Agrees
  <1> HIDE DEF active, taken, q
  <1>6. reserved'[p] = active' /\ onHand'[p] + taken' = adjusted'[p]
    <2>1. CASE Keeps(o) \/ Drafts(o)
      <3>1. /\ Share(o, p, "active")' = Share(o, p, "active")
            /\ Share(o, p, "consumed")' = Share(o, p, "consumed")
        BY <2>1, MovesShares
      <3>2. reserved' = reserved /\ onHand' = onHand
        BY <2>1 DEF Keeps, Drafts, stockVars
      <3> QED  BY <1>2, <1>3, <1>4, <1>5, <3>1, <3>2
    <2>2. CASE Takes(o)
      <3>1. /\ Share(o, p, "active") = 0 /\ Share(o, p, "active")' = q
            /\ Share(o, p, "consumed") = 0 /\ Share(o, p, "consumed")' = 0
        BY <2>2, MovesShares DEF q
      <3>2. reserved'[p] = reserved[p] + q /\ onHand' = onHand
        BY <2>2 DEF Takes, ReserveStock, q
      <3> QED  BY <1>2, <1>3, <1>4, <1>5, <3>1, <3>2
    <2>3. CASE GivesBack(o)
      <3>1. /\ Share(o, p, "active") = q /\ Share(o, p, "active")' = 0
            /\ Share(o, p, "consumed") = 0 /\ Share(o, p, "consumed")' = 0
        BY <2>3, MovesShares DEF q
      <3>2. reserved'[p] = reserved[p] - q /\ onHand' = onHand
        BY <2>3 DEF GivesBack, ReleaseStock, q
      <3> QED  BY <1>2, <1>3, <1>4, <1>5, <3>1, <3>2
    <2>4. CASE Sells(o)
      <3>1. /\ Share(o, p, "active") = q /\ Share(o, p, "active")' = 0
            /\ Share(o, p, "consumed") = 0 /\ Share(o, p, "consumed")' = q
        BY <2>4, MovesShares DEF q
      <3>2. reserved'[p] = reserved[p] - q /\ onHand'[p] = onHand[p] - q
        BY <2>4 DEF Sells, ConsumeStock, q
      <3> QED  BY <1>2, <1>3, <1>4, <1>5, <3>1, <3>2
    <2> QED  BY <2>1, <2>2, <2>3, <2>4 DEF SaleMoves
  <1> QED  BY <1>6 DEF Agrees, active, taken

\* So does a reissue: one sale's units become the other's.
LEMMA ReplaceAgrees ==
    ASSUME SalesInv, SalesInv', NEW o \in Orders, NEW n \in Orders, Replaces(o, n),
           NEW p \in Products, Agrees(p)
    PROVE  Agrees(p)'
  <1> DEFINE active == Cardinality(UnitsIn(p, "active"))
             taken == Cardinality(UnitsIn(p, "consumed"))
             q == order[o].lines[p]
  <1>1. /\ active' = active - Share(o, p, "active") - Share(n, p, "active")
                            + Share(o, p, "active")' + Share(n, p, "active")'
        /\ taken' = taken - Share(o, p, "consumed") - Share(n, p, "consumed")
                          + Share(o, p, "consumed")' + Share(n, p, "consumed")'
    BY ReplaceCount
  <1>2. q \in Nat /\ active \in Nat /\ taken \in Nat
    BY CountsAreNat, LinesType DEF SalesInv
  <1>3. RowOf(order[n].status) = "none"
    BY DEF Replaces, RowOf, ActiveStatus
  <1>4. /\ Share(o, p, "active") = q /\ Share(o, p, "consumed") = 0
        /\ Share(n, p, "active") = 0 /\ Share(n, p, "consumed") = 0
    BY <1>3, ShareIs DEF Replaces
  <1>5. /\ rows[o][p] = IF q > 0 THEN "active" ELSE "none"
        /\ rows[n][p] = "none"
    BY <1>3 DEF SalesInv, RowsFollowSale, Replaces
  <1>6. /\ rows'[o][p] = IF q > 0 THEN "released" ELSE "none"
        /\ rows'[n][p] = IF q > 0 THEN "active" ELSE "none"
    BY <1>5 DEF Replaces, LineProducts
  <1>7. order'[n].lines = order[o].lines
    BY DEF Replaces
  <1>8. /\ Share(o, p, "active")' = 0 /\ Share(o, p, "consumed")' = 0
        /\ Share(n, p, "active")' = q /\ Share(n, p, "consumed")' = 0
    BY <1>2, <1>6, <1>7 DEF Share
  <1>9. UNCHANGED <<onHand, reserved, adjusted>>
    BY DEF Replaces, stockVars
  <1> HIDE DEF active, taken, q
  <1>10. active' = active /\ taken' = taken
    BY <1>1, <1>2, <1>4, <1>8
  <1> QED  BY <1>9, <1>10 DEF Agrees, active, taken

\* Whatever commands, lapses, reports and movements interleave, what is
\* reserved of a product is what open sales hold of it, and what is on hand and
\* what sales have taken is what the seller brought: no unit is released or
\* consumed twice, forgotten, or put back by a refund.
THEOREM CountersAgree == Spec => [](ReservedIsHeld /\ LedgerBalances)
  <1> DEFINE Inv == \A p \in Products : Agrees(p)
  <1>1. Init => Inv
    <2> SUFFICES ASSUME Init, NEW p \in Products  PROVE Agrees(p)
      OBVIOUS
    <2>1. \A o \in Orders : rows[o][p] = "none"
      BY DEF Init
    <2>2. UnitsIn(p, "active") = {} /\ UnitsIn(p, "consumed") = {}
      BY <2>1 DEF UnitsIn
    <2>3. reserved[p] = 0 /\ onHand[p] = InitialStock[p] /\ adjusted[p] = InitialStock[p]
      BY DEF Init, StockInit
    <2>4. InitialStock[p] \in Nat
      BY StockAssumption
    <2> QED  BY <2>2, <2>3, <2>4, FS_EmptySet DEF Agrees
  <1>2. SalesInv /\ SalesInv' /\ Inv /\ [Next]_vars => Inv'
    <2> SUFFICES ASSUME SalesInv, SalesInv', Inv, [Next]_vars, NEW p \in Products
                 PROVE  Agrees(p)'
      OBVIOUS
    <2>1. Agrees(p)
      OBVIOUS
    <2>2. CASE UNCHANGED vars
      BY <2>1, <2>2 DEF vars, stockVars, saleVars, Agrees, UnitsIn
    <2>3. CASE StockStep /\ UNCHANGED saleVars
      <3>1. /\ UnitsIn(p, "active")' = UnitsIn(p, "active")
            /\ UnitsIn(p, "consumed")' = UnitsIn(p, "consumed")
        BY <2>3 DEF saleVars, UnitsIn
      <3>2. reserved' = reserved /\ adjusted'[p] - onHand'[p] = adjusted[p] - onHand[p]
        BY <2>3, StockStepBalances DEF SalesInv, TypeOK
      <3>3. /\ onHand[p] \in Int /\ adjusted[p] \in Int
            /\ onHand'[p] \in Int /\ adjusted'[p] \in Int
        BY DEF SalesInv, TypeOK, StockTypeOK
      <3>4. Cardinality(UnitsIn(p, "consumed")) \in Nat
        BY CountsAreNat
      <3> QED  BY <2>1, <3>1, <3>2, <3>3, <3>4 DEF Agrees
    <2>4. ASSUME NEW o \in Orders, SaleMoves(o)  PROVE Agrees(p)'
      BY <2>1, <2>4, MovesAgree
    <2>5. ASSUME NEW o \in Orders, NEW n \in Orders, Replaces(o, n)  PROVE Agrees(p)'
      BY <2>1, <2>5, ReplaceAgrees
    <2> QED  BY <2>2, <2>3, <2>4, <2>5, NextMoves
  <1>3. Inv => ReservedIsHeld /\ LedgerBalances
    BY DEF Agrees, ReservedIsHeld, LedgerBalances
  <1> HIDE DEF Inv
  <1> QED  BY <1>1, <1>2, <1>3, SalesInvariant, PTL DEF Spec


\* What the last theorems say, one property at a time.  Nothing is lost or made:
\* what a product has and what sales took of it is what its seller brought.
COROLLARY LedgerStands == Spec => []LedgerBalances
  BY CountersAgree, PTL

\* A sale that was cancelled or lapsed has released every row of its cart.
COROLLARY ClosedSalesHoldNothing == Spec => []ClosedSaleGaveBack
  BY RowsMatchStatus, PTL

\* A sale that was paid has consumed its whole cart and has a shipment.
COROLLARY PaidSalesTookAll == Spec => []PaidSaleTookCart
  BY RowsMatchStatus, PTL

----------------------------------------------------------------------------
(* What may become of a sale.                                              *)

ClosedStatus == {"cancelled", "expired"}

\* The row s may come after the row r.
Follows(r, s) ==
    /\ "paid_without_stock" \in s.issues =>
          "paid_without_stock" \in r.issues \/ r.status \in ClosedStatus
    /\ r.status \in {"expired", "refunded"} => s.status = r.status
    /\ r.status = "paid" => s.status \in {"paid", "refunded"}
    /\ r.status = "cancelled" => s.status \in ActiveStatus \cup {"cancelled"}
    /\ r.status \in ActiveStatus => s.status # "refunded"

NotReissued(r, s) == s.reissued => r.reissued

Steady(o) == Follows(order[o], order'[o]) /\ NotReissued(order[o], order'[o])

\* The row r differs from the order's row in nothing that Follows is about,
\* save issues that are resolved.
Same(r, o) ==
    /\ r \in OrderRow
    /\ r.status = order[o].status
    /\ r.reissued = order[o].reissued
    /\ r.issues \subseteq order[o].issues

\* The invariants that the steps need.
Stocked == SalesInv /\ NoOversell /\ ReservedIsHeld

\* The rows that commands hand over are such rows.
LEMMA SameItself ==
    ASSUME TypeOK, NEW o \in Orders
    PROVE  /\ Same(order[o], o)
           /\ \A x \in OrderStatus : Same([order[o] EXCEPT !.cancelledFrom = x], o)
           /\ \A x \in BOOLEAN : Same([order[o] EXCEPT !.due = x], o)
           /\ \A x : Same(Cleared(order[o], x), o)
  <1>1. order[o] \in OrderRow
    BY LinesType
  <1>2. /\ \A x \in OrderStatus : [order[o] EXCEPT !.cancelledFrom = x] \in OrderRow
        /\ \A x \in BOOLEAN : [order[o] EXCEPT !.due = x] \in OrderRow
        /\ \A x : Cleared(order[o], x) \in OrderRow
    BY <1>1, EditOrder
  <1>3. Same(order[o], o)
    BY <1>1 DEF Same
  <1>4. ASSUME NEW x \in OrderStatus
        PROVE  Same([order[o] EXCEPT !.cancelledFrom = x], o)
    <2> DEFINE r == [order[o] EXCEPT !.cancelledFrom = x]
    <2>1. r.status = order[o].status /\ r.reissued = order[o].reissued /\ r.issues = order[o].issues
      BY <1>1 DEF OrderRow
    <2> QED  BY <1>2, <2>1 DEF Same
  <1>5. ASSUME NEW x \in BOOLEAN
        PROVE  Same([order[o] EXCEPT !.due = x], o)
    <2> DEFINE r == [order[o] EXCEPT !.due = x]
    <2>1. r.status = order[o].status /\ r.reissued = order[o].reissued /\ r.issues = order[o].issues
      BY <1>1 DEF OrderRow
    <2> QED  BY <1>2, <2>1 DEF Same
  <1>6. ASSUME NEW x
        PROVE  Same(Cleared(order[o], x), o)
    <2> DEFINE r == Cleared(order[o], x)
    <2>1. /\ r.status = order[o].status /\ r.reissued = order[o].reissued
          /\ r.issues = order[o].issues \ x
      BY <1>1 DEF OrderRow, Cleared
    <2>2. r.issues \subseteq order[o].issues
      BY <2>1
    <2> QED  BY <1>2, <2>1, <2>2 DEF Same
  <1> QED  BY <1>3, <1>4, <1>5, <1>6

\* A row written in the place of the order's row.
LEMMA RowWritten ==
    ASSUME TypeOK, NEW o \in Orders, NEW s, order' = [order EXCEPT ![o] = s],
           Follows(order[o], s), NotReissued(order[o], s)
    PROVE  Steady(o)
  BY DEF Steady, TypeOK

\* A row with the same status and no new issue may be written.
LEMMA SameFollows ==
    ASSUME TypeOK, NEW o \in Orders, NEW s, s.status = order[o].status,
           s.reissued = order[o].reissued,
           "paid_without_stock" \in s.issues => "paid_without_stock" \in order[o].issues
    PROVE  Follows(order[o], s) /\ NotReissued(order[o], s)
  BY DEF Follows, ActiveStatus, NotReissued

\* A transition goes where Transitions lets it.
LEMMA TransitionFollows ==
    ASSUME TypeOK, NEW o \in Orders, NEW r, Same(r, o), NEW target, Transition(o, r, target)
    PROVE  Steady(o)
  <1> DEFINE s == [r EXCEPT !.status = target,
                            !.shipment = IF target = "paid" THEN "pending" ELSE @]
  <1>1. order' = [order EXCEPT ![o] = s]
    BY DEF Transition
  <1>2. s.status = target /\ s.reissued = r.reissued /\ s.issues = r.issues
    BY DEF Same, OrderRow
  <1>3. target \in Transitions[order[o].status] /\ order[o].status \in OrderStatus
    BY LinesType, EditOrder DEF Transition, Same
  <1>4. order[o].status \notin {"expired", "refunded"}
    BY <1>3 DEF Transitions
  <1>5. order[o].status = "paid" => target = "refunded"
    BY <1>3 DEF Transitions
  <1>6. /\ order[o].status = "cancelled" => target \in ActiveStatus
        /\ order[o].status \in ActiveStatus => target # "refunded"
    BY <1>3 DEF Transitions, ActiveStatus
  <1> HIDE DEF s
  <1>7. Follows(order[o], s) /\ NotReissued(order[o], s)
    BY <1>2, <1>4, <1>5, <1>6 DEF Follows, ActiveStatus, NotReissued, Same
  <1> QED  BY <1>1, <1>7, RowWritten

\* An issue may be opened; PAID_WITHOUT_STOCK only for a sale that is closed.
LEMMA FlagFollows ==
    ASSUME TypeOK, NEW o \in Orders, NEW r, Same(r, o), NEW payments, NEW kind,
           kind = "paid_without_stock" => order[o].status \in ClosedStatus,
           MarkReconciliation(o, r, payments, kind)
    PROVE  Steady(o)
  <1> DEFINE s == Flagged(r, kind)
  <1>1. order' = [order EXCEPT ![o] = s]
    BY DEF MarkReconciliation
  <1>2. s.status = r.status /\ s.reissued = r.reissued /\ s.issues = r.issues \cup {kind}
    BY DEF Flagged, Same, OrderRow
  <1> HIDE DEF s
  <1>3. Follows(order[o], s) /\ NotReissued(order[o], s)
    BY <1>2 DEF Follows, ActiveStatus, NotReissued, Same
  <1> QED  BY <1>1, <1>3, RowWritten

\* The units of an open sale are there to be consumed.
LEMMA OpenCanConsume ==
    ASSUME Stocked, NEW o \in Orders, order[o].status \in ActiveStatus
    PROVE  Held(o) # {} /\ CanConsume(Claim(o, Held(o)))
  <1>1. RowOf(order[o].status) = "active" /\ order[o].status # "absent"
    BY DEF RowOf, ActiveStatus
  <1>2. Held(o) = LineProducts(o) /\ Claim(o, Held(o)) = order[o].lines
    BY <1>1, HeldIs, ClaimAll DEF Stocked, SalesInv
  <1>3. Held(o) # {}
    <2>1. order[o].lines \in Carts
      BY <1>1 DEF Stocked, SalesInv, HasCart
    <2>2. \E p \in Products : order[o].lines[p] > 0
      BY <2>1, SalesAssumption
    <2> QED  BY <1>2, <2>2 DEF LineProducts
  <1>4. ASSUME NEW p \in Products
        PROVE  order[o].lines[p] <= reserved[p] /\ order[o].lines[p] <= onHand[p]
    <2>1. Share(o, p, "active") = order[o].lines[p]
      BY <1>1, ShareIs DEF Stocked
    <2>2. Share(o, p, "active") <= Cardinality(UnitsIn(p, "active"))
      BY ShareFits DEF Stocked
    <2>3. reserved[p] = Cardinality(UnitsIn(p, "active")) /\ reserved[p] <= onHand[p]
      BY DEF Stocked, ReservedIsHeld, NoOversell
    <2>4. order[o].lines[p] \in Int /\ reserved[p] \in Int /\ onHand[p] \in Int
      BY LinesType DEF Stocked, SalesInv, TypeOK, StockTypeOK
    <2> QED  BY <2>1, <2>2, <2>3, <2>4
  <1> QED  BY <1>2, <1>3, <1>4 DEF CanConsume

\* Money accepted for an open sale makes it paid.
LEMMA ApproveFollows ==
    ASSUME Stocked, NEW o \in Orders, NEW r, Same(r, o), NEW payments,
           ApprovePayment(o, r, payments)
    PROVE  Steady(o)
  <1>1. Held(o) # {} /\ CanConsume(Claim(o, Held(o)))
    BY OpenCanConsume DEF ApprovePayment
  <1>2. Transition(o, r, "paid")
    BY <1>1 DEF ApprovePayment
  <1> QED  BY <1>2, TransitionFollows DEF Stocked, SalesInv

\* What the buyer does.
LEMMA BuyerSteady ==
    ASSUME Stocked, NEW o \in Orders, BuyerStep(o)
    PROVE  Steady(o)
  <1>0. TypeOK
    BY DEF Stocked, SalesInv
  <1>1. ASSUME NEW details \in BuyerDetails, SetBuyerDetails(o, details)
        PROVE  Steady(o)
    <2> DEFINE s == [order[o] EXCEPT !.buyer = details,
                                     !.status = CheckoutStatus(order[o].status)]
    <2>1. order' = [order EXCEPT ![o] = s]
      BY <1>0, <1>1 DEF SetBuyerDetails, TypeOK
    <2>2. /\ s.status = CheckoutStatus(order[o].status)
          /\ s.reissued = order[o].reissued /\ s.issues = order[o].issues
      BY <1>0, LinesType DEF OrderRow
    <2>3. order[o].status \in ExpirableStatus
      BY <1>1 DEF SetBuyerDetails
    <2> HIDE DEF s
    <2>4. Follows(order[o], s) /\ NotReissued(order[o], s)
      BY <2>2, <2>3 DEF Follows, ActiveStatus, NotReissued, ExpirableStatus, CheckoutStatus
    <2> QED  BY <1>0, <2>1, <2>4, RowWritten
  <1>2. CASE InitiateCheckout(o)
    <2> DEFINE s == [order[o] EXCEPT !.status = CheckoutStatus(order[o].status)]
    <2>1. order' = [order EXCEPT ![o] = s]
      BY <1>0, <1>2 DEF InitiateCheckout, TypeOK
    <2>2. /\ s.status = CheckoutStatus(order[o].status)
          /\ s.reissued = order[o].reissued /\ s.issues = order[o].issues
      BY <1>0, LinesType DEF OrderRow
    <2>3. order[o].status \in ExpirableStatus
      BY <1>2 DEF InitiateCheckout
    <2> HIDE DEF s
    <2>4. Follows(order[o], s) /\ NotReissued(order[o], s)
      BY <2>2, <2>3 DEF Follows, ActiveStatus, NotReissued, ExpirableStatus, CheckoutStatus
    <2> QED  BY <1>0, <2>1, <2>4, RowWritten
  <1>3. CASE PrepareReceiptUpload(o)
    BY <1>3 DEF PrepareReceiptUpload, Steady, Follows, ActiveStatus, NotReissued
  <1>4. CASE CompleteReceiptUpload(o)
    BY <1>0, <1>4, SameItself, TransitionFollows DEF CompleteReceiptUpload
  <1> QED  BY <1>1, <1>2, <1>3, <1>4 DEF BuyerStep

\* What the seller does with one sale.
LEMMA SellerSteady ==
    ASSUME Stocked, NEW o \in Orders, SellerStep(o),
           ~ \E n \in Orders \ {o} : ReissueOffer(o, n)
    PROVE  Steady(o)
  <1>0. TypeOK /\ Same(order[o], o)
    BY SameItself DEF Stocked, SalesInv
  <1>1. ASSUME NEW method \in Methods, NEW cart \in Carts, BeginCreateOrder(o, method, cart)
        PROVE  Steady(o)
    <2> DEFINE s == [order[o] EXCEPT !.status = "draft", !.method = method, !.lines = cart]
    <2>1. order' = [order EXCEPT ![o] = s]
      BY <1>0, <1>1 DEF BeginCreateOrder, TypeOK
    <2>2. s.reissued = order[o].reissued /\ s.issues = order[o].issues
      BY <1>0, LinesType DEF OrderRow
    <2> HIDE DEF s
    <2>3. Follows(order[o], s) /\ NotReissued(order[o], s)
      BY <1>1, <2>2 DEF BeginCreateOrder, Follows, ActiveStatus, NotReissued
    <2> QED  BY <1>0, <2>1, <2>3, RowWritten
  <1>2. CASE AbandonDraftOrder(o)
    <2>1. Follows(order[o], AbsentOrder) /\ NotReissued(order[o], AbsentOrder)
      BY <1>2 DEF AbandonDraftOrder, AbsentOrder, Follows, ActiveStatus, NotReissued
    <2> QED  BY <1>0, <1>2, <2>1, RowWritten DEF AbandonDraftOrder
  <1>3. ASSUME NEW details \in BuyerDetails, UpdateOrderBuyer(o, details)
        PROVE  Steady(o)
    <2> DEFINE s == [order[o] EXCEPT !.buyer = details]
    <2>1. order' = [order EXCEPT ![o] = s]
      BY <1>0, <1>3 DEF UpdateOrderBuyer, TypeOK
    <2>2. /\ s.status = order[o].status /\ s.reissued = order[o].reissued
          /\ s.issues = order[o].issues
      BY <1>0, LinesType DEF OrderRow
    <2> HIDE DEF s
    <2>3. Follows(order[o], s) /\ NotReissued(order[o], s)
      BY <1>0, <2>2, SameFollows
    <2> QED  BY <1>0, <2>1, <2>3, RowWritten
  <1>4. CASE RetryIssue(o)
    <2> DEFINE s == [order[o] EXCEPT !.reconciliation = "retrying"]
    <2>1. order' = [order EXCEPT ![o] = s]
      BY <1>0, <1>4 DEF RetryIssue, TypeOK
    <2>2. /\ s.status = order[o].status /\ s.reissued = order[o].reissued
          /\ s.issues = order[o].issues
      BY <1>0, LinesType DEF OrderRow
    <2> HIDE DEF s
    <2>3. Follows(order[o], s) /\ NotReissued(order[o], s)
      BY <1>0, <2>2, SameFollows
    <2> QED  BY <1>0, <2>1, <2>3, RowWritten
  <1>5. CASE ReserveDraftOrder(o)
    BY <1>0, <1>5, TransitionFollows DEF ReserveDraftOrder
  <1>6. CASE ConfirmManualPayment(o) \/ ApproveProof(o)
    BY <1>0, <1>6, ApproveFollows DEF ConfirmManualPayment, ApproveProof
  <1>7. CASE RejectProof(o)
    BY <1>0, <1>7, TransitionFollows DEF RejectProof
  <1>8. CASE RefundPayment(o)
    <2>1. CASE MarkReconciliation(o, order[o], payment, "unknown_payment")
      BY <1>0, <2>1, FlagFollows
    <2>2. CASE Transition(o, order[o], "refunded")
      BY <1>0, <2>2, TransitionFollows
    <2> QED  BY <1>8, <2>1, <2>2 DEF RefundPayment
  <1>9. CASE CancelOrder(o)
    <2>1. order[o].status \in OrderStatus
      BY <1>0, LinesType, EditOrder
    <2>2. Same([order[o] EXCEPT !.cancelledFrom = order[o].status], o)
      BY <1>0, <2>1, SameItself
    <2>3. Transition(o, [order[o] EXCEPT !.cancelledFrom = order[o].status], "cancelled")
      BY <1>9 DEF CancelOrder
    <2> QED  BY <1>0, <2>2, <2>3, TransitionFollows
  <1>10. CASE RestoreOrder(o)
    <2>1. Same([order[o] EXCEPT !.due = FALSE], o)
      BY <1>0, SameItself
    <2>2. Transition(o, [order[o] EXCEPT !.due = FALSE], RestoreTarget(o))
      BY <1>10 DEF RestoreOrder
    <2> QED  BY <1>0, <2>1, <2>2, TransitionFollows
  <1> QED
    BY <1>1, <1>2, <1>3, <1>4, <1>5, <1>6, <1>7, <1>8, <1>9, <1>10 DEF SellerStep

\* What a report of the provider does.
LEMMA SnapshotSteady ==
    ASSUME Stocked, NEW o \in Orders, NEW r, Same(r, o), NEW kind \in SnapshotKinds,
           NEW id, ApplySnapshot(o, r, kind, id)
    PROVE  Steady(o)
  <1> DEFINE seen == [payment EXCEPT ![o].provider = id]
  <1> HIDE DEF seen
  <1>0. TypeOK
    BY DEF Stocked, SalesInv
  <1>1. ASSUME NEW payments, KeepSale(o, r, payments)
        PROVE  Steady(o)
    <2>1. Follows(order[o], r) /\ NotReissued(order[o], r)
      BY DEF Same, Follows, ActiveStatus, NotReissued
    <2> QED  BY <1>0, <1>1, <2>1, RowWritten DEF KeepSale
  <1>2. ASSUME NEW payments,
               NEW issue \in {"payment_mismatch", "fee_mismatch", "provider_status",
                              "partial_refund"},
               MarkReconciliation(o, r, payments, issue)
        PROVE  Steady(o)
    BY <1>0, <1>2, FlagFollows
  <1>3. ASSUME NEW target, Transition(o, r, target)
        PROVE  Steady(o)
    BY <1>0, <1>3, TransitionFollows
  <1>4. CASE SnapshotMismatch(o, r, kind)
    BY <1>2, <1>4 DEF SnapshotMismatch
  <1>5. CASE SnapshotApproved(o, r, seen)
    <2>1. CASE /\ order[o].status \in ClosedStatus
               /\ MarkReconciliation(o, r, seen, "paid_without_stock")
      BY <1>0, <2>1, FlagFollows
    <2>2. CASE ApprovePayment(o, r, seen)
      BY <2>2, ApproveFollows
    <2>3. CASE KeepSale(o, r, seen)
      BY <1>1, <2>3
    <2> QED  BY <1>5, <2>1, <2>2, <2>3 DEF SnapshotApproved, ClosedStatus
  <1>6. CASE SnapshotRejected(o, r, seen, kind)
    <2>1. \/ MarkReconciliation(o, r, seen, "provider_status")
          \/ Transition(o, r, "cancelled")
          \/ KeepSale(o, r, seen)
      BY <1>6 DEF SnapshotRejected
    <2> QED  BY <1>1, <1>2, <1>3, <2>1
  <1>7. CASE SnapshotPending(o, r, seen)
    BY <1>1, <1>7 DEF SnapshotPending
  <1>8. CASE SnapshotRefunded(o, r, seen, kind)
    <2>1. \/ MarkReconciliation(o, r, seen, "partial_refund")
          \/ Transition(o, r, "refunded")
      BY <1>8 DEF SnapshotRefunded
    <2> QED  BY <1>2, <1>3, <2>1
  <1>9. CASE MarkReconciliation(o, r, seen, "provider_status")
    BY <1>2, <1>9
  <1> QED
    BY <1>4, <1>5, <1>6, <1>7, <1>8, <1>9 DEF ApplySnapshot, seen

\* What the worker does with one sale.
LEMMA WorkerSteady ==
    ASSUME Stocked, NEW o \in Orders, WorkerStep(o)
    PROVE  Steady(o)
  <1>0. TypeOK
    BY DEF Stocked, SalesInv
  <1>1. CASE ReservationLapses(o)
    <2> DEFINE s == [order[o] EXCEPT !.due = TRUE]
    <2>1. order' = [order EXCEPT ![o] = s]
      BY <1>0, <1>1 DEF ReservationLapses, TypeOK
    <2>2. Same(s, o)
      BY <1>0, SameItself
    <2> HIDE DEF s
    <2>3. Follows(order[o], s) /\ NotReissued(order[o], s)
      BY <2>2 DEF Same, Follows, ActiveStatus, NotReissued
    <2> QED  BY <1>0, <2>1, <2>3, RowWritten
  <1>2. CASE ExpireOrder(o)
    BY <1>0, <1>2, SameItself, TransitionFollows DEF ExpireOrder
  <1>3. ASSUME NEW kind \in SnapshotKinds, NEW id \in ProviderPayments,
               ProviderSnapshot(o, kind, id)
        PROVE  Steady(o)
    <2>1. PICK resolved \in SUBSET (order[o].issues \cap {"webhook_pending"}) :
             ApplySnapshot(o, Cleared(order[o], resolved), kind, id)
      BY <1>3 DEF ProviderSnapshot
    <2>2. Same(Cleared(order[o], resolved), o)
      BY <1>0, SameItself
    <2> QED  BY <2>1, <2>2, SnapshotSteady
  <1>4. CASE ReportFails(o)
    <2> DEFINE read == [settled |-> payment[o].status \in {"approved", "refunded"},
                        flagged |-> order[o].reconciliation = "required"]
               s == [order[o] EXCEPT !.failing = {read}]
    <2>1. order' = [order EXCEPT ![o] = s]
      BY <1>0, <1>4 DEF ReportFails, TypeOK
    <2>2. /\ s.status = order[o].status /\ s.reissued = order[o].reissued
          /\ s.issues = order[o].issues
      BY <1>0, LinesType DEF OrderRow
    <2> HIDE DEF s
    <2>3. Follows(order[o], s) /\ NotReissued(order[o], s)
      BY <1>0, <2>2, SameFollows
    <2> QED  BY <1>0, <2>1, <2>3, RowWritten
  <1>5. CASE FailEvent(o)
    <2>1. PICK read \in order[o].failing :
             order' = [order EXCEPT
                ![o].failing = {},
                ![o].issues = @ \cup {"webhook_pending"},
                ![o].reconciliation = IF read.flagged THEN @ ELSE "required"]
      BY <1>5 DEF FailEvent
    <2> DEFINE s == [order[o] EXCEPT
                       !.failing = {},
                       !.issues = @ \cup {"webhook_pending"},
                       !.reconciliation = IF read.flagged THEN @ ELSE "required"]
    <2>2. order' = [order EXCEPT ![o] = s]
      BY <1>0, <2>1 DEF TypeOK
    <2>3. /\ s.status = order[o].status /\ s.reissued = order[o].reissued
          /\ s.issues = order[o].issues \cup {"webhook_pending"}
      BY <1>0, LinesType DEF OrderRow
    <2> HIDE DEF s
    <2>4. Follows(order[o], s) /\ NotReissued(order[o], s)
      BY <1>0, <2>3, SameFollows
    <2> QED  BY <1>0, <2>2, <2>4, RowWritten
  <1> QED  BY <1>1, <1>2, <1>3, <1>4, <1>5 DEF WorkerStep, ReportStep

\* A reissue closes one sale under review and fills one that was not there,
\* and what is reserved stays.
LEMMA ReissueSteady ==
    ASSUME Stocked, NEW o \in Orders, NEW n \in Orders \ {o}, ReissueOffer(o, n)
    PROVE  /\ \A x \in Orders : Follows(order[x], order'[x])
           /\ reserved' = reserved
  <1>0. TypeOK
    BY DEF Stocked, SalesInv
  <1> DEFINE closed == [order[o] EXCEPT !.status = "cancelled", !.reissued = TRUE]
             opened == [order[n] EXCEPT !.status = "reserved", !.method = "bank_transfer",
                                        !.lines = order[o].lines]
  <1>1. order' = [order EXCEPT ![o] = closed, ![n] = opened]
    BY <1>0 DEF ReissueOffer, TypeOK
  <1>2. order'[o] = closed /\ order'[n] = opened /\ \A x \in Orders \ {o, n} : order'[x] = order[x]
    BY <1>0, <1>1 DEF TypeOK
  <1>3. /\ closed.issues = order[o].issues /\ opened.issues = order[n].issues
        /\ closed.status = "cancelled" /\ opened.status = "reserved"
    BY <1>0, LinesType DEF OrderRow
  <1>4. order[o].status = "purchase_validation" /\ order[n].status = "absent"
    BY DEF ReissueOffer
  <1> HIDE DEF closed, opened
  <1>5. Follows(order[o], closed) /\ Follows(order[n], opened)
    BY <1>3, <1>4 DEF Follows, ActiveStatus
  <1>6. ASSUME NEW x \in Orders \ {o, n}  PROVE Follows(order[x], order'[x])
    BY <1>2, <1>6 DEF Follows, ActiveStatus
  <1>7. reserved' = reserved
    BY ReissueMoves DEF Replaces, stockVars, Stocked
  <1> QED  BY <1>2, <1>5, <1>6, <1>7

\* Every row follows the row before it, and only a reissue, which leaves what
\* is reserved, marks a sale as reissued.
LEMMA NextSteady ==
    ASSUME Stocked, Next
    PROVE  /\ \A x \in Orders : Follows(order[x], order'[x])
           /\ (\A x \in Orders : NotReissued(order[x], order'[x])) \/ reserved' = reserved
  <1>1. ASSUME NEW o \in Orders, SaleMoves(o), Steady(o)
        PROVE  \A x \in Orders : Follows(order[x], order'[x]) /\ NotReissued(order[x], order'[x])
    <2>1. OnlySale(o)
      BY <1>1 DEF SaleMoves, Keeps, Drafts, Takes, GivesBack, Sells
    <2>2. ASSUME NEW x \in Orders \ {o}
          PROVE  Follows(order[x], order'[x]) /\ NotReissued(order[x], order'[x])
      BY <2>1 DEF OnlySale, Follows, ActiveStatus, NotReissued
    <2> QED  BY <1>1, <2>2 DEF Steady
  <1>2. ASSUME NEW o \in Orders, BuyerStep(o)
        PROVE  SaleMoves(o) /\ Steady(o)
    BY <1>2, BuyerMoves, BuyerSteady DEF Stocked
  <1>3. ASSUME NEW o \in Orders, WorkerStep(o)
        PROVE  SaleMoves(o) /\ Steady(o)
    BY <1>3, WorkerMoves, WorkerSteady DEF Stocked
  <1>4. ASSUME NEW o \in Orders, SellerStep(o), ~ \E n \in Orders \ {o} : ReissueOffer(o, n)
        PROVE  SaleMoves(o) /\ Steady(o)
    <2>1. Steady(o)
      BY <1>4, SellerSteady
    <2>2. SaleMoves(o)
      <3>1. CASE \/ \E method \in Methods, cart \in Carts : BeginCreateOrder(o, method, cart)
                 \/ AbandonDraftOrder(o)
        BY <3>1, DraftMoves DEF SaleMoves, Stocked
      <3>2. CASE ReserveDraftOrder(o) \/ RestoreOrder(o)
        BY <3>2, ReserveMoves DEF SaleMoves, Stocked
      <3>3. CASE RejectProof(o) \/ CancelOrder(o)
        BY <3>3, CloseMoves DEF SaleMoves, Stocked
      <3>4. CASE \/ ConfirmManualPayment(o) \/ ApproveProof(o) \/ RefundPayment(o)
                 \/ RetryIssue(o)
                 \/ \E details \in BuyerDetails : UpdateOrderBuyer(o, details)
        BY <3>4, PaymentMoves DEF SaleMoves, Stocked
      <3> QED  BY <1>4, <3>1, <3>2, <3>3, <3>4 DEF SellerStep
    <2> QED  BY <2>1, <2>2
  <1>5. ASSUME NEW o \in Orders, NEW n \in Orders \ {o}, ReissueOffer(o, n)
        PROVE  (\A x \in Orders : Follows(order[x], order'[x])) /\ reserved' = reserved
    BY <1>5, ReissueSteady
  <1>6. CASE StockStep /\ UNCHANGED saleVars
    BY <1>6 DEF saleVars, Follows, ActiveStatus, NotReissued
  <1> QED  BY <1>1, <1>2, <1>3, <1>4, <1>5, <1>6 DEF Next

\* A product is archived only when no sale holds a unit of it.
LEMMA ArchiveStep ==
    ASSUME Stocked, Next, NEW p \in Products,
           catalog[p] # "archived", catalog'[p] = "archived", NEW o \in Orders
    PROVE  rows[o][p] # "active"
  <1>1. CASE UNCHANGED catalog
    BY <1>1
  <1>2. CASE ArchiveProduct(p)
    <2>1. reserved[p] <= 0 /\ reserved[p] = Cardinality(UnitsIn(p, "active"))
      BY <1>2 DEF ArchiveProduct, Stocked, ReservedIsHeld
    <2>2. /\ Share(o, p, "active") <= Cardinality(UnitsIn(p, "active"))
          /\ Share(o, p, "active") \in 0..MaxLineQuantity
      BY ShareFits, ShareIs DEF Stocked
    <2>3. reserved[p] \in Int
      BY DEF Stocked, SalesInv, TypeOK, StockTypeOK
    <2>4. Share(o, p, "active") = 0
      BY <2>1, <2>2, <2>3
    <2>5. rows[o][p] = "active" => order[o].lines[p] > 0
      BY DEF Stocked, SalesInv, RowsFollowSale
    <2>6. order[o].lines[p] \in Nat
      BY LinesType DEF Stocked, SalesInv
    <2> QED  BY <2>4, <2>5, <2>6 DEF Share
  <1>3. StockStep => UNCHANGED catalog \/ ArchiveProduct(p)
    <2> SUFFICES ASSUME StockStep PROVE UNCHANGED catalog \/ ArchiveProduct(p)
      OBVIOUS
    <2>1. catalog \in [Products -> CatalogStatus]
      BY DEF Stocked, SalesInv, TypeOK, StockTypeOK
    <2>2. ASSUME NEW q \in EditedProducts, CatalogueStep(q), q = p
          PROVE  ArchiveProduct(p)
      BY <2>1, <2>2 DEF CatalogueStep, SetCatalogStatus, RestoreProduct
    <2>3. ASSUME NEW q \in EditedProducts, CatalogueStep(q), q # p
          PROVE  FALSE
      BY <2>1, <2>3 DEF CatalogueStep, SetCatalogStatus, RestoreProduct, ArchiveProduct
    <2> QED
      BY <2>2, <2>3 DEF StockStep, BeginMovement, AppendMovement, RefuseMovement
  <1>4. ASSUME NEW x \in Orders, SaleMoves(x)  PROVE UNCHANGED catalog
    BY <1>4 DEF SaleMoves, Keeps, Drafts, Takes, GivesBack, Sells, stockVars,
                ReserveStock, ReleaseStock, ConsumeStock
  <1>5. ASSUME NEW x \in Orders, NEW y \in Orders, Replaces(x, y)  PROVE UNCHANGED catalog
    BY <1>5 DEF Replaces, stockVars
  <1>6. SalesInv /\ [Next]_vars
    BY DEF Stocked
  <1> QED
    BY <1>1, <1>2, <1>3, <1>4, <1>5, <1>6, NextMoves DEF vars, stockVars

----------------------------------------------------------------------------

\* The invariants that the steps need hold.
LEMMA AlwaysStocked == Spec => []Stocked
  <1>1. SalesInv /\ NoOversell /\ (ReservedIsHeld /\ LedgerBalances) => Stocked
    BY DEF Stocked
  <1> QED  BY <1>1, SalesInvariant, NeverOversold, CountersAgree, PTL

\* The branch of _approve_payment that opens PAID_WITHOUT_STOCK is never taken:
\* that issue comes only from money that arrives for a sale already closed.
THEOREM OpenSalesCanBePaid == Spec => OpenSaleCanBePaid
  <1>1. Stocked /\ [Next]_vars =>
           [\A o \in Orders :
              "paid_without_stock" \in order'[o].issues \ order[o].issues =>
                 order[o].status \in {"cancelled", "expired"}]_vars
    BY NextSteady DEF Follows, ActiveStatus, ClosedStatus
  <1> QED  BY <1>1, AlwaysStocked, PTL DEF Spec, OpenSaleCanBePaid

\* No command and no report, however late, undoes an end: expired and refunded
\* sales stay so, and a paid one is at most refunded.
THEOREM EndsStay == Spec => EndsAreFinal
  <1>1. Stocked /\ [Next]_vars =>
           [\A o \in Orders :
              /\ order[o].status \in {"expired", "refunded"} =>
                    order'[o].status = order[o].status
              /\ order[o].status = "paid" => order'[o].status \in {"paid", "refunded"}]_vars
    BY NextSteady DEF Follows, ActiveStatus
  <1> QED  BY <1>1, AlwaysStocked, PTL DEF Spec, EndsAreFinal

\* Reissuing an offer frees no unit: what is reserved stays while the units go
\* from the closed sale to its replacement.
THEOREM ReissueFreesNothing == Spec => ReissueKeepsUnits
  <1>1. Stocked /\ [Next]_vars =>
           [\A o \in Orders :
              order'[o].reissued /\ ~order[o].reissued => reserved' = reserved]_vars
    BY NextSteady DEF NotReissued
  <1> QED  BY <1>1, AlwaysStocked, PTL DEF Spec, ReissueKeepsUnits

\* The one counter that archive_product reads is enough: it archives a product
\* only when no sale holds a unit of it.
THEOREM ArchiveIsSafe == Spec => ArchiveFindsNoHold
  <1>1. Stocked /\ [Next]_vars =>
           [\A p \in Products :
              catalog[p] # "archived" /\ catalog'[p] = "archived" =>
                 \A o \in Orders : rows[o][p] # "active"]_vars
    BY ArchiveStep
  <1> QED  BY <1>1, AlwaysStocked, PTL DEF Spec, ArchiveFindsNoHold

----------------------------------------------------------------------------
(* Money and receipts.  Backed is inductive over the invariants about the  *)
(* stock.  Sound(o) is what a step does to one sale: it leaves the sale    *)
(* backed, touches no other, and takes a payment out of "approved" only    *)
(* with a refund or an issue.                                              *)

\* A receipt that a restore would put back under review waits with a cancelled
\* payment; transfers have no reports and the provider's sales have no receipts.
Backed(r, pay, receipt) ==
    /\ pay.status = "approved" => r.status = "paid"
    /\ pay.status = "refunded" => r.status = "refunded"
    /\ r.status \in ActiveStatus => pay.status # "cancelled"
    /\ r.status = "purchase_validation" <=> pay.status = "validation"
    /\ r.status = "purchase_validation" => receipt = "ready"
    /\ receipt = "ready" =>
          \/ r.status = "purchase_validation"
          \/ /\ r.status = "cancelled" /\ r.cancelledFrom = "purchase_validation"
             /\ pay.status = "cancelled"
    /\ receipt # "none" => r.method = "bank_transfer"
    /\ pay.provider # NoProviderPayment \/ r.issues # {} \/ r.failing # {}
          => r.method = "mercado_pago"
    /\ r.status \in {"absent", "draft"} =>
          /\ pay.status = "none" /\ pay.provider = NoProviderPayment
          /\ receipt = "none" /\ r.issues = {} /\ r.failing = {}

MoneyInv == Stocked /\ \A o \in Orders : Backed(order[o], payment[o], proof[o])

Others(o) ==
    \A x \in Orders \ {o} :
        order'[x] = order[x] /\ payment'[x] = payment[x] /\ proof'[x] = proof[x]

Flags(o) ==
    /\ order[o].status = "paid" /\ payment[o].status = "approved"
    /\ payment'[o].status \notin {"approved", "refunded"}
    => order'[o].issues # {}

Sound(o) == Others(o) /\ Backed(order'[o], payment'[o], proof'[o]) /\ Flags(o)

----------------------------------------------------------------------------
(* What the helpers write.                                                 *)

\* The rows of the tables have their types.
LEMMA RowTypes ==
    ASSUME MoneyInv, NEW o \in Orders
    PROVE  /\ TypeOK
           /\ order[o] \in OrderRow /\ order[o].status \in OrderStatus
           /\ payment \in [Orders -> PaymentRow] /\ payment[o] \in PaymentRow
           /\ Backed(order[o], payment[o], proof[o])
  <1>1. TypeOK
    BY DEF MoneyInv, Stocked, SalesInv
  <1> QED  BY <1>1, LinesType, EditOrder DEF MoneyInv, TypeOK

\* A row written into the order table is there, and the others stay.
LEMMA OrderWrites ==
    ASSUME TypeOK, NEW o \in Orders, NEW s, order' = [order EXCEPT ![o] = s]
    PROVE  order'[o] = s /\ \A x \in Orders \ {o} : order'[x] = order[x]
  BY DEF TypeOK

\* A status written into a payment table leaves the rest of the table.
LEMMA PaymentWrites ==
    ASSUME NEW table \in [Orders -> PaymentRow], NEW o \in Orders, NEW status
    PROVE  LET t == [table EXCEPT ![o].status = status]
           IN  /\ t[o].status = status /\ t[o].provider = table[o].provider
               /\ \A x \in Orders \ {o} : t[x] = table[x]
  BY DEF PaymentRow

\* Some fields of the row that a transition writes.
LEMMA TransitionWrites ==
    ASSUME TypeOK, NEW o \in Orders, NEW r \in OrderRow, NEW target, Transition(o, r, target)
    PROVE  /\ order'[o].status = target /\ order'[o].method = r.method
           /\ order'[o].issues = r.issues /\ order'[o].failing = r.failing
           /\ order'[o].cancelledFrom = r.cancelledFrom
           /\ \A x \in Orders \ {o} : order'[x] = order[x]
           /\ target \in Transitions[r.status]
  <1> DEFINE s == [r EXCEPT !.status = target,
                            !.shipment = IF target = "paid" THEN "pending" ELSE @]
  <1>1. order' = [order EXCEPT ![o] = s]
    BY DEF Transition
  <1>2. /\ s.status = target /\ s.method = r.method /\ s.issues = r.issues
        /\ s.failing = r.failing /\ s.cancelledFrom = r.cancelledFrom
    BY DEF OrderRow
  <1> HIDE DEF s
  <1>3. order'[o] = s /\ \A x \in Orders \ {o} : order'[x] = order[x]
    BY <1>1, OrderWrites
  <1> QED  BY <1>2, <1>3 DEF Transition

\* What flagging a sale writes.
LEMMA FlagWrites ==
    ASSUME TypeOK, NEW o \in Orders, NEW r \in OrderRow,
           NEW payments \in [Orders -> PaymentRow], NEW kind,
           MarkReconciliation(o, r, payments, kind)
    PROVE  /\ order'[o].status = r.status /\ order'[o].method = r.method
           /\ order'[o].issues = r.issues \cup {kind} /\ order'[o].failing = r.failing
           /\ order'[o].cancelledFrom = r.cancelledFrom
           /\ \A x \in Orders \ {o} : order'[x] = order[x]
           /\ payment'[o].status = "reconciliation_required"
           /\ payment'[o].provider = payments[o].provider
           /\ \A x \in Orders \ {o} : payment'[x] = payments[x]
  <1> DEFINE s == Flagged(r, kind)
  <1>1. order' = [order EXCEPT ![o] = s]
        /\ payment' = [payments EXCEPT ![o].status = "reconciliation_required"]
    BY DEF MarkReconciliation, FlaggedPayments
  <1>2. /\ s.status = r.status /\ s.method = r.method /\ s.issues = r.issues \cup {kind}
        /\ s.failing = r.failing /\ s.cancelledFrom = r.cancelledFrom
    BY DEF Flagged, OrderRow
  <1> HIDE DEF s
  <1>3. order'[o] = s /\ \A x \in Orders \ {o} : order'[x] = order[x]
    BY <1>1, OrderWrites
  <1> QED  BY <1>1, <1>2, <1>3, PaymentWrites

\* Money for an open sale makes it paid, since its stock is there.
LEMMA ApproveWrites ==
    ASSUME MoneyInv, NEW o \in Orders, NEW r, NEW payments, ApprovePayment(o, r, payments)
    PROVE  /\ order[o].status \in ActiveStatus
           /\ Transition(o, r, "paid")
           /\ payment' = [payments EXCEPT ![o].status = "approved"]
  BY OpenCanConsume DEF ApprovePayment, MoneyInv

\* The payment a command finds or makes.
LEMMA EnsuredWrites ==
    ASSUME MoneyInv, NEW o \in Orders
    PROVE  /\ EnsuredPayment(o) \in [Orders -> PaymentRow]
           /\ EnsuredPayment(o)[o].status =
                 IF payment[o].status = "none" THEN "pending" ELSE payment[o].status
           /\ EnsuredPayment(o)[o].provider = payment[o].provider
           /\ \A x \in Orders \ {o} : EnsuredPayment(o)[x] = payment[x]
  <1>1. payment \in [Orders -> PaymentRow]
    BY RowTypes
  <1>2. EnsuredPayment(o) \in [Orders -> PaymentRow]
    BY <1>1, EnsuredPaymentType DEF PaymentTypeOK
  <1> QED  BY <1>1, <1>2, PaymentWrites DEF EnsuredPayment, PayStatus

\* The payment of a sale that is closed.
LEMMA CancelledWrites ==
    ASSUME MoneyInv, NEW o \in Orders, NEW statuses, payment' = CancelledPayment(o, statuses)
    PROVE  /\ payment'[o].status =
                 IF payment[o].status \in statuses THEN "cancelled" ELSE payment[o].status
           /\ payment'[o].provider = payment[o].provider
           /\ \A x \in Orders \ {o} : payment'[x] = payment[x]
  <1>1. payment \in [Orders -> PaymentRow]
    BY RowTypes
  <1> QED  BY <1>1, PaymentWrites DEF CancelledPayment, PayStatus

----------------------------------------------------------------------------
(* The commands.                                                           *)

\* What the buyer does.
LEMMA BuyerSound ==
    ASSUME MoneyInv, NEW o \in Orders, BuyerStep(o)
    PROVE  Sound(o)
  <1>0. /\ TypeOK /\ order[o] \in OrderRow /\ order[o].status \in OrderStatus
        /\ payment \in [Orders -> PaymentRow] /\ Backed(order[o], payment[o], proof[o])
        /\ proof \in [Orders -> ProofStatus]
    BY RowTypes DEF TypeOK
  <1>1. ASSUME NEW details \in BuyerDetails, SetBuyerDetails(o, details)
        PROVE  Sound(o)
    <2> DEFINE s == [order[o] EXCEPT !.buyer = details,
                                     !.status = CheckoutStatus(order[o].status)]
    <2>1. order' = [order EXCEPT ![o] = s]
      BY <1>0, <1>1 DEF SetBuyerDetails, TypeOK
    <2>2. /\ s.status = CheckoutStatus(order[o].status) /\ s.method = order[o].method
          /\ s.issues = order[o].issues /\ s.failing = order[o].failing
          /\ s.cancelledFrom = order[o].cancelledFrom
      BY <1>0 DEF OrderRow
    <2> HIDE DEF s
    <2>3. order'[o] = s /\ \A x \in Orders \ {o} : order'[x] = order[x]
      BY <1>0, <2>1, OrderWrites
    <2>4. order[o].status \in ExpirableStatus /\ payment' = payment /\ proof' = proof
      BY <1>1 DEF SetBuyerDetails
    <2> QED
      BY <1>0, <2>2, <2>3, <2>4
         DEF Sound, Others, Flags, Backed, ExpirableStatus, ActiveStatus, CheckoutStatus
  <1>2. CASE InitiateCheckout(o)
    <2> DEFINE s == [order[o] EXCEPT !.status = CheckoutStatus(order[o].status)]
    <2>1. order' = [order EXCEPT ![o] = s]
      BY <1>0, <1>2 DEF InitiateCheckout, TypeOK
    <2>2. /\ s.status = CheckoutStatus(order[o].status) /\ s.method = order[o].method
          /\ s.issues = order[o].issues /\ s.failing = order[o].failing
          /\ s.cancelledFrom = order[o].cancelledFrom
      BY <1>0 DEF OrderRow
    <2> HIDE DEF s
    <2>3. order'[o] = s /\ \A x \in Orders \ {o} : order'[x] = order[x]
      BY <1>0, <2>1, OrderWrites
    <2>4. /\ order[o].status \in ExpirableStatus /\ payment' = EnsuredPayment(o)
          /\ proof' = proof
      BY <1>2 DEF InitiateCheckout
    <2> QED
      BY <1>0, <2>2, <2>3, <2>4, EnsuredWrites
         DEF Sound, Others, Flags, Backed, ExpirableStatus, ActiveStatus, CheckoutStatus
  <1>3. CASE PrepareReceiptUpload(o)
    <2>1. /\ order[o].status \in ExpirableStatus /\ order[o].method = "bank_transfer"
          /\ order' = order /\ payment' = EnsuredPayment(o)
      BY <1>3 DEF PrepareReceiptUpload
    <2>2. proof'[o] = "pending" /\ \A x \in Orders \ {o} : proof'[x] = proof[x]
      BY <1>0, <1>3 DEF PrepareReceiptUpload
    <2> QED
      BY <1>0, <2>1, <2>2, EnsuredWrites
         DEF Sound, Others, Flags, Backed, ExpirableStatus, ActiveStatus
  <1>4. CASE CompleteReceiptUpload(o)
    <2>1. /\ proof[o] # "none" /\ order[o].status \in ExpirableStatus
          /\ payment' = [payment EXCEPT ![o].status = "validation"]
          /\ Transition(o, order[o], "purchase_validation")
      BY <1>4 DEF CompleteReceiptUpload, PayStatus
    <2>2. proof'[o] = "ready" /\ \A x \in Orders \ {o} : proof'[x] = proof[x]
      BY <1>0, <1>4 DEF CompleteReceiptUpload
    <2> QED
      BY <1>0, <2>1, <2>2, TransitionWrites, PaymentWrites
         DEF Sound, Others, Flags, Backed, ExpirableStatus, ActiveStatus
  <1> QED  BY <1>1, <1>2, <1>3, <1>4 DEF BuyerStep

\* Creating a sale.
LEMMA DraftSound ==
    ASSUME MoneyInv, NEW o \in Orders,
           \/ \E method \in Methods, cart \in Carts : BeginCreateOrder(o, method, cart)
           \/ ReserveDraftOrder(o)
           \/ AbandonDraftOrder(o)
    PROVE  Sound(o)
  <1>0. /\ TypeOK /\ order[o] \in OrderRow
        /\ Backed(order[o], payment[o], proof[o])
    BY RowTypes
  <1>1. ASSUME NEW method \in Methods, NEW cart \in Carts, BeginCreateOrder(o, method, cart)
        PROVE  Sound(o)
    <2> DEFINE s == [order[o] EXCEPT !.status = "draft", !.method = method, !.lines = cart]
    <2>1. order' = [order EXCEPT ![o] = s]
      BY <1>0, <1>1 DEF BeginCreateOrder, TypeOK
    <2>2. /\ s.status = "draft" /\ s.issues = order[o].issues
          /\ s.failing = order[o].failing
      BY <1>0 DEF OrderRow
    <2> HIDE DEF s
    <2>3. order'[o] = s /\ \A x \in Orders \ {o} : order'[x] = order[x]
      BY <1>0, <2>1, OrderWrites
    <2>4. order[o].status = "absent" /\ payment' = payment /\ proof' = proof
      BY <1>1 DEF BeginCreateOrder
    <2> QED
      BY <1>0, <2>2, <2>3, <2>4 DEF Sound, Others, Flags, Backed, ActiveStatus
  <1>2. CASE ReserveDraftOrder(o)
    <2>1. /\ order[o].status = "draft" /\ Transition(o, order[o], "reserved")
          /\ payment' = payment /\ proof' = proof
      BY <1>2 DEF ReserveDraftOrder
    <2> QED
      BY <1>0, <2>1, TransitionWrites DEF Sound, Others, Flags, Backed, ActiveStatus
  <1>3. CASE AbandonDraftOrder(o)
    <2>1. /\ order[o].status = "draft" /\ order' = [order EXCEPT ![o] = AbsentOrder]
          /\ payment' = payment /\ proof' = proof
      BY <1>3 DEF AbandonDraftOrder
    <2>2. /\ AbsentOrder.status = "absent" /\ AbsentOrder.issues = {}
          /\ AbsentOrder.failing = {}
      BY DEF AbsentOrder
    <2>3. order'[o] = AbsentOrder /\ \A x \in Orders \ {o} : order'[x] = order[x]
      BY <1>0, <2>1, OrderWrites
    <2> QED
      BY <1>0, <2>1, <2>2, <2>3 DEF Sound, Others, Flags, Backed, ActiveStatus
  <1> QED  BY <1>1, <1>2, <1>3

\* Accepting, rejecting and returning money by hand.
LEMMA ReviewSound ==
    ASSUME MoneyInv, NEW o \in Orders,
           ConfirmManualPayment(o) \/ ApproveProof(o) \/ RejectProof(o) \/ RefundPayment(o)
    PROVE  Sound(o)
  <1>0. /\ TypeOK /\ order[o] \in OrderRow /\ proof \in [Orders -> ProofStatus]
        /\ payment \in [Orders -> PaymentRow] /\ Backed(order[o], payment[o], proof[o])
    BY RowTypes DEF TypeOK
  <1>1. CASE ConfirmManualPayment(o)
    <2>1. /\ order[o].method \in {"cash", "bank_transfer"} /\ proof' = proof
          /\ order[o].method = "bank_transfer" => order[o].status # "purchase_validation"
          /\ ApprovePayment(o, order[o], EnsuredPayment(o))
      BY <1>1 DEF ConfirmManualPayment
    <2>2. /\ order[o].status \in ActiveStatus /\ Transition(o, order[o], "paid")
          /\ payment' = [EnsuredPayment(o) EXCEPT ![o].status = "approved"]
      BY <2>1, ApproveWrites
    <2>3. /\ payment'[o].status = "approved" /\ payment'[o].provider = payment[o].provider
          /\ \A x \in Orders \ {o} : payment'[x] = payment[x]
      BY <2>2, EnsuredWrites, PaymentWrites
    <2>4. order[o].status # "purchase_validation"
      BY <1>0, <2>1 DEF Backed
    <2> QED
      BY <1>0, <2>1, <2>2, <2>3, <2>4, TransitionWrites
         DEF Sound, Others, Flags, Backed, ActiveStatus
  <1>2. CASE ApproveProof(o)
    <2>1. /\ order[o].status = "purchase_validation"
          /\ ApprovePayment(o, order[o], payment)
      BY <1>2 DEF ApproveProof
    <2>2. /\ Transition(o, order[o], "paid")
          /\ payment' = [payment EXCEPT ![o].status = "approved"]
      BY <2>1, ApproveWrites
    <2>3. proof'[o] = "approved" /\ \A x \in Orders \ {o} : proof'[x] = proof[x]
      BY <1>0, <1>2 DEF ApproveProof
    <2> QED
      BY <1>0, <2>1, <2>2, <2>3, TransitionWrites, PaymentWrites
         DEF Sound, Others, Flags, Backed, ActiveStatus
  <1>3. CASE RejectProof(o)
    <2>1. /\ order[o].status = "purchase_validation"
          /\ payment' = [payment EXCEPT ![o].status = "rejected"]
          /\ Transition(o, order[o], "cancelled")
      BY <1>3 DEF RejectProof, PayStatus
    <2>2. proof'[o] = "rejected" /\ \A x \in Orders \ {o} : proof'[x] = proof[x]
      BY <1>0, <1>3 DEF RejectProof
    <2> QED
      BY <1>0, <2>1, <2>2, TransitionWrites, PaymentWrites
         DEF Sound, Others, Flags, Backed, ActiveStatus
  <1>4. CASE RefundPayment(o)
    <2>1. order[o].status = "paid" /\ payment[o].status = "approved" /\ proof' = proof
      BY <1>4 DEF RefundPayment
    <2>2. CASE /\ order[o].method = "mercado_pago"
               /\ MarkReconciliation(o, order[o], payment, "unknown_payment")
      BY <1>0, <2>1, <2>2, FlagWrites DEF Sound, Others, Flags, Backed, ActiveStatus
    <2>3. CASE /\ payment' = [payment EXCEPT ![o].status = "refunded"]
               /\ Transition(o, order[o], "refunded")
      BY <1>0, <2>1, <2>3, TransitionWrites, PaymentWrites
         DEF Sound, Others, Flags, Backed, ActiveStatus
    <2> QED  BY <1>4, <2>2, <2>3 DEF RefundPayment, PayStatus
  <1> QED  BY <1>1, <1>2, <1>3, <1>4

\* Closing a sale.
LEMMA CloseSound ==
    ASSUME MoneyInv, NEW o \in Orders, CancelOrder(o) \/ ExpireOrder(o)
    PROVE  Sound(o)
  <1>0. /\ TypeOK /\ order[o] \in OrderRow /\ order[o].status \in OrderStatus
        /\ Backed(order[o], payment[o], proof[o])
    BY RowTypes
  <1>1. CASE CancelOrder(o)
    <2> DEFINE r == [order[o] EXCEPT !.cancelledFrom = order[o].status]
    <2>1. r \in OrderRow
      BY <1>0, EditOrder
    <2>2. /\ r.method = order[o].method /\ r.issues = order[o].issues
          /\ r.failing = order[o].failing /\ r.cancelledFrom = order[o].status
      BY <1>0 DEF OrderRow
    <2>3. /\ order[o].status \in ActiveStatus /\ Transition(o, r, "cancelled")
          /\ payment' = CancelledPayment(o, {"pending", "validation"}) /\ proof' = proof
      BY <1>1 DEF CancelOrder
    <2> HIDE DEF r
    <2> QED
      BY <1>0, <2>1, <2>2, <2>3, TransitionWrites, CancelledWrites
         DEF Sound, Others, Flags, Backed, ActiveStatus
  <1>2. CASE ExpireOrder(o)
    <2>1. /\ order[o].status \in ExpirableStatus /\ Transition(o, order[o], "expired")
          /\ payment' = CancelledPayment(o, {"pending"}) /\ proof' = proof
      BY <1>2 DEF ExpireOrder
    <2> QED
      BY <1>0, <2>1, TransitionWrites, CancelledWrites
         DEF Sound, Others, Flags, Backed, ActiveStatus, ExpirableStatus
  <1> QED  BY <1>1, <1>2

\* A sale goes back under review when it left it and its receipt still waits.
LEMMA RestoredUnderReview ==
    ASSUME NEW o \in Orders
    PROVE  RestoreTarget(o) = "purchase_validation" <=>
              order[o].cancelledFrom = "purchase_validation" /\ proof[o] = "ready"
  BY DEF RestoreTarget

\* Restoring a sale: under review only with a receipt, whose payment was
\* cancelled with the sale and is in validation again.
LEMMA RestoreSound ==
    ASSUME MoneyInv, NEW o \in Orders, RestoreOrder(o)
    PROVE  Sound(o)
  <1> DEFINE r == [order[o] EXCEPT !.due = FALSE]
             next == IF RestoreTarget(o) = "purchase_validation" THEN "validation" ELSE "pending"
  <1>0. /\ TypeOK /\ order[o] \in OrderRow /\ payment \in [Orders -> PaymentRow]
        /\ Backed(order[o], payment[o], proof[o])
    BY RowTypes
  <1>1. r \in OrderRow
    BY <1>0, EditOrder
  <1>2. /\ r.status = order[o].status /\ r.method = order[o].method
        /\ r.issues = order[o].issues /\ r.failing = order[o].failing
        /\ r.cancelledFrom = order[o].cancelledFrom
    BY <1>0 DEF OrderRow
  <1>3. /\ order[o].status = "cancelled" /\ Transition(o, r, RestoreTarget(o)) /\ proof' = proof
        /\ payment' = IF payment[o].status # "cancelled" THEN payment
                      ELSE [payment EXCEPT ![o].status = next]
    BY DEF RestoreOrder, PayStatus
  <1>4. RestoreTarget(o) = "purchase_validation" <=>
           order[o].cancelledFrom = "purchase_validation" /\ proof[o] = "ready"
    BY RestoredUnderReview
  <1> HIDE DEF r
  <1>5. RestoreTarget(o) \in ActiveStatus
    <2>1. RestoreTarget(o) \in Transitions["cancelled"]
      BY <1>0, <1>1, <1>2, <1>3, TransitionWrites
    <2> QED  BY <2>1 DEF Transitions, OrderStatus
  <1>6. /\ payment'[o].status = IF payment[o].status # "cancelled" THEN payment[o].status ELSE next
        /\ payment'[o].provider = payment[o].provider
        /\ \A x \in Orders \ {o} : payment'[x] = payment[x]
    BY <1>0, <1>3, PaymentWrites
  <1> QED
    BY <1>0, <1>1, <1>2, <1>3, <1>4, <1>5, <1>6, TransitionWrites
       DEF Sound, Others, Flags, Backed, ActiveStatus

\* Edits of a row that change nothing of what is backed.
LEMMA EditSound ==
    ASSUME MoneyInv, NEW o \in Orders, NEW s, order' = [order EXCEPT ![o] = s],
           payment' = payment, proof' = proof,
           s.status = order[o].status, s.method = order[o].method,
           s.issues = order[o].issues, s.cancelledFrom = order[o].cancelledFrom,
           s.failing # {} => order[o].failing # {} \/ order[o].method = "mercado_pago",
           s.failing # {} => order[o].status \notin {"absent", "draft"}
    PROVE  Sound(o)
  <1>1. TypeOK /\ Backed(order[o], payment[o], proof[o])
    BY RowTypes
  <1>2. order'[o] = s /\ \A x \in Orders \ {o} : order'[x] = order[x]
    BY <1>1, OrderWrites
  <1> QED  BY <1>1, <1>2 DEF Sound, Others, Flags, Backed

\* A late form, a retry, a lapse and a report that cannot be processed.
LEMMA NoteSound ==
    ASSUME MoneyInv, NEW o \in Orders,
           \/ \E details \in BuyerDetails : UpdateOrderBuyer(o, details)
           \/ RetryIssue(o)
           \/ ReservationLapses(o)
           \/ ReportFails(o)
    PROVE  Sound(o)
  <1>0. TypeOK /\ order[o] \in OrderRow /\ Backed(order[o], payment[o], proof[o])
    BY RowTypes
  <1>1. ASSUME NEW details \in BuyerDetails, UpdateOrderBuyer(o, details)
        PROVE  Sound(o)
    <2> DEFINE s == [order[o] EXCEPT !.buyer = details]
    <2>1. order' = [order EXCEPT ![o] = s] /\ payment' = payment /\ proof' = proof
      BY <1>0, <1>1 DEF UpdateOrderBuyer, TypeOK
    <2>2. /\ s.status = order[o].status /\ s.method = order[o].method
          /\ s.issues = order[o].issues /\ s.cancelledFrom = order[o].cancelledFrom
          /\ s.failing = order[o].failing
      BY <1>0 DEF OrderRow
    <2>3. order[o].status \notin {"absent", "draft"}
      BY <1>1 DEF UpdateOrderBuyer, ActiveStatus
    <2> HIDE DEF s
    <2> QED  BY <2>1, <2>2, <2>3, EditSound
  <1>2. CASE RetryIssue(o)
    <2> DEFINE s == [order[o] EXCEPT !.reconciliation = "retrying"]
    <2>1. order' = [order EXCEPT ![o] = s] /\ payment' = payment /\ proof' = proof
      BY <1>0, <1>2 DEF RetryIssue, TypeOK
    <2>2. /\ s.status = order[o].status /\ s.method = order[o].method
          /\ s.issues = order[o].issues /\ s.cancelledFrom = order[o].cancelledFrom
          /\ s.failing = order[o].failing
      BY <1>0 DEF OrderRow
    <2>3. order[o].status \notin {"absent", "draft"}
      BY <1>0, <1>2 DEF RetryIssue, Backed
    <2> HIDE DEF s
    <2> QED  BY <2>1, <2>2, <2>3, EditSound
  <1>3. CASE ReservationLapses(o)
    <2> DEFINE s == [order[o] EXCEPT !.due = TRUE]
    <2>1. order' = [order EXCEPT ![o] = s] /\ payment' = payment /\ proof' = proof
      BY <1>0, <1>3 DEF ReservationLapses, TypeOK
    <2>2. /\ s.status = order[o].status /\ s.method = order[o].method
          /\ s.issues = order[o].issues /\ s.cancelledFrom = order[o].cancelledFrom
          /\ s.failing = order[o].failing
      BY <1>0 DEF OrderRow
    <2>3. order[o].status \notin {"absent", "draft"}
      BY <1>3 DEF ReservationLapses, ExpirableStatus
    <2> HIDE DEF s
    <2> QED  BY <2>1, <2>2, <2>3, EditSound
  <1>4. CASE ReportFails(o)
    <2> DEFINE read == [settled |-> payment[o].status \in {"approved", "refunded"},
                        flagged |-> order[o].reconciliation = "required"]
               s == [order[o] EXCEPT !.failing = {read}]
    <2>1. order' = [order EXCEPT ![o] = s] /\ payment' = payment /\ proof' = proof
      BY <1>0, <1>4 DEF ReportFails, TypeOK
    <2>2. /\ s.status = order[o].status /\ s.method = order[o].method
          /\ s.issues = order[o].issues /\ s.cancelledFrom = order[o].cancelledFrom
      BY <1>0 DEF OrderRow
    <2>3. order[o].status \notin {"absent", "draft"} /\ order[o].method = "mercado_pago"
      BY <1>0, <1>4 DEF ReportFails, Reported, Backed
    <2> HIDE DEF s
    <2> QED  BY <2>1, <2>2, <2>3, EditSound
  <1> QED  BY <1>1, <1>2, <1>3, <1>4

\* A failed event leaves its issue, whatever it writes into the payment.
LEMMA FailSound ==
    ASSUME MoneyInv, NEW o \in Orders, FailEvent(o)
    PROVE  Sound(o)
  <1>0. /\ TypeOK /\ order[o] \in OrderRow /\ payment \in [Orders -> PaymentRow]
        /\ Backed(order[o], payment[o], proof[o])
    BY RowTypes
  <1>1. PICK read \in order[o].failing :
           /\ order' = [order EXCEPT
                 ![o].failing = {},
                 ![o].issues = @ \cup {"webhook_pending"},
                 ![o].reconciliation = IF read.flagged THEN @ ELSE "required"]
           /\ payment' = IF read.settled THEN payment ELSE FlaggedPayments(payment, o)
           /\ proof' = proof
    BY DEF FailEvent
  <1> DEFINE s == [order[o] EXCEPT
                     !.failing = {},
                     !.issues = @ \cup {"webhook_pending"},
                     !.reconciliation = IF read.flagged THEN @ ELSE "required"]
  <1>2. order' = [order EXCEPT ![o] = s]
    BY <1>0, <1>1 DEF TypeOK
  <1>3. /\ s.status = order[o].status /\ s.method = order[o].method
        /\ s.issues = order[o].issues \cup {"webhook_pending"} /\ s.failing = {}
        /\ s.cancelledFrom = order[o].cancelledFrom
    BY <1>0 DEF OrderRow
  <1> HIDE DEF s
  <1>4. order'[o] = s /\ \A x \in Orders \ {o} : order'[x] = order[x]
    BY <1>0, <1>2, OrderWrites
  <1>5. /\ payment'[o].status \in {payment[o].status, "reconciliation_required"}
        /\ payment'[o].provider = payment[o].provider
        /\ \A x \in Orders \ {o} : payment'[x] = payment[x]
    BY <1>0, <1>1, PaymentWrites DEF FlaggedPayments
  <1>6. /\ order[o].method = "mercado_pago" /\ order[o].status \notin {"absent", "draft"}
        /\ proof[o] = "none"
    BY <1>0, <1>1 DEF Backed
  <1> QED
    BY <1>0, <1>1, <1>3, <1>4, <1>5, <1>6 DEF Sound, Others, Flags, Backed, ActiveStatus

\* What a report of the provider writes.
LEMMA SnapshotSound ==
    ASSUME MoneyInv, NEW o \in Orders, NEW kind \in SnapshotKinds, NEW id \in ProviderPayments,
           ProviderSnapshot(o, kind, id)
    PROVE  Sound(o)
  <1>0. /\ TypeOK /\ order[o] \in OrderRow /\ payment \in [Orders -> PaymentRow]
        /\ Backed(order[o], payment[o], proof[o])
    BY RowTypes
  <1>1. /\ order[o].method = "mercado_pago" /\ payment[o].status # "none"
        /\ kind # "unavailable" /\ proof' = proof
    BY DEF ProviderSnapshot
  <1>2. PICK resolved : ApplySnapshot(o, Cleared(order[o], resolved), kind, id)
    BY DEF ProviderSnapshot
  <1> DEFINE r == Cleared(order[o], resolved)
             seen == [payment EXCEPT ![o].provider = id]
  <1>3. r \in OrderRow
    BY <1>0, EditOrder
  <1>4. /\ r.status = order[o].status /\ r.method = order[o].method
        /\ r.issues \subseteq order[o].issues /\ r.failing = order[o].failing
        /\ r.cancelledFrom = order[o].cancelledFrom
    BY <1>0 DEF OrderRow, Cleared
  <1>5. /\ seen \in [Orders -> PaymentRow] /\ seen[o].status = payment[o].status
        /\ \A x \in Orders \ {o} : seen[x] = payment[x]
    BY <1>0 DEF PaymentRow
  <1>6. /\ order[o].status \notin {"absent", "draft", "purchase_validation"}
        /\ payment[o].status # "validation" /\ proof[o] = "none"
    BY <1>0, <1>1 DEF Backed
  <1>7. ApplySnapshot(o, r, kind, id) =
          CASE kind \in {"fee_mismatch", "mismatch"} -> SnapshotMismatch(o, r, kind)
            [] kind = "approved" -> SnapshotApproved(o, r, seen)
            [] kind \in {"rejected", "cancelled"} -> SnapshotRejected(o, r, seen, kind)
            [] kind = "pending" -> SnapshotPending(o, r, seen)
            [] kind \in {"refunded", "partially_refunded"} -> SnapshotRefunded(o, r, seen, kind)
            [] OTHER -> MarkReconciliation(o, r, seen, "provider_status")
    BY DEF ApplySnapshot
  <1> HIDE DEF r, seen
  <1>8. ASSUME NEW payments \in [Orders -> PaymentRow], NEW issue,
               \A x \in Orders \ {o} : payments[x] = payment[x],
               MarkReconciliation(o, r, payments, issue)
        PROVE  Sound(o)
    BY <1>0, <1>1, <1>3, <1>4, <1>6, <1>8, FlagWrites
       DEF Sound, Others, Flags, Backed, ActiveStatus
  <1>9. ASSUME NEW status, status = "pending" \/ status = payment[o].status,
               payment[o].status = "approved" => status = "approved",
               payment'[o].status = status,
               \A x \in Orders \ {o} : payment'[x] = payment[x],
               order' = [order EXCEPT ![o] = r]
        PROVE  Sound(o)
    <2>1. order'[o] = r /\ \A x \in Orders \ {o} : order'[x] = order[x]
      BY <1>0, <1>9, OrderWrites
    <2> QED
      BY <1>0, <1>1, <1>4, <1>6, <1>9, <2>1 DEF Sound, Others, Flags, Backed, ActiveStatus
  <1>10. ASSUME NEW target, NEW status, Transition(o, r, target),
                payment' = [seen EXCEPT ![o].status = status],
                \/ target = "paid" /\ status = "approved"
                \/ target = "refunded" /\ status = "refunded"
                \/ target = "cancelled" /\ status \in {"rejected", "cancelled"}
         PROVE  Sound(o)
    <2>1. /\ payment'[o].status = status
          /\ \A x \in Orders \ {o} : payment'[x] = payment[x]
      BY <1>5, <1>10, PaymentWrites
    <2>2. target = "cancelled" => order[o].status # "paid"
      BY <1>4, <1>10 DEF Transition, Transitions, OrderStatus
    <2> QED
      BY <1>0, <1>1, <1>3, <1>4, <1>6, <1>10, <2>1, <2>2, TransitionWrites
         DEF Sound, Others, Flags, Backed, ActiveStatus
  <1>11. ASSUME KeepSale(o, r, seen)  PROVE Sound(o)
    BY <1>5, <1>9, <1>11 DEF KeepSale
  <1>12. CASE SnapshotMismatch(o, r, kind)
    BY <1>0, <1>8, <1>12 DEF SnapshotMismatch
  <1>13. CASE SnapshotApproved(o, r, seen)
    <2>1. ASSUME ApprovePayment(o, r, seen)  PROVE Sound(o)
      BY <1>10, <2>1, ApproveWrites
    <2> QED  BY <1>5, <1>8, <1>11, <1>13, <2>1 DEF SnapshotApproved
  <1>14. CASE kind \in {"rejected", "cancelled"} /\ SnapshotRejected(o, r, seen, kind)
    <2>1. \/ MarkReconciliation(o, r, seen, "provider_status")
          \/ /\ payment' = [seen EXCEPT ![o].status = kind]
             /\ Transition(o, r, "cancelled")
          \/ KeepSale(o, r, seen)
      BY <1>14 DEF SnapshotRejected
    <2> QED  BY <1>5, <1>8, <1>10, <1>11, <1>14, <2>1
  <1>15. CASE SnapshotPending(o, r, seen)
    <2>1. CASE payment[o].status = "approved" /\ KeepSale(o, r, seen)
      BY <1>11, <2>1
    <2>2. CASE /\ payment[o].status # "approved"
               /\ KeepSale(o, r, [seen EXCEPT ![o].status = "pending"])
      <3>1. /\ payment'[o].status = "pending"
            /\ \A x \in Orders \ {o} : payment'[x] = payment[x]
        BY <1>5, <2>2, PaymentWrites DEF KeepSale
      <3> QED  BY <1>9, <2>2, <3>1 DEF KeepSale
    <2> QED  BY <1>15, <2>1, <2>2 DEF SnapshotPending
  <1>16. CASE SnapshotRefunded(o, r, seen, kind)
    <2>1. \/ MarkReconciliation(o, r, seen, "partial_refund")
          \/ /\ payment' = [seen EXCEPT ![o].status = "refunded"]
             /\ Transition(o, r, "refunded")
      BY <1>16 DEF SnapshotRefunded
    <2> QED  BY <1>5, <1>8, <1>10, <2>1
  <1>17. CASE MarkReconciliation(o, r, seen, "provider_status")
    BY <1>5, <1>8, <1>17
  <1>18. ApplySnapshot(o, r, kind, id)
    BY <1>2 DEF r
  <1> QED
    BY <1>7, <1>12, <1>13, <1>14, <1>15, <1>16, <1>17, <1>18

\* A reissue writes two sales: the one it closes, whose payment is cancelled
\* and whose receipt is rejected, and one that was not there.
LEMMA ReissueSound ==
    ASSUME MoneyInv, NEW o \in Orders, NEW n \in Orders \ {o}, ReissueOffer(o, n)
    PROVE  \A x \in Orders : Backed(order'[x], payment'[x], proof'[x]) /\ Flags(x)
  <1>0. /\ TypeOK /\ order[o] \in OrderRow /\ order[n] \in OrderRow
        /\ proof \in [Orders -> ProofStatus]
        /\ \A x \in Orders : Backed(order[x], payment[x], proof[x])
    BY RowTypes DEF TypeOK, MoneyInv
  <1> DEFINE closed == [order[o] EXCEPT !.status = "cancelled", !.reissued = TRUE]
             opened == [order[n] EXCEPT !.status = "reserved", !.method = "bank_transfer",
                                        !.lines = order[o].lines]
  <1>1. order' = [order EXCEPT ![o] = closed, ![n] = opened]
    BY <1>0 DEF ReissueOffer, TypeOK
  <1>2. order'[o] = closed /\ order'[n] = opened /\ \A x \in Orders \ {o, n} : order'[x] = order[x]
    BY <1>0, <1>1 DEF TypeOK
  <1>3. /\ closed.status = "cancelled" /\ closed.method = order[o].method
        /\ closed.issues = order[o].issues /\ closed.failing = order[o].failing
        /\ opened.status = "reserved" /\ opened.method = "bank_transfer"
        /\ opened.issues = order[n].issues /\ opened.failing = order[n].failing
    BY <1>0 DEF OrderRow
  <1>4. /\ order[o].method = "bank_transfer" /\ order[o].status = "purchase_validation"
        /\ order[n].status = "absent"
        /\ payment' = CancelledPayment(o, {"pending", "validation"})
        /\ proof' = IF proof[o] = "ready" THEN [proof EXCEPT ![o] = "rejected"] ELSE proof
    BY DEF ReissueOffer
  <1> HIDE DEF closed, opened
  <1>5. /\ payment'[o].status = "cancelled" /\ payment'[o].provider = payment[o].provider
        /\ \A x \in Orders \ {o} : payment'[x] = payment[x]
    BY <1>0, <1>4, CancelledWrites DEF Backed
  <1>6. proof'[o] = "rejected" /\ \A x \in Orders \ {o} : proof'[x] = proof[x]
    BY <1>0, <1>4 DEF Backed
  <1>7. Backed(order'[o], payment'[o], proof'[o]) /\ Flags(o)
    BY <1>0, <1>2, <1>3, <1>4, <1>5, <1>6 DEF Backed, Flags, ActiveStatus
  <1>8. Backed(order'[n], payment'[n], proof'[n]) /\ Flags(n)
    BY <1>0, <1>2, <1>3, <1>4, <1>5, <1>6 DEF Backed, Flags, ActiveStatus
  <1>9. ASSUME NEW x \in Orders \ {o, n}
        PROVE  Backed(order'[x], payment'[x], proof'[x]) /\ Flags(x)
    BY <1>0, <1>2, <1>5, <1>6 DEF Flags
  <1> QED  BY <1>7, <1>8, <1>9

----------------------------------------------------------------------------
(* Every step.                                                             *)

\* Every step leaves every sale backed, and doubt about money with an issue.
LEMMA NextSound ==
    ASSUME MoneyInv, Next
    PROVE  \A x \in Orders : Backed(order'[x], payment'[x], proof'[x]) /\ Flags(x)
  <1>0. \A x \in Orders : Backed(order[x], payment[x], proof[x])
    BY DEF MoneyInv
  <1>1. ASSUME NEW o \in Orders, Sound(o)
        PROVE  \A x \in Orders : Backed(order'[x], payment'[x], proof'[x]) /\ Flags(x)
    BY <1>0, <1>1 DEF Sound, Others, Flags
  <1>2. ASSUME NEW o \in Orders, BuyerStep(o)  PROVE Sound(o)
    BY <1>2, BuyerSound
  <1>3. ASSUME NEW o \in Orders, SellerStep(o), ~ \E n \in Orders \ {o} : ReissueOffer(o, n)
        PROVE  Sound(o)
    BY <1>3, DraftSound, ReviewSound, CloseSound, RestoreSound, NoteSound DEF SellerStep
  <1>4. ASSUME NEW o \in Orders, WorkerStep(o)  PROVE Sound(o)
    BY <1>4, CloseSound, NoteSound, SnapshotSound, FailSound DEF WorkerStep, ReportStep
  <1>5. CASE StockStep /\ UNCHANGED saleVars
    BY <1>0, <1>5 DEF saleVars, Flags
  <1> QED  BY <1>1, <1>2, <1>3, <1>4, <1>5, ReissueSound DEF Next

\* Every sale is backed, always.
LEMMA AlwaysBacked == Spec => []MoneyInv
  <1> DEFINE AllBacked == \A o \in Orders : Backed(order[o], payment[o], proof[o])
  <1>1. Init => AllBacked
    BY DEF Init, AbsentOrder, NoPayment, Backed, ActiveStatus
  <1>2. Stocked /\ AllBacked /\ [Next]_vars => AllBacked'
    <2> SUFFICES ASSUME Stocked, AllBacked, [Next]_vars
                 PROVE  AllBacked'
      OBVIOUS
    <2>1. CASE Next
      BY <2>1, NextSound DEF MoneyInv
    <2>2. CASE UNCHANGED vars
      BY <2>2 DEF vars, saleVars
    <2> QED  BY <2>1, <2>2
  <1>3. Stocked /\ AllBacked => MoneyInv
    BY DEF MoneyInv
  <1> HIDE DEF AllBacked
  <1> QED  BY <1>1, <1>2, <1>3, AlwaysStocked, PTL DEF Spec

\* Money is accepted only for a sale that is paid, and no open sale has a
\* payment that was closed, for every order of commands and reports.
THEOREM MoneyAgrees == Spec => []MoneyFollowsSale
  <1>1. MoneyInv => MoneyFollowsSale
    BY DEF MoneyInv, MoneyFollowsSale, Backed, ActiveStatus
  <1> QED  BY <1>1, AlwaysBacked, PTL

\* A sale under review has a receipt to review and a payment in validation,
\* and a receipt that waits belongs to such a sale or to one that a restore
\* puts back under review.
THEOREM ReviewsHaveReceipts == Spec => []ReviewHasReceipt
  <1>1. MoneyInv => ReviewHasReceipt
    BY RestoredUnderReview DEF MoneyInv, ReviewHasReceipt, Backed
  <1> QED  BY <1>1, AlwaysBacked, PTL

\* Whatever takes the payment of a paid sale out of "approved", save its
\* refund, leaves an issue: a late report or a failed event never does it in
\* silence.
THEOREM DoubtIsFlagged == Spec => DoubtLeavesIssue
  <1>1. MoneyInv /\ [Next]_vars =>
           [\A o \in Orders :
              /\ order[o].status = "paid" /\ payment[o].status = "approved"
              /\ payment'[o].status \notin {"approved", "refunded"}
              => order'[o].issues # {}]_vars
    BY NextSound DEF Flags
  <1> QED  BY <1>1, AlwaysBacked, PTL DEF Spec, DoubtLeavesIssue

----------------------------------------------------------------------------
(* The sales keep the promise of StockPromise.  Follows tells a sale that  *)
(* is reopened from one that has lapsed, and a sale that is paid from one  *)
(* refunded.  The counter agrees with the rows, so what the promise        *)
(* computes from the sales is what the checks of the code read in the      *)
(* column reserved.                                                        *)

\* What the refinement mapping makes of the order table.
Phases == [o \in Orders |-> PhaseOf(o)]

CartOf(o) ==
    IF order[o].status \in {"absent", "draft"} THEN [p \in Products |-> 0] ELSE order[o].lines

Carried == [o \in Orders |-> CartOf(o)]

\* The promise does not see the step.
Stutters == UNCHANGED <<onHand, Phases, Carried>>

----------------------------------------------------------------------------
(* The mapping.                                                            *)

\* The status, the phase and the rows of a sale.
LEMMA PhaseIs ==
    ASSUME NEW o \in Orders, order[o].status \in OrderStatus
    PROVE  /\ RowOf(order[o].status) = "none" <=> PhaseOf(o) = "none"
           /\ RowOf(order[o].status) = "none" <=> order[o].status \in {"absent", "draft"}
           /\ RowOf(order[o].status) = "active" <=> PhaseOf(o) = "open"
           /\ RowOf(order[o].status) = "active" <=> order[o].status \in ActiveStatus
           /\ RowOf(order[o].status) = "released" <=> order[o].status \in {"cancelled", "expired"}
           /\ RowOf(order[o].status) = "consumed" <=> order[o].status \in {"paid", "refunded"}
           /\ order[o].status = "cancelled" => PhaseOf(o) = "closed"
           /\ order[o].status = "expired" => PhaseOf(o) = "lapsed"
           /\ order[o].status = "paid" => PhaseOf(o) = "sold"
           /\ order[o].status = "refunded" => PhaseOf(o) = "refunded"
  BY DEF PhaseOf, RowOf, ActiveStatus, OrderStatus

\* The same after the step.
LEMMA PhaseIsNext ==
    ASSUME NEW o \in Orders, order'[o].status \in OrderStatus
    PROVE  /\ RowOf(order'[o].status) = "none" <=> PhaseOf(o)' = "none"
           /\ RowOf(order'[o].status) = "none" <=> order'[o].status \in {"absent", "draft"}
           /\ RowOf(order'[o].status) = "active" <=> PhaseOf(o)' = "open"
           /\ RowOf(order'[o].status) = "active" <=> order'[o].status \in ActiveStatus
           /\ RowOf(order'[o].status) = "released" <=> order'[o].status \in {"cancelled", "expired"}
           /\ RowOf(order'[o].status) = "consumed" <=> order'[o].status \in {"paid", "refunded"}
           /\ order'[o].status = "cancelled" => PhaseOf(o)' = "closed"
           /\ order'[o].status = "expired" => PhaseOf(o)' = "lapsed"
           /\ order'[o].status = "paid" => PhaseOf(o)' = "sold"
           /\ order'[o].status = "refunded" => PhaseOf(o)' = "refunded"
  BY DEF PhaseOf, RowOf, ActiveStatus, OrderStatus

\* What is promised is what the column reserved says.
LEMMA PromisedIsReserved ==
    ASSUME Stocked, NEW p \in Products
    PROVE  Promise!Promised(p) = reserved[p]
  <1>1. ASSUME NEW u \in Orders \X (1..MaxLineQuantity)
        PROVE  (Phases[u[1]] = "open" /\ u[2] <= Carried[u[1]][p])
               <=> (rows[u[1]][p] = "active" /\ u[2] <= order[u[1]].lines[p])
    <2> DEFINE o == u[1]
    <2>1. o \in Orders /\ u[2] \in 1..MaxLineQuantity
      BY <1>1
    <2>2. order[o].status \in OrderStatus /\ order[o].lines[p] \in Nat
      BY <2>1, LinesType, EditOrder DEF Stocked, SalesInv
    <2>3. rows[o][p] = IF order[o].lines[p] > 0 THEN RowOf(order[o].status) ELSE "none"
      BY <2>1 DEF Stocked, SalesInv, RowsFollowSale
    <2>4. Phases[o] = PhaseOf(o) /\ Carried[o] = CartOf(o)
      BY <2>1 DEF Phases, Carried
    <2>5. PhaseOf(o) = "open" <=> RowOf(order[o].status) = "active"
      BY <2>1, <2>2, PhaseIs
    <2>6. PhaseOf(o) = "open" => CartOf(o) = order[o].lines
      BY <2>1, <2>2, PhaseIs DEF CartOf, ActiveStatus
    <2>7. u[2] <= order[o].lines[p] => order[o].lines[p] > 0
      BY <2>1, <2>2
    <2> QED  BY <2>2, <2>3, <2>4, <2>5, <2>6, <2>7
  <1>2. Promise!PromisedUnits(p) = UnitsIn(p, "active")
    <2>1. Promise!PromisedUnits(p) =
             {u \in Orders \X (1..MaxLineQuantity) :
                Phases[u[1]] = "open" /\ u[2] <= Carried[u[1]][p]}
      BY DEF Promise!PromisedUnits, Phases, Carried, CartOf
    <2> QED  BY <1>1, <2>1 DEF UnitsIn
  <1>3. reserved[p] = Cardinality(UnitsIn(p, "active"))
    BY DEF Stocked, ReservedIsHeld
  <1> QED  BY <1>2, <1>3 DEF Promise!Promised, Promise!Cardinality, Cardinality

\* A cart that reserve_stock accepts fits what is not promised.
LEMMA ReservableFits ==
    ASSUME Stocked, NEW c \in [Products -> Nat], CanReserve(c)
    PROVE  Promise!Fits(c)
  <1>1. ASSUME NEW p \in Products
        PROVE  Promise!Promised(p) + c[p] <= onHand[p]
    <2>1. c[p] > 0 => c[p] <= onHand[p] - reserved[p]
      BY DEF CanReserve, Available
    <2>2. reserved[p] <= onHand[p] /\ reserved[p] \in Int /\ onHand[p] \in Int
      BY DEF Stocked, NoOversell, SalesInv, TypeOK, StockTypeOK
    <2>3. c[p] \in Nat
      OBVIOUS
    <2> QED  BY <2>1, <2>2, <2>3, PromisedIsReserved
  <1> QED  BY <1>1 DEF Promise!Fits

\* A step of one sale changes one phase and one cart.
LEMMA OneSaleMoves ==
    ASSUME NEW o \in Orders, OnlySale(o)
    PROVE  /\ Phases' = [Phases EXCEPT ![o] = PhaseOf(o)']
           /\ Carried' = [Carried EXCEPT ![o] = CartOf(o)']
  <1>1. ASSUME NEW x \in Orders \ {o}
        PROVE  PhaseOf(x)' = PhaseOf(x) /\ CartOf(x)' = CartOf(x)
    <2>1. order'[x] = order[x]
      BY DEF OnlySale
    <2> QED  BY <2>1 DEF PhaseOf, CartOf
  <1> QED  BY <1>1 DEF Phases, Carried

----------------------------------------------------------------------------
(* Every move is a step of the promise.                                    *)

\* What the promise allows, in the terms of the mapping.
Allows == Promise!Next \/ Stutters

\* A command that keeps the stock is a refund or not seen; so is a draft.
LEMMA KeepsAllowed ==
    ASSUME Stocked, TypeOK', NEW o \in Orders, Keeps(o) \/ Drafts(o), Follows(order[o], order'[o])
    PROVE  Allows
  <1>1. order[o].status \in OrderStatus /\ order'[o].status \in OrderStatus
    BY LinesType, EditOrder DEF Stocked, SalesInv, TypeOK
  <1>2. /\ Phases' = [Phases EXCEPT ![o] = PhaseOf(o)']
        /\ Carried' = [Carried EXCEPT ![o] = CartOf(o)']
    BY OneSaleMoves DEF Keeps, Drafts
  <1>3. onHand' = onHand
    BY DEF Keeps, Drafts, stockVars
  <1>4. CartOf(o)' = CartOf(o)
    <2>1. RowOf(order[o].status) = RowOf(order'[o].status)
      BY DEF Keeps, Drafts, MovesTo
    <2>2. RowOf(order[o].status) # "none" => order'[o].lines = order[o].lines
      BY DEF Keeps, Drafts, SameCart
    <2> QED  BY <1>1, <2>1, <2>2, PhaseIs, PhaseIsNext DEF CartOf
  <1>5. Phases \in [Orders -> {PhaseOf(x) : x \in Orders}] /\ Phases[o] = PhaseOf(o)
        /\ Carried[o] = CartOf(o) /\ Carried = [x \in Orders |-> Carried[x]]
    BY DEF Phases, Carried
  <1>6. Carried' = Carried
    BY <1>2, <1>4, <1>5
  <1>7. CASE order[o].status = "paid" /\ order'[o].status = "refunded"
    <2>1. PhaseOf(o) = "sold" /\ PhaseOf(o)' = "refunded"
      BY <1>1, <1>7, PhaseIs, PhaseIsNext
    <2>2. Promise!Refund(o)
      BY <1>2, <1>3, <1>5, <1>6, <2>1 DEF Promise!Refund, Phases, Carried, CartOf
    <2> QED  BY <2>2 DEF Allows, Promise!Next
  <1>8. CASE ~(order[o].status = "paid" /\ order'[o].status = "refunded")
    <2>1. RowOf(order[o].status) = RowOf(order'[o].status)
      BY DEF Keeps, Drafts, MovesTo
    <2>2. PhaseOf(o)' = PhaseOf(o)
      <3>1. CASE RowOf(order[o].status) = "released"
        <4>1. order'[o].status = order[o].status
          BY <1>1, <2>1, <3>1, PhaseIs, PhaseIsNext DEF Follows, ActiveStatus
        <4> QED  BY <1>1, <3>1, <4>1, PhaseIs, PhaseIsNext
      <3>2. CASE RowOf(order[o].status) = "consumed"
        <4>1. order'[o].status = order[o].status
          BY <1>1, <1>8, <2>1, <3>2, PhaseIs, PhaseIsNext DEF Follows
        <4> QED  BY <1>1, <3>2, <4>1, PhaseIs, PhaseIsNext
      <3>3. CASE RowOf(order[o].status) \in {"none", "active"}
        BY <1>1, <2>1, <3>3, PhaseIs, PhaseIsNext
      <3>4. RowOf(order[o].status) \in {"none", "active", "released", "consumed"}
        BY DEF RowOf
      <3> QED  BY <3>1, <3>2, <3>3, <3>4
    <2>3. Phases' = Phases
      BY <1>2, <1>5, <2>2
    <2> QED  BY <1>3, <1>6, <2>3 DEF Allows, Stutters
  <1> QED  BY <1>7, <1>8

\* Units are taken for a sale that opens, or that comes back from its
\* cancellation, and they fit.
LEMMA TakesAllowed ==
    ASSUME Stocked, TypeOK', NEW o \in Orders, Takes(o), Follows(order[o], order'[o])
    PROVE  Allows
  <1>1. order[o].status \in OrderStatus /\ order'[o].status \in OrderStatus
    BY LinesType, EditOrder DEF Stocked, SalesInv, TypeOK
  <1>2. /\ Phases' = [Phases EXCEPT ![o] = PhaseOf(o)']
        /\ Carried' = [Carried EXCEPT ![o] = CartOf(o)']
    BY OneSaleMoves DEF Takes
  <1>3. onHand' = onHand
    BY DEF Takes, ReserveStock
  <1>4. Promise!Fits(order[o].lines)
    BY LinesType, ReservableFits DEF Takes, ReserveStock, Stocked, SalesInv
  <1>5. PhaseOf(o)' = "open" /\ CartOf(o)' = order[o].lines
    BY <1>1, PhaseIsNext DEF Takes, MovesTo, SameCart, CartOf
  <1>6. Phases[o] = PhaseOf(o) /\ Carried[o] = CartOf(o)
        /\ Carried = [x \in Orders |-> Carried[x]]
    BY DEF Phases, Carried
  <1>7. CASE RowOf(order[o].status) = "none"
    <2>1. PICK c \in Carts : c = order[o].lines
      BY DEF Takes, Stocked, SalesInv, HasCart
    <2>2. Phases[o] = "none"
      BY <1>1, <1>6, <1>7, PhaseIs
    <2>3. Promise!Open(o, c)
      BY <1>2, <1>3, <1>4, <1>5, <2>1, <2>2 DEF Promise!Open, Phases, Carried, CartOf
    <2> QED  BY <2>1, <2>3 DEF Allows, Promise!Next
  <1>8. CASE RowOf(order[o].status) = "released"
    <2>1. order[o].status = "cancelled"
      BY <1>1, <1>8, PhaseIs, PhaseIsNext DEF Takes, MovesTo, Follows
    <2>2. Phases[o] = "closed" /\ Carried[o] = order[o].lines
      BY <1>1, <1>6, <2>1, PhaseIs DEF CartOf
    <2>3. Carried' = Carried
      BY <1>2, <1>5, <1>6, <2>2
    <2>4. Promise!Reopen(o)
      BY <1>2, <1>3, <1>4, <1>5, <2>2, <2>3 DEF Promise!Reopen, Phases, Carried, CartOf
    <2> QED  BY <2>4 DEF Allows, Promise!Next
  <1> QED  BY <1>7, <1>8 DEF Takes

\* Units are given back by a sale that closes or lapses.
LEMMA GivesBackAllowed ==
    ASSUME Stocked, TypeOK', NEW o \in Orders, GivesBack(o)
    PROVE  Allows
  <1>1. order[o].status \in OrderStatus /\ order'[o].status \in OrderStatus
    BY LinesType, EditOrder DEF Stocked, SalesInv, TypeOK
  <1>2. /\ Phases' = [Phases EXCEPT ![o] = PhaseOf(o)']
        /\ Carried' = [Carried EXCEPT ![o] = CartOf(o)']
    BY OneSaleMoves DEF GivesBack
  <1>3. onHand' = onHand
    BY DEF GivesBack, ReleaseStock
  <1>4. Phases[o] = PhaseOf(o) /\ Carried[o] = CartOf(o)
        /\ Carried = [x \in Orders |-> Carried[x]]
    BY DEF Phases, Carried
  <1>5. PhaseOf(o) = "open" /\ PhaseOf(o)' \in {"closed", "lapsed"} /\ CartOf(o)' = CartOf(o)
    BY <1>1, PhaseIs, PhaseIsNext DEF GivesBack, MovesTo, SameCart, CartOf
  <1>6. Carried' = Carried
    BY <1>2, <1>4, <1>5
  <1>7. Promise!Close(o)
    BY <1>2, <1>3, <1>4, <1>5, <1>6 DEF Promise!Close, Phases, Carried, CartOf
  <1> QED  BY <1>7 DEF Allows, Promise!Next

\* Units leave the shelf with the sale that is paid.
LEMMA SellsAllowed ==
    ASSUME Stocked, TypeOK', NEW o \in Orders, Sells(o), Follows(order[o], order'[o])
    PROVE  Allows
  <1>1. order[o].status \in OrderStatus /\ order'[o].status \in OrderStatus
    BY LinesType, EditOrder DEF Stocked, SalesInv, TypeOK
  <1>2. /\ Phases' = [Phases EXCEPT ![o] = PhaseOf(o)']
        /\ Carried' = [Carried EXCEPT ![o] = CartOf(o)']
    BY OneSaleMoves DEF Sells
  <1>3. onHand' = [p \in Products |-> onHand[p] - order[o].lines[p]]
    BY DEF Sells, ConsumeStock
  <1>4. Phases[o] = PhaseOf(o) /\ Carried[o] = CartOf(o)
        /\ Carried = [x \in Orders |-> Carried[x]]
    BY DEF Phases, Carried
  <1>5. order'[o].status = "paid"
    BY <1>1, PhaseIs, PhaseIsNext DEF Sells, MovesTo, Follows
  <1>6. /\ PhaseOf(o) = "open" /\ PhaseOf(o)' = "sold"
        /\ CartOf(o) = order[o].lines /\ CartOf(o)' = CartOf(o)
    BY <1>1, <1>5, PhaseIs, PhaseIsNext DEF Sells, MovesTo, SameCart, CartOf
  <1>7. Carried' = Carried
    BY <1>2, <1>4, <1>6
  <1>8. Promise!Sell(o)
    BY <1>2, <1>3, <1>4, <1>6, <1>7 DEF Promise!Sell, Phases, Carried, CartOf
  <1> QED  BY <1>8 DEF Allows, Promise!Next

\* A reissue puts one sale in the place of another.
LEMMA ReplacesAllowed ==
    ASSUME Stocked, TypeOK', NEW o \in Orders, NEW n \in Orders, Replaces(o, n)
    PROVE  Allows
  <1>1. /\ order[o].status \in OrderStatus /\ order'[o].status \in OrderStatus
        /\ order[n].status \in OrderStatus /\ order'[n].status \in OrderStatus
    BY LinesType, EditOrder DEF Stocked, SalesInv, TypeOK
  <1>2. ASSUME NEW x \in Orders \ {o, n}
        PROVE  PhaseOf(x)' = PhaseOf(x) /\ CartOf(x)' = CartOf(x)
    <2>1. order'[x] = order[x]
      BY DEF Replaces
    <2> QED  BY <2>1 DEF PhaseOf, CartOf
  <1>3. PhaseOf(o) = "open" /\ PhaseOf(o)' = "closed" /\ CartOf(o) = order[o].lines
        /\ CartOf(o)' = CartOf(o)
    BY <1>1, PhaseIs, PhaseIsNext DEF Replaces, SameCart, CartOf, ActiveStatus
  <1>4. PhaseOf(n) = "none" /\ PhaseOf(n)' = "open" /\ CartOf(n)' = order[o].lines
    BY <1>1, PhaseIs, PhaseIsNext DEF Replaces, MovesTo, CartOf, RowOf, ActiveStatus
  <1>5. n # o /\ onHand' = onHand
    BY DEF Replaces, stockVars
  <1>6. Phases' = [Phases EXCEPT ![o] = "closed", ![n] = "open"]
    BY <1>2, <1>3, <1>4, <1>5 DEF Phases
  <1>7. Carried' = [Carried EXCEPT ![n] = Carried[o]]
    BY <1>2, <1>3, <1>4, <1>5 DEF Carried
  <1>8. Phases[o] = "open" /\ Phases[n] = "none"
    BY <1>3, <1>4 DEF Phases
  <1>9. Promise!Replace(o, n)
    BY <1>5, <1>6, <1>7, <1>8 DEF Promise!Replace, Phases, Carried, CartOf
  <1> QED  BY <1>9 DEF Allows, Promise!Next

\* The seller's movement leaves what is promised on the shelf; the rest of the
\* seller's steps are not seen.
LEMMA StockStepAllowed ==
    ASSUME Stocked, StockStep, UNCHANGED saleVars
    PROVE  Allows
  <1>1. Phases' = Phases /\ Carried' = Carried
    BY DEF saleVars, Phases, Carried, PhaseOf, CartOf
  <1>2. CASE UNCHANGED onHand
    BY <1>1, <1>2 DEF Allows, Stutters
  <1>3. ASSUME NEW m \in moving, AppendMovement(m)  PROVE Allows
    <2>1. m \in Movement
      BY DEF Stocked, SalesInv, TypeOK, StockTypeOK
    <2>2. PICK p \in Products, q \in Adjustments : p = m.product /\ q = m.quantity
      BY <2>1 DEF Movement
    <2>3. /\ onHand' = [onHand EXCEPT ![p] = @ + q]
          /\ onHand[p] + q >= reserved[p]
      BY <1>3, <2>2 DEF AppendMovement, MovementFits
    <2>4. Promise!Restock(p, q)
      BY <1>1, <2>3, PromisedIsReserved DEF Promise!Restock, Phases, Carried, CartOf
    <2> QED  BY <2>4 DEF Allows, Promise!Next
  <1> QED
    BY <1>2, <1>3 DEF StockStep, BeginMovement, RefuseMovement, CatalogueStep,
                      SetCatalogStatus, ArchiveProduct, RestoreProduct

----------------------------------------------------------------------------
(* The refinement.                                                         *)

\* Every step of the system is one that the promise allows.
LEMMA NextAllowed ==
    ASSUME Stocked, [Next]_vars
    PROVE  Allows
  <1>1. TypeOK'
    BY NextType DEF Stocked, SalesInv
  <1>2. CASE UNCHANGED vars
    BY <1>2 DEF vars, stockVars, saleVars, Allows, Stutters, Phases, Carried, PhaseOf, CartOf
  <1>3. ASSUME Next, NEW o \in Orders, SaleMoves(o)  PROVE Allows
    <2>1. Follows(order[o], order'[o])
      BY <1>3, NextSteady
    <2> QED
      BY <1>1, <1>3, <2>1, KeepsAllowed, TakesAllowed, GivesBackAllowed, SellsAllowed
         DEF SaleMoves
  <1>4. ASSUME NEW o \in Orders, NEW n \in Orders, Replaces(o, n)  PROVE Allows
    BY <1>1, <1>4, ReplacesAllowed
  <1>5. SalesInv
    BY DEF Stocked
  <1> QED
    BY <1>2, <1>3, <1>4, <1>5, NextMoves, StockStepAllowed

\* Tables, counters, receipts and reports together keep the promise: an open
\* sale holds its cart, no two sales hold the same unit, a sale is sold at most
\* once and a lapsed one never comes back, whatever commands and reports
\* interleave.
THEOREM SalesKeepPromise == Spec => KeepsPromise
  <1>1. Init => Promise!Init
    <2> SUFFICES ASSUME Init PROVE Promise!Init
      OBVIOUS
    <2>1. \A o \in Orders : order[o].status = "absent"
      BY DEF Init, AbsentOrder
    <2>2. \A o \in Orders : PhaseOf(o) = "none" /\ CartOf(o) = [p \in Products |-> 0]
      BY <2>1, PhaseIs DEF CartOf, OrderStatus, RowOf, ActiveStatus
    <2>3. /\ Phases = [o \in Orders |-> "none"]
          /\ Carried = [o \in Orders |-> [p \in Products |-> 0]]
      BY <2>2 DEF Phases, Carried
    <2> QED
      BY <2>3 DEF Promise!Init, Promise!NoCart, Init, StockInit, Phases, Carried, CartOf
  <1>2. Stocked /\ [Next]_vars => [Promise!Next]_(Promise!promiseVars)
    <2>1. Stutters => UNCHANGED Promise!promiseVars
      BY DEF Stutters, Promise!promiseVars, Phases, Carried, CartOf
    <2> QED  BY <2>1, NextAllowed DEF Allows
  <1> QED  BY <1>1, <1>2, AlwaysStocked, PTL DEF Spec, KeepsPromise, Promise!Spec
=============================================================================
