---------------------------- MODULE ReceiptUpload ----------------------------
(***************************************************************************)
(* The buyer of a bank transfer at the public pages of the sale: the       *)
(* delivery data, the file of the receipt and its upload in three requests *)
(* (PublicOrderPage, PublicProofPage, PublicDeliveryForm and               *)
(* PublicProofUpload of the web), in several tabs, in front of the upload  *)
(* commands of sales/uploads.py and of a seller who reviews and closes.    *)
(* A request may fail before it reaches the server, or its answer be lost. *)
(***************************************************************************)
EXTENDS Naturals, FiniteSets

CONSTANTS
    Tabs,       \* open tabs of the public pages
    MaxAssets,  \* bound on the uploads prepared
    None

ReceiptAssumption ==
    /\ MaxAssets \in Nat /\ None \notin 1..MaxAssets
    /\ None \notin {"prepare", "put", "complete", "locked"}

VARIABLES
    status,   \* of the order
    left,     \* the status its last cancellation left
    buyer,    \* the row: no row, or with the delivery data
    proof,    \* PaymentProof: its status and its asset
    asset,    \* asset[a]: the media asset and the object it names
    tab       \* tab[t]: what the tab shows and the request it is at

vars == <<status, left, buyer, proof, asset, tab>>

Status == {"reserved", "purchase_in_progress", "purchase_validation", "paid",
           "cancelled", "expired"}
Open == {"reserved", "purchase_in_progress"}
Assets == 1..MaxAssets

NoProof == [status |-> "none", asset |-> None]
Closed == [page |-> None, open |-> FALSE, delivery |-> FALSE, editing |-> FALSE,
           saving |-> FALSE, file |-> FALSE, complete |-> FALSE, step |-> None, asset |-> None]

TabRow ==
    [page : {None, "offer", "receipt"}, open : BOOLEAN, delivery : BOOLEAN, editing : BOOLEAN,
     saving : BOOLEAN, file : BOOLEAN, complete : BOOLEAN,
     step : {None, "prepare", "put", "complete", "locked"}, asset : Assets \cup {None}]

TypeOK ==
    /\ status \in Status /\ left \in Status \cup {None} /\ buyer \in BOOLEAN
    /\ proof \in [status : {"none", "pending", "ready", "approved", "rejected"},
                  asset : Assets \cup {None}]
    /\ asset \in [Assets -> [status : {"none", "pending", "ready"},
                             object : {"none", "whole", "other"}]]
    /\ tab \in [Tabs -> TabRow]

Init ==
    /\ status = "reserved" /\ left = None /\ buyer = FALSE /\ proof = NoProof
    /\ asset = [a \in Assets |-> [status |-> "none", object |-> "none"]]
    /\ tab = [t \in Tabs |-> Closed]

At(t, page) == tab[t].page = page
Pending(t) == tab[t].step # None
Show(t, fields) ==
    tab' = [tab EXCEPT ![t] = [f \in DOMAIN Closed |->
                                 IF f \in DOMAIN fields THEN fields[f] ELSE tab[t][f]]]

----------------------------------------------------------------------------
(* The pages.                                                              *)

\* A read of the sale; the delivery form follows the row when it changed.
Read(t) ==
    LET changed == tab[t].page = None \/ tab[t].delivery # buyer IN
    [open |-> status \in Open, delivery |-> buyer,
     editing |-> IF changed THEN ~buyer ELSE tab[t].editing]

OpenOffer(t) ==
    /\ At(t, None) /\ status # "expired"
    /\ Show(t, [page |-> "offer", open |-> status \in Open, delivery |-> buyer, editing |-> ~buyer])
    /\ UNCHANGED <<status, left, buyer, proof, asset>>

OpenReceipt(t) ==
    /\ At(t, None) /\ status # "expired"
    /\ Show(t, [page |-> "receipt", open |-> status \in Open, delivery |-> buyer, editing |-> FALSE])
    /\ UNCHANGED <<status, left, buyer, proof, asset>>

Leave(t) ==
    /\ ~At(t, None) /\ ~Pending(t) /\ ~tab[t].saving
    /\ tab' = [tab EXCEPT ![t] = Closed]
    /\ UNCHANGED <<status, left, buyer, proof, asset>>

\* An expired sale shows another page.
Refetch(t) ==
    /\ ~At(t, None) /\ status # "expired" /\ Show(t, Read(t))
    /\ UNCHANGED <<status, left, buyer, proof, asset>>

\* The delivery data is shown, and may be edited until the receipt is sent.
EditDelivery(t) ==
    /\ At(t, "offer") /\ tab[t].open /\ tab[t].delivery /\ ~tab[t].editing
    /\ Show(t, [editing |-> TRUE])
    /\ UNCHANGED <<status, left, buyer, proof, asset>>

SaveDelivery(t) ==
    /\ At(t, "offer") /\ tab[t].open /\ tab[t].editing /\ ~tab[t].saving
    /\ Show(t, [saving |-> TRUE])
    /\ UNCHANGED <<status, left, buyer, proof, asset>>

\* The offer waits for the delivery data; the page of the receipt does not.
DeliveryReady(t) == At(t, "receipt") \/ tab[t].delivery
CanUpload(t) == tab[t].open
Uploading(t) == ~At(t, None) /\ CanUpload(t) /\ ~tab[t].complete

SelectFile(t) ==
    /\ Uploading(t) /\ DeliveryReady(t) /\ ~Pending(t) /\ ~tab[t].file
    /\ Show(t, [file |-> TRUE])
    /\ UNCHANGED <<status, left, buyer, proof, asset>>

SendReceipt(t) ==
    /\ Uploading(t) /\ DeliveryReady(t) /\ ~Pending(t) /\ tab[t].file
    /\ Show(t, [step |-> "prepare", asset |-> None])
    /\ UNCHANGED <<status, left, buyer, proof, asset>>

----------------------------------------------------------------------------
(* The server.                                                             *)

CheckoutStatus == IF status = "reserved" THEN "purchase_in_progress" ELSE status

\* The form is complete and so is the row: the server checks it as the page does.
SetBuyerDetails(t) ==
    /\ tab[t].saving
    /\ IF status \in Open
       THEN /\ buyer' = TRUE /\ status' = CheckoutStatus
            /\ \/ Show(t, [saving |-> FALSE, editing |-> FALSE])
               \/ Show(t, [saving |-> FALSE])
       ELSE UNCHANGED <<status, buyer>> /\ Show(t, [saving |-> FALSE])
    /\ UNCHANGED <<left, proof, asset>>

SetBuyerDetailsUnsent(t) ==
    /\ tab[t].saving /\ Show(t, [saving |-> FALSE])
    /\ UNCHANGED <<status, left, buyer, proof, asset>>

\* Fault: the delivery data is asked for by the page only.
RequireOpenOrder == status \in Open

RequireTransferUpload == status \in Open /\ buyer

Stop(t) == Show(t, [step |-> None])

\* A new asset for the receipt; a proof that waits is pointed at it.  The
\* answer may be lost.
PrepareReceiptUpload(t) ==
    /\ tab[t].step = "prepare"
    /\ RequireTransferUpload /\ proof.status \in {"none", "pending"}
    /\ \E a \in Assets :
          /\ asset[a].status = "none" /\ \A b \in 1..(a - 1) : asset[b].status # "none"
          /\ asset' = [asset EXCEPT ![a].status = "pending"]
          /\ proof' = [status |-> "pending", asset |-> a]
          /\ Show(t, [step |-> "put", asset |-> a]) \/ Stop(t)
    /\ UNCHANGED <<status, left, buyer>>

PrepareRefused(t) ==
    /\ tab[t].step = "prepare" /\ Stop(t)
    /\ UNCHANGED <<status, left, buyer, proof, asset>>

\* The storage takes the bytes, or others than those announced, or none.
UploadBinary(t) ==
    /\ tab[t].step = "put"
    /\ \/ /\ \E o \in {"whole", "other"} : asset' = [asset EXCEPT ![tab[t].asset].object = o]
          /\ Show(t, [step |-> "complete"]) \/ Stop(t)
       \/ UNCHANGED asset /\ Stop(t)
    /\ UNCHANGED <<status, left, buyer, proof>>

\* The proof is found by its asset before any lock is taken.
ScopedAsset(t) ==
    /\ tab[t].step = "complete"
    /\ IF proof.asset = tab[t].asset THEN Show(t, [step |-> "locked"]) ELSE Stop(t)
    /\ UNCHANGED <<status, left, buyer, proof, asset>>

Matches(a) == asset[a].object = "whole"

\* A mismatch deletes the object; its mark is rolled back with the error.
CompleteReceiptUpload(t) ==
    LET a == tab[t].asset IN
    /\ tab[t].step = "locked"
    /\ IF Matches(a) /\ (status \in Open \/ proof.status = "ready")
       THEN /\ asset' = [asset EXCEPT ![a].status = "ready"]
            /\ IF proof.status = "ready"
               THEN UNCHANGED <<status, proof>>
               ELSE status' = "purchase_validation" /\ proof' = [proof EXCEPT !.status = "ready"]
            /\ Show(t, [step |-> None, complete |-> TRUE]) \/ Stop(t)
       ELSE /\ asset' = IF Matches(a) THEN asset ELSE [asset EXCEPT ![a].object = "none"]
            /\ Stop(t) /\ UNCHANGED <<status, proof>>
    /\ UNCHANGED <<left, buyer>>

----------------------------------------------------------------------------
(* The seller and the expiry job.                                          *)

Review(decision, next) ==
    /\ status = "purchase_validation" /\ proof.status = "ready"
    /\ proof' = [proof EXCEPT !.status = decision] /\ status' = next
    /\ UNCHANGED <<left, buyer, asset, tab>>

CancelOrder ==
    /\ status \in Open \cup {"purchase_validation"} /\ status' = "cancelled" /\ left' = status
    /\ UNCHANGED <<buyer, proof, asset, tab>>

\* A rejected receipt is no cancellation to undo, but an earlier one still is.
RestoreTarget ==
    IF left # "purchase_validation" THEN left
    ELSE IF proof.status = "ready" THEN "purchase_validation"
    ELSE IF buyer THEN "purchase_in_progress" ELSE "reserved"

RestoreOrder ==
    /\ status = "cancelled" /\ left # None /\ status' = RestoreTarget
    /\ UNCHANGED <<left, buyer, proof, asset, tab>>

ExpireOrder ==
    /\ status \in Open /\ status' = "expired"
    /\ UNCHANGED <<left, buyer, proof, asset, tab>>

Next ==
    \/ \E t \in Tabs :
          \/ OpenOffer(t) \/ OpenReceipt(t) \/ Leave(t) \/ Refetch(t) \/ EditDelivery(t)
          \/ SaveDelivery(t) \/ SelectFile(t) \/ SendReceipt(t) \/ SetBuyerDetails(t)
          \/ SetBuyerDetailsUnsent(t) \/ PrepareReceiptUpload(t) \/ PrepareRefused(t)
          \/ UploadBinary(t) \/ ScopedAsset(t) \/ CompleteReceiptUpload(t)
    \/ Review("approved", "paid") \/ Review("rejected", "cancelled")
    \/ CancelOrder \/ RestoreOrder \/ ExpireOrder

Spec == Init /\ [][Next]_vars

----------------------------------------------------------------------------
(* Properties.                                                             *)

\* A sale under review has the delivery data and a receipt that was stored as
\* it was announced, in however many tabs the buyer sends and corrects.
ReviewIsBacked ==
    status = "purchase_validation" =>
        proof.status = "ready" /\ buyer /\ \E a \in Assets : asset[a] = [status |-> "ready", object |-> "whole"]

\* mark_payment_proof_ready is "called by the contextual upload lifecycle after
\* storage verification": a receipt that waits for review was verified in the
\* storage.
ReadyWasVerified ==
    proof.status = "ready" => asset[proof.asset].status = "ready"
=============================================================================
