------------------------ MODULE ReceiptUpload_proofs ------------------------
(***************************************************************************)
(* The receipt of a sale under review, for any number of tabs and uploads. *)
(*                                                                         *)
(* Uploads share one proof, which a later upload points elsewhere, and an  *)
(* upload that is retried may store other bytes.  ReceiptInv says why the  *)
(* asset that was found whole stays so: an upload that has begun works on  *)
(* an asset of its own, and stores bytes only while that asset is pending. *)
(***************************************************************************)
EXTENDS ReceiptUpload, TLAPS

\* The requests that name an asset.
Working == {"put", "complete", "locked"}

Names(t) == tab[t].step \in Working

Stored(a) == asset[a].status = "ready" /\ asset[a].object = "whole"

\* The strengthening of ReviewIsBacked.
Owns(t) == Names(t) => tab[t].asset \in Assets /\ asset[tab[t].asset].status # "none" /\ buyer

Fresh(t) == tab[t].step = "put" => asset[tab[t].asset].status = "pending"

Apart(t, u) == t # u /\ Names(t) /\ Names(u) => tab[t].asset # tab[u].asset

UploadsInv == \A t \in Tabs : Owns(t) /\ Fresh(t) /\ \A u \in Tabs : Apart(t, u)

ReadyInv == proof.status = "ready" => buyer /\ \E a \in Assets : Stored(a)

ReceiptInv ==
    /\ TypeOK /\ UploadsInv /\ ReadyInv
    /\ status = "purchase_validation" => proof.status = "ready"

----------------------------------------------------------------------------
(* Types.                                                                  *)

\* A tab that shows something new has a row of its type.
LEMMA ShowType ==
    ASSUME TypeOK, NEW t \in Tabs, NEW fields, Show(t, fields),
           \A f \in DOMAIN fields :
              /\ f \in {"open", "delivery", "editing", "saving", "file", "complete"} =>
                    fields[f] \in BOOLEAN
              /\ f = "page" => fields[f] \in {None, "offer", "receipt"}
              /\ f = "step" => fields[f] \in {None, "prepare", "put", "complete", "locked"}
              /\ f = "asset" => fields[f] \in Assets \cup {None}
    PROVE  tab' \in [Tabs -> TabRow]
  <1> DEFINE s == [f \in DOMAIN Closed |-> IF f \in DOMAIN fields THEN fields[f] ELSE tab[t][f]]
  <1>1. DOMAIN Closed = {"page", "open", "delivery", "editing", "saving", "file",
                         "complete", "step", "asset"}
    BY DEF Closed
  <1>2. s \in TabRow
    BY <1>1 DEF TypeOK, TabRow
  <1> QED  BY <1>2 DEF Show, TypeOK

\* The state that is not a tab's has its types.
ServerTypeOK ==
    /\ status \in Status /\ left \in Status \cup {None} /\ buyer \in BOOLEAN
    /\ proof \in [status : {"none", "pending", "ready", "approved", "rejected"},
                  asset : Assets \cup {None}]
    /\ asset \in [Assets -> [status : {"none", "pending", "ready"},
                             object : {"none", "whole", "other"}]]

\* Every step keeps the types.
LEMMA NextType == TypeOK /\ [Next]_vars => TypeOK'
  <1> SUFFICES ASSUME TypeOK, [Next]_vars PROVE TypeOK'
    OBVIOUS
  <1>0. ServerTypeOK
    BY DEF TypeOK, ServerTypeOK
  <1>1. ASSUME UNCHANGED <<status, left, buyer, proof, asset>>, tab' \in [Tabs -> TabRow]
        PROVE  TypeOK'
    BY <1>1 DEF TypeOK
  <1>2. ASSUME NEW t \in Tabs, OpenOffer(t) \/ OpenReceipt(t) \/ Refetch(t)  PROVE TypeOK'
    <2>1. (status \in Open) \in BOOLEAN /\ buyer \in BOOLEAN /\ (~buyer) \in BOOLEAN
      BY <1>0 DEF ServerTypeOK
    <2>2. CASE OpenOffer(t)
      <3>1. Show(t, [page |-> "offer", open |-> status \in Open, delivery |-> buyer,
                     editing |-> ~buyer])
        BY <2>2 DEF OpenOffer
      <3>2. tab' \in [Tabs -> TabRow]
        BY <2>1, <3>1 DEF Show, Closed, TypeOK, TabRow
      <3> QED  BY <1>1, <2>2, <3>2 DEF OpenOffer
    <2>3. CASE OpenReceipt(t)
      <3>1. Show(t, [page |-> "receipt", open |-> status \in Open, delivery |-> buyer,
                     editing |-> FALSE])
        BY <2>3 DEF OpenReceipt
      <3>2. tab' \in [Tabs -> TabRow]
        BY <2>1, <3>1 DEF Show, Closed, TypeOK, TabRow
      <3> QED  BY <1>1, <2>3, <3>2 DEF OpenReceipt
    <2>4. CASE Refetch(t)
      <3> DEFINE changed == tab[t].page = None \/ tab[t].delivery # buyer
                 editing == IF changed THEN ~buyer ELSE tab[t].editing
      <3>1. editing \in BOOLEAN
        BY <2>1 DEF TypeOK, TabRow
      <3>2. Show(t, [open |-> status \in Open, delivery |-> buyer, editing |-> editing])
        BY <2>4 DEF Refetch, Read
      <3> HIDE DEF editing
      <3>3. tab' \in [Tabs -> TabRow]
        BY <2>1, <3>1, <3>2 DEF Show, Closed, TypeOK, TabRow
      <3> QED  BY <1>1, <2>4, <3>3 DEF Refetch
    <2> QED  BY <1>2, <2>2, <2>3, <2>4
  <1>3. ASSUME NEW t \in Tabs, Leave(t)  PROVE TypeOK'
    <2>1. Closed \in TabRow
      BY DEF Closed, TabRow
    <2> QED  BY <1>1, <1>3, <2>1 DEF Leave, TypeOK
  <1>4. ASSUME NEW t \in Tabs, NEW x \in BOOLEAN,
               \/ Show(t, [editing |-> x]) \/ Show(t, [saving |-> x]) \/ Show(t, [file |-> x])
               \/ Show(t, [saving |-> x, editing |-> x])
        PROVE  tab' \in [Tabs -> TabRow]
    <2>1. CASE Show(t, [editing |-> x])
      BY <2>1, ShowType
    <2>2. CASE Show(t, [saving |-> x])
      BY <2>2, ShowType
    <2>3. CASE Show(t, [file |-> x])
      BY <2>3, ShowType
    <2>4. CASE Show(t, [saving |-> x, editing |-> x])
      BY <2>4, ShowType
    <2> QED  BY <1>4, <2>1, <2>2, <2>3, <2>4
  <1>5. ASSUME NEW t \in Tabs, NEW x \in {None, "prepare", "put", "complete", "locked"},
               Show(t, [step |-> x])
        PROVE  tab' \in [Tabs -> TabRow]
    BY <1>5, ShowType
  <1>6. ASSUME NEW t \in Tabs,
               \/ EditDelivery(t) \/ SaveDelivery(t) \/ SelectFile(t) \/ SendReceipt(t)
               \/ SetBuyerDetailsUnsent(t) \/ PrepareRefused(t) \/ ScopedAsset(t)
        PROVE  TypeOK'
    <2>1. CASE EditDelivery(t) \/ SaveDelivery(t) \/ SelectFile(t) \/ SetBuyerDetailsUnsent(t)
      BY <1>1, <1>4, <2>1 DEF EditDelivery, SaveDelivery, SelectFile, SetBuyerDetailsUnsent
    <2>2. CASE SendReceipt(t)
      <3>1. Show(t, [step |-> "prepare", asset |-> None])
        BY <2>2 DEF SendReceipt
      <3>2. tab' \in [Tabs -> TabRow]
        BY <3>1, ShowType
      <3> QED  BY <1>1, <2>2, <3>2 DEF SendReceipt
    <2>3. CASE PrepareRefused(t) \/ ScopedAsset(t)
      BY <1>1, <1>5, <2>3 DEF PrepareRefused, ScopedAsset, Stop
    <2> QED  BY <1>6, <2>1, <2>2, <2>3
  <1>7. ASSUME NEW t \in Tabs, SetBuyerDetails(t)  PROVE TypeOK'
    <2>1. tab' \in [Tabs -> TabRow]
      BY <1>4, <1>7 DEF SetBuyerDetails
    <2>2. status' \in Status /\ buyer' \in BOOLEAN
      BY <1>0, <1>7 DEF SetBuyerDetails, CheckoutStatus, ServerTypeOK, Status
    <2> QED  BY <1>0, <1>7, <2>1, <2>2 DEF SetBuyerDetails, ServerTypeOK, TypeOK
  <1>8. ASSUME NEW t \in Tabs, PrepareReceiptUpload(t)  PROVE TypeOK'
    <2>1. PICK a \in Assets :
             /\ asset' = [asset EXCEPT ![a].status = "pending"]
             /\ proof' = [status |-> "pending", asset |-> a]
             /\ Show(t, [step |-> "put", asset |-> a]) \/ Stop(t)
      BY <1>8 DEF PrepareReceiptUpload
    <2>2. tab' \in [Tabs -> TabRow]
      <3>1. CASE Show(t, [step |-> "put", asset |-> a])
        BY <3>1, ShowType
      <3>2. CASE Stop(t)
        BY <1>5, <3>2 DEF Stop
      <3> QED  BY <2>1, <3>1, <3>2
    <2> QED  BY <1>0, <1>8, <2>1, <2>2 DEF PrepareReceiptUpload, ServerTypeOK, TypeOK
  <1>9. ASSUME NEW t \in Tabs, UploadBinary(t)  PROVE TypeOK'
    <2>1. tab' \in [Tabs -> TabRow]
      BY <1>5, <1>9 DEF UploadBinary, Stop
    <2> QED  BY <1>0, <1>9, <2>1 DEF UploadBinary, ServerTypeOK, TypeOK
  <1>10. ASSUME NEW t \in Tabs, CompleteReceiptUpload(t)  PROVE TypeOK'
    <2>1. tab' \in [Tabs -> TabRow]
      <3>1. CASE Show(t, [step |-> None, complete |-> TRUE])
        BY <3>1 DEF Show, Closed, TypeOK, TabRow
      <3>2. CASE Stop(t)
        BY <1>5, <3>2 DEF Stop
      <3> QED  BY <1>10, <3>1, <3>2 DEF CompleteReceiptUpload
    <2>2. status' \in Status /\ proof' \in [status : {"none", "pending", "ready", "approved", "rejected"},
                                          asset : Assets \cup {None}]
      BY <1>0, <1>10 DEF CompleteReceiptUpload, ServerTypeOK, Status
    <2>3. asset' \in [Assets -> [status : {"none", "pending", "ready"},
                                 object : {"none", "whole", "other"}]]
      BY <1>0, <1>10 DEF CompleteReceiptUpload, ServerTypeOK
    <2> QED  BY <1>0, <1>10, <2>1, <2>2, <2>3 DEF CompleteReceiptUpload, ServerTypeOK, TypeOK
  <1>11. CASE Review("approved", "paid") \/ Review("rejected", "cancelled")
    BY <1>0, <1>11 DEF Review, ServerTypeOK, Status, TypeOK
  <1>12. CASE CancelOrder \/ RestoreOrder \/ ExpireOrder
    BY <1>0, <1>12 DEF CancelOrder, RestoreOrder, RestoreTarget, ExpireOrder, ServerTypeOK,
                       Status, TypeOK
  <1>13. CASE UNCHANGED vars
    BY <1>13 DEF vars, TypeOK
  <1> QED
    BY <1>2, <1>3, <1>6, <1>7, <1>8, <1>9, <1>10, <1>11, <1>12, <1>13 DEF Next

----------------------------------------------------------------------------
(* What a tab does to the uploads.                                         *)

\* The tab's step, and no other's: it begins to work on no asset.
Moves(t) ==
    /\ \A u \in Tabs \ {t} : tab'[u] = tab[u]
    /\ \/ tab'[t].step \notin Working
       \/ tab'[t].step = tab[t].step /\ tab'[t].asset = tab[t].asset
       \/ /\ tab[t].step \in Working /\ tab'[t].step \in {"complete", "locked"}
          /\ tab'[t].asset = tab[t].asset

\* Showing something else leaves the request of the tab, and the other tabs.
LEMMA ShowMoves ==
    ASSUME TypeOK, ReceiptAssumption, NEW t \in Tabs
    PROVE  /\ \A x : Show(t, [editing |-> x]) \/ Show(t, [saving |-> x]) \/ Show(t, [file |-> x])
                       \/ Show(t, [saving |-> x, editing |-> x]) => Moves(t)
           /\ \A x \in {None, "prepare"} : Show(t, [step |-> x]) => Moves(t)
           /\ Show(t, [step |-> None, complete |-> TRUE]) => Moves(t)
           /\ Show(t, [step |-> "prepare", asset |-> None]) => Moves(t)
           /\ \A x \in {"complete", "locked"} :
                 Names(t) /\ Show(t, [step |-> x]) => Moves(t)
           /\ \A x, y, z : Show(t, [open |-> x, delivery |-> y, editing |-> z]) => Moves(t)
           /\ \A w, x, y, z :
                 Show(t, [page |-> w, open |-> x, delivery |-> y, editing |-> z]) => Moves(t)
  BY DEF Show, Moves, Names, Working, Closed, TypeOK, ReceiptAssumption

\* The uploads stay apart while no tab begins one.
LEMMA UploadsStay ==
    ASSUME TypeOK, UploadsInv, NEW t \in Tabs, Moves(t), buyer => buyer',
           \A u \in Tabs : Names(u) => asset'[tab[u].asset].status # "none",
           \A u \in Tabs : tab[u].step = "put" /\ tab'[u].step = "put" =>
                            asset'[tab[u].asset].status = "pending"
    PROVE  UploadsInv'
  <1>1. ASSUME NEW u \in Tabs, Names(u)'
        PROVE  /\ Names(u) /\ tab'[u].asset = tab[u].asset
               /\ tab'[u].step = "put" => tab[u].step = "put"
    BY <1>1 DEF Moves, Names, Working
  <1>2. ASSUME NEW u \in Tabs  PROVE Owns(u)'
    BY <1>1 DEF Owns, Names, UploadsInv
  <1>3. ASSUME NEW u \in Tabs  PROVE Fresh(u)'
    BY <1>1 DEF Fresh, Names, Working
  <1>4. ASSUME NEW u \in Tabs, NEW v \in Tabs  PROVE Apart(u, v)'
    BY <1>1 DEF Apart, Names, UploadsInv
  <1> QED  BY <1>2, <1>3, <1>4 DEF UploadsInv

\* What is stored stays stored while no tab writes into its asset.
LEMMA StoredStays ==
    ASSUME ReadyInv, buyer => buyer', proof'.status = "ready" => proof.status = "ready",
           \A a \in Assets : Stored(a) => Stored(a)'
    PROVE  ReadyInv'
  BY DEF ReadyInv

----------------------------------------------------------------------------
(* The invariant.                                                          *)

ReviewInv == status = "purchase_validation" => proof.status = "ready"

\* A step of the pages leaves the invariant: it writes no asset and no proof.
LEMMA PageKeeps ==
    ASSUME ReceiptInv, ReceiptAssumption, NEW t \in Tabs, Moves(t),
           UNCHANGED <<status, buyer, proof, asset>>
    PROVE  UploadsInv' /\ ReadyInv' /\ ReviewInv'
  <1>1. UploadsInv'
    BY UploadsStay DEF ReceiptInv, UploadsInv, Owns, Fresh
  <1>2. ReadyInv'
    BY StoredStays DEF ReceiptInv, Stored
  <1> QED  BY <1>1, <1>2 DEF ReceiptInv, ReviewInv

\* A new upload works on an asset that no tab has yet.
LEMMA PrepareKeeps ==
    ASSUME ReceiptInv, ReceiptAssumption, NEW t \in Tabs, PrepareReceiptUpload(t)
    PROVE  UploadsInv' /\ ReadyInv' /\ ReviewInv'
  <1>1. PICK a \in Assets :
           /\ asset[a].status = "none"
           /\ asset' = [asset EXCEPT ![a].status = "pending"]
           /\ proof' = [status |-> "pending", asset |-> a]
           /\ Show(t, [step |-> "put", asset |-> a]) \/ Stop(t)
    BY DEF PrepareReceiptUpload
  <1>2. status \in Open /\ buyer /\ status' = status /\ buyer' = buyer
    BY DEF PrepareReceiptUpload, RequireTransferUpload
  <1>3. TypeOK /\ UploadsInv /\ ReadyInv
    BY DEF ReceiptInv
  <1>4. /\ asset'[a].status = "pending"
        /\ \A b \in Assets \ {a} : asset'[b] = asset[b]
    BY <1>1, <1>3 DEF TypeOK
  <1>5. proof'.status = "pending"
    BY <1>1
  <1>6. ReadyInv' /\ ReviewInv'
    BY <1>2, <1>5 DEF ReadyInv, ReviewInv, Open
  <1>7. \A u \in Tabs : Names(u) =>
           tab[u].asset \in Assets /\ tab[u].asset # a /\ asset'[tab[u].asset] = asset[tab[u].asset]
    BY <1>1, <1>3, <1>4 DEF UploadsInv, Owns
  <1>8. CASE Stop(t)
    <2>1. Moves(t)
      BY <1>3, <1>8, ShowMoves DEF Stop
    <2>2. UploadsInv'
      BY <1>2, <1>3, <1>7, <2>1, UploadsStay DEF UploadsInv, Owns, Fresh, Names, Working
    <2> QED  BY <1>6, <2>2
  <1>9. CASE Show(t, [step |-> "put", asset |-> a])
    <2>1. /\ tab'[t].step = "put" /\ tab'[t].asset = a
          /\ \A u \in Tabs \ {t} : tab'[u] = tab[u]
      BY <1>3, <1>9 DEF Show, Closed, TypeOK
    <2>2. ASSUME NEW u \in Tabs  PROVE Owns(u)' /\ Fresh(u)'
      BY <1>2, <1>3, <1>4, <1>7, <2>1 DEF UploadsInv, Owns, Fresh, Names, Working
    <2>3. ASSUME NEW u \in Tabs, NEW v \in Tabs  PROVE Apart(u, v)'
      BY <1>3, <1>7, <2>1 DEF UploadsInv, Apart, Names
    <2>4. UploadsInv'
      BY <2>2, <2>3 DEF UploadsInv
    <2> QED  BY <1>6, <2>4
  <1> QED  BY <1>1, <1>8, <1>9

\* Bytes are stored only for an asset that is pending.
LEMMA UploadKeeps ==
    ASSUME ReceiptInv, ReceiptAssumption, NEW t \in Tabs, UploadBinary(t)
    PROVE  UploadsInv' /\ ReadyInv' /\ ReviewInv'
  <1>1. TypeOK /\ UploadsInv /\ ReadyInv /\ Names(t)
    BY DEF ReceiptInv, UploadBinary, Names, Working
  <1>2. Moves(t)
    BY <1>1, ShowMoves DEF UploadBinary, Stop
  <1> DEFINE a == tab[t].asset
  <1>3. a \in Assets /\ asset[a].status = "pending"
    BY <1>1 DEF UploadsInv, Owns, Fresh, UploadBinary
  <1>4. asset' = asset \/ \E o \in {"whole", "other"} : asset' = [asset EXCEPT ![a].object = o]
    BY DEF UploadBinary
  <1>5. /\ \A b \in Assets : asset'[b].status = asset[b].status
        /\ \A b \in Assets \ {a} : asset'[b] = asset[b]
    BY <1>1, <1>3, <1>4 DEF TypeOK
  <1>6. UNCHANGED <<status, buyer, proof>>
    BY DEF UploadBinary
  <1>7. UploadsInv'
    BY <1>1, <1>2, <1>5, <1>6, UploadsStay DEF UploadsInv, Owns, Fresh, Names, Working
  <1>8. \A b \in Assets : Stored(b) => Stored(b)'
    BY <1>3, <1>5 DEF Stored
  <1>9. ReadyInv'
    BY <1>1, <1>6, <1>8, StoredStays
  <1> QED  BY <1>6, <1>7, <1>9 DEF ReceiptInv, ReviewInv

\* A receipt becomes ready with an asset that was found whole; a mismatch
\* deletes an object that was not.
LEMMA CompleteKeeps ==
    ASSUME ReceiptInv, ReceiptAssumption, NEW t \in Tabs, CompleteReceiptUpload(t)
    PROVE  UploadsInv' /\ ReadyInv' /\ ReviewInv'
  <1>1. TypeOK /\ UploadsInv /\ ReadyInv /\ ReviewInv /\ Names(t)
    BY DEF ReceiptInv, ReviewInv, CompleteReceiptUpload, Names, Working
  <1> DEFINE a == tab[t].asset
  <1>2. a \in Assets /\ asset[a].status # "none" /\ buyer /\ tab[t].step = "locked"
    BY <1>1 DEF UploadsInv, Owns, CompleteReceiptUpload
  <1>3. Moves(t) /\ buyer' = buyer
    BY <1>1, ShowMoves DEF CompleteReceiptUpload, Stop
  <1>4. \A u \in Tabs : tab[u].step = "put" => tab[u].asset \in Assets /\ tab[u].asset # a
    BY <1>1, <1>2 DEF UploadsInv, Owns, Apart, Names, Working
  <1>5. CASE asset[a].object = "whole" /\ asset' = [asset EXCEPT ![a].status = "ready"]
    <2>1. /\ asset'[a].status = "ready" /\ asset'[a].object = "whole"
          /\ \A b \in Assets \ {a} : asset'[b] = asset[b]
      BY <1>1, <1>2, <1>5 DEF TypeOK
    <2>2. UploadsInv'
      BY <1>1, <1>2, <1>3, <1>4, <2>1, UploadsStay DEF UploadsInv, Owns, Fresh, Names, Working
    <2>3. ReadyInv'
      BY <1>2, <1>3, <2>1 DEF ReadyInv, Stored
    <2>4. ReviewInv'
      BY <1>1, <1>5 DEF CompleteReceiptUpload, ReviewInv, TypeOK, Matches
    <2> QED  BY <2>2, <2>3, <2>4
  <1>6. CASE /\ UNCHANGED <<status, proof>>
             /\ asset' = IF Matches(a) THEN asset ELSE [asset EXCEPT ![a].object = "none"]
    <2>1. /\ \A b \in Assets : asset'[b].status = asset[b].status
          /\ \A b \in Assets : Stored(b) => asset'[b] = asset[b]
      BY <1>1, <1>2, <1>6 DEF TypeOK, Matches, Stored
    <2>2. UploadsInv'
      BY <1>1, <1>3, <2>1, UploadsStay DEF UploadsInv, Owns, Fresh, Names, Working
    <2>3. ReadyInv'
      BY <1>1, <1>3, <1>6, <2>1, StoredStays DEF Stored
    <2> QED  BY <1>1, <1>6, <2>2, <2>3 DEF ReviewInv
  <1> QED  BY <1>5, <1>6 DEF CompleteReceiptUpload, Matches

\* The buyer's data, once there, stays; the seller and the expiry job touch no
\* upload, and a sale goes back under review only with its receipt ready.
LEMMA SaleKeeps ==
    ASSUME ReceiptInv, ReceiptAssumption,
           \/ Review("approved", "paid") \/ Review("rejected", "cancelled")
           \/ CancelOrder \/ RestoreOrder \/ ExpireOrder
    PROVE  UploadsInv' /\ ReadyInv' /\ ReviewInv'
  <1>1. UNCHANGED <<buyer, asset, tab>>
    BY DEF Review, CancelOrder, RestoreOrder, ExpireOrder
  <1>2. UploadsInv'
    BY <1>1 DEF ReceiptInv, UploadsInv, Owns, Fresh, Apart, Names
  <1>3. proof'.status = "ready" => proof.status = "ready"
    BY DEF Review, CancelOrder, RestoreOrder, ExpireOrder, ReceiptInv, TypeOK
  <1>4. ReadyInv'
    BY <1>1, <1>3, StoredStays DEF ReceiptInv, Stored
  <1>5. ReviewInv'
    BY DEF Review, CancelOrder, RestoreOrder, RestoreTarget, ExpireOrder, ReceiptInv, ReviewInv
  <1> QED  BY <1>2, <1>4, <1>5

\* The steps that write neither an asset nor the proof.
PageStep(t) ==
    \/ OpenOffer(t) \/ OpenReceipt(t) \/ Leave(t) \/ Refetch(t) \/ EditDelivery(t)
    \/ SaveDelivery(t) \/ SelectFile(t) \/ SendReceipt(t)
    \/ SetBuyerDetailsUnsent(t) \/ PrepareRefused(t) \/ ScopedAsset(t)

\* Every step keeps the invariant.
LEMMA NextReceipt ==
    ASSUME ReceiptInv, ReceiptAssumption, [Next]_vars
    PROVE  ReceiptInv'
  <1>0. TypeOK /\ TypeOK'
    BY NextType DEF ReceiptInv
  <1>1. ASSUME NEW t \in Tabs, PageStep(t)
        PROVE  UploadsInv' /\ ReadyInv' /\ ReviewInv'
    <2>1. CASE OpenOffer(t) \/ OpenReceipt(t) \/ Refetch(t)
      <3>1. Moves(t)
        BY <1>0, <2>1, ShowMoves DEF OpenOffer, OpenReceipt, Refetch, Read
      <3> QED  BY <2>1, <3>1, PageKeeps DEF OpenOffer, OpenReceipt, Refetch
    <2>2. CASE Leave(t)
      <3>1. Moves(t)
        BY <1>0, <2>2 DEF Leave, Closed, Moves, Working, TypeOK, ReceiptAssumption
      <3> QED  BY <2>2, <3>1, PageKeeps DEF Leave
    <2>3. CASE EditDelivery(t) \/ SaveDelivery(t) \/ SelectFile(t) \/ SendReceipt(t)
               \/ SetBuyerDetailsUnsent(t)
      <3>1. Moves(t)
        BY <1>0, <2>3, ShowMoves
           DEF EditDelivery, SaveDelivery, SelectFile, SendReceipt, SetBuyerDetailsUnsent
      <3> QED
        BY <2>3, <3>1, PageKeeps
           DEF EditDelivery, SaveDelivery, SelectFile, SendReceipt, SetBuyerDetailsUnsent
    <2>4. CASE PrepareRefused(t) \/ ScopedAsset(t)
      <3>1. Moves(t)
        BY <1>0, <2>4, ShowMoves DEF PrepareRefused, ScopedAsset, Stop, Names, Working
      <3> QED  BY <2>4, <3>1, PageKeeps DEF PrepareRefused, ScopedAsset
    <2> QED  BY <1>1, <2>1, <2>2, <2>3, <2>4 DEF PageStep
  <1>2. ASSUME NEW t \in Tabs, SetBuyerDetails(t)
        PROVE  UploadsInv' /\ ReadyInv' /\ ReviewInv'
    <2>1. Moves(t)
      BY <1>0, <1>2, ShowMoves DEF SetBuyerDetails
    <2>2. UNCHANGED <<proof, asset>> /\ (buyer => buyer')
          /\ (status' = "purchase_validation" => status = "purchase_validation")
      BY <1>2 DEF SetBuyerDetails, CheckoutStatus
    <2>3. UploadsInv'
      BY <1>0, <2>1, <2>2, UploadsStay DEF ReceiptInv, UploadsInv, Owns, Fresh
    <2>4. ReadyInv'
      BY <2>2, StoredStays DEF ReceiptInv, Stored
    <2> QED  BY <2>2, <2>3, <2>4 DEF ReceiptInv, ReviewInv
  <1>3. ASSUME UNCHANGED vars
        PROVE  UploadsInv' /\ ReadyInv' /\ ReviewInv'
    <2>1. UNCHANGED <<status, buyer, proof, asset, tab>>
      BY <1>3 DEF vars
    <2>2. UploadsInv'
      BY <2>1 DEF ReceiptInv, UploadsInv, Owns, Fresh, Apart, Names
    <2>3. ReadyInv'
      BY <2>1 DEF ReceiptInv, ReadyInv, Stored
    <2>4. ReviewInv'
      BY <2>1 DEF ReceiptInv, ReviewInv
    <2> QED  BY <2>2, <2>3, <2>4
  <1>4. ASSUME NEW t \in Tabs,
               PrepareReceiptUpload(t) \/ UploadBinary(t) \/ CompleteReceiptUpload(t)
        PROVE  UploadsInv' /\ ReadyInv' /\ ReviewInv'
    BY <1>4, PrepareKeeps, UploadKeeps, CompleteKeeps
  <1>5. UploadsInv' /\ ReadyInv' /\ ReviewInv'
    <2>1. CASE \E t \in Tabs : PageStep(t)
      <3>1. PICK t \in Tabs : PageStep(t)  BY <2>1
      <3> QED  BY <1>1, <3>1
    <2>2. CASE \E t \in Tabs : SetBuyerDetails(t)
      BY <1>2, <2>2
    <2>3. CASE \E t \in Tabs : PrepareReceiptUpload(t) \/ UploadBinary(t) \/ CompleteReceiptUpload(t)
      BY <1>4, <2>3
    <2>4. CASE Review("approved", "paid") \/ Review("rejected", "cancelled")
               \/ CancelOrder \/ RestoreOrder \/ ExpireOrder
      BY <2>4, SaleKeeps
    <2>5. CASE UNCHANGED vars
      BY <1>3, <2>5
    <2> QED  BY <2>1, <2>2, <2>3, <2>4, <2>5 DEF Next, PageStep
  <1> QED  BY <1>0, <1>5 DEF ReceiptInv, ReviewInv

\* A sale under review has the delivery data and a receipt that was stored as
\* it was announced, for any number of tabs, uploads, retries and lost answers, and
\* the upload keeps its types.
THEOREM ReviewsAreBacked ==
    ASSUME ReceiptAssumption
    PROVE  /\ Spec => []ReviewIsBacked
           /\ Spec => []TypeOK
  <1>1. Init => ReceiptInv
    <2> SUFFICES ASSUME Init PROVE ReceiptInv
      OBVIOUS
    <2>1. TypeOK
      <3>1. Closed \in TabRow
        BY DEF Closed, TabRow
      <3>2. NoProof \in [status : {"none", "pending", "ready", "approved", "rejected"},
                        asset : Assets \cup {None}]
        BY DEF NoProof
      <3> QED  BY <3>1, <3>2 DEF Init, TypeOK, Status
    <2>2. \A t \in Tabs : ~Names(t)
      BY DEF Init, Closed, Names, Working, ReceiptAssumption
    <2>3. UploadsInv
      BY <2>2 DEF UploadsInv, Owns, Fresh, Apart, Names, Working
    <2> QED  BY <2>1, <2>3 DEF Init, NoProof, ReceiptInv, ReadyInv
  <1>2. ReceiptInv /\ [Next]_vars => ReceiptInv'
    BY NextReceipt
  <1>3. ReceiptInv => ReviewIsBacked
    <2> SUFFICES ASSUME ReceiptInv, status = "purchase_validation"
                 PROVE  /\ proof.status = "ready" /\ buyer
                        /\ \E a \in Assets : asset[a] = [status |-> "ready", object |-> "whole"]
      BY DEF ReviewIsBacked
    <2>1. proof.status = "ready" /\ buyer
      BY DEF ReceiptInv, ReadyInv
    <2>2. PICK a \in Assets : Stored(a)
      BY DEF ReceiptInv, ReadyInv
    <2>3. asset[a] = [status |-> "ready", object |-> "whole"]
      BY <2>2 DEF ReceiptInv, TypeOK, Stored
    <2> QED  BY <2>1, <2>3
  <1>4. ReceiptInv => TypeOK
    BY DEF ReceiptInv
  <1> QED  BY <1>1, <1>2, <1>3, <1>4, PTL DEF Spec
=============================================================================
