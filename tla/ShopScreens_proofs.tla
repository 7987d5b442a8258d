-------------------------- MODULE ShopScreens_proofs --------------------------
(***************************************************************************)
(* Proofs about the screens around the sales of a shop, for every value of *)
(* their constants: the form of a product and its columns, its gallery,    *)
(* the adjustment of its stock, the search of a photo, the shipment, the   *)
(* bank accounts and the checkout of the buyer.  A screen is an instance   *)
(* under its own name.  Constants and variables that screens call alike    *)
(* are declared once, except those renamed in its INSTANCE, so that one    *)
(* instance of this module may stand for several screens.                  *)
(***************************************************************************)
EXTENDS Integers, Sequences, FiniteSets, SequencesExt, FiniteSetTheorems, TLAPS

CONSTANTS
    None, Clients, Apps, Pages, MaxKeys, Modes, Data, Blank,
    Names, Quantities, Photos, Limit,                         \* ProductForm
    Columns, Required, Values, MaxActive,                     \* ProductColumns
    Web, MaxImages, MaxAssets,                                \* ProductGallery
    Screens, Sizes, Stocks, MaxStock, Reserved, MaxOpenings, MaxMoveKeys,
                                                              \* StockAdjust
    MaxPhotos, MaxQueue,                                      \* AssistedSearch
    ShipPages, MaxShipKeys, Emails, Invalid, MaxLabels,       \* ShipmentDetail
    MaxAccounts, MaxIds, MaxSends, MaxChanges,                \* BankAccounts
    CheckoutModes, Tabs, Methods, MaxMade                     \* PublicCheckout

VARIABLES
    client, draft, photos, key, keys, call, calls, saved, page, archived, shown, lost, mode, used,
    origin, products, source, told,
    fields, mine, other, schema, product, loaded, columnDraft, save, typed, sheet,
    gallery, primary, assets, ready, upload, failed, change,
    screen, onHand, withdrawn, shownStock, moves, opening, isOpen,
    moveDraft, moveKey, moveKeys, done,
    allowed, added, queue, phase, candidates, applied, searchKey, searches, begun, ledger,
    email, order, shipment, mail, labels, shipPage, left,
    stored, ids, profile, seen, bankDraft, bankCalls, sends, reported, astray,
    method, saleMode, status, buyer, checkout, made, tab

Form == INSTANCE ProductForm

Column == INSTANCE ProductColumns WITH Clients <- Apps, draft <- columnDraft

Gallery == INSTANCE ProductGallery

Adjust == INSTANCE StockAdjust WITH
    MaxKeys <- MaxMoveKeys, archived <- withdrawn, shown <- shownStock, draft <- moveDraft,
    key <- moveKey, keys <- moveKeys

Search == INSTANCE AssistedSearch WITH key <- searchKey, photos <- queue

Ship == INSTANCE ShipmentDetail WITH
    Pages <- ShipPages, MaxKeys <- MaxShipKeys, page <- shipPage

Bank == INSTANCE BankAccounts WITH
    Clients <- Apps, draft <- bankDraft, calls <- bankCalls

Checkout == INSTANCE PublicCheckout WITH Modes <- CheckoutModes, mode <- saleMode

----------------------------------------------------------------------------
(* Sequences.                                                              *)

\* A concatenation is a sequence as long as its parts together.
LEMMA ConcatIs ==
    ASSUME NEW S, NEW a \in Seq(S), NEW b \in Seq(S)
    PROVE  a \o b \in Seq(S) /\ Len(a \o b) = Len(a) + Len(b)
  OBVIOUS

\* A sequence without one of its elements keeps the others in their order.
LEMMA RemoveAtIs ==
    ASSUME NEW S, NEW s \in Seq(S), NEW i \in 1..Len(s)
    PROVE  /\ RemoveAt(s, i) \in Seq(S) /\ Len(RemoveAt(s, i)) = Len(s) - 1
           /\ \A j \in 1..(Len(s) - 1) : RemoveAt(s, i)[j] = IF j < i THEN s[j] ELSE s[j + 1]
  <1> DEFINE a == SubSeq(s, 1, i - 1)
             b == SubSeq(s, i + 1, Len(s))
  <1>1. Len(s) \in Nat
    OBVIOUS
  <1>2. /\ a \in Seq(S) /\ Len(a) = i - 1 /\ \A j \in 1..(i - 1) : a[j] = s[j]
    OBVIOUS
  <1>3. /\ b \in Seq(S) /\ Len(b) = Len(s) - i /\ \A j \in 1..(Len(s) - i) : b[j] = s[j + i]
    OBVIOUS
  <1>4. RemoveAt(s, i) = a \o b
    BY DEF RemoveAt
  <1> HIDE DEF a, b
  <1>5. a \o b \in Seq(S) /\ Len(a \o b) = Len(a) + Len(b)
    BY <1>2, <1>3, ConcatIs
  <1>6. Len(a \o b) = Len(s) - 1
    <2>1. Len(a \o b) = (i - 1) + (Len(s) - i)
      BY <1>2, <1>3, <1>5
    <2>2. \A n \in Nat : \A m \in 1..n : (m - 1) + (n - m) = n - 1
      OBVIOUS
    <2> QED  BY <1>1, <2>1, <2>2
  <1>7. \A j \in 1..(Len(s) - 1) : (a \o b)[j] = IF j < i THEN s[j] ELSE s[j + 1]
    BY <1>1, <1>2, <1>3
  <1> QED  BY <1>4, <1>5, <1>6, <1>7

\* A sequence that agrees with the beginning of another is a prefix of it.
LEMMA PrefixIs ==
    ASSUME NEW S, NEW s \in Seq(S), NEW t \in Seq(S), Len(s) <= Len(t),
           \A i \in 1..Len(s) : s[i] = t[i]
    PROVE  Form!IsPrefix(s, t)
  <1>1. SubSeq(s, 1, Len(s)) = SubSeq(t, 1, Len(s))
    OBVIOUS
  <1> QED  BY <1>1 DEF Form!IsPrefix

\* The members of a list, the list of one, and a list of fewer things.
LEMMA SeqIs ==
    ASSUME NEW S, NEW s \in Seq(S)
    PROVE  DOMAIN s = 1..Len(s) /\ Len(s) \in Nat /\ \A i \in 1..Len(s) : s[i] \in S
  OBVIOUS

LEMMA OneIs == ASSUME NEW S, NEW a \in S PROVE <<a>> \in Seq(S) /\ Len(<<a>>) = 1
  OBVIOUS

LEMMA SeqsWithin ==
    ASSUME NEW S, NEW T, S \subseteq T, NEW s \in Seq(S)
    PROVE  s \in Seq(T)
  OBVIOUS

----------------------------------------------------------------------------
(* The form of a product.                                                  *)

FormRows == [key : Nat, draft : Form!Draft, archived : BOOLEAN,
             gallery : Seq(Photos), primary : Photos \cup {None}]
FormCalls == [key : Nat, draft : Form!Draft, photos : Seq(Photos),
              step : {"sent", "checked", "created", "rejected", "lost", "attaching"}]

\* A row has the first photos of a request, in their order.
InOrder(p, c) ==
    /\ p.key = c.key /\ Len(p.gallery) <= Len(c.photos) /\ p.primary = c.photos[1]
    /\ \A i \in 1..Len(p.gallery) : p.gallery[i] = c.photos[i]

HasRow(c) == c.key # 0 /\ \E p \in products : p.key = c.key /\ p.draft = c.draft

\* A request has the key of the form, which no later one has, and once it is
\* answered well its row.  Only the request that attaches, or the one that closed
\* the form, has given a row photos.
RowsInv ==
    /\ \A p \in products : p.key <= keys
    /\ Form!OneProductPerKey
    /\ call # None => call.key = key /\ saved = None
    /\ call # None /\ call.step \in {"created", "attaching"} => HasRow(call)
    /\ saved # None => HasRow(saved) /\ page # "form"
    /\ \A p \in products : p.gallery # <<>> =>
          \/ call # None /\ call.step = "attaching" /\ InOrder(p, call)
          \/ saved # None /\ InOrder(p, saved)

FormInv ==
    /\ products \subseteq FormRows /\ draft \in Form!Draft /\ photos \in Seq(Photos)
    /\ keys \in Nat /\ key \in 1..keys
    /\ call \in FormCalls \cup {None} /\ saved \in FormCalls \cup {None}
    /\ RowsInv

\* A row that is new has no photos.
LEMMA NewRowIs ==
    ASSUME NEW k \in Nat, NEW d \in Form!Draft
    PROVE  /\ Form!Row(k, d) \in FormRows /\ Form!Row(k, d).key = k /\ Form!Row(k, d).draft = d
           /\ Form!Row(k, d).gallery = <<>>
  BY DEF Form!Row, FormRows

\* It holds at first.
LEMMA FormInit == Form!FormAssumption /\ Form!Init => FormInv
  <1> SUFFICES ASSUME Form!FormAssumption, Form!Init PROVE FormInv
    OBVIOUS
  <1>1. PICK n \in Names : products = {Form!Row(0, [name |-> n, quantity |-> 0])}
    BY DEF Form!Init
  <1>2. [name |-> n, quantity |-> 0] \in Form!Draft /\ draft \in Form!Draft
    BY DEF Form!Init, Form!Draft, Form!FormAssumption
  <1>3. products \subseteq FormRows /\ \A p \in products : p.key = 0 /\ p.gallery = <<>>
    BY <1>1, <1>2, NewRowIs
  <1>4. photos = <<>> /\ key = 1 /\ keys = 1 /\ call = None /\ saved = None
    BY DEF Form!Init
  <1>5. RowsInv
    BY <1>3, <1>4 DEF RowsInv, Form!OneProductPerKey
  <1> QED  BY <1>2, <1>3, <1>4, <1>5 DEF FormInv

\* The form is filled or left.
FillStep ==
    \/ Form!WebApplySource \/ Form!PhoneApplySource \/ Form!WebChooseAnother \/ Form!PhoneChooseAnother
    \/ Form!WebLeave \/ Form!PhoneLeave
    \/ \E d \in Form!Draft : Form!WebType(d) \/ Form!PhoneType(d)
    \/ \E f \in Photos : Form!WebAddPhoto(f) \/ Form!PhoneAddPhoto(f)
                         \/ Form!WebRemovePhoto(f) \/ Form!PhoneRemovePhoto(f)

LEMMA FillKeeps ==
    ASSUME FormInv, FillStep
    PROVE  FormInv'
  <1> USE DEF Form!given, Form!form
  <1>0. /\ products \subseteq FormRows /\ draft \in Form!Draft /\ photos \in Seq(Photos)
        /\ saved # None => page # "form"
    BY DEF FormInv, RowsInv
  <1>1. ASSUME UNCHANGED <<products, key, keys, call, saved>>, page' # "form" \/ page' = page,
               draft' \in Form!Draft, photos' \in Seq(Photos)
        PROVE  FormInv'
    BY <1>1 DEF FormInv, RowsInv, Form!OneProductPerKey, HasRow, InOrder
  <1>2. CASE Form!WebApplySource \/ Form!PhoneApplySource
    <2>1. PICK p \in products : draft' = [draft EXCEPT !.name = p.draft.name]
      BY <1>2 DEF Form!WebApplySource, Form!PhoneApplySource, Form!ApplySource, Form!Live
    <2>2. p.draft \in Form!Draft
      BY <1>0 DEF FormRows
    <2>3. draft' \in Form!Draft
      BY <1>0, <2>1, <2>2 DEF Form!Draft
    <2>4. UNCHANGED <<products, key, keys, call, saved, page, photos>>
      BY <1>2 DEF Form!WebApplySource, Form!PhoneApplySource, Form!ApplySource
    <2> QED  BY <1>0, <1>1, <2>3, <2>4
  <1>3. CASE Form!WebChooseAnother \/ Form!PhoneChooseAnother \/ Form!WebLeave \/ Form!PhoneLeave
    BY <1>0, <1>1, <1>3 DEF Form!WebChooseAnother, Form!PhoneChooseAnother, Form!ChooseAnother,
       Form!WebLeave, Form!PhoneLeave, Form!Leave
  <1>4. ASSUME NEW d \in Form!Draft, Form!WebType(d) \/ Form!PhoneType(d)
        PROVE  FormInv'
    BY <1>0, <1>1, <1>4 DEF Form!WebType, Form!PhoneType
  <1>5. ASSUME NEW f \in Photos, Form!WebAddPhoto(f) \/ Form!PhoneAddPhoto(f)
        PROVE  FormInv'
    <2>1. photos' \in Seq(Photos)
      BY <1>0, <1>5 DEF Form!WebAddPhoto, Form!PhoneAddPhoto
    <2> QED  BY <1>0, <1>1, <1>5, <2>1 DEF Form!WebAddPhoto, Form!PhoneAddPhoto
  <1>6. ASSUME NEW f \in Photos, Form!WebRemovePhoto(f) \/ Form!PhoneRemovePhoto(f)
        PROVE  FormInv'
    <2>1. PICK i \in 1..Len(photos) : photos' = RemoveAt(photos, i)
      BY <1>6 DEF Form!WebRemovePhoto, Form!PhoneRemovePhoto, Form!RemovePhoto, Form!RemoveAt, RemoveAt
    <2>2. photos' \in Seq(Photos)
      BY <1>0, <2>1, RemoveAtIs
    <2> QED  BY <1>0, <1>1, <1>6, <2>2 DEF Form!WebRemovePhoto, Form!PhoneRemovePhoto, Form!RemovePhoto
  <1> QED  BY <1>2, <1>3, <1>4, <1>5, <1>6 DEF FillStep

\* A request that goes on, without a change of the catalogue.
LEMMA FormStepIs ==
    ASSUME FormInv, call # None,
           NEW step \in {"sent", "checked", "created", "rejected", "lost", "attaching"}, Form!Step(step)
    PROVE  /\ call' \in FormCalls /\ call'.step = step /\ call'.key = call.key
           /\ call'.draft = call.draft /\ call'.photos = call.photos
  BY DEF FormInv, FormCalls, Form!Step

\* A form is sent.
LEMMA SubmitKeeps ==
    ASSUME FormInv, Form!WebSubmit \/ Form!PhoneSubmit
    PROVE  FormInv'
  <1> DEFINE c == [key |-> key, draft |-> draft, photos |-> photos, step |-> "sent"]
  <1>1. /\ call = None /\ page = "form" /\ call' = c
        /\ UNCHANGED <<products, source, draft, photos, key, keys, saved, page>>
    BY DEF Form!WebSubmit, Form!PhoneSubmit, Form!ShowForm, Form!Save, Form!form
  <1>2. c \in FormCalls /\ c.key = key /\ c.step = "sent"
    BY DEF FormInv, FormCalls
  <1> HIDE DEF c
  <1>3. saved = None
    BY <1>1 DEF FormInv, RowsInv
  <1>4. RowsInv'
    BY <1>1, <1>2, <1>3 DEF FormInv, RowsInv, Form!OneProductPerKey, HasRow
  <1> QED  BY <1>1, <1>2, <1>4 DEF FormInv

\* The request is checked, lost, answered, or its photos begin.
CallStep == Form!AssertCanCreate \/ Form!Lose \/ Form!Created

LEMMA CallKeeps ==
    ASSUME FormInv, CallStep
    PROVE  FormInv'
  <1>1. PICK step \in {"checked", "rejected", "lost", "attaching"} :
           /\ Form!Step(step) /\ call # None /\ call.step # "attaching"
           /\ step = "attaching" => call.step = "created"
           /\ UNCHANGED <<products, source, draft, photos, key, keys, saved, page>>
    BY DEF CallStep, Form!AssertCanCreate, Form!Lose, Form!Created, Form!At, Form!form
  <1>2. /\ call' \in FormCalls /\ call'.step = step /\ call'.key = call.key
        /\ call'.draft = call.draft /\ call'.photos = call.photos
    BY <1>1, FormStepIs
  <1>3. RowsInv'
    BY <1>1, <1>2 DEF FormInv, RowsInv, Form!OneProductPerKey, HasRow, InOrder
  <1> QED  BY <1>1, <1>2, <1>3 DEF FormInv

\* The product is created, or its key answered.
LEMMA CreateKeeps ==
    ASSUME FormInv, Form!CreateProduct
    PROVE  FormInv'
  <1> DEFINE r == Form!Row(call.key, call.draft)
  <1>1. /\ call # None /\ call.step = "checked"
        /\ UNCHANGED <<source, draft, photos, key, keys, saved, page>>
    BY DEF Form!CreateProduct, Form!At, Form!form
  <1>2. /\ products \subseteq FormRows /\ call \in FormCalls /\ call.key = key /\ key # 0
        /\ key \in Nat /\ keys \in Nat /\ key <= keys /\ saved = None
    BY <1>1 DEF FormInv, RowsInv
  <1>3. \/ Form!Step("rejected") /\ UNCHANGED products
        \/ /\ Form!Step("created") /\ UNCHANGED products
           /\ \E p \in products : p.key = call.key /\ p.draft = call.draft
        \/ /\ Form!Step("created") /\ products' = products \cup {r}
           /\ \A p \in products : p.key # call.key
    BY DEF Form!CreateProduct, Form!Of
  <1>4. r \in FormRows /\ r.key = call.key /\ r.draft = call.draft /\ r.gallery = <<>>
    BY <1>2, NewRowIs DEF FormCalls
  <1> HIDE DEF r
  <1>5. /\ call' \in FormCalls /\ call'.step \in {"created", "rejected"} /\ call'.key = call.key
        /\ call'.draft = call.draft /\ call'.photos = call.photos
    BY <1>1, <1>3, FormStepIs
  <1>6. CASE UNCHANGED products
    <2>1. call'.step = "created" => HasRow(call)
      <3>1. CASE Form!Step("rejected")
        BY <1>1, <3>1, FormStepIs
      <3>2. CASE ~Form!Step("rejected")
        <4>1. PICK p \in products : p.key = call.key /\ p.draft = call.draft
          BY <1>3, <1>4, <1>6, <3>2
        <4> QED  BY <1>2, <4>1 DEF HasRow
      <3> QED  BY <3>1, <3>2
    <2>2. RowsInv'
      BY <1>1, <1>2, <1>5, <1>6, <2>1 DEF FormInv, RowsInv, Form!OneProductPerKey, HasRow
    <2> QED  BY <1>1, <1>5, <1>6, <2>2 DEF FormInv
  <1>7. CASE products' = products \cup {r} /\ \A p \in products : p.key # call.key
    <2>1. RowsInv'
      BY <1>1, <1>2, <1>4, <1>5, <1>7 DEF FormInv, RowsInv, Form!OneProductPerKey, HasRow
    <2> QED  BY <1>1, <1>4, <1>5, <1>7, <2>1 DEF FormInv
  <1> QED  BY <1>3, <1>6, <1>7

\* A photo is attached.
LEMMA AttachNextKeeps ==
    ASSUME FormInv, Form!AttachNext
    PROVE  FormInv'
  <1>1. /\ call # None /\ call.step = "attaching"
        /\ UNCHANGED <<source, draft, photos, key, keys, call, saved, page>>
    BY DEF Form!AttachNext, Form!At, Form!form
  <1>2. PICK p \in products :
           /\ p.key = call.key /\ Len(p.gallery) < Len(call.photos)
           /\ products' = (products \ {p}) \cup {Form!Attach(p, call.photos[Len(p.gallery) + 1])}
    BY DEF Form!AttachNext, Form!Of
  <1> DEFINE f == call.photos[Len(p.gallery) + 1]
             r == Form!Attach(p, f)
  <1>3. /\ p \in FormRows /\ p.gallery \in Seq(Photos) /\ call.photos \in Seq(Photos) /\ saved = None
    BY <1>1, <1>2 DEF FormInv, RowsInv, FormRows, FormCalls
  <1>4. f \in Photos
    BY <1>2, <1>3
  <1>5. r = [p EXCEPT !.gallery = Append(p.gallery, f), !.primary = IF p.gallery = <<>> THEN f ELSE p.primary]
    BY DEF Form!Attach
  <1>6. /\ Append(p.gallery, f) \in Seq(Photos) /\ Len(Append(p.gallery, f)) = Len(p.gallery) + 1
        /\ Append(p.gallery, f)[Len(p.gallery) + 1] = f
        /\ \A i \in 1..Len(p.gallery) : Append(p.gallery, f)[i] = p.gallery[i]
    BY <1>3, <1>4
  <1>7. /\ r \in FormRows /\ r.key = p.key /\ r.draft = p.draft /\ r.gallery = Append(p.gallery, f)
        /\ r.primary = IF p.gallery = <<>> THEN f ELSE p.primary
    <2> HIDE DEF f
    <2> QED  BY <1>3, <1>4, <1>5, <1>6 DEF FormRows
  <1>8. InOrder(r, call)
    <2>1. p.gallery # <<>> => InOrder(p, call)
      BY <1>1, <1>2, <1>3 DEF FormInv, RowsInv
    <2>2. r.primary = call.photos[1]
      <3>1. CASE p.gallery = <<>>
        BY <1>7, <3>1
      <3>2. CASE p.gallery # <<>>
        BY <1>7, <2>1, <3>2 DEF InOrder
      <3> QED  BY <3>1, <3>2
    <2>3. \A i \in 1..Len(p.gallery) : p.gallery[i] = call.photos[i]
      <3>1. CASE p.gallery = <<>>
        BY <1>3, <3>1
      <3>2. CASE p.gallery # <<>>
        BY <2>1, <3>2 DEF InOrder
      <3> QED  BY <3>1, <3>2
    <2>4. Len(p.gallery) \in Nat /\ Len(call.photos) \in Nat
      BY <1>3
    <2>5. Len(r.gallery) = Len(p.gallery) + 1 /\ r.gallery[Len(p.gallery) + 1] = f
      BY <1>6, <1>7
    <2>6. \A i \in 1..Len(r.gallery) : r.gallery[i] = call.photos[i]
      <3> SUFFICES ASSUME NEW i \in 1..Len(r.gallery) PROVE r.gallery[i] = call.photos[i]
        OBVIOUS
      <3>1. CASE i = Len(p.gallery) + 1
        BY <2>5, <3>1
      <3>2. CASE i # Len(p.gallery) + 1
        <4>1. i \in 1..Len(p.gallery)
          BY <2>4, <2>5, <3>2
        <4> QED  BY <1>6, <1>7, <2>3, <4>1
      <3> QED  BY <3>1, <3>2
    <2> HIDE DEF r, f
    <2> QED  BY <1>2, <1>7, <2>2, <2>4, <2>5, <2>6 DEF InOrder
  <1>9. products' = (products \ {p}) \cup {r}
    BY <1>2
  <1> HIDE DEF r, f
  <1>10. RowsInv'
    <2>1. /\ \A q \in products' : q = r \/ (q \in products /\ q # p)
          /\ \A q \in products : q = p \/ q \in products'
      BY <1>9
    <2>2. \A q \in products' : q.key <= keys
      BY <1>7, <2>1 DEF FormInv, RowsInv
    <2>3. Form!OneProductPerKey'
      BY <1>7, <2>1 DEF FormInv, RowsInv, Form!OneProductPerKey
    <2>4. HasRow(call)'
      BY <1>1, <1>7, <1>9, <2>1 DEF FormInv, RowsInv, HasRow
    <2>5. \A q \in products' : q.gallery # <<>> => InOrder(q, call)
      BY <1>1, <1>3, <1>8, <2>1 DEF FormInv, RowsInv
    <2> QED  BY <1>1, <1>3, <2>2, <2>3, <2>4, <2>5 DEF FormInv, RowsInv
  <1> QED  BY <1>1, <1>7, <1>9, <1>10 DEF FormInv

\* The form ends its request.
EndStep == Form!WebSaved \/ Form!PhoneSaved \/ Form!WebFailed \/ Form!PhoneFailed

LEMMA EndKeeps ==
    ASSUME FormInv, EndStep
    PROVE  FormInv'
  <1>1. CASE Form!WebSaved \/ Form!PhoneSaved
    <2>1. /\ call # None /\ call.step = "attaching" /\ call' = None /\ saved' = call
          /\ page' = IF page = "form" THEN "saved" ELSE page
          /\ UNCHANGED <<products, source, draft, photos, key, keys>>
      BY <1>1 DEF Form!WebSaved, Form!PhoneSaved, Form!Saved, Form!At, Form!form
    <2>2. page' # "form"
      BY <2>1
    <2>3. RowsInv'
      BY <2>1, <2>2 DEF FormInv, RowsInv, Form!OneProductPerKey, HasRow, InOrder
    <2> QED  BY <2>1, <2>3 DEF FormInv
  <1>2. CASE Form!WebFailed \/ Form!PhoneFailed
    <2>1. /\ call # None /\ call.step \in {"rejected", "lost"} /\ call' = None
          /\ UNCHANGED <<products, source, draft, photos, saved, page>>
          /\ \/ key' = key /\ keys' = keys
             \/ key' = keys + 1 /\ keys' = keys + 1
      BY <1>2 DEF Form!WebFailed, Form!PhoneFailed, Form!At, Form!NewKey, Form!form
    <2>2. keys' \in Nat /\ key' \in 1..keys' /\ keys <= keys'
      BY <2>1 DEF FormInv
    <2>3. \A q \in products : q.key \in Nat /\ keys \in Nat
      BY DEF FormInv, FormRows
    <2>4. RowsInv'
      BY <2>1, <2>2, <2>3 DEF FormInv, RowsInv, Form!OneProductPerKey, HasRow, InOrder
    <2> QED  BY <2>1, <2>2, <2>4 DEF FormInv
  <1> QED  BY <1>1, <1>2 DEF EndStep

\* Another seller creates or archives a product.
LEMMA SellersKeep ==
    ASSUME Form!FormAssumption, FormInv,
           (\E n \in Names : Form!OthersCreate(n)) \/ (\E p \in products : Form!OthersArchive(p))
    PROVE  FormInv'
  <1>0. /\ products \subseteq FormRows /\ keys \in Nat
        /\ call # None => call.key # 0
    BY DEF FormInv, RowsInv
  <1>1. ASSUME NEW n \in Names, Form!OthersCreate(n)
        PROVE  FormInv'
    <2> DEFINE r == Form!Row(0, [name |-> n, quantity |-> 0])
    <2>1. /\ products' = products \cup {r}
          /\ UNCHANGED <<source, draft, photos, key, keys, call, saved, page>>
      BY <1>1 DEF Form!OthersCreate, Form!form
    <2>2. [name |-> n, quantity |-> 0] \in Form!Draft
      BY DEF Form!FormAssumption, Form!Draft
    <2>3. r \in FormRows /\ r.key = 0 /\ r.gallery = <<>>
      BY <2>2, NewRowIs
    <2> HIDE DEF r
    <2>4. RowsInv'
      BY <1>0, <2>1, <2>3 DEF FormInv, RowsInv, Form!OneProductPerKey, HasRow, InOrder
    <2> QED  BY <2>1, <2>3, <2>4 DEF FormInv
  <1>2. ASSUME NEW p \in products, Form!OthersArchive(p)
        PROVE  FormInv'
    <2> DEFINE r == [p EXCEPT !.archived = TRUE]
    <2>1. /\ products' = (products \ {p}) \cup (IF p.key = 0 THEN {} ELSE {r})
          /\ UNCHANGED <<source, draft, photos, key, keys, call, saved, page>>
      BY <1>2 DEF Form!OthersArchive, Form!form
    <2>2. /\ r \in FormRows /\ r.key = p.key /\ r.draft = p.draft /\ r.gallery = p.gallery
          /\ r.primary = p.primary
      BY <1>0 DEF FormRows
    <2> HIDE DEF r
    <2>3. CASE p.key = 0
      <3>1. RowsInv'
        BY <1>0, <2>1, <2>3 DEF FormInv, RowsInv, Form!OneProductPerKey, HasRow, InOrder
      <3> QED  BY <2>1, <2>3, <3>1 DEF FormInv
    <2>4. CASE p.key # 0
      <3>1. products' = (products \ {p}) \cup {r}
        BY <2>1, <2>4
      <3>2. RowsInv'
        BY <1>0, <2>1, <2>2, <3>1 DEF FormInv, RowsInv, Form!OneProductPerKey, HasRow, InOrder
      <3> QED  BY <2>1, <2>2, <3>1, <3>2 DEF FormInv
    <2> QED  BY <2>3, <2>4
  <1> QED  BY <1>1, <1>2

\* Every step keeps the invariant.
LEMMA FormNext == Form!FormAssumption /\ FormInv /\ [Form!Next]_(Form!vars) => FormInv'
  <1> SUFFICES ASSUME Form!FormAssumption, FormInv, [Form!Next]_(Form!vars) PROVE FormInv'
    OBVIOUS
  <1>1. CASE FillStep
    BY <1>1, FillKeeps
  <1>2. CASE Form!WebSubmit \/ Form!PhoneSubmit
    BY <1>2, SubmitKeeps
  <1>3. CASE CallStep
    BY <1>3, CallKeeps
  <1>4. CASE Form!CreateProduct \/ Form!AttachNext
    BY <1>4, CreateKeeps, AttachNextKeeps
  <1>5. CASE EndStep
    BY <1>5, EndKeeps
  <1>6. CASE (\E n \in Names : Form!OthersCreate(n)) \/ (\E p \in products : Form!OthersArchive(p))
    BY <1>6, SellersKeep
  <1>7. CASE UNCHANGED Form!vars
    BY <1>7 DEF Form!vars, FormInv, RowsInv, Form!OneProductPerKey, HasRow, InOrder
  <1> QED  BY <1>1, <1>2, <1>3, <1>4, <1>5, <1>6, <1>7 DEF Form!Next, FillStep, CallStep, EndStep

\* The photos of a row are the first of the request that was sent for it.
LEMMA OrderGives == FormInv => Form!PhotosInOrder
  <1> SUFFICES ASSUME FormInv,
                      NEW c \in {saved} \cup (IF Form!At("attaching") THEN {call} ELSE {}), c # None,
                      NEW p \in Form!Of(c.key), p.gallery # <<>>
               PROVE  Form!IsPrefix(p.gallery, c.photos) /\ p.primary = c.photos[1]
    BY DEF Form!PhotosInOrder
  <1>1. InOrder(p, c) /\ p \in products
    <2>1. p \in products
      BY DEF Form!Of
    <2>2. CASE c = saved
      BY <2>1, <2>2 DEF FormInv, RowsInv
    <2>3. CASE c = call /\ call # None
      BY <2>1, <2>3 DEF FormInv, RowsInv
    <2> QED  BY <2>1, <2>2, <2>3 DEF Form!At
  <1>2. p.gallery \in Seq(Photos) /\ c.photos \in Seq(Photos)
    <2>1. c \in FormCalls
      <3>1. c = saved \/ c = call
        OBVIOUS
      <3> QED  BY <3>1 DEF FormInv
    <2>2. p \in FormRows
      BY <1>1 DEF FormInv
    <2> QED  BY <2>1, <2>2 DEF FormRows, FormCalls
  <1> QED  BY <1>1, <1>2, PrefixIs DEF InOrder

\* A key makes one product; the form closes as saved only when the product is
\* there as it was sent, and the first photos of its queue are in order.
THEOREM ProductsAreMade ==
    ASSUME Form!FormAssumption
    PROVE  Form!Spec => [](Form!OneProductPerKey /\ Form!SavedIsMade /\ Form!PhotosInOrder)
  <1>1. FormInv => Form!OneProductPerKey /\ Form!SavedIsMade
    BY DEF FormInv, RowsInv, HasRow, Form!SavedIsMade, Form!Of
  <1> QED  BY <1>1, OrderGives, FormInit, FormNext, PTL DEF Form!Spec

\* A queue has each photo once.
Distinct(q) == \A i, j \in 1..Len(q) : q[i] = q[j] => i = j

\* Distinct photos are a queue of the form.
LEMMA QueueIs ==
    ASSUME Form!FormAssumption, NEW q \in Seq(Photos), Distinct(q)
    PROVE  q \in Form!Queue
  <1>1. \A S : Form!Cardinality(S) = Cardinality(S)
    BY Zenon DEF Form!Cardinality, Cardinality
  <1>2. IsFiniteSet(Photos)
    <2>1. Form!IsFiniteSet(Photos)
      BY DEF Form!FormAssumption
    <2> QED  BY <2>1, Zenon DEF Form!IsFiniteSet, IsFiniteSet
  <1>3. /\ Len(q) \in Nat /\ q \in [1..Len(q) -> Photos] /\ DOMAIN q = 1..Len(q)
    OBVIOUS
  <1>4. q \in Injection(1..Len(q), Photos)
    BY <1>3 DEF Distinct, Injection, IsInjective
  <1>5. Cardinality(1..Len(q)) <= Cardinality(Photos)
    BY <1>2, <1>4, FS_Injection
  <1>6. Cardinality(1..Len(q)) = Len(q)
    BY <1>3, FS_Interval
  <1>7. Cardinality(Photos) \in Nat
    BY <1>2, FS_CardinalityType
  <1>8. q \in Form!BoundedSeq(Photos, Form!Cardinality(Photos))
    <2>1. Len(q) \in 0..Cardinality(Photos)
      BY <1>3, <1>5, <1>6, <1>7
    <2> QED  BY <1>1, <1>3, <2>1 DEF Form!BoundedSeq, Form!SeqOf
  <1>9. Form!IsInjective(q)
    BY <1>3 DEF Distinct, Form!IsInjective
  <1> QED  BY <1>8, <1>9 DEF Form!Queue

\* A live name has one row, and every queue has its photos once.
FormTypes ==
    /\ client \in Clients /\ origin \in {"manual", "variant", "assisted"}
    /\ source \in Names \cup {None} /\ told \in {"nothing", "rejected", "offline"}
    /\ page \in {"form", "left", "saved"} /\ keys <= MaxKeys
    /\ \A p, q \in Form!Live : p.draft.name = q.draft.name => p = q
    /\ Distinct(photos)
    /\ call # None => Distinct(call.photos)
    /\ saved # None => Distinct(saved.photos)

\* The types of the form and of its catalogue.
LEMMA FormTypesGive ==
    ASSUME Form!FormAssumption, FormInv, FormTypes
    PROVE  Form!TypeOK
  <1>1. MaxKeys \in Nat /\ keys \in 1..MaxKeys
    BY DEF Form!FormAssumption, FormInv, FormTypes
  <1>2. ASSUME NEW c \in FormCalls, Distinct(c.photos), c.key \in 1..keys
        PROVE  c \in Form!Call
    BY <1>1, <1>2, QueueIs DEF FormCalls, Form!Call
  <1>3. call \in Form!Call \cup {None}
    BY <1>2 DEF FormInv, RowsInv, FormTypes
  <1>4. saved \in Form!Call \cup {None}
    <2> SUFFICES ASSUME saved # None PROVE saved \in Form!Call
      OBVIOUS
    <2>1. PICK p \in products : p.key = saved.key
      BY DEF FormInv, RowsInv, HasRow
    <2>2. saved \in FormCalls /\ saved.key # 0 /\ p.key <= keys
      BY DEF FormInv, RowsInv, HasRow
    <2>3. saved.key \in 1..keys
      BY <1>1, <2>1, <2>2 DEF FormCalls
    <2> QED  BY <1>2, <2>2, <2>3 DEF FormTypes
  <1>5. ASSUME NEW p \in products
        PROVE  p \in Form!Product
    <2>1. p \in FormRows /\ p.key \in 0..MaxKeys
      BY <1>1 DEF FormInv, RowsInv, FormRows
    <2>2. Distinct(p.gallery)
      <3>1. CASE p.gallery = <<>>
        BY <3>1 DEF Distinct
      <3>2. CASE p.gallery # <<>>
        <4>1. PICK c \in FormCalls : InOrder(p, c) /\ Distinct(c.photos)
          BY <3>2 DEF FormInv, RowsInv, FormTypes
        <4>2. Len(p.gallery) \in Nat /\ Len(c.photos) \in Nat
          BY <2>1 DEF FormRows, FormCalls
        <4> QED  BY <4>1, <4>2 DEF InOrder, Distinct
      <3> QED  BY <3>1, <3>2
    <2> QED  BY <2>1, <2>2, QueueIs DEF FormRows, Form!Product
  <1>6. photos \in Form!Queue
    BY QueueIs DEF FormInv, FormTypes
  <1> QED  BY <1>1, <1>3, <1>4, <1>5, <1>6 DEF FormInv, FormTypes, Form!TypeOK

\* They hold at first.
LEMMA FormTypesInit ==
    ASSUME Form!FormAssumption, Form!Init
    PROVE  FormTypes
  BY DEF Form!FormAssumption, Form!Init, FormTypes, Form!Live, Distinct

\* A queue that loses or gains a photo.
LEMMA QueueSteps ==
    ASSUME NEW q \in Seq(Photos), Distinct(q)
    PROVE  /\ \A f \in Photos : ~Form!Contains(q, f) => Distinct(Append(q, f))
           /\ \A i \in 1..Len(q) : Distinct(RemoveAt(q, i))
  <1>1. ASSUME NEW f \in Photos, ~Form!Contains(q, f) PROVE Distinct(Append(q, f))
    BY <1>1 DEF Form!Contains, Distinct
  <1>2. ASSUME NEW i \in 1..Len(q) PROVE Distinct(RemoveAt(q, i))
    <2>1. Len(q) \in Nat /\ Len(RemoveAt(q, i)) = Len(q) - 1
      BY RemoveAtIs
    <2>2. \A j \in 1..(Len(q) - 1) : RemoveAt(q, i)[j] = IF j < i THEN q[j] ELSE q[j + 1]
      BY RemoveAtIs
    <2> QED  BY <2>1, <2>2 DEF Distinct
  <1> QED  BY <1>1, <1>2

\* Every step keeps the types.
LEMMA FormTypesNext ==
    ASSUME Form!FormAssumption, FormInv, FormTypes, [Form!Next]_(Form!vars)
    PROVE  FormTypes'
  <1> USE DEF Form!given, Form!form
  <1>0. /\ products \subseteq FormRows /\ photos \in Seq(Photos) /\ MaxKeys \in Nat /\ keys \in Nat
        /\ call \in FormCalls \cup {None}
    BY DEF FormInv, Form!FormAssumption
  <1>1. ASSUME FillStep
        PROVE  FormTypes'
    <2>1. UNCHANGED <<client, origin, products, keys, call, told, saved>>
      BY <1>1 DEF FillStep, Form!WebApplySource, Form!PhoneApplySource, Form!ApplySource,
         Form!WebChooseAnother, Form!PhoneChooseAnother, Form!ChooseAnother, Form!WebLeave,
         Form!PhoneLeave, Form!Leave, Form!WebType, Form!PhoneType, Form!WebAddPhoto,
         Form!PhoneAddPhoto, Form!WebRemovePhoto, Form!PhoneRemovePhoto, Form!RemovePhoto
    <2>2. page' \in {"form", "left", "saved"}
      BY <1>1 DEF FormTypes, FillStep, Form!WebApplySource, Form!PhoneApplySource, Form!ApplySource,
         Form!WebChooseAnother, Form!PhoneChooseAnother, Form!ChooseAnother, Form!WebLeave,
         Form!PhoneLeave, Form!Leave, Form!WebType, Form!PhoneType, Form!WebAddPhoto,
         Form!PhoneAddPhoto, Form!WebRemovePhoto, Form!PhoneRemovePhoto, Form!RemovePhoto
    <2>3. source' \in Names \cup {None}
      <3>1. CASE Form!WebApplySource \/ Form!PhoneApplySource
        BY <1>0, <3>1 DEF Form!WebApplySource, Form!PhoneApplySource, Form!ApplySource, Form!Live,
           FormRows, Form!Draft
      <3>2. CASE ~(Form!WebApplySource \/ Form!PhoneApplySource)
        <4>1. source' = source \/ source' = None
          BY <1>1, <3>2 DEF FillStep,
             Form!WebChooseAnother, Form!PhoneChooseAnother, Form!ChooseAnother, Form!WebLeave,
             Form!PhoneLeave, Form!Leave, Form!WebType, Form!PhoneType, Form!WebAddPhoto,
             Form!PhoneAddPhoto, Form!WebRemovePhoto, Form!PhoneRemovePhoto, Form!RemovePhoto
        <4> QED  BY <4>1 DEF FormTypes
      <3> QED  BY <3>1, <3>2
    <2>4. Distinct(photos')
      <3>1. CASE \E f \in Photos : Form!WebAddPhoto(f) \/ Form!PhoneAddPhoto(f)
        BY <1>0, <3>1, QueueSteps DEF FormTypes, Form!WebAddPhoto, Form!PhoneAddPhoto
      <3>2. CASE \E f \in Photos : Form!WebRemovePhoto(f) \/ Form!PhoneRemovePhoto(f)
        <4>1. PICK i \in 1..Len(photos) : photos' = RemoveAt(photos, i)
          BY <3>2 DEF Form!WebRemovePhoto, Form!PhoneRemovePhoto, Form!RemovePhoto,
             Form!RemoveAt, RemoveAt
        <4> QED  BY <1>0, <4>1, QueueSteps DEF FormTypes
      <3>3. CASE UNCHANGED photos
        BY <3>3 DEF FormTypes
      <3>4. \/ UNCHANGED photos
            \/ \E f \in Photos : Form!WebAddPhoto(f) \/ Form!PhoneAddPhoto(f)
            \/ \E f \in Photos : Form!WebRemovePhoto(f) \/ Form!PhoneRemovePhoto(f)
        BY <1>1 DEF FillStep, Form!WebApplySource, Form!PhoneApplySource, Form!ApplySource,
           Form!WebChooseAnother, Form!PhoneChooseAnother, Form!ChooseAnother, Form!WebLeave,
           Form!PhoneLeave, Form!Leave, Form!WebType, Form!PhoneType
      <3> QED  BY <3>1, <3>2, <3>3, <3>4
    <2> QED  BY <2>1, <2>2, <2>3, <2>4 DEF FormTypes, Form!Live
  <1>2. ASSUME Form!WebSubmit \/ Form!PhoneSubmit
        PROVE  FormTypes'
    BY <1>2 DEF Form!WebSubmit, Form!PhoneSubmit, Form!Save, FormTypes, Form!Live, Distinct
  <1>3. ASSUME CallStep
        PROVE  FormTypes'
    <2>1. PICK step \in {"checked", "rejected", "lost", "attaching"} :
             /\ Form!Step(step) /\ call # None
             /\ UNCHANGED <<client, origin, products, source, photos, keys, told, saved, page>>
      BY <1>3 DEF CallStep, Form!AssertCanCreate, Form!Lose, Form!Created, Form!At
    <2>2. call'.photos = call.photos
      BY <2>1, FormStepIs
    <2> QED  BY <2>1, <2>2 DEF FormTypes, Form!Live
  <1>4. ASSUME Form!CreateProduct
        PROVE  FormTypes'
    <2>1. /\ call # None /\ call.draft \in Form!Draft
          /\ UNCHANGED <<client, origin, source, photos, keys, told, saved, page>>
      BY <1>0, <1>4 DEF Form!CreateProduct, Form!At, FormCalls
    <2>2. \/ UNCHANGED products
          \/ /\ products' = products \cup {Form!Row(call.key, call.draft)}
             /\ \A p \in Form!Live : p.draft.name # call.draft.name
      BY <1>4 DEF Form!CreateProduct
    <2>3. PICK step \in {"created", "rejected"} : Form!Step(step)
      BY <1>4 DEF Form!CreateProduct
    <2>4. call'.photos = call.photos
      BY <2>1, <2>3, FormStepIs
    <2>5. (\A p, q \in Form!Live : p.draft.name = q.draft.name => p = q)'
      <3>1. Form!Row(call.key, call.draft).draft = call.draft
        BY DEF Form!Row
      <3> QED  BY <2>2, <3>1 DEF FormTypes, Form!Live
    <2> QED  BY <2>1, <2>4, <2>5 DEF FormTypes
  <1>5. ASSUME Form!AttachNext
        PROVE  FormTypes'
    <2>1. UNCHANGED <<client, origin, source, photos, keys, call, told, saved, page>>
      BY <1>5 DEF Form!AttachNext
    <2>2. PICK p \in products :
             ~p.archived /\ \E f : products' = (products \ {p}) \cup {Form!Attach(p, f)}
      BY <1>5 DEF Form!AttachNext, Form!Of
    <2>3. PICK r : products' = (products \ {p}) \cup {r} /\ r.draft = p.draft
      <3>1. PICK f : products' = (products \ {p}) \cup {Form!Attach(p, f)}
        BY <2>2
      <3>2. Form!Attach(p, f).draft = p.draft
        BY <1>0 DEF Form!Attach, FormRows
      <3> QED  BY <3>1, <3>2, Zenon
    <2>4. p \in Form!Live /\ \A u \in Form!Live' : u = r \/ (u \in Form!Live /\ u # p)
      BY <2>2, <2>3 DEF Form!Live
    <2>5. (\A u, v \in Form!Live : u.draft.name = v.draft.name => u = v)'
      BY <2>3, <2>4 DEF FormTypes
    <2> QED  BY <2>1, <2>5 DEF FormTypes
  <1>6. ASSUME EndStep
        PROVE  FormTypes'
    <2>1. UNCHANGED <<client, origin, products, source, photos>>
      BY <1>6 DEF EndStep, Form!WebSaved, Form!PhoneSaved, Form!Saved, Form!WebFailed, Form!PhoneFailed
    <2>2. /\ call' = None /\ (saved' = saved \/ (saved' = call /\ call # None))
          /\ page' \in {page, "saved"} /\ told' \in {told, "nothing", "rejected", "offline"}
          /\ keys' = keys \/ (keys < MaxKeys /\ keys' = keys + 1)
      BY <1>6 DEF EndStep, Form!WebSaved, Form!PhoneSaved, Form!Saved, Form!WebFailed,
         Form!PhoneFailed, Form!At, Form!NewKey
    <2>3. keys' <= MaxKeys
      BY <1>0, <2>2 DEF FormTypes
    <2> QED  BY <2>1, <2>2, <2>3 DEF FormTypes, Form!Live
  <1>7. ASSUME NEW n \in Names, Form!OthersCreate(n)
        PROVE  FormTypes'
    <2>1. UNCHANGED <<client, origin, source, photos, keys, call, told, saved, page>>
      BY <1>7 DEF Form!OthersCreate
    <2>2. PICK r : r = Form!Row(0, [name |-> n, quantity |-> 0])
      OBVIOUS
    <2>3. r.draft.name = n
      BY <2>2 DEF Form!Row
    <2>4. products' = products \cup {r} /\ \A p \in Form!Live : p.draft.name # n
      BY <1>7, <2>2 DEF Form!OthersCreate
    <2>5. (\A u, v \in Form!Live : u.draft.name = v.draft.name => u = v)'
      BY <2>3, <2>4 DEF FormTypes, Form!Live
    <2> QED  BY <2>1, <2>5 DEF FormTypes
  <1>8. ASSUME NEW p \in products, Form!OthersArchive(p)
        PROVE  FormTypes'
    <2>1. UNCHANGED <<client, origin, source, photos, keys, call, told, saved, page>>
      BY <1>8 DEF Form!OthersArchive
    <2>2. PICK r : r = [p EXCEPT !.archived = TRUE]
      OBVIOUS
    <2>3. r.archived
      BY <1>0, <2>2 DEF FormRows
    <2>4. \A u \in products' : u = r \/ u \in products
      BY <1>8, <2>2 DEF Form!OthersArchive
    <2>5. (\A u, v \in Form!Live : u.draft.name = v.draft.name => u = v)'
      BY <2>3, <2>4 DEF FormTypes, Form!Live
    <2> QED  BY <2>1, <2>5 DEF FormTypes
  <1>9. ASSUME UNCHANGED Form!vars
        PROVE  FormTypes'
    BY <1>9 DEF Form!vars, FormTypes, Form!Live, Distinct
  <1> QED  BY <1>1, <1>2, <1>3, <1>4, <1>5, <1>6, <1>7, <1>8, <1>9
           DEF Form!Next, FillStep, CallStep, EndStep

\* The form and the catalogue behind it keep their types: no two products that are
\* live share a name, whoever made them, and no queue has a photo twice.
THEOREM FormIsTyped ==
    ASSUME Form!FormAssumption
    PROVE  Form!Spec => []Form!TypeOK
  <1>1. Form!Init => FormInv /\ FormTypes
    BY FormInit, FormTypesInit
  <1>2. FormInv /\ FormTypes /\ [Form!Next]_(Form!vars) => (FormInv /\ FormTypes)'
    BY FormNext, FormTypesNext
  <1>3. FormInv /\ FormTypes => Form!TypeOK
    BY FormTypesGive
  <1> QED  BY <1>1, <1>2, <1>3, PTL DEF Form!Spec

----------------------------------------------------------------------------
(* The columns of a product.                                               *)

\* What was typed is in the draft, and in a save as it was sent.  Nothing is
\* typed before the form is filled, nor in a column that does not exist or that
\* the form is just creating: so nothing that fills the draft writes over it.
TypedInv ==
    /\ \A f \in Columns : typed[f] # None => loaded /\ fields[f] # "none" /\ columnDraft[f] = typed[f]
    /\ \A f \in Columns : f \in Column!Known => fields[f] # "none"
    /\ sheet # None => typed[sheet.column] = None
    /\ save # None => \A f \in Columns : save.typed[f] # None => save.draft[f] = save.typed[f]
    /\ save # None => loaded

ColumnInv ==
    /\ fields \in [Columns -> {"none", "active", "inactive"}]
    /\ mine \in Column!Attributes /\ columnDraft \in Column!Attributes /\ typed \in Column!Typing
    /\ loaded \in BOOLEAN /\ (loaded => product \in Column!Attributes)
    /\ schema \in (SUBSET Columns) \cup {None}
    /\ save \in Column!Save \cup {None}
    /\ sheet \in [column : Columns, step : {"sent", "checked", "ok", "error"}] \cup {None}
    /\ TypedInv

\* It holds at first.
LEMMA ColumnInit == Column!ColumnAssumption /\ Column!Init => ColumnInv
  <1> SUFFICES ASSUME Column!Init PROVE ColumnInv
    OBVIOUS
  <1>1. /\ mine \in Column!Attributes /\ schema = None /\ loaded = FALSE /\ save = None /\ sheet = None
        /\ columnDraft = [f \in Columns |-> Blank] /\ typed = [f \in Columns |-> None]
    BY DEF Column!Init, Column!Empty, Column!Untyped
  <1>2. fields \in [Columns -> {"none", "active", "inactive"}]
    <2>1. PICK f \in Columns : fields = [g \in Columns |-> IF g = f THEN "active" ELSE "none"]
      BY DEF Column!Init
    <2> QED  BY <2>1
  <1>3. columnDraft \in Column!Attributes /\ typed \in Column!Typing
    BY <1>1 DEF Column!Attributes, Column!Typing
  <1>4. TypedInv
    BY <1>1 DEF TypedInv, Column!Known
  <1>5. (loaded => product \in Column!Attributes) /\ loaded \in BOOLEAN
    BY <1>1
  <1>6. /\ schema \in (SUBSET Columns) \cup {None} /\ save \in Column!Save \cup {None}
        /\ sheet \in [column : Columns, step : {"sent", "checked", "ok", "error"}] \cup {None}
    BY <1>1
  <1> QED  BY <1>1, <1>2, <1>3, <1>4, <1>5, <1>6 DEF ColumnInv

Edits == Column!SavesTyped /\ Column!KeepsInactive

\* A step that leaves the save, or ends it, updates nothing.
LEMMA NoUpdate == ASSUME save' = save \/ save' = None \/ save = None PROVE Edits
  BY DEF Edits, Column!SavesTyped, Column!KeepsInactive, Column!Updates

\* The form is filled, typed in or read.
EditorStep ==
    \/ Column!FetchSchema \/ Column!WebFetchProduct \/ Column!PhoneFetchProduct
    \/ \E f \in Columns, v \in Values \cup {Blank} :
          Column!WebTypeColumn(f, v) \/ Column!PhoneTypeColumn(f, v)

LEMMA EditorKeeps ==
    ASSUME ColumnInv, EditorStep
    PROVE  ColumnInv' /\ Edits
  <1> USE DEF Column!server
  <1>1. CASE Column!FetchSchema
    <2>1. /\ schema' = Column!Active
          /\ UNCHANGED <<fields, mine, product, loaded, columnDraft, typed, save, sheet>>
      BY <1>1 DEF Column!FetchSchema
    <2>2. Column!Known' \subseteq Column!Active
      BY <2>1 DEF Column!Known
    <2>3. ColumnInv'
      BY <2>1, <2>2 DEF ColumnInv, TypedInv, Column!Active
    <2> QED  BY <2>1, <2>3, NoUpdate
  <1>2. CASE Column!WebFetchProduct \/ Column!PhoneFetchProduct
    <2>1. /\ product' = mine /\ UNCHANGED <<fields, mine, schema, typed, save, sheet>>
          /\ IF loaded THEN UNCHANGED <<loaded,
                                        columnDraft>> ELSE loaded' = TRUE /\ columnDraft' = mine
      BY <1>2 DEF Column!WebFetchProduct, Column!PhoneFetchProduct, Column!Hydrate
    <2>2. TypedInv'
      BY <2>1 DEF ColumnInv, TypedInv, Column!Known
    <2>3. ColumnInv'
      BY <2>1, <2>2 DEF ColumnInv
    <2> QED  BY <2>1, <2>3, NoUpdate
  <1>3. ASSUME NEW f \in Columns, NEW v \in Values \cup {Blank},
               Column!WebTypeColumn(f, v) \/ Column!PhoneTypeColumn(f, v)
        PROVE  ColumnInv' /\ Edits
    <2>1. /\ loaded /\ sheet = None /\ f \in Column!Known
          /\ columnDraft' = [columnDraft EXCEPT ![f] = v] /\ typed' = [typed EXCEPT ![f] = v]
          /\ UNCHANGED <<fields, mine, schema, product, loaded, save, sheet>>
      BY <1>3 DEF Column!WebTypeColumn, Column!PhoneTypeColumn
    <2>2. columnDraft' \in Column!Attributes /\ typed' \in Column!Typing
      BY <2>1 DEF ColumnInv, Column!Attributes, Column!Typing
    <2>3. TypedInv'
      BY <2>1 DEF ColumnInv, TypedInv, Column!Known, Column!Attributes, Column!Typing
    <2>4. ColumnInv'
      BY <2>1, <2>2, <2>3 DEF ColumnInv
    <2> QED  BY <2>1, <2>4, NoUpdate
  <1> QED  BY <1>1, <1>2, <1>3 DEF EditorStep

\* The product is saved.
SaveStep ==
    Column!WebSave \/ Column!PhoneSave \/ Column!UpdateProduct \/ Column!SaveAnswered

LEMMA ColumnSaveKeeps ==
    ASSUME ColumnInv, SaveStep
    PROVE  ColumnInv' /\ Edits
  <1> USE DEF Column!server, Column!editor
  <1>1. CASE Column!WebSave \/ Column!PhoneSave
    <2> DEFINE s == [known |-> Column!Known, draft |-> columnDraft, typed |-> typed, step |-> "sent"]
    <2>1. /\ save = None /\ save' = s /\ loaded
          /\ UNCHANGED <<fields, mine, schema, product, loaded, columnDraft, typed, sheet>>
      BY <1>1 DEF Column!WebSave, Column!PhoneSave, Column!Submit
    <2>2. s \in Column!Save /\ s.draft = columnDraft /\ s.typed = typed
      <3>1. Column!Known \in SUBSET Columns
        <4>1. CASE schema = None
          BY <4>1 DEF Column!Known
        <4>2. CASE schema # None
          BY <4>2 DEF ColumnInv, Column!Known
        <4> QED  BY <4>1, <4>2
      <3> QED  BY <3>1 DEF ColumnInv, Column!Save
    <2> HIDE DEF s
    <2>3. ColumnInv'
      BY <2>1, <2>2 DEF ColumnInv, TypedInv, Column!Known
    <2> QED  BY <2>1, <2>3, NoUpdate
  <1>2. CASE Column!UpdateProduct
    <2> DEFINE s == [save EXCEPT !.step = IF Column!Accepted THEN "ok" ELSE "error"]
    <2>1. /\ save # None /\ save' = s
          /\ mine' = IF Column!Accepted THEN Column!Stored ELSE mine
          /\ UNCHANGED <<fields, schema, product, loaded, columnDraft, typed, sheet>>
      BY <1>2 DEF Column!UpdateProduct
    <2>2. /\ s \in Column!Save /\ s.draft = save.draft /\ s.typed = save.typed
          /\ ~Column!Accepted => s.step = "error"
          /\ save.draft \in Column!Attributes
      BY <2>1 DEF ColumnInv, Column!Save
    <2> HIDE DEF s
    <2>3. Column!Stored \in Column!Attributes
      BY <2>2 DEF ColumnInv, Column!Stored, Column!Attributes, Column!Sent
    <2>4. ColumnInv'
      BY <2>1, <2>2, <2>3 DEF ColumnInv, TypedInv, Column!Known
    <2>5. ASSUME Column!Accepted
          PROVE  Edits
      <3>1. \A f \in Columns : mine'[f] = IF f \in Column!Active THEN Column!Sent(f) ELSE mine[f]
        BY <2>1, <2>5 DEF Column!Stored
      <3>2. \A f \in Columns : f \in save.known => Column!Sent(f) = save.draft[f]
        BY DEF Column!Sent
      <3> QED  BY <2>1, <3>1, <3>2 DEF ColumnInv, TypedInv, Edits, Column!SavesTyped,
                 Column!KeepsInactive, Column!Active
    <2>6. ASSUME ~Column!Accepted
          PROVE  Edits
      BY <2>1, <2>2, <2>6 DEF Edits, Column!SavesTyped, Column!KeepsInactive, Column!Updates
    <2> QED  BY <2>4, <2>5, <2>6
  <1>3. CASE Column!SaveAnswered
    <2>1. /\ save' = None /\ UNCHANGED <<fields, mine, schema, product, sheet>>
          /\ \/ loaded' = TRUE /\ columnDraft' = product /\ typed' = Column!Untyped
             \/ UNCHANGED <<loaded, columnDraft, typed>>
      BY <1>3 DEF Column!SaveAnswered
    <2>2. ColumnInv'
      <3>1. CASE UNCHANGED <<loaded, columnDraft, typed>>
        BY <2>1, <3>1 DEF ColumnInv, TypedInv, Column!Known
      <3>2. CASE loaded' = TRUE /\ columnDraft' = product /\ typed' = Column!Untyped
        <4>1. product \in Column!Attributes
          BY <1>3 DEF Column!SaveAnswered, ColumnInv, TypedInv
        <4>2. typed' \in Column!Typing /\ \A f \in Columns : typed'[f] = None
          BY <3>2 DEF Column!Untyped, Column!Typing
        <4> QED  BY <2>1, <3>2, <4>1, <4>2 DEF ColumnInv, TypedInv, Column!Known
      <3> QED  BY <2>1, <3>1, <3>2
    <2> QED  BY <2>1, <2>2, NoUpdate
  <1> QED  BY <1>1, <1>2, <1>3 DEF SaveStep

\* A column is created.
SheetStep ==
    \/ \E f \in Columns : Column!WebCreateColumn(f) \/ Column!PhoneCreateColumn(f)
    \/ Column!AssertActiveSlot \/ Column!CreateColumn \/ Column!ColumnAnswered

LEMMA BackfilledIs ==
    ASSUME NEW a \in Column!Attributes, NEW f \in Columns, NEW v \in Values
    PROVE  Column!Backfilled(a, f, v) \in Column!Attributes
  BY DEF Column!Backfilled, Column!Attributes

LEMMA SheetKeeps ==
    ASSUME ColumnInv, SheetStep
    PROVE  ColumnInv' /\ Edits
  <1> USE DEF Column!server, Column!editor
  <1>1. ASSUME NEW f \in Columns, Column!WebCreateColumn(f) \/ Column!PhoneCreateColumn(f)
        PROVE  ColumnInv' /\ Edits
    <2>1. /\ fields[f] = "none" /\ sheet' = [column |-> f, step |-> "sent"]
          /\ UNCHANGED <<fields, mine, schema, product, loaded, columnDraft, typed, save>>
      BY <1>1 DEF Column!WebCreateColumn, Column!PhoneCreateColumn
    <2>2. ColumnInv'
      BY <2>1 DEF ColumnInv, TypedInv, Column!Known
    <2> QED  BY <2>1, <2>2, NoUpdate
  <1>2. ASSUME sheet # None, sheet'.column = sheet.column,
               sheet' \in [column : Columns, step : {"sent", "checked", "ok", "error"}],
               UNCHANGED <<schema, product, loaded, columnDraft, typed, save>>,
               mine' \in Column!Attributes,
               fields' = fields \/ fields' = [fields EXCEPT ![sheet.column] = "active"]
        PROVE  ColumnInv' /\ Edits
    <2>1. /\ fields' \in [Columns -> {"none", "active", "inactive"}]
          /\ \A f \in Columns : fields[f] # "none" => fields'[f] # "none"
      BY <1>2 DEF ColumnInv
    <2>2. ColumnInv'
      BY <1>2, <2>1 DEF ColumnInv, TypedInv, Column!Known
    <2> QED  BY <1>2, <2>2, NoUpdate
  <1>3. \A step \in {"checked", "ok", "error"} : sheet # None =>
           /\ [sheet EXCEPT !.step = step] \in [column : Columns, step : {"sent", "checked", "ok", "error"}]
           /\ [sheet EXCEPT !.step = step].column = sheet.column
    BY DEF ColumnInv
  <1>4. CASE Column!AssertActiveSlot
    <2>1. PICK step \in {"checked", "error"} : sheet' = [sheet EXCEPT !.step = step]
      BY <1>4 DEF Column!AssertActiveSlot
    <2>2. sheet # None /\ UNCHANGED <<fields, mine, schema, product, loaded, columnDraft, typed,
                                      save>>
      BY <1>4 DEF Column!AssertActiveSlot
    <2> QED  BY <1>2, <1>3, <2>1, <2>2 DEF ColumnInv
  <1>5. CASE Column!CreateColumn
    <2>1. /\ sheet # None /\ UNCHANGED <<schema, product, loaded, columnDraft, typed, save>>
          /\ \/ sheet' = [sheet EXCEPT !.step = "error"] /\ UNCHANGED <<fields, mine>>
             \/ /\ sheet' = [sheet EXCEPT !.step = "ok"]
                /\ fields' = [fields EXCEPT ![sheet.column] = "active"]
                /\ \E v \in Values : mine' = Column!Backfilled(mine, sheet.column, v)
      BY <1>5 DEF Column!CreateColumn
    <2>2. mine' \in Column!Attributes
      BY <2>1, BackfilledIs DEF ColumnInv
    <2> QED  BY <1>2, <1>3, <2>1, <2>2
  <1>6. CASE Column!ColumnAnswered
    <2>1. /\ sheet # None /\ sheet' = None
          /\ UNCHANGED <<fields, mine, schema, product, loaded, typed, save>>
          /\ columnDraft' = [columnDraft EXCEPT ![sheet.column] = Blank] \/ columnDraft' = columnDraft
      BY <1>6 DEF Column!ColumnAnswered
    <2>2. columnDraft' \in Column!Attributes
      BY <2>1 DEF ColumnInv, Column!Attributes
    <2>3. TypedInv'
      BY <2>1 DEF ColumnInv, TypedInv, Column!Known, Column!Attributes
    <2> QED  BY <2>1, <2>2, <2>3, NoUpdate DEF ColumnInv
  <1> QED  BY <1>1, <1>4, <1>5, <1>6 DEF SheetStep

\* A column is switched, or another seller changes columns and products.
OthersStep ==
    \/ \E f \in Columns : \/ Column!Deactivate(f) \/ Column!Reactivate(f) \/ Column!OthersCreateColumn(f)
                          \/ \E v \in Values : Column!OthersWrite(f, v)
    \/ Column!OthersCreateProduct

LEMMA OthersKeep ==
    ASSUME ColumnInv, OthersStep
    PROVE  ColumnInv' /\ Edits
  <1> USE DEF Column!server, Column!editor
  <1>1. UNCHANGED <<schema, product, loaded, columnDraft, typed, save, sheet>>
    BY DEF OthersStep, Column!Deactivate, Column!Reactivate, Column!OthersCreateColumn,
       Column!OthersWrite, Column!OthersCreateProduct
  <1>2. mine' \in Column!Attributes
    <2>1. CASE UNCHANGED mine
      BY <2>1 DEF ColumnInv
    <2>2. ASSUME NEW f \in Columns, NEW v \in Values,
                 mine' = Column!Backfilled(mine, f, v) \/ mine' = [mine EXCEPT ![f] = v]
          PROVE  mine' \in Column!Attributes
      <3>1. CASE mine' = Column!Backfilled(mine, f, v)
        BY <3>1, BackfilledIs DEF ColumnInv
      <3>2. CASE mine' = [mine EXCEPT ![f] = v]
        BY <3>2 DEF ColumnInv, Column!Attributes
      <3> QED  BY <2>2, <3>1, <3>2
    <2> QED  BY <2>1, <2>2 DEF OthersStep, Column!Deactivate, Column!Reactivate,
               Column!OthersCreateColumn, Column!OthersWrite, Column!OthersCreateProduct
  <1>3. \/ fields' = fields
        \/ \E f \in Columns : fields' = [fields EXCEPT ![f] = "active"] \/ fields' = [fields EXCEPT ![f] = "inactive"]
    BY DEF OthersStep, Column!Deactivate, Column!Reactivate, Column!OthersCreateColumn,
       Column!OthersWrite, Column!OthersCreateProduct
  <1>4. /\ fields' \in [Columns -> {"none", "active", "inactive"}]
        /\ \A f \in Columns : fields[f] # "none" => fields'[f] # "none"
    BY <1>3 DEF ColumnInv
  <1>5. ColumnInv'
    BY <1>1, <1>2, <1>4 DEF ColumnInv, TypedInv, Column!Known
  <1> QED  BY <1>1, <1>5, NoUpdate

\* Every step keeps the invariant, and an update what was typed and what is inactive.
LEMMA ColumnNext == ColumnInv /\ [Column!Next]_(Column!vars) => ColumnInv' /\ Edits
  <1> SUFFICES ASSUME ColumnInv, [Column!Next]_(Column!vars) PROVE ColumnInv' /\ Edits
    OBVIOUS
  <1>1. CASE UNCHANGED Column!vars
    BY <1>1, NoUpdate DEF Column!vars, ColumnInv, TypedInv, Column!Known
  <1>2. CASE EditorStep
    BY <1>2, EditorKeeps
  <1>3. CASE SaveStep
    BY <1>3, ColumnSaveKeeps
  <1>4. CASE SheetStep
    BY <1>4, SheetKeeps
  <1>5. CASE OthersStep
    BY <1>5, OthersKeep
  <1> QED  BY <1>1, <1>2, <1>3, <1>4, <1>5 DEF Column!Next, EditorStep, SaveStep, SheetStep, OthersStep

\* A save stores what was typed, and keeps the values of inactive columns.
THEOREM EditsKeepColumns ==
    ASSUME Column!ColumnAssumption
    PROVE  Column!Spec => [][Column!SavesTyped /\ Column!KeepsInactive]_(Column!vars)
  BY ColumnInit, ColumnNext, PTL DEF Column!Spec, Edits

\* The rest of the types: a product has no value in a column that does not exist.
ColumnTypes ==
    /\ client \in Apps
    /\ other \in Column!Attributes \cup {None} /\ product \in Column!Attributes \cup {None}
    /\ \A f \in Columns : fields[f] = "none" => mine[f] = Blank

LEMMA ColumnTypesInit == Column!Init => ColumnTypes
  <1> SUFFICES ASSUME Column!Init PROVE ColumnTypes
    OBVIOUS
  <1>1. \A f \in Columns : fields[f] = "none" => mine[f] = Blank
    BY DEF Column!Init, Column!Active
  <1> QED  BY <1>1 DEF Column!Init, ColumnTypes

\* Every step keeps them.
LEMMA ColumnTypesNext ==
    ASSUME ColumnInv, ColumnTypes, [Column!Next]_(Column!vars)
    PROVE  ColumnTypes'
  <1> USE DEF Column!server, Column!editor
  <1>0. /\ fields \in [Columns -> {"none", "active", "inactive"}]
        /\ mine \in Column!Attributes /\ save \in Column!Save \cup {None}
        /\ sheet \in [column : Columns, step : {"sent", "checked", "ok", "error"}] \cup {None}
    BY DEF ColumnInv
  <1>1. CASE EditorStep
    <2>1. /\ UNCHANGED <<client, fields, mine, other>>
          /\ product' = product \/ product' = mine
      BY <1>1 DEF EditorStep, Column!FetchSchema, Column!WebFetchProduct, Column!PhoneFetchProduct,
         Column!WebTypeColumn, Column!PhoneTypeColumn
    <2> QED  BY <1>0, <2>1 DEF ColumnTypes
  <1>2. CASE Column!WebSave \/ Column!PhoneSave \/ Column!SaveAnswered
    <2>1. UNCHANGED <<client, fields, mine, other, product>>
      BY <1>2 DEF Column!WebSave, Column!PhoneSave, Column!SaveAnswered
    <2> QED  BY <2>1 DEF ColumnTypes
  <1>3. CASE Column!UpdateProduct
    <2>1. /\ UNCHANGED <<client, fields, other, product>>
          /\ mine' = mine \/ mine' = Column!Stored
      BY <1>3 DEF Column!UpdateProduct
    <2>2. \A f \in Columns : fields[f] = "none" => Column!Stored[f] = mine[f]
      BY DEF Column!Stored, Column!Active
    <2> QED  BY <2>1, <2>2 DEF ColumnTypes
  <1>4. ASSUME NEW f \in Columns, NEW v \in Values, UNCHANGED <<client, product>>,
               fields' = [fields EXCEPT ![f] = "active"],
               mine' = Column!Backfilled(mine, f, v),
               other' = IF other = None THEN None ELSE Column!Backfilled(other, f, v)
        PROVE  ColumnTypes'
    <2>1. \A g \in Columns : g # f => mine'[g] = mine[g] /\ fields'[g] = fields[g]
      BY <1>0, <1>4 DEF Column!Backfilled, Column!Attributes
    <2>2. fields'[f] = "active"
      BY <1>0, <1>4
    <2>3. other' \in Column!Attributes \cup {None}
      BY <1>4, BackfilledIs DEF ColumnTypes
    <2> QED  BY <1>4, <2>1, <2>2, <2>3 DEF ColumnTypes
  <1>5. CASE SheetStep
    <2>1. CASE Column!CreateColumn
      <3>1. CASE UNCHANGED <<fields, mine, other>>
        BY <2>1, <3>1 DEF Column!CreateColumn, ColumnTypes
      <3>2. CASE ~UNCHANGED <<fields, mine, other>>
        <4>1. /\ sheet # None /\ UNCHANGED <<client, product>>
              /\ fields' = [fields EXCEPT ![sheet.column] = "active"]
              /\ \E v \in Values :
                    /\ mine' = Column!Backfilled(mine, sheet.column, v)
                    /\ other' = IF other = None THEN None ELSE Column!Backfilled(other, sheet.column, v)
          BY <2>1, <3>2 DEF Column!CreateColumn
        <4>2. sheet.column \in Columns
          BY <1>0, <4>1
        <4> QED  BY <1>4, <4>1, <4>2
      <3> QED  BY <3>1, <3>2
    <2>2. CASE ~Column!CreateColumn
      <3>1. UNCHANGED <<client, fields, mine, other, product>>
        BY <1>5, <2>2 DEF SheetStep, Column!WebCreateColumn, Column!PhoneCreateColumn,
           Column!AssertActiveSlot, Column!ColumnAnswered
      <3> QED  BY <3>1 DEF ColumnTypes
    <2> QED  BY <2>1, <2>2
  <1>6. ASSUME NEW f \in Columns, Column!OthersCreateColumn(f)
        PROVE  ColumnTypes'
    BY <1>4, <1>6 DEF Column!OthersCreateColumn
  <1>7. ASSUME NEW f \in Columns, Column!Deactivate(f) \/ Column!Reactivate(f)
        PROVE  ColumnTypes'
    BY <1>0, <1>7 DEF Column!Deactivate, Column!Reactivate, ColumnTypes
  <1>8. ASSUME NEW f \in Columns, NEW v \in Values, Column!OthersWrite(f, v)
        PROVE  ColumnTypes'
    <2>1. /\ UNCHANGED <<client, fields, other, product>> /\ fields[f] = "active"
          /\ mine' = [mine EXCEPT ![f] = v]
      BY <1>8 DEF Column!OthersWrite, Column!Active
    <2>2. \A g \in Columns : g # f => mine'[g] = mine[g]
      BY <1>0, <2>1 DEF Column!Attributes
    <2> QED  BY <2>1, <2>2 DEF ColumnTypes
  <1>9. CASE Column!OthersCreateProduct
    <2>1. PICK v \in Values :
             other' = [f \in Columns |-> IF f \in Column!Active \cap Required THEN v ELSE Blank]
      BY <1>9 DEF Column!OthersCreateProduct
    <2>2. other' \in Column!Attributes
      BY <2>1 DEF Column!Attributes
    <2>3. UNCHANGED <<client, fields, mine, product>>
      BY <1>9 DEF Column!OthersCreateProduct
    <2> QED  BY <2>2, <2>3 DEF ColumnTypes
  <1>10. CASE UNCHANGED Column!vars
    BY <1>10 DEF Column!vars, ColumnTypes
  <1>11. SheetStep <=> \/ \E f \in Columns : Column!WebCreateColumn(f) \/ Column!PhoneCreateColumn(f)
                       \/ Column!AssertActiveSlot \/ Column!CreateColumn \/ Column!ColumnAnswered
    BY DEF SheetStep
  <1> QED  BY <1>1, <1>2, <1>3, <1>5, <1>6, <1>7, <1>8, <1>9, <1>10, <1>11 DEF Column!Next, EditorStep

\* The columns and the form that edits them keep their types: a product has no
\* value in a column that does not exist.
THEOREM ColumnsAreTyped ==
    ASSUME Column!ColumnAssumption
    PROVE  Column!Spec => []Column!TypeOK
  <1>1. ColumnInv /\ ColumnTypes => Column!TypeOK
    BY DEF ColumnInv, ColumnTypes, Column!TypeOK
  <1>2. ColumnInv /\ ColumnTypes /\ [Column!Next]_(Column!vars) => (ColumnInv /\ ColumnTypes)'
    BY ColumnNext, ColumnTypesNext
  <1> QED  BY <1>1, <1>2, ColumnInit, ColumnTypesInit, PTL DEF Column!Spec

----------------------------------------------------------------------------
(* The gallery of a product.                                               *)

\* A photo is in the gallery once, and one whose upload has not been attached is
\* not in it; every upload has an asset of its own.
GalleryInv ==
    /\ gallery \in Seq(Nat) /\ assets \in Nat /\ MaxImages \in Nat
    /\ \A i \in 1..Len(gallery) : gallery[i] <= assets
    /\ \A i, j \in 1..Len(gallery) : gallery[i] = gallery[j] => i = j
    /\ upload \in [Pages -> [asset : Nat, makePrimary : BOOLEAN,
                             step : {"sent", "put", "ok", "error"}] \cup {None}]
    /\ \A p \in Pages : upload[p] # None => upload[p].asset <= assets
    /\ \A p, q \in Pages : upload[p] # None /\ upload[q] # None /\ upload[p].asset = upload[q].asset => p = q
    /\ \A p \in Pages : upload[p] # None /\ upload[p].step \in {"sent", "put"} =>
          \A i \in 1..Len(gallery) : gallery[i] # upload[p].asset
    /\ Gallery!LimitHolds /\ Gallery!PrimaryInGallery

\* It holds at first.
LEMMA GalleryInit == Gallery!GalleryAssumption /\ Gallery!Init => GalleryInv
  BY DEF Gallery!GalleryAssumption, Gallery!Init, GalleryInv, Gallery!LimitHolds, Gallery!PrimaryInGallery

\* A page begins an upload, or one goes on before it is attached or after.
LEMMA UploadKeeps ==
    ASSUME GalleryInv, NEW p \in Pages,
           \/ Gallery!Begin(p) \/ Gallery!UploadPrivateFile(p) \/ Gallery!Lose(p)
           \/ Gallery!UploadFailed(p) \/ Gallery!UploadOK(p)
    PROVE  GalleryInv' /\ Gallery!ReplacesMain
  <1>1. CASE Gallery!Begin(p)
    <2> DEFINE u == [asset |-> assets + 1, makePrimary |-> shown[p] = <<>>, step |-> "sent"]
    <2>1. /\ upload' = [upload EXCEPT ![p] = u] /\ assets' = assets + 1 /\ assets \in Nat
          /\ UNCHANGED <<gallery, primary>>
      BY <1>1 DEF Gallery!Begin, GalleryInv
    <2>2. /\ u \in [asset : Nat, makePrimary : BOOLEAN, step : {"sent", "put", "ok", "error"}]
          /\ u.asset = assets + 1
      BY <2>1
    <2> HIDE DEF u
    <2>3. GalleryInv'
      BY <2>1, <2>2 DEF GalleryInv, Gallery!LimitHolds, Gallery!PrimaryInGallery, Gallery!Contains
    <2> QED  BY <2>1, <2>3 DEF Gallery!ReplacesMain
  <1>2. CASE \/ Gallery!UploadPrivateFile(p) \/ Gallery!Lose(p)
             \/ Gallery!UploadFailed(p) \/ Gallery!UploadOK(p)
    <2>1. /\ UNCHANGED <<gallery, primary, assets>> /\ upload[p] # None
          /\ \/ upload' = [upload EXCEPT ![p] = None]
             \/ upload[p].step = "sent" /\ upload' = [upload EXCEPT ![p].step = "put"]
             \/ upload' = [upload EXCEPT ![p].step = "error"]
      BY <1>2 DEF Gallery!UploadPrivateFile, Gallery!Lose, Gallery!UploadFailed, Gallery!UploadOK
    <2>2. GalleryInv'
      <3>1. /\ upload' \in [Pages -> [asset : Nat, makePrimary : BOOLEAN,
                                       step : {"sent", "put", "ok", "error"}] \cup {None}]
            /\ \A q \in Pages : upload'[q] # None =>
                  /\ upload[q] # None /\ upload'[q].asset = upload[q].asset
                  /\ upload'[q].step \in {"sent", "put"} => upload[q].step \in {"sent", "put"}
        BY <2>1 DEF GalleryInv
      <3> QED  BY <2>1, <3>1 DEF GalleryInv, Gallery!LimitHolds, Gallery!PrimaryInGallery, Gallery!Contains
    <2> QED  BY <2>1, <2>2 DEF Gallery!ReplacesMain
  <1> QED  BY <1>1, <1>2

\* A photo is attached.
LEMMA AttachKeeps ==
    ASSUME GalleryInv, NEW p \in Pages, Gallery!AttachProductMedia(p)
    PROVE  GalleryInv' /\ Gallery!ReplacesMain
  <1> DEFINE a == upload[p].asset
             accepted == ~archived /\ Len(gallery) < MaxImages
  <1>1. /\ upload[p] # None /\ upload[p].step = "put" /\ assets' = assets
        /\ upload' = [upload EXCEPT ![p].step = IF accepted THEN "ok" ELSE "error"]
        /\ gallery' = IF accepted THEN Append(gallery, a) ELSE gallery
        /\ primary' = IF accepted /\ (upload[p].makePrimary \/ primary = None) THEN a ELSE primary
    BY DEF Gallery!AttachProductMedia
  <1>2. /\ upload' \in [Pages -> [asset : Nat, makePrimary : BOOLEAN,
                                   step : {"sent", "put", "ok", "error"}] \cup {None}]
        /\ \A q \in Pages : upload'[q] # None =>
              /\ upload[q] # None /\ upload'[q].asset = upload[q].asset
              /\ upload'[q].step \in {"sent", "put"} => q # p /\ upload[q].step \in {"sent", "put"}
    BY <1>1 DEF GalleryInv
  <1>3. /\ a \in Nat /\ a <= assets /\ gallery \in Seq(Nat) /\ Len(gallery) \in Nat
        /\ \A i \in 1..Len(gallery) : gallery[i] # a
    BY <1>1 DEF GalleryInv
  <1>4. CASE ~accepted
    <2>1. gallery' = gallery /\ primary' = primary
      BY <1>1, <1>4
    <2>2. GalleryInv'
      BY <1>1, <1>2, <2>1 DEF GalleryInv, Gallery!LimitHolds, Gallery!PrimaryInGallery, Gallery!Contains
    <2> QED  BY <2>1, <2>2 DEF Gallery!ReplacesMain
  <1>5. CASE accepted
    <2>1. /\ gallery' = Append(gallery, a) /\ Len(gallery) < MaxImages
          /\ primary' = IF upload[p].makePrimary \/ primary = None THEN a ELSE primary
      BY <1>1, <1>5
    <2>2. /\ gallery' \in Seq(Nat) /\ Len(gallery') = Len(gallery) + 1
          /\ gallery'[Len(gallery) + 1] = a
          /\ \A i \in 1..Len(gallery) : gallery'[i] = gallery[i]
      BY <1>3, <2>1
    <2>3. \A i \in 1..Len(gallery') : i \in 1..Len(gallery) \/ i = Len(gallery) + 1
      BY <1>3, <2>2
    <2> HIDE DEF a, accepted
    <2>4. /\ \A i \in 1..Len(gallery') : gallery'[i] <= assets
          /\ \A i, j \in 1..Len(gallery') : gallery'[i] = gallery'[j] => i = j
      <3>1. \A i \in 1..Len(gallery') : gallery'[i] <= assets
        BY <1>3, <2>2, <2>3 DEF GalleryInv
      <3>2. \A i \in 1..Len(gallery) : gallery'[i] # gallery'[Len(gallery) + 1]
        BY <1>3, <2>2
      <3>3. \A i, j \in 1..Len(gallery) : gallery'[i] = gallery'[j] => i = j
        BY <2>2 DEF GalleryInv
      <3> QED  BY <2>3, <3>1, <3>2, <3>3
    <2>5. Gallery!LimitHolds'
      BY <1>3, <2>1, <2>2 DEF GalleryInv, Gallery!LimitHolds
    <2>6. Gallery!PrimaryInGallery'
      <3>1. gallery' # <<>> /\ Len(gallery) + 1 \in 1..Len(gallery')
        BY <1>3, <2>2
      <3>2. Gallery!Contains(gallery', primary')
        <4>1. CASE primary' = a
          BY <2>2, <3>1, <4>1 DEF Gallery!Contains
        <4>2. CASE primary' = primary /\ primary # None
          <5>1. PICK i \in 1..Len(gallery) : gallery[i] = primary
            BY <4>2 DEF GalleryInv, Gallery!PrimaryInGallery, Gallery!Contains
          <5>2. i \in 1..Len(gallery')
            BY <1>3, <2>2, <5>1
          <5> QED  BY <2>2, <4>2, <5>1, <5>2 DEF Gallery!Contains
        <4> QED  BY <2>1, <4>1, <4>2
      <3> QED  BY <3>1, <3>2 DEF Gallery!PrimaryInGallery
    <2>7. \A q \in Pages : upload'[q] # None /\ upload'[q].step \in {"sent", "put"} =>
             \A i \in 1..Len(gallery') : gallery'[i] # upload'[q].asset
      <3>1. \A q \in Pages : upload'[q] # None /\ upload'[q].step \in {"sent", "put"} => upload'[q].asset # a
        BY <1>1, <1>2 DEF GalleryInv, a
      <3> QED  BY <1>2, <2>2, <2>3, <3>1 DEF GalleryInv
    <2>8. GalleryInv'
      <3>1. \A q \in Pages : upload'[q] # None => upload'[q].asset <= assets'
        BY <1>1, <1>2 DEF GalleryInv
      <3>2. \A q, r \in Pages :
               upload'[q] # None /\ upload'[r] # None /\ upload'[q].asset = upload'[r].asset => q = r
        BY <1>2 DEF GalleryInv
      <3>3. MaxImages \in Nat /\ assets' \in Nat /\ \A i \in 1..Len(gallery') : gallery'[i] <= assets'
        BY <1>1, <2>4 DEF GalleryInv
      <3> QED  BY <1>2, <2>2, <2>4, <2>5, <2>6, <2>7, <3>1, <3>2, <3>3 DEF GalleryInv
    <2>9. Gallery!ReplacesMain
      BY <1>1, <2>1 DEF Gallery!ReplacesMain, a
    <2> QED  BY <2>8, <2>9
  <1> QED  BY <1>4, <1>5

\* A page changes the main photo.
LEMMA MainKeeps ==
    ASSUME GalleryInv, NEW p \in Pages, NEW c \in change[p], Gallery!SetPrimary(p, c)
    PROVE  GalleryInv' /\ Gallery!ReplacesMain
  <1>1. /\ UNCHANGED <<gallery, assets, upload>> /\ c.kind = "primary"
        /\ \/ primary' = primary
           \/ primary' = c.asset /\ Gallery!Contains(gallery, primary')
    BY DEF Gallery!SetPrimary
  <1>2. Gallery!PrimaryInGallery'
    BY <1>1 DEF GalleryInv, Gallery!PrimaryInGallery, Gallery!Contains
  <1>3. GalleryInv'
    BY <1>1, <1>2 DEF GalleryInv, Gallery!LimitHolds
  <1> QED  BY <1>1, <1>3 DEF Gallery!ReplacesMain

\* A page removes a photo.
LEMMA RemovalKeeps ==
    ASSUME GalleryInv, NEW p \in Pages, NEW c \in change[p], Gallery!RemoveMedia(p, c)
    PROVE  GalleryInv' /\ Gallery!ReplacesMain
  <1> DEFINE a == c.asset
  <1>1. UNCHANGED <<assets, upload>>
    BY DEF Gallery!RemoveMedia
  <1>2. CASE UNCHANGED <<gallery, primary>>
    <2>1. GalleryInv'
      BY <1>1, <1>2 DEF GalleryInv, Gallery!LimitHolds, Gallery!PrimaryInGallery, Gallery!Contains
    <2> QED  BY <1>2, <2>1 DEF Gallery!ReplacesMain
  <1>3. CASE ~UNCHANGED <<gallery, primary>>
    <2>1. PICK i \in 1..Len(gallery) :
             /\ gallery[i] = a /\ gallery' = RemoveAt(gallery, i)
             /\ primary' = Gallery!Replaced(a, gallery')
      BY <1>3 DEF Gallery!RemoveMedia, Gallery!RemoveAt, RemoveAt
    <2>2. gallery \in Seq(Nat) /\ Len(gallery) \in Nat /\ i \in Nat
      BY DEF GalleryInv
    <2>3. /\ gallery' \in Seq(Nat) /\ Len(gallery') = Len(gallery) - 1
          /\ \A j \in 1..(Len(gallery) - 1) :
                gallery'[j] = IF j < i THEN gallery[j] ELSE gallery[j + 1]
      BY <2>1, <2>2, RemoveAtIs
    <2>4. \A j \in 1..Len(gallery') :
             \E k \in 1..Len(gallery) : k # i /\ gallery'[j] = gallery[k] /\ k = IF j < i THEN j ELSE j + 1
      <3> SUFFICES ASSUME NEW j \in 1..Len(gallery')
                   PROVE  \E k \in 1..Len(gallery) : k # i /\ gallery'[j] = gallery[k] /\ k = IF j < i THEN j ELSE j + 1
        OBVIOUS
      <3>0. j \in 1..(Len(gallery) - 1) /\ j \in Int
        BY <2>3
      <3>1. CASE j < i
        <4>1. j \in 1..Len(gallery) /\ j # i
          BY <2>2, <3>0, <3>1
        <4> QED  BY <2>3, <3>0, <3>1, <4>1
      <3>2. CASE ~(j < i)
        <4>1. j + 1 \in 1..Len(gallery) /\ j + 1 # i
          BY <2>2, <3>0, <3>2
        <4> QED  BY <2>3, <3>0, <3>2, <4>1
      <3> QED  BY <3>1, <3>2
    <2>5. \A k \in 1..Len(gallery) : k # i => \E j \in 1..Len(gallery') : gallery'[j] = gallery[k]
      <3> SUFFICES ASSUME NEW k \in 1..Len(gallery), k # i
                   PROVE  \E j \in 1..Len(gallery') : gallery'[j] = gallery[k]
        OBVIOUS
      <3>1. CASE k < i
        <4>1. k \in 1..(Len(gallery) - 1) /\ k \in 1..Len(gallery')
          BY <2>2, <2>3, <3>1
        <4> QED  BY <2>3, <3>1, <4>1
      <3>2. CASE k > i
        <4>1. k - 1 \in 1..Len(gallery') /\ ~(k - 1 < i) /\ (k - 1) + 1 = k
          BY <2>2, <2>3, <3>2
        <4> QED  BY <2>3, <4>1
      <3> QED  BY <2>2, <3>1, <3>2
    <2>6. \A j \in 1..Len(gallery') : gallery'[j] <= assets
      BY <2>4 DEF GalleryInv
    <2>7. \A j, k \in 1..Len(gallery') : gallery'[j] = gallery'[k] => j = k
      <3> SUFFICES ASSUME NEW j \in 1..Len(gallery'), NEW k \in 1..Len(gallery'), gallery'[j] = gallery'[k]
                   PROVE  j = k
        OBVIOUS
      <3>0. PICK m \in 1..Len(gallery), n \in 1..Len(gallery) :
               /\ gallery'[j] = gallery[m] /\ m = IF j < i THEN j ELSE j + 1
               /\ gallery'[k] = gallery[n] /\ n = IF k < i THEN k ELSE k + 1
        BY <2>4, Zenon
      <3>1. (IF j < i THEN j ELSE j + 1) = (IF k < i THEN k ELSE k + 1)
        BY <3>0, Zenon DEF GalleryInv
      <3>2. j \in Int /\ k \in Int
        OBVIOUS
      <3> QED  BY <2>2, <3>1, <3>2
    <2>8. Gallery!LimitHolds'
      BY <2>2, <2>3 DEF GalleryInv, Gallery!LimitHolds
    <2>9. \A j \in 1..Len(gallery') : gallery'[j] # a
      <3>1. \A k \in 1..Len(gallery) : k # i => gallery[k] # gallery[i]
        BY DEF GalleryInv
      <3> QED  BY <2>1, <2>4, <3>1
    <2> HIDE DEF a
    <2>10. gallery # <<>> /\ Gallery!Contains(gallery, primary)
      <3>1. gallery # <<>>
        BY <2>2
      <3> QED  BY <3>1 DEF GalleryInv, Gallery!PrimaryInGallery
    <2>11. Gallery!PrimaryInGallery'
      <3>1. CASE primary = a
        <4>1. CASE gallery' = <<>>
          BY <2>1, <3>1, <4>1 DEF Gallery!PrimaryInGallery, Gallery!Replaced
        <4>2. CASE gallery' # <<>>
          <5>1. primary' = gallery'[1] /\ 1 \in 1..Len(gallery')
            BY <2>1, <2>3, <3>1, <4>2 DEF Gallery!Replaced
          <5> QED  BY <4>2, <5>1 DEF Gallery!PrimaryInGallery, Gallery!Contains
        <4> QED  BY <4>1, <4>2
      <3>2. CASE primary # a
        <4>1. PICK k \in 1..Len(gallery) : gallery[k] = primary
          BY <2>10 DEF Gallery!Contains
        <4>2. k # i /\ primary' = primary
          BY <2>1, <3>2, <4>1 DEF Gallery!Replaced
        <4>3. PICK j \in 1..Len(gallery') : gallery'[j] = primary
          BY <2>5, <4>1, <4>2
        <4>4. gallery' # <<>>
          BY <2>3, <4>3
        <4> QED  BY <4>2, <4>3, <4>4 DEF Gallery!PrimaryInGallery, Gallery!Contains
      <3> QED  BY <3>1, <3>2
    <2>12. GalleryInv'
      <3>1. \A q \in Pages : upload[q] # None /\ upload[q].step \in {"sent", "put"} =>
               \A j \in 1..Len(gallery') : gallery'[j] # upload[q].asset
        BY <2>4 DEF GalleryInv
      <3> QED  BY <1>1, <2>3, <2>6, <2>7, <2>8, <2>11, <3>1 DEF GalleryInv
    <2>13. Gallery!ReplacesMain
      <3>1. primary' # primary => primary = a
        BY <2>1 DEF Gallery!Replaced
      <3>2. ~Gallery!Contains(gallery', a)
        BY <2>9 DEF Gallery!Contains
      <3> QED  BY <3>1, <3>2 DEF Gallery!ReplacesMain
    <2> QED  BY <2>12, <2>13
  <1> QED  BY <1>2, <1>3

\* Every step keeps the invariant, and replaces a main photo only when asked.
LEMMA GalleryNext ==
    GalleryInv /\ [Gallery!Next]_(Gallery!vars) => GalleryInv' /\ Gallery!ReplacesMain
  <1> SUFFICES ASSUME GalleryInv, [Gallery!Next]_(Gallery!vars)
               PROVE  GalleryInv' /\ Gallery!ReplacesMain
    OBVIOUS
  <1>1. ASSUME UNCHANGED <<gallery, primary, assets, upload>>
        PROVE  GalleryInv' /\ Gallery!ReplacesMain
    BY <1>1 DEF GalleryInv, Gallery!LimitHolds, Gallery!PrimaryInGallery, Gallery!Contains,
       Gallery!ReplacesMain
  <1>2. CASE Gallery!Archive \/ UNCHANGED Gallery!vars
    BY <1>1, <1>2 DEF Gallery!Archive, Gallery!vars
  <1>3. ASSUME NEW p \in Pages,
               \/ Gallery!Refresh(p) \/ (\E c \in change[p] : Gallery!LoseChange(p, c))
               \/ \E kind \in {"primary", "remove"}, a \in Gallery!Asset :
                     Gallery!WebAsk(p, kind, a) \/ Gallery!PhoneAsk(p, kind, a)
        PROVE  GalleryInv' /\ Gallery!ReplacesMain
    BY <1>1, <1>3 DEF Gallery!Refresh, Gallery!LoseChange, Gallery!WebAsk, Gallery!PhoneAsk, Gallery!Ask
  <1>4. ASSUME NEW p \in Pages,
               Gallery!WebUpload(p) \/ Gallery!PhoneUpload(p) \/ Gallery!Retry(p)
        PROVE  GalleryInv' /\ Gallery!ReplacesMain
    BY <1>4, UploadKeeps DEF Gallery!WebUpload, Gallery!PhoneUpload, Gallery!Retry
  <1>5. ASSUME NEW p \in Pages,
               \/ Gallery!UploadPrivateFile(p) \/ Gallery!Lose(p)
               \/ Gallery!UploadFailed(p) \/ Gallery!UploadOK(p)
        PROVE  GalleryInv' /\ Gallery!ReplacesMain
    BY <1>5, UploadKeeps
  <1> QED  BY <1>2, <1>3, <1>4, <1>5, AttachKeeps, MainKeeps, RemovalKeeps DEF Gallery!Next

\* The gallery of a product has a main photo exactly when it has photos, and no
\* more of them than the limit.  The main photo gives way only when it goes, when a
\* page asked for another, or to an upload that began on a page that showed no
\* photos, however many were added and chosen since.
THEOREM GalleryHolds ==
    ASSUME Gallery!GalleryAssumption
    PROVE  /\ Gallery!Spec => [](Gallery!PrimaryInGallery /\ Gallery!LimitHolds)
           /\ Gallery!Spec => [][Gallery!ReplacesMain]_(Gallery!vars)
  <1>1. GalleryInv => Gallery!PrimaryInGallery /\ Gallery!LimitHolds
    BY DEF GalleryInv
  <1> QED  BY <1>1, GalleryInit, GalleryNext, PTL DEF Gallery!Spec

\* The rest of the types: only photos that were uploaded and not removed are in
\* the gallery, and what a page shows or offers was uploaded.
GalleryTypes ==
    /\ archived \in BOOLEAN /\ assets <= MaxAssets /\ ready \subseteq 1..assets
    /\ \A i \in 1..Len(gallery) : gallery[i] \in ready
    /\ upload \in [Pages -> Gallery!Upload \cup {None}]
    /\ change \in [Pages -> SUBSET Gallery!Change]
    /\ failed \in [Pages -> BOOLEAN] /\ shown \in [Pages -> Seq(Nat)]
    /\ \A p \in Pages : \A c, d \in change[p] : c.kind = d.kind => c = d
    /\ \A p \in Pages : /\ \A i \in 1..Len(shown[p]) : shown[p][i] \in 1..assets
                        /\ failed[p] => upload[p] = None
                        /\ upload[p] # None /\ upload[p].step = "put" => upload[p].asset \in ready

\* They are the types of the gallery.
LEMMA GalleryTypesGive ==
    ASSUME GalleryInv, GalleryTypes
    PROVE  Gallery!TypeOK
  <1>1. DOMAIN gallery = 1..Len(gallery) /\ assets \in Nat
    BY DEF GalleryInv
  <1>2. Gallery!IsInjective(gallery)
    BY <1>1 DEF GalleryInv, Gallery!IsInjective
  <1>3. Gallery!ToSet(gallery) \subseteq ready
    BY <1>1 DEF GalleryTypes, Gallery!ToSet
  <1>4. primary \in (1..assets) \cup {None}
    BY <1>1 DEF GalleryInv, GalleryTypes, Gallery!PrimaryInGallery, Gallery!Contains
  <1>5. \A p \in Pages : Gallery!ToSet(shown[p]) \subseteq 1..assets
    <2> SUFFICES ASSUME NEW p \in Pages PROVE Gallery!ToSet(shown[p]) \subseteq 1..assets
      OBVIOUS
    <2>1. PICK s : s = shown[p]
      OBVIOUS
    <2>2. s \in Seq(Nat) /\ \A i \in 1..Len(s) : s[i] \in 1..assets
      BY <2>1 DEF GalleryTypes
    <2>3. DOMAIN s = 1..Len(s)
      BY <2>2
    <2> QED  BY <2>1, <2>2, <2>3 DEF Gallery!ToSet
  <1>6. assets \in 0..MaxAssets
    BY <1>1 DEF GalleryTypes
  <1> QED  BY <1>1, <1>2, <1>3, <1>4, <1>5, <1>6 DEF GalleryTypes, Gallery!TypeOK

\* They hold at first.
LEMMA GalleryTypesInit == Gallery!GalleryAssumption /\ Gallery!Init => GalleryTypes
  <1> SUFFICES ASSUME Gallery!GalleryAssumption, Gallery!Init PROVE GalleryTypes
    OBVIOUS
  <1>1. /\ archived = FALSE /\ gallery = <<>> /\ assets = 0 /\ ready = {} /\ MaxAssets \in Nat
        /\ shown = [p \in Pages |-> <<>>] /\ upload = [p \in Pages |-> None]
        /\ failed = [p \in Pages |-> FALSE] /\ change = [p \in Pages |-> {}]
    BY DEF Gallery!GalleryAssumption, Gallery!Init
  <1>2. shown \in [Pages -> Seq(Nat)] /\ \A p \in Pages : shown[p] = <<>>
    BY <1>1
  <1>3. \A p \in Pages : \A i \in 1..Len(shown[p]) : FALSE
    BY <1>2
  <1>4. \A i \in 1..Len(gallery) : FALSE
    BY <1>1
  <1>5. /\ upload \in [Pages -> Gallery!Upload \cup {None}]
        /\ change \in [Pages -> SUBSET Gallery!Change] /\ failed \in [Pages -> BOOLEAN]
        /\ \A p \in Pages : upload[p] = None /\ ~failed[p] /\ change[p] = {}
    BY <1>1
  <1>6. archived \in BOOLEAN
    BY <1>1, Zenon
  <1>7. assets <= MaxAssets /\ ready \subseteq 1..assets
    BY <1>1
  <1> QED  BY <1>2, <1>3, <1>4, <1>5, <1>6, <1>7 DEF GalleryTypes

\* A page begins an upload.
LEMMA BeginTypes ==
    ASSUME Gallery!GalleryAssumption, GalleryInv, GalleryTypes, NEW p \in Pages, Gallery!Begin(p)
    PROVE  GalleryTypes'
  <1>1. PICK u : u = [asset |-> assets + 1, makePrimary |-> shown[p] = <<>>, step |-> "sent"]
    OBVIOUS
  <1>2. /\ assets < MaxAssets /\ assets' = assets + 1 /\ upload' = [upload EXCEPT ![p] = u]
        /\ failed' = [failed EXCEPT ![p] = FALSE]
        /\ UNCHANGED <<archived, gallery, primary, ready, shown, change>>
    BY <1>1 DEF Gallery!Begin
  <1>3. assets \in Nat /\ MaxAssets \in Nat
    BY DEF GalleryInv, Gallery!GalleryAssumption
  <1>4. u \in Gallery!Upload /\ u.step = "sent"
    BY <1>1, <1>2, <1>3 DEF Gallery!Upload, Gallery!Asset
  <1>5. upload' \in [Pages -> Gallery!Upload \cup {None}] /\ failed' \in [Pages -> BOOLEAN]
    BY <1>2, <1>4 DEF GalleryTypes
  <1>6. 1..assets \subseteq 1..assets' /\ assets' <= MaxAssets
    BY <1>2, <1>3
  <1>7. \A q \in Pages : /\ \A i \in 1..Len(shown'[q]) : shown'[q][i] \in 1..assets'
                         /\ failed'[q] => upload'[q] = None
                         /\ upload'[q] # None /\ upload'[q].step = "put" => upload'[q].asset \in ready'
    BY <1>2, <1>4, <1>6 DEF GalleryTypes
  <1> QED  BY <1>2, <1>5, <1>6, <1>7 DEF GalleryTypes

\* An upload goes on, before it is attached or after.
LEMMA UploadTypes ==
    ASSUME GalleryInv, GalleryTypes, NEW p \in Pages,
           \/ Gallery!UploadPrivateFile(p) \/ Gallery!Lose(p)
           \/ Gallery!UploadFailed(p) \/ Gallery!UploadOK(p)
    PROVE  GalleryTypes'
  <1>1. UNCHANGED <<archived, gallery, primary, assets, shown, change>>
    BY DEF Gallery!UploadPrivateFile, Gallery!Lose, Gallery!UploadFailed, Gallery!UploadOK
  <1>2. upload[p] # None /\ upload \in [Pages -> Gallery!Upload \cup {None}]
    BY DEF Gallery!UploadPrivateFile, Gallery!Lose, Gallery!UploadFailed, Gallery!UploadOK, GalleryTypes
  <1>3. PICK step \in {"put", "error", "none"} :
           \/ /\ step = "none" /\ upload' = [upload EXCEPT ![p] = None] /\ ready' = ready
              /\ \/ failed' = failed
                 \/ failed' = [failed EXCEPT ![p] = TRUE]
           \/ /\ step # "none" /\ upload' = [upload EXCEPT ![p].step = step] /\ failed' = failed
              /\ ready' = IF step = "put" THEN ready \cup {upload[p].asset} ELSE ready
    BY DEF Gallery!UploadPrivateFile, Gallery!Lose, Gallery!UploadFailed, Gallery!UploadOK
  <1>4. PICK u \in Gallery!Upload \cup {None} :
           /\ upload' = [upload EXCEPT ![p] = u] /\ (step = "none" => u = None)
           /\ u # None => u.asset = upload[p].asset /\ u.step = step
    <2>1. CASE step = "none"
      BY <1>3, <2>1
    <2>2. CASE step # "none"
      <3>1. PICK u : u = [upload[p] EXCEPT !.step = step]
        OBVIOUS
      <3>2. u \in Gallery!Upload /\ u.asset = upload[p].asset /\ u.step = step
        BY <1>2, <2>2, <3>1 DEF Gallery!Upload
      <3>3. upload' = [upload EXCEPT ![p] = u]
        BY <1>2, <1>3, <2>2, <3>1
      <3> QED  BY <2>2, <3>2, <3>3
    <2> QED  BY <2>1, <2>2
  <1>5. upload[p].asset \in 1..assets
    BY <1>2 DEF GalleryInv, GalleryTypes, Gallery!Upload, Gallery!Asset
  <1>6. /\ upload' \in [Pages -> Gallery!Upload \cup {None}] /\ failed' \in [Pages -> BOOLEAN]
        /\ \A q \in Pages : upload'[q] = IF q = p THEN u ELSE upload[q]
    BY <1>2, <1>3, <1>4 DEF GalleryTypes
  <1>7. /\ \A q \in Pages : q # p => failed'[q] = failed[q]
        /\ failed'[p] => u = None
    BY <1>2, <1>3, <1>4 DEF GalleryTypes
  <1>8. ready' \subseteq 1..assets' /\ ready \subseteq ready'
    BY <1>1, <1>3, <1>5 DEF GalleryTypes
  <1>9. \A q \in Pages : /\ failed'[q] => upload'[q] = None
                         /\ upload'[q] # None /\ upload'[q].step = "put" => upload'[q].asset \in ready'
    BY <1>3, <1>4, <1>6, <1>7, <1>8 DEF GalleryTypes
  <1> QED  BY <1>1, <1>6, <1>8, <1>9 DEF GalleryTypes

\* A photo is attached.
LEMMA AttachTypes ==
    ASSUME GalleryInv, GalleryTypes, NEW p \in Pages, Gallery!AttachProductMedia(p)
    PROVE  GalleryTypes'
  <1>1. /\ upload[p] # None /\ upload[p].step = "put"
        /\ UNCHANGED <<archived, assets, ready, shown, failed, change>>
        /\ gallery' = gallery \/ gallery' = Append(gallery, upload[p].asset)
        /\ \E step \in {"ok", "error"} : upload' = [upload EXCEPT ![p].step = step]
    BY DEF Gallery!AttachProductMedia
  <1>2. upload[p].asset \in ready /\ gallery \in Seq(Nat)
    BY <1>1 DEF GalleryInv, GalleryTypes
  <1>3. \A i \in 1..Len(gallery') : gallery'[i] \in ready
    BY <1>1, <1>2 DEF GalleryTypes
  <1>4. /\ upload' \in [Pages -> Gallery!Upload \cup {None}]
        /\ \A q \in Pages : /\ failed'[q] => upload'[q] = None
                            /\ upload'[q] # None /\ upload'[q].step = "put" => upload'[q].asset \in ready'
    BY <1>1 DEF GalleryTypes, Gallery!Upload
  <1> QED  BY <1>1, <1>3, <1>4 DEF GalleryTypes

\* A page has at most one change of each kind under way, and one less when it
\* is answered.
LEMMA ChangeAnsweredTypes ==
    ASSUME GalleryTypes, NEW p \in Pages, NEW c \in change[p], Gallery!Answered(p, c)
    PROVE  /\ change' \in [Pages -> SUBSET Gallery!Change]
           /\ \A q \in Pages : \A d, e \in change'[q] : d.kind = e.kind => d = e
  <1>1. /\ change \in [Pages -> SUBSET Gallery!Change]
        /\ change' = [change EXCEPT ![p] = change[p] \ {c}]
    BY DEF GalleryTypes, Gallery!Answered
  <1>2. /\ change' \in [Pages -> SUBSET Gallery!Change]
        /\ \A q \in Pages : change'[q] \subseteq change[q]
    BY <1>1
  <1> QED  BY <1>2 DEF GalleryTypes

\* A photo is removed, and no page waits to attach it.
LEMMA RemovalTypes ==
    ASSUME GalleryInv, GalleryTypes, NEW p \in Pages, NEW c \in change[p],
           Gallery!RemoveMedia(p, c)
    PROVE  GalleryTypes'
  <1>1. UNCHANGED <<archived, assets, shown, upload, failed>> /\ Gallery!Answered(p, c)
    BY DEF Gallery!RemoveMedia
  <1>2. /\ change' \in [Pages -> SUBSET Gallery!Change]
        /\ \A q \in Pages : \A d, e \in change'[q] : d.kind = e.kind => d = e
    BY <1>1, ChangeAnsweredTypes
  <1>3. CASE UNCHANGED <<gallery, primary, ready>>
    BY <1>1, <1>2, <1>3 DEF GalleryTypes
  <1>4. CASE ~UNCHANGED <<gallery, primary, ready>>
    <2>1. PICK i \in 1..Len(gallery) :
             gallery' = RemoveAt(gallery, i) /\ ready' = ready \ {gallery[i]}
      BY <1>4 DEF Gallery!RemoveMedia, Gallery!RemoveAt, RemoveAt
    <2>2. gallery \in Seq(Nat) /\ Len(gallery) \in Nat /\ i \in Nat
      BY DEF GalleryInv
    <2>3. /\ Len(gallery') = Len(gallery) - 1
          /\ \A j \in 1..(Len(gallery) - 1) :
                gallery'[j] = IF j < i THEN gallery[j] ELSE gallery[j + 1]
      BY <2>1, <2>2, RemoveAtIs
    <2>4. \A j \in 1..Len(gallery') : \E k \in 1..Len(gallery) : k # i /\ gallery'[j] = gallery[k]
      <3> SUFFICES ASSUME NEW j \in 1..Len(gallery')
                   PROVE  \E k \in 1..Len(gallery) : k # i /\ gallery'[j] = gallery[k]
        OBVIOUS
      <3>1. j \in 1..(Len(gallery) - 1) /\ j \in Int
        BY <2>3
      <3>2. CASE j < i
        <4>1. j \in 1..Len(gallery) /\ j # i
          BY <2>2, <3>1, <3>2
        <4> QED  BY <2>3, <3>1, <3>2, <4>1
      <3>3. CASE ~(j < i)
        <4>1. j + 1 \in 1..Len(gallery) /\ j + 1 # i
          BY <2>2, <3>1, <3>3
        <4> QED  BY <2>3, <3>1, <3>3, <4>1
      <3> QED  BY <3>2, <3>3
    <2>5. \A j \in 1..Len(gallery') : gallery'[j] \in ready'
      <3>1. \A k \in 1..Len(gallery) : k # i => gallery[k] # gallery[i] /\ gallery[k] \in ready
        BY DEF GalleryInv, GalleryTypes
      <3> QED  BY <2>1, <2>4, <3>1
    <2>6. \A q \in Pages : upload[q] # None /\ upload[q].step = "put" => upload[q].asset \in ready'
      BY <2>1 DEF GalleryInv, GalleryTypes
    <2> QED  BY <1>1, <1>2, <2>1, <2>5, <2>6 DEF GalleryTypes
  <1> QED  BY <1>3, <1>4

\* Every step keeps the types.
LEMMA GalleryTypesNext ==
    ASSUME Gallery!GalleryAssumption, GalleryInv, GalleryTypes, [Gallery!Next]_(Gallery!vars)
    PROVE  GalleryTypes'
  <1>1. CASE Gallery!Archive
    BY <1>1 DEF Gallery!Archive, GalleryTypes
  <1>2. CASE UNCHANGED Gallery!vars
    BY <1>2 DEF Gallery!vars, GalleryTypes
  <1>3. ASSUME NEW p \in Pages, Gallery!Refresh(p)
        PROVE  GalleryTypes'
    <2>1. /\ shown' = [shown EXCEPT ![p] = gallery]
          /\ UNCHANGED <<archived, gallery, primary, assets, ready, upload, failed, change>>
      BY <1>3 DEF Gallery!Refresh
    <2>2. shown' \in [Pages -> Seq(Nat)]
      BY <2>1 DEF GalleryInv, GalleryTypes
    <2>3. \A i \in 1..Len(gallery) : gallery[i] \in 1..assets
      BY DEF GalleryTypes
    <2>4. \A q \in Pages : shown'[q] = IF q = p THEN gallery ELSE shown[q]
      BY <2>1 DEF GalleryTypes
    <2>5. \A q \in Pages : \A i \in 1..Len(shown'[q]) : shown'[q][i] \in 1..assets
      BY <2>3, <2>4 DEF GalleryTypes
    <2> QED  BY <2>1, <2>2, <2>5 DEF GalleryTypes
  <1>4. ASSUME NEW p \in Pages, NEW kind \in {"primary", "remove"}, NEW a \in Gallery!Asset,
               Gallery!WebAsk(p, kind, a) \/ Gallery!PhoneAsk(p, kind, a)
        PROVE  GalleryTypes'
    <2> DEFINE n == [asset |-> a, kind |-> kind]
    <2>1. /\ change' = [change EXCEPT ![p] = change[p] \cup {n}] /\ Gallery!Asked(p, kind) = {}
          /\ UNCHANGED <<archived, gallery, primary, assets, ready, shown, upload, failed>>
      BY <1>4 DEF Gallery!WebAsk, Gallery!PhoneAsk, Gallery!Ask
    <2>2. n \in Gallery!Change /\ n.kind = kind
      BY DEF Gallery!Change
    <2>3. \A c \in change[p] : c.kind # kind
      BY <2>1 DEF Gallery!Asked
    <2> HIDE DEF n
    <2>4. /\ change' \in [Pages -> SUBSET Gallery!Change]
          /\ \A q \in Pages : change'[q] = IF q = p THEN change[q] \cup {n} ELSE change[q]
      BY <2>1, <2>2 DEF GalleryTypes
    <2>5. \A q \in Pages : \A c, d \in change'[q] : c.kind = d.kind => c = d
      <3>1. \A c, d \in change[p] \cup {n} : c.kind = d.kind => c = d
        BY <2>2, <2>3, Zenon DEF GalleryTypes
      <3> QED  BY <2>4, <3>1, Zenon DEF GalleryTypes
    <2> QED  BY <2>1, <2>4, <2>5 DEF GalleryTypes
  <1>5. ASSUME NEW p \in Pages, NEW c \in change[p],
               Gallery!LoseChange(p, c) \/ Gallery!SetPrimary(p, c)
        PROVE  GalleryTypes'
    <2>1. UNCHANGED <<archived, gallery, assets, ready, shown, upload, failed>> /\ Gallery!Answered(p, c)
      BY <1>5 DEF Gallery!LoseChange, Gallery!SetPrimary
    <2>2. /\ change' \in [Pages -> SUBSET Gallery!Change]
          /\ \A q \in Pages : \A d, e \in change'[q] : d.kind = e.kind => d = e
      BY <2>1, ChangeAnsweredTypes
    <2> QED  BY <2>1, <2>2 DEF GalleryTypes
  <1>6. ASSUME NEW p \in Pages,
               Gallery!WebUpload(p) \/ Gallery!PhoneUpload(p) \/ Gallery!Retry(p)
        PROVE  GalleryTypes'
    BY <1>6, BeginTypes DEF Gallery!WebUpload, Gallery!PhoneUpload, Gallery!Retry
  <1>7. ASSUME NEW p \in Pages,
               \/ Gallery!UploadPrivateFile(p) \/ Gallery!Lose(p)
               \/ Gallery!UploadFailed(p) \/ Gallery!UploadOK(p)
        PROVE  GalleryTypes'
    BY <1>7, UploadTypes
  <1> QED  BY <1>1, <1>2, <1>3, <1>4, <1>5, <1>6, <1>7, AttachTypes, RemovalTypes DEF Gallery!Next

\* The gallery and the pages that change it keep their types: a gallery has no
\* photo twice and none that was not stored, whatever two pages attach and remove.
THEOREM GalleryIsTyped ==
    ASSUME Gallery!GalleryAssumption
    PROVE  Gallery!Spec => []Gallery!TypeOK
  <1>1. GalleryInv /\ GalleryTypes => Gallery!TypeOK
    BY GalleryTypesGive
  <1>2. GalleryInv /\ GalleryTypes /\ [Gallery!Next]_(Gallery!vars) => (GalleryInv /\ GalleryTypes)'
    BY GalleryNext, GalleryTypesNext
  <1> QED  BY <1>1, <1>2, GalleryInit, GalleryTypesInit, PTL DEF Gallery!Spec

----------------------------------------------------------------------------
(* The adjustment of a stock.                                              *)

\* The requests and the movements are of openings that were made.  An opening
\* has one request at a time; when no answer of it was lost, it made at most one
\* movement, and after that it sends nothing.
OpeningsInv ==
    /\ isOpen => opening # 0
    /\ \A c \in calls : c.opening <= opening /\ (c.step = "lost" => c.opening \in lost)
    /\ \A c, d \in calls : c.opening = d.opening => c = d
    /\ \A m \in moves :
          /\ m.opening <= opening
          /\ m.opening \in lost \/
                /\ \A n \in moves : n.opening = m.opening => n = m
                /\ \A c \in calls : c.opening = m.opening => c.step = "ok"
                /\ opening = m.opening /\ isOpen => \E c \in calls : c.opening = opening

\* A dialog that is made anew has its own keys, so a request that was answered
\* well made its movement.
KeysInv ==
    /\ \A c \in calls : c.key <= moveKeys
    /\ \A m \in moves : m.key <= moveKeys
    /\ screen # "product" =>
          /\ \A c, d \in calls : c.key = d.key => c.opening = d.opening
          /\ \A c \in calls, m \in moves : c.key = m.key => c.opening = m.opening
          /\ \A c \in calls : c.key = moveKey => c.opening = opening
          /\ \A m \in moves : m.key = moveKey => m.opening = opening
          /\ \A c \in calls : c.step = "ok" => Adjust!Made(c) \in moves
          /\ Adjust!DoneHasMoved

AdjustInv == Adjust!TypeOK /\ OpeningsInv /\ KeysInv

\* It holds at first.
LEMMA AdjustInit == Adjust!AdjustAssumption /\ Adjust!Init => AdjustInv
  <1> SUFFICES ASSUME Adjust!AdjustAssumption, Adjust!Init PROVE AdjustInv
    OBVIOUS
  <1>1. onHand \in Reserved..MaxStock /\ shownStock \in 0..MaxStock
    BY DEF Adjust!Init, Adjust!AdjustAssumption
  <1>2. 1 \in 1..MaxMoveKeys /\ 1 \in 1..1 /\ 0 \in 0..MaxOpenings
    BY DEF Adjust!AdjustAssumption
  <1> QED  BY <1>1, <1>2 DEF Adjust!Init, AdjustInv, Adjust!TypeOK, OpeningsInv, KeysInv, Adjust!DoneHasMoved

\* The steps of the dialog.
AdjustDialogStep ==
    \/ Adjust!Open \/ Adjust!Read \/ Adjust!WebSubmit \/ Adjust!PhoneSubmit
    \/ Adjust!WebClose \/ Adjust!PhoneClose
    \/ \E q \in Adjust!Changes : Adjust!WebEnter(q) \/ Adjust!PhoneEnter(q)

\* A step of the dialog keeps the invariant.
LEMMA AdjustDialogKeeps ==
    ASSUME Adjust!AdjustAssumption, AdjustInv, AdjustDialogStep
    PROVE  AdjustInv'
  <1> USE DEF Adjust!server, Adjust!dialog
  <1>0. /\ Adjust!TypeOK /\ OpeningsInv /\ KeysInv
        /\ opening \in 0..MaxOpenings /\ moveKey \in 1..moveKeys /\ moveKeys \in 1..MaxMoveKeys
        /\ MaxOpenings \in Nat /\ MaxMoveKeys \in Nat /\ Reserved \in Nat /\ MaxStock \in Nat
        /\ onHand \in Reserved..MaxStock /\ calls \subseteq Adjust!Call /\ moves \subseteq Adjust!Move
        /\ \A c \in calls : c.opening \in Nat /\ c.key \in Nat
        /\ \A m \in moves : m.opening \in Nat /\ m.key \in Nat
    BY DEF AdjustInv, Adjust!TypeOK, Adjust!AdjustAssumption, Adjust!Call, Adjust!Move, Adjust!Opening
  <1>1. CASE Adjust!Open
    <2>1. /\ opening' = opening + 1 /\ opening < MaxOpenings /\ isOpen' = TRUE /\ moveDraft' = None
          /\ UNCHANGED <<screen, onHand, withdrawn, moves, shownStock, calls, lost, done>>
          /\ IF screen = "product" THEN moveKey' = moveKey /\ moveKeys' = moveKeys
             ELSE moveKeys < MaxMoveKeys /\ moveKey' = moveKeys + 1 /\ moveKeys' = moveKeys + 1
      BY <1>1 DEF Adjust!Open, Adjust!NewKey
    <2>2. opening' \in 0..MaxOpenings /\ moveKeys' \in 1..MaxMoveKeys /\ moveKey' \in 1..moveKeys'
      BY <1>0, <2>1
    <2>3. Adjust!TypeOK'
      BY <1>0, <2>1, <2>2 DEF Adjust!TypeOK
    <2>4. OpeningsInv'
      BY <1>0, <2>1 DEF OpeningsInv
    <2>5. KeysInv'
      BY <1>0, <2>1 DEF KeysInv, Adjust!DoneHasMoved, Adjust!MovesOf, Adjust!Made
    <2> QED  BY <2>3, <2>4, <2>5 DEF AdjustInv
  <1>2. CASE Adjust!WebSubmit \/ Adjust!PhoneSubmit
    <2> DEFINE c == [opening |-> opening, key |-> moveKey, change |-> moveDraft, step |-> "sent"]
    <2>1. /\ isOpen /\ moveDraft # None /\ ~Adjust!Pending /\ calls' = calls \cup {c}
          /\ UNCHANGED <<screen, onHand, withdrawn, moves, shownStock, opening, isOpen,
                         moveDraft, moveKey, moveKeys, lost, done>>
      BY <1>2 DEF Adjust!WebSubmit, Adjust!PhoneSubmit, Adjust!Send
    <2>2. c \in Adjust!Call
      <3>1. opening \in 1..MaxOpenings /\ moveKey \in 1..MaxMoveKeys
        BY <1>0, <2>1 DEF OpeningsInv
      <3>2. moveDraft \in Adjust!Changes
        BY <1>0, <2>1 DEF Adjust!TypeOK
      <3> QED  BY <3>1, <3>2 DEF Adjust!Call, Adjust!Opening
    <2>3. \A d \in calls : d.opening # opening
      BY <2>1 DEF Adjust!Pending
    <2>4. c.opening = opening /\ c.key = moveKey /\ c.step = "sent"
      OBVIOUS
    <2> HIDE DEF c
    <2>5. Adjust!TypeOK'
      BY <1>0, <2>1, <2>2 DEF Adjust!TypeOK
    <2>6. OpeningsInv'
      BY <1>0, <2>1, <2>3, <2>4 DEF OpeningsInv
    <2>7. KeysInv'
      BY <1>0, <2>1, <2>4 DEF KeysInv, Adjust!DoneHasMoved, Adjust!MovesOf
    <2> QED  BY <2>5, <2>6, <2>7 DEF AdjustInv
  <1>3. CASE Adjust!Read
    <2>1. /\ shownStock' = onHand /\ onHand \in 0..MaxStock
          /\ UNCHANGED <<screen, onHand, withdrawn, moves, opening, isOpen, moveDraft, moveKey,
                         moveKeys, calls, lost, done>>
      BY <1>0, <1>3 DEF Adjust!Read
    <2> QED  BY <1>0, <2>1 DEF AdjustInv, Adjust!TypeOK, OpeningsInv, KeysInv, Adjust!DoneHasMoved,
               Adjust!MovesOf, Adjust!Made
  <1>4. ASSUME UNCHANGED <<screen, onHand, withdrawn, moves, shownStock, opening, moveKey,
                           moveKeys, calls, lost, done>>,
               isOpen' \in {isOpen, FALSE}, moveDraft' \in Adjust!Changes \cup {None}
        PROVE  AdjustInv'
    <2>0. isOpen \in BOOLEAN /\ isOpen' \in BOOLEAN /\ (isOpen' => isOpen)
      <3>1. isOpen \in BOOLEAN
        BY <1>0 DEF Adjust!TypeOK
      <3>2. CASE isOpen' = isOpen
        BY <3>1, <3>2
      <3>3. CASE isOpen' = FALSE
        BY <3>1, <3>3
      <3> QED  BY <1>4, <3>2, <3>3
    <2>1. Adjust!TypeOK'
      BY <1>0, <1>4, <2>0 DEF Adjust!TypeOK
    <2>3. OpeningsInv'
      BY <1>0, <1>4, <2>0 DEF OpeningsInv
    <2>2. KeysInv'
      BY <1>0, <1>4 DEF KeysInv, Adjust!DoneHasMoved, Adjust!MovesOf, Adjust!Made
    <2> QED  BY <2>1, <2>2, <2>3 DEF AdjustInv
  <1>5. CASE Adjust!WebClose \/ Adjust!PhoneClose
    BY <1>0, <1>4, <1>5 DEF Adjust!WebClose, Adjust!PhoneClose, Adjust!TypeOK
  <1>6. ASSUME NEW q \in Adjust!Changes, Adjust!WebEnter(q) \/ Adjust!PhoneEnter(q)
        PROVE  AdjustInv'
    BY <1>4, <1>6 DEF Adjust!WebEnter, Adjust!PhoneEnter
  <1> QED  BY <1>1, <1>2, <1>3, <1>5, <1>6 DEF AdjustDialogStep

\* The steps of the product page and of others.
ProductStep ==
    \/ Adjust!WebArchive \/ Adjust!PhoneArchive \/ Adjust!OthersArchive
    \/ Adjust!WebRestore \/ Adjust!PhoneRestore
    \/ \E q \in Adjust!Changes : Adjust!OthersMove(q)

\* They keep the invariant.
LEMMA ProductKeeps ==
    ASSUME AdjustInv, ProductStep
    PROVE  AdjustInv'
  <1>1. /\ UNCHANGED <<screen, moves, shownStock, opening, isOpen, moveDraft, moveKey, moveKeys,
                       calls, lost, done>>
        /\ onHand' = onHand \/ onHand' \in Reserved..MaxStock
        /\ withdrawn' \in BOOLEAN
    BY DEF AdjustInv, Adjust!TypeOK, ProductStep, Adjust!WebArchive, Adjust!PhoneArchive,
       Adjust!OthersArchive, Adjust!Archive, Adjust!WebRestore, Adjust!PhoneRestore, Adjust!Restore,
       Adjust!OthersMove, Adjust!dialog
  <1> QED  BY <1>1 DEF AdjustInv, Adjust!TypeOK, OpeningsInv, KeysInv, Adjust!DoneHasMoved,
             Adjust!MovesOf, Adjust!Made

\* The steps of a request.
AdjustCallStep(c) ==
    \/ Adjust!RecordStockMovement(c) \/ Adjust!Lose(c)
    \/ Adjust!WebDone(c) \/ Adjust!PhoneDone(c) \/ Adjust!WebFailed(c) \/ Adjust!PhoneFailed(c)

\* A request that goes on.
LEMMA AdjustStepIs ==
    ASSUME AdjustInv, NEW c \in calls, NEW step \in {"ok", "error", "lost"}, Adjust!Step(c, step)
    PROVE  /\ calls' \subseteq Adjust!Call
           /\ \A d \in calls' :
                \/ d \in calls /\ d # c
                \/ /\ d.opening = c.opening /\ d.key = c.key /\ d.change = c.change /\ d.step = step
           /\ \A d \in calls : \E e \in calls' : e.opening = d.opening
           /\ \A d, e \in calls' : d.opening = e.opening => d = e
  <1> DEFINE e == [c EXCEPT !.step = step]
  <1>1. calls \subseteq Adjust!Call /\ \A d, f \in calls : d.opening = f.opening => d = f
    BY DEF AdjustInv, OpeningsInv, Adjust!TypeOK
  <1>2. /\ e \in Adjust!Call
        /\ e.opening = c.opening /\ e.key = c.key /\ e.change = c.change /\ e.step = step
    BY <1>1 DEF Adjust!Call
  <1>3. calls' = (calls \ {c}) \cup {e}
    BY DEF Adjust!Step
  <1> HIDE DEF e
  <1> QED  BY <1>1, <1>2, <1>3

\* A step of a request keeps the invariant.
LEMMA AdjustCallKeeps ==
    ASSUME Adjust!AdjustAssumption, AdjustInv, NEW c \in calls, AdjustCallStep(c)
    PROVE  AdjustInv'
  <1> USE DEF Adjust!server, Adjust!dialog
  <1>0. /\ Adjust!TypeOK /\ OpeningsInv /\ KeysInv
        /\ opening \in 0..MaxOpenings /\ moveKey \in 1..moveKeys /\ moveKeys \in 1..MaxMoveKeys
        /\ MaxOpenings \in Nat /\ MaxMoveKeys \in Nat
        /\ calls \subseteq Adjust!Call /\ moves \subseteq Adjust!Move
        /\ c \in Adjust!Call /\ c.opening \in Adjust!Opening /\ c.change \in Adjust!Changes
        /\ c.key \in 1..MaxMoveKeys
        /\ \A d \in calls : d.opening \in Nat /\ d.key \in Nat
        /\ \A m \in moves : m.opening \in Nat /\ m.key \in Nat
    BY DEF AdjustInv, Adjust!TypeOK, Adjust!AdjustAssumption, Adjust!Call, Adjust!Move, Adjust!Opening
  <1>1. CASE Adjust!RecordStockMovement(c)
    <2> DEFINE m == Adjust!Made(c)
    <2>1. /\ UNCHANGED <<screen, withdrawn, shownStock, opening, isOpen, moveDraft, moveKey,
                         moveKeys, lost, done>>
          /\ c.step = "sent"
      BY <1>1 DEF Adjust!RecordStockMovement
    <2>2. m \in Adjust!Move /\ m.opening = c.opening /\ m.key = c.key /\ m.change = c.change
      BY <1>0 DEF Adjust!Made, Adjust!Move
    <2>3. CASE /\ Adjust!Of(c.key) = {} /\ onHand' \in Reserved..MaxStock
               /\ moves' = moves \cup {m} /\ Adjust!Step(c, "ok")
      <3>1. \A n \in moves : n.key # c.key
        BY <2>3 DEF Adjust!Of
      <3>2. Adjust!TypeOK'
        BY <1>0, <2>1, <2>2, <2>3, <3>1, AdjustStepIs DEF Adjust!TypeOK
      <3>3. OpeningsInv'
        BY <1>0, <2>1, <2>2, <2>3, AdjustStepIs DEF OpeningsInv
      <3>4. KeysInv'
        <4>1. moves \subseteq moves' /\ m \in moves' /\ \A n \in moves' : n \in moves \/ n = m
          BY <2>3
        <4>2. \A d \in calls' : Adjust!Made(d) = m \/ d \in calls
          BY <2>3, AdjustStepIs DEF Adjust!Made
        <4>3. screen # "product" => Adjust!DoneHasMoved'
          BY <1>0, <2>1, <4>1 DEF KeysInv, Adjust!DoneHasMoved, Adjust!MovesOf
        <4> HIDE DEF m
        <4> QED  BY <1>0, <2>1, <2>2, <2>3, <4>1, <4>2, <4>3, AdjustStepIs DEF KeysInv
      <3> QED  BY <3>2, <3>3, <3>4 DEF AdjustInv
    <2>4. CASE /\ UNCHANGED <<onHand, moves>>
               /\ \/ Adjust!Step(c, "error")
                  \/ Adjust!Step(c, "ok") /\ \E n \in moves : n.key = c.key /\ n.change = c.change
      <3>1. PICK step \in {"ok", "error"} :
               /\ Adjust!Step(c, step)
               /\ step = "ok" => \E n \in moves : n.key = c.key /\ n.change = c.change
        BY <2>4
      <3>2. Adjust!TypeOK'
        BY <1>0, <2>1, <2>4, <3>1, AdjustStepIs DEF Adjust!TypeOK
      <3>3. OpeningsInv'
        BY <1>0, <2>1, <2>4, <3>1, AdjustStepIs DEF OpeningsInv
      <3>4. KeysInv'
        <4>1. screen # "product" => Adjust!DoneHasMoved'
          BY <1>0, <2>1, <2>4 DEF KeysInv, Adjust!DoneHasMoved, Adjust!MovesOf
        <4>2. screen # "product" /\ step = "ok" => m \in moves
          <5> SUFFICES ASSUME screen # "product", step = "ok" PROVE m \in moves
            OBVIOUS
          <5>1. PICK n \in moves : n.key = c.key /\ n.change = c.change
            BY <3>1
          <5>2. n.opening = c.opening
            BY <1>0, <5>1 DEF KeysInv
          <5> QED  BY <1>0, <2>2, <5>1, <5>2 DEF Adjust!Move, Adjust!Made
        <4>3. \A d \in calls' : d \in calls \/ (Adjust!Made(d) = m /\ d.step = step)
          BY <3>1, AdjustStepIs DEF Adjust!Made
        <4> HIDE DEF m
        <4> QED  BY <1>0, <2>1, <2>2, <2>4, <3>1, <4>1, <4>2, <4>3, AdjustStepIs DEF KeysInv
      <3> QED  BY <3>2, <3>3, <3>4 DEF AdjustInv
    <2> QED  BY <1>1, <2>3, <2>4 DEF Adjust!RecordStockMovement, Adjust!Of
  <1>2. CASE Adjust!Lose(c)
    <2>1. /\ Adjust!Step(c, "lost") /\ lost' = lost \cup {c.opening}
          /\ UNCHANGED <<screen, onHand, withdrawn, moves, shownStock, opening, isOpen,
                         moveDraft, moveKey, moveKeys, done>>
      BY <1>2 DEF Adjust!Lose
    <2>2. Adjust!TypeOK'
      BY <1>0, <2>1, AdjustStepIs DEF Adjust!TypeOK
    <2>3. OpeningsInv'
      BY <1>0, <2>1, AdjustStepIs DEF OpeningsInv
    <2>4. KeysInv'
      <3>1. screen # "product" => Adjust!DoneHasMoved'
        BY <1>0, <2>1 DEF KeysInv, Adjust!DoneHasMoved, Adjust!MovesOf
      <3>2. \A d \in calls' : d.step = "ok" => d \in calls
        BY <2>1, AdjustStepIs
      <3> QED  BY <1>0, <2>1, <3>1, <3>2, AdjustStepIs DEF KeysInv, Adjust!Made
    <2> QED  BY <2>2, <2>3, <2>4 DEF AdjustInv
  <1>3. CASE Adjust!WebDone(c) \/ Adjust!PhoneDone(c)
    <2>1. /\ c.step = "ok" /\ calls' = calls \ {c} /\ isOpen' = FALSE
          /\ done' = done \cup {<<c.opening, c.change>>} /\ moveDraft' \in {moveDraft, None}
          /\ UNCHANGED <<screen, onHand, withdrawn, moves, shownStock, opening, moveKey,
                         moveKeys, lost>>
      BY <1>3 DEF Adjust!WebDone, Adjust!PhoneDone
    <2>2. Adjust!TypeOK'
      <3>1. <<c.opening, c.change>> \in Adjust!Opening \X Adjust!Changes
        BY <1>0
      <3>2. done' \subseteq Adjust!Opening \X Adjust!Changes
        BY <1>0, <2>1, <3>1 DEF Adjust!TypeOK
      <3>3. moveDraft' \in Adjust!Changes \cup {None}
        BY <1>0, <2>1 DEF Adjust!TypeOK
      <3> QED  BY <1>0, <2>1, <3>2, <3>3 DEF Adjust!TypeOK
    <2>3. OpeningsInv'
      BY <1>0, <2>1 DEF OpeningsInv
    <2>4. screen # "product" => Adjust!DoneHasMoved'
      <3>1. Adjust!Made(c).opening = c.opening /\ Adjust!Made(c).change = c.change
        BY DEF Adjust!Made
      <3> QED  BY <1>0, <2>1, <3>1 DEF KeysInv, Adjust!DoneHasMoved, Adjust!MovesOf
    <2>5. KeysInv'
      BY <1>0, <2>1, <2>4 DEF KeysInv, Adjust!Made
    <2> QED  BY <2>2, <2>3, <2>5 DEF AdjustInv
  <1>4. CASE Adjust!WebFailed(c) \/ Adjust!PhoneFailed(c)
    <2>1. /\ c.step \in {"error", "lost"} /\ calls' = calls \ {c}
          /\ UNCHANGED <<screen, onHand, withdrawn, moves, shownStock, opening, isOpen,
                         moveDraft, lost, done>>
          /\ \/ moveKeys < MaxMoveKeys /\ moveKey' = moveKeys + 1 /\ moveKeys' = moveKeys + 1
             \/ moveKey' = moveKey /\ moveKeys' = moveKeys
      BY <1>4 DEF Adjust!WebFailed, Adjust!PhoneFailed, Adjust!OwnKey, Adjust!NewKey
    <2>2. moveKeys' \in 1..MaxMoveKeys /\ moveKey' \in 1..moveKeys'
      BY <1>0, <2>1
    <2>3. Adjust!TypeOK'
      BY <1>0, <2>1, <2>2 DEF Adjust!TypeOK
    <2>4. OpeningsInv'
      BY <1>0, <2>1 DEF OpeningsInv
    <2>5. KeysInv'
      BY <1>0, <2>1 DEF KeysInv, Adjust!DoneHasMoved, Adjust!MovesOf, Adjust!Made
    <2> QED  BY <2>3, <2>4, <2>5 DEF AdjustInv
  <1> QED  BY <1>1, <1>2, <1>3, <1>4 DEF AdjustCallStep

\* Every step keeps the invariant.
LEMMA AdjustNext ==
    Adjust!AdjustAssumption /\ AdjustInv /\ [Adjust!Next]_(Adjust!vars) => AdjustInv'
  <1> SUFFICES ASSUME Adjust!AdjustAssumption, AdjustInv, [Adjust!Next]_(Adjust!vars)
               PROVE  AdjustInv'
    OBVIOUS
  <1>1. ASSUME NEW c \in calls, AdjustCallStep(c)  PROVE AdjustInv'
    BY <1>1, AdjustCallKeeps
  <1>2. CASE AdjustDialogStep
    BY <1>2, AdjustDialogKeeps
  <1>3. CASE ProductStep
    BY <1>3, ProductKeeps
  <1>4. CASE UNCHANGED Adjust!vars
    BY <1>4 DEF Adjust!vars, AdjustInv, Adjust!TypeOK, OpeningsInv, KeysInv, Adjust!DoneHasMoved,
       Adjust!MovesOf, Adjust!Made
  <1> QED  BY <1>1, <1>2, <1>3, <1>4 DEF Adjust!Next, AdjustCallStep, AdjustDialogStep, ProductStep

\* An opening that lost no answer moved the stock at most once.
LEMMA OnceWithoutLoss == AdjustInv => Adjust!TwiceOnlyWhenLost
  <1>0. \A S : Adjust!Cardinality(S) = Cardinality(S)
    BY Zenon DEF Adjust!Cardinality, Cardinality
  <1> SUFFICES ASSUME AdjustInv, NEW o \in Adjust!Opening, Cardinality(Adjust!MovesOf(o)) > 1,
                      ~(o \in lost)
               PROVE  FALSE
    BY <1>0 DEF Adjust!TwiceOnlyWhenLost
  <1>1. \A m, n \in Adjust!MovesOf(o) : m = n
    BY DEF AdjustInv, OpeningsInv, Adjust!MovesOf
  <1>2. CASE Adjust!MovesOf(o) = {}
    BY <1>2, FS_EmptySet
  <1>3. CASE Adjust!MovesOf(o) # {}
    <2>1. PICK m : m \in Adjust!MovesOf(o)
      BY <1>3
    <2>2. Adjust!MovesOf(o) = {m}
      BY <1>1, <2>1
    <2>3. Cardinality(Adjust!MovesOf(o)) = 1
      BY <2>2, FS_Singleton, Zenon
    <2> QED  BY <2>3
  <1> QED  BY <1>2, <1>3

\* An opening moves the stock again only after it lost an answer; in a dialog
\* that is made anew, one that ended well moved it as it was asked.
THEOREM AdjustmentsAreMade ==
    ASSUME Adjust!AdjustAssumption
    PROVE  /\ Adjust!Spec => [](Adjust!TypeOK /\ Adjust!TwiceOnlyWhenLost)
           /\ "product" \notin Screens => (Adjust!Spec => []Adjust!DoneHasMoved)
  <1>1. AdjustInv => Adjust!TypeOK /\ Adjust!TwiceOnlyWhenLost
    BY OnceWithoutLoss DEF AdjustInv
  <1>2. ASSUME "product" \notin Screens  PROVE AdjustInv => Adjust!DoneHasMoved
    BY <1>2 DEF AdjustInv, KeysInv, Adjust!TypeOK
  <1>3. Adjust!Spec => [](Adjust!TypeOK /\ Adjust!TwiceOnlyWhenLost)
    BY <1>1, AdjustInit, AdjustNext, PTL DEF Adjust!Spec
  <1>4. ASSUME "product" \notin Screens  PROVE Adjust!Spec => []Adjust!DoneHasMoved
    BY <1>2, <1>4, AdjustInit, AdjustNext, PTL DEF Adjust!Spec
  <1> QED  BY <1>3, <1>4

----------------------------------------------------------------------------
(* The search of a photo.                                                  *)

\* The key of the page is new while no photo is in the queue, and every search
\* that was begun has one that was drawn.
SearchInv ==
    /\ added \in Nat /\ queue \in Seq(Nat) /\ searchKey \in Nat
    /\ \A a \in begun : a.key \in Nat /\ a.key <= searchKey
    /\ queue = <<>> => \A a \in begun : a.key # searchKey
    /\ Search!OneSearchPerKey

\* It holds at first.
LEMMA SearchInit == Search!Init => SearchInv
  BY DEF Search!Init, SearchInv, Search!OneSearchPerKey

\* A photo is added or removed.
PhotoStep ==
    \/ Search!WebAddPhoto \/ Search!PhoneAddPhoto
    \/ \E f \in Search!Photo : Search!WebRemovePhoto(f) \/ Search!PhoneRemovePhoto(f)

\* A photo added or removed keeps the invariant.
LEMMA PhotoKeeps ==
    ASSUME SearchInv, PhotoStep
    PROVE  SearchInv'
  <1>1. CASE Search!WebAddPhoto \/ Search!PhoneAddPhoto
    <2>1. Search!AddPhoto
      BY <1>1 DEF Search!WebAddPhoto, Search!PhoneAddPhoto
    <2>2. added' \in Nat /\ queue' \in Seq(Nat) /\ queue' # <<>> /\ searchKey' = searchKey
      BY <2>1 DEF SearchInv, Search!AddPhoto
    <2>3. \/ queue = <<>> /\ begun' = begun \cup {[photo |-> added + 1, key |-> searchKey]}
          \/ begun' = begun
      BY <2>1 DEF Search!AddPhoto, Search!RunAssistedSearch
    <2>4. \A a \in begun' : a.key \in Nat /\ a.key <= searchKey
      BY <2>3 DEF SearchInv
    <2> QED  BY <2>2, <2>3, <2>4 DEF SearchInv, Search!OneSearchPerKey
  <1>2. ASSUME NEW f, Search!WebRemovePhoto(f) \/ Search!PhoneRemovePhoto(f)
        PROVE  SearchInv'
    <2>1. /\ added' = added /\ begun' = begun
          /\ IF queue' = <<>> THEN searchKey' = searchKey + 1 ELSE searchKey' = searchKey
      BY <1>2 DEF Search!WebRemovePhoto, Search!PhoneRemovePhoto, Search!RemovePhoto,
         Search!ResetAssistedSearch
    <2>2. PICK i \in 1..Len(queue) : queue' = RemoveAt(queue, i)
      BY <1>2 DEF Search!WebRemovePhoto, Search!PhoneRemovePhoto, Search!RemovePhoto,
         Search!RemoveAt, RemoveAt
    <2>3. queue' \in Seq(Nat)
      BY <2>2, RemoveAtIs DEF SearchInv
    <2> QED  BY <2>1, <2>3 DEF SearchInv, Search!OneSearchPerKey
  <1> QED  BY <1>1, <1>2 DEF PhotoStep

\* Every step keeps the invariant.
LEMMA SearchNext == SearchInv /\ [Search!Next]_(Search!vars) => SearchInv'
  <1> SUFFICES ASSUME SearchInv, [Search!Next]_(Search!vars) PROVE SearchInv'
    OBVIOUS
  <1>1. CASE PhotoStep
    BY <1>1, PhotoKeeps
  <1>2. ASSUME UNCHANGED <<added, queue, begun>>,
                           searchKey' = searchKey \/ searchKey' = searchKey + 1
        PROVE  SearchInv'
    BY <1>2 DEF SearchInv, Search!OneSearchPerKey
  <1>3. ASSUME NEW s \in searches, \/ Search!Upload(s) \/ Search!SuggestProducts(s)
                                   \/ Search!Fail(s) \/ Search!Found(s) \/ Search!Failed(s)
        PROVE  SearchInv'
    BY <1>2, <1>3 DEF Search!Upload, Search!SuggestProducts, Search!Fail, Search!Found, Search!Failed
  <1>4. CASE Search!WebApplyCandidate \/ Search!PhoneApplyCandidate \/ Search!WebFillByHand
             \/ Search!PhoneFillByHand \/ Search!Leave \/ Search!PhonePlanRead
    BY <1>2, <1>4 DEF Search!WebApplyCandidate, Search!PhoneApplyCandidate, Search!ApplyCandidate,
       Search!WebFillByHand, Search!PhoneFillByHand, Search!FillByHand, Search!Leave, Search!PhonePlanRead
  <1>5. CASE UNCHANGED Search!vars
    BY <1>2, <1>5 DEF Search!vars
  <1> QED  BY <1>1, <1>3, <1>4, <1>5 DEF Search!Next, PhotoStep

\* No two photos are searched under one key.
THEOREM SearchesHaveTheirKeys ==
    Search!Init /\ [][Search!Next]_(Search!vars) => []Search!OneSearchPerKey
  <1>1. SearchInv => Search!OneSearchPerKey
    BY DEF SearchInv
  <1> QED  BY <1>1, SearchInit, SearchNext, PTL

\* What the page and the server keep of photos that were added.
SearchTypes ==
    /\ client \in Clients /\ allowed \in BOOLEAN /\ added <= MaxPhotos
    /\ \A i \in 1..Len(queue) : queue[i] \in 1..added
    /\ \A i, j \in 1..Len(queue) : queue[i] = queue[j] => i = j
    /\ Len(queue) <= MaxQueue
    /\ phase \in {"photo", "searching", "pick", "form", "left"}
    /\ phase = "photo" => queue = <<>>
    /\ candidates \in (1..added) \cup {None} /\ applied \in (1..added) \cup {None}
    /\ searchKey # 0
    /\ begun \subseteq [photo : 1..added, key : Nat \ {0}]
    /\ searches \subseteq [photo : 1..added, key : Nat \ {0}, step : Search!Steps]
    /\ \A s, t \in searches : s.photo = t.photo => s = t
    /\ \A s \in searches : [photo |-> s.photo, key |-> s.key] \in begun
    /\ ledger \subseteq begun

\* A photo costs at most two keys, one when it leaves the queue and one when its
\* search fails: the photos of the queue and the searches under way have theirs
\* to spare.
KeysSpare ==
    /\ IsFiniteSet(searches)
    /\ searchKey + Len(queue) + Cardinality(searches) <= 1 + 2 * added

\* They hold at first.
LEMMA SearchTypesInit == Search!SearchAssumption /\ Search!Init => SearchTypes /\ KeysSpare
  <1> SUFFICES ASSUME Search!SearchAssumption, Search!Init PROVE SearchTypes /\ KeysSpare
    OBVIOUS
  <1>1. /\ client \in Clients /\ allowed \in BOOLEAN /\ added = 0 /\ queue = <<>> /\ searchKey = 1
        /\ candidates = None /\ applied = None /\ searches = {} /\ begun = {} /\ ledger = {}
        /\ phase = "photo" /\ MaxPhotos \in Nat /\ MaxQueue \in Nat
    BY DEF Search!SearchAssumption, Search!Init
  <1>2. Len(queue) = 0 /\ \A i \in 1..Len(queue) : FALSE
    BY <1>1
  <1>3. KeysSpare
    BY <1>1, <1>2, FS_EmptySet DEF KeysSpare
  <1> QED  BY <1>1, <1>2, <1>3 DEF SearchTypes

\* They are the types of the search.
LEMMA SearchTypesGive ==
    ASSUME Search!SearchAssumption, SearchInv, SearchTypes, KeysSpare
    PROVE  Search!TypeOK
  <1>1. /\ MaxPhotos \in Nat /\ added \in Nat /\ searchKey \in Nat
        /\ queue \in Seq(Nat) /\ Len(queue) \in Nat /\ DOMAIN queue = 1..Len(queue)
    BY DEF Search!SearchAssumption, SearchInv
  <1>2. Search!IsInjective(queue) /\ Search!ToSet(queue) \subseteq 1..added
    BY <1>1 DEF SearchTypes, Search!IsInjective, Search!ToSet
  <1>3. added \in 0..MaxPhotos /\ 1..added \subseteq Search!Photo
    BY <1>1 DEF SearchTypes, Search!Photo
  <1>4. searchKey <= 2 * MaxPhotos + 1
    <2>1. Cardinality(searches) \in Nat
      BY FS_CardinalityType DEF KeysSpare
    <2> QED  BY <1>1, <2>1 DEF KeysSpare, SearchTypes
  <1>5. searchKey \in Search!Key /\ \A k \in Nat \ {0} : k <= searchKey => k \in Search!Key
    BY <1>1, <1>4 DEF SearchTypes, Search!Key
  <1>6. begun \subseteq Search!Ask
    BY <1>3, <1>5 DEF SearchInv, SearchTypes, Search!Ask
  <1>7. searches \subseteq [photo : Search!Photo, key : Search!Key, step : Search!Steps]
    <2> SUFFICES ASSUME NEW s \in searches
                 PROVE  s \in [photo : Search!Photo, key : Search!Key, step : Search!Steps]
      OBVIOUS
    <2>1. [photo |-> s.photo, key |-> s.key] \in Search!Ask
      BY <1>6 DEF SearchTypes
    <2>2. s.key \in Search!Key /\ s.photo \in Search!Photo
      BY <2>1 DEF Search!Ask
    <2> QED  BY <2>2 DEF SearchTypes
  <1> QED  BY <1>2, <1>3, <1>5, <1>6, <1>7 DEF SearchTypes, Search!TypeOK

\* A photo is added.
LEMMA AddTypes ==
    ASSUME Search!SearchAssumption, SearchInv, SearchTypes, KeysSpare, Search!AddPhoto
    PROVE  SearchTypes' /\ KeysSpare'
  <1>1. /\ added \in Nat /\ queue \in Seq(Nat) /\ Len(queue) \in Nat /\ searchKey \in Nat
        /\ MaxPhotos \in Nat /\ MaxQueue \in Nat
    BY DEF Search!SearchAssumption, SearchInv
  <1>2. /\ added' = added + 1 /\ queue' = Append(queue, added + 1)
        /\ added < MaxPhotos /\ Len(queue) < MaxQueue
        /\ UNCHANGED <<client, allowed, candidates, applied, searchKey, ledger>>
    BY DEF Search!AddPhoto
  <1>3. /\ Len(queue') = Len(queue) + 1 /\ queue'[Len(queue) + 1] = added + 1
        /\ \A i \in 1..Len(queue) : queue'[i] = queue[i]
        /\ 1..added \subseteq 1..added' /\ added + 1 \in 1..added' /\ added + 1 \notin 1..added
        /\ \A i \in 1..Len(queue') : i \in 1..Len(queue) \/ i = Len(queue) + 1
    BY <1>1, <1>2
  <1> DEFINE last == Len(queue) + 1
  <1>4. /\ \A i \in 1..Len(queue') : queue'[i] \in 1..added'
        /\ \A i, j \in 1..Len(queue') : queue'[i] = queue'[j] => i = j
    <2>1. \A i \in 1..Len(queue) : queue'[i] \in 1..added
      BY <1>3 DEF SearchTypes
    <2>2. \A i, j \in 1..Len(queue) : queue'[i] = queue'[j] => i = j
      BY <1>3 DEF SearchTypes
    <2>3. \A i \in 1..Len(queue') : i \in 1..Len(queue) \/ (i = last /\ queue'[i] = added + 1)
      BY <1>3
    <2> QED  BY <1>3, <2>1, <2>2, <2>3
  <1>5. added' <= MaxPhotos /\ Len(queue') <= MaxQueue
    BY <1>1, <1>2, <1>3
  <1>6. Cardinality(searches) \in Nat
    BY FS_CardinalityType DEF KeysSpare
  <1>7. CASE UNCHANGED <<phase, searches, begun>> /\ queue # <<>>
    <2>1. /\ begun \subseteq [photo : 1..added', key : Nat \ {0}]
          /\ searches \subseteq [photo : 1..added', key : Nat \ {0}, step : Search!Steps]
      BY <1>3 DEF SearchTypes
    <2>2. KeysSpare'
      BY <1>1, <1>2, <1>3, <1>6, <1>7 DEF KeysSpare
    <2> QED  BY <1>2, <1>3, <1>4, <1>5, <1>7, <2>1, <2>2 DEF SearchTypes
  <1>8. CASE ~(UNCHANGED <<phase, searches, begun>> /\ queue # <<>>)
    <2>1. PICK s, a : /\ s = [photo |-> added + 1, key |-> searchKey, step |-> "uploading"]
                      /\ a = [photo |-> added + 1, key |-> searchKey]
      OBVIOUS
    <2>2. /\ phase' = "searching" /\ searches' = searches \cup {s} /\ begun' = begun \cup {a}
      BY <1>8, <2>1 DEF Search!AddPhoto, Search!RunAssistedSearch
    <2>3. /\ s \in [photo : 1..added', key : Nat \ {0}, step : Search!Steps] /\ s.photo = added + 1
          /\ a \in [photo : 1..added', key : Nat \ {0}] /\ [photo |-> s.photo, key |-> s.key] = a
      BY <1>1, <1>3, <2>1 DEF SearchTypes, Search!Steps
    <2>4. \A t \in searches : t.photo # added + 1
      BY <1>3 DEF SearchTypes
    <2>5. /\ begun' \subseteq [photo : 1..added', key : Nat \ {0}]
          /\ searches' \subseteq [photo : 1..added', key : Nat \ {0}, step : Search!Steps]
      BY <1>3, <2>2, <2>3 DEF SearchTypes
    <2>6. /\ \A t, u \in searches' : t.photo = u.photo => t = u
          /\ \A t \in searches' : [photo |-> t.photo, key |-> t.key] \in begun'
          /\ ledger' \subseteq begun'
      BY <1>2, <2>2, <2>3, <2>4 DEF SearchTypes
    <2>7. KeysSpare'
      <3>1. /\ IsFiniteSet(searches \cup {s})
            /\ \/ Cardinality(searches \cup {s}) = Cardinality(searches)
               \/ Cardinality(searches \cup {s}) = Cardinality(searches) + 1
        BY FS_AddElement DEF KeysSpare
      <3>3. IsFiniteSet(searches') /\ Cardinality(searches') <= Cardinality(searches) + 1
        BY <1>6, <2>2, <3>1
      <3>2. Cardinality(searches') \in Nat
        BY <3>3, FS_CardinalityType
      <3> QED  BY <1>1, <1>2, <1>3, <1>6, <3>2, <3>3 DEF KeysSpare
    <2> QED  BY <1>2, <1>3, <1>4, <1>5, <2>2, <2>5, <2>6, <2>7 DEF SearchTypes
  <1> QED  BY <1>7, <1>8

\* A photo is removed.
LEMMA RemoveTypes ==
    ASSUME Search!SearchAssumption, SearchInv, SearchTypes, KeysSpare, NEW f, Search!RemovePhoto(f)
    PROVE  SearchTypes' /\ KeysSpare'
  <1>1. /\ added \in Nat /\ queue \in Seq(Nat) /\ Len(queue) \in Nat /\ searchKey \in Nat
        /\ Cardinality(searches) \in Nat /\ MaxQueue \in Nat
    BY FS_CardinalityType DEF Search!SearchAssumption, SearchInv, KeysSpare
  <1>2. PICK i \in 1..Len(queue) : queue' = RemoveAt(queue, i)
    BY DEF Search!RemovePhoto, Search!RemoveAt, RemoveAt
  <1> DEFINE From(j) == IF j < i THEN j ELSE j + 1
  <1>3. /\ Len(queue') = Len(queue) - 1 /\ Len(queue') \in Nat
        /\ \A j \in 1..Len(queue') : From(j) \in 1..Len(queue) /\ queue'[j] = queue[From(j)]
        /\ \A j, k \in 1..Len(queue') : From(j) = From(k) => j = k
    <2>1. /\ Len(queue') = Len(queue) - 1
          /\ \A j \in 1..(Len(queue) - 1) : queue'[j] = IF j < i THEN queue[j] ELSE queue[j + 1]
      BY <1>1, <1>2, RemoveAtIs
    <2>2. /\ \A j \in 1..(Len(queue) - 1) : From(j) \in 1..Len(queue)
          /\ \A j, k \in 1..(Len(queue) - 1) : From(j) = From(k) => j = k
          /\ Len(queue) - 1 \in Nat
      BY <1>1
    <2> QED  BY <2>1, <2>2
  <1> HIDE DEF From
  <1>4. /\ UNCHANGED <<client, allowed, added, applied, searches, begun, ledger>>
        /\ IF queue' = <<>>
             THEN candidates' = None /\ phase' = "photo" /\ searchKey' = searchKey + 1
             ELSE UNCHANGED <<candidates, phase, searchKey>>
    BY DEF Search!RemovePhoto, Search!ResetAssistedSearch
  <1>5. /\ \A j \in 1..Len(queue') : queue'[j] \in 1..added
        /\ \A j, k \in 1..Len(queue') : queue'[j] = queue'[k] => j = k
    <2>1. \A j \in 1..Len(queue') : queue'[j] \in 1..added
      BY <1>3 DEF SearchTypes
    <2>2. ASSUME NEW j \in 1..Len(queue'), NEW k \in 1..Len(queue'), queue'[j] = queue'[k]
          PROVE  j = k
      <3>1. /\ From(j) \in 1..Len(queue) /\ From(k) \in 1..Len(queue)
            /\ queue[From(j)] = queue[From(k)]
        BY <1>3, <2>2
      <3>2. From(j) = From(k)
        BY <3>1 DEF SearchTypes
      <3> QED  BY <1>3, <3>2
    <2> QED  BY <2>1, <2>2
  <1>6. queue # <<>>
    BY <1>1
  <1>7. KeysSpare' /\ searchKey' # 0
    BY <1>1, <1>3, <1>4 DEF KeysSpare, SearchTypes
  <1>8. Len(queue') <= MaxQueue
    <2>1. Len(queue) <= MaxQueue
      BY DEF SearchTypes
    <2> QED  BY <1>1, <1>3, <2>1
  <1>9. phase' = "photo" => queue' = <<>>
    BY <1>4, <1>6 DEF SearchTypes
  <1>10. phase' \in {"photo", "searching", "pick", "form", "left"} /\ candidates' \in (1..added) \cup {None}
    BY <1>4 DEF SearchTypes
  <1> QED  BY <1>4, <1>5, <1>7, <1>8, <1>9, <1>10 DEF SearchTypes

\* A search goes on: it keeps its photo and its key.
LEMMA StepTypes ==
    ASSUME SearchInv, SearchTypes, KeysSpare, NEW s \in searches, NEW step \in Search!Steps,
           Search!Step(s, step), ledger' \subseteq begun,
           UNCHANGED <<client, allowed, added, queue, phase, candidates, applied, searchKey, begun>>
    PROVE  SearchTypes' /\ KeysSpare'
  <1>1. PICK t : /\ t \in [photo : 1..added, key : Nat \ {0}, step : Search!Steps]
                 /\ searches' = (searches \ {s}) \cup {t} /\ t.photo = s.photo /\ t.key = s.key
    <2>1. PICK t : t = [s EXCEPT !.step = step]
      OBVIOUS
    <2>2. s \in [photo : 1..added, key : Nat \ {0}, step : Search!Steps]
      BY DEF SearchTypes
    <2>3. t \in [photo : 1..added, key : Nat \ {0}, step : Search!Steps] /\ t.photo = s.photo /\ t.key = s.key
      BY <2>1, <2>2
    <2>4. searches' = (searches \ {s}) \cup {t}
      BY <2>1 DEF Search!Step
    <2> QED  BY <2>3, <2>4
  <1>2. /\ searches' \subseteq [photo : 1..added, key : Nat \ {0}, step : Search!Steps]
        /\ \A u, v \in searches' : u.photo = v.photo => u = v
        /\ \A u \in searches' : [photo |-> u.photo, key |-> u.key] \in begun
    BY <1>1 DEF SearchTypes
  <1>3. IsFiniteSet(searches') /\ Cardinality(searches') <= Cardinality(searches)
    <2>1. /\ IsFiniteSet(searches \ {s}) /\ Cardinality(searches \ {s}) = Cardinality(searches) - 1
          /\ Cardinality(searches) \in Nat
      BY FS_RemoveElement, FS_CardinalityType DEF KeysSpare
    <2>2. /\ IsFiniteSet(searches')
          /\ \/ Cardinality(searches') = Cardinality(searches \ {s})
             \/ Cardinality(searches') = Cardinality(searches \ {s}) + 1
      BY <1>1, <2>1, FS_AddElement
    <2> QED  BY <2>1, <2>2
  <1>4. KeysSpare'
    <2>1. Len(queue) \in Nat /\ added \in Nat /\ searchKey \in Nat
      BY DEF SearchInv
    <2>2. Cardinality(searches) \in Nat /\ Cardinality(searches') \in Nat
      BY <1>3, FS_CardinalityType DEF KeysSpare
    <2>3. searchKey + Len(queue) + Cardinality(searches') <= 1 + 2 * added
      BY <1>3, <2>1, <2>2 DEF KeysSpare
    <2> QED  BY <1>3, <2>3 DEF KeysSpare
  <1> QED  BY <1>2, <1>4 DEF SearchTypes

\* A search ends: when it fails, the key it had to spare is drawn.
LEMMA EndTypes ==
    ASSUME SearchInv, SearchTypes, KeysSpare, NEW s \in searches, Search!Found(s) \/ Search!Failed(s)
    PROVE  SearchTypes' /\ KeysSpare'
  <1>1. /\ searches' = searches \ {s}
        /\ UNCHANGED <<client, allowed, added, queue, applied, begun, ledger>>
        /\ phase' = phase \/ phase' \in {"pick", "form"}
        /\ candidates' = candidates \/ candidates' = s.photo
        /\ searchKey' = searchKey \/ searchKey' = searchKey + 1
    BY DEF Search!Found, Search!Failed, Search!On
  <1>2. candidates' \in (1..added) \cup {None}
    BY <1>1 DEF SearchTypes
  <1>3. KeysSpare' /\ searchKey' # 0
    <2>1. Len(queue) \in Nat /\ added \in Nat /\ searchKey \in Nat
      BY DEF SearchInv
    <2>2. /\ IsFiniteSet(searches \ {s}) /\ Cardinality(searches \ {s}) = Cardinality(searches) - 1
          /\ Cardinality(searches) \in Nat
      BY FS_RemoveElement, FS_CardinalityType DEF KeysSpare
    <2> QED  BY <1>1, <2>1, <2>2 DEF KeysSpare, SearchTypes
  <1>4. /\ searches' \subseteq [photo : 1..added, key : Nat \ {0}, step : Search!Steps]
        /\ \A u, v \in searches' : u.photo = v.photo => u = v
        /\ \A u \in searches' : [photo |-> u.photo, key |-> u.key] \in begun
    BY <1>1 DEF SearchTypes
  <1>5. phase' = "photo" => queue = <<>>
    BY <1>1 DEF SearchTypes
  <1>6. phase' \in {"photo", "searching", "pick", "form", "left"}
    BY <1>1 DEF SearchTypes
  <1> QED  BY <1>1, <1>2, <1>3, <1>4, <1>5, <1>6 DEF SearchTypes

\* Every step keeps them.
LEMMA SearchTypesNext ==
    ASSUME Search!SearchAssumption, SearchInv, SearchTypes, KeysSpare, [Search!Next]_(Search!vars)
    PROVE  SearchTypes' /\ KeysSpare'
  <1>1. CASE Search!WebAddPhoto \/ Search!PhoneAddPhoto
    BY <1>1, AddTypes DEF Search!WebAddPhoto, Search!PhoneAddPhoto
  <1>2. ASSUME NEW f, Search!WebRemovePhoto(f) \/ Search!PhoneRemovePhoto(f)
        PROVE  SearchTypes' /\ KeysSpare'
    BY <1>2, RemoveTypes DEF Search!WebRemovePhoto, Search!PhoneRemovePhoto
  <1>3. ASSUME NEW s \in searches, Search!Upload(s) \/ Search!SuggestProducts(s) \/ Search!Fail(s)
        PROVE  SearchTypes' /\ KeysSpare'
    <2>1. /\ \E step \in Search!Steps : Search!Step(s, step)
          /\ UNCHANGED <<client, allowed, added, queue, phase, candidates, applied, searchKey,
                         begun>>
          /\ ledger' = ledger \/ ledger' = ledger \cup {[photo |-> s.photo, key |-> s.key]}
      BY <1>3 DEF Search!Upload, Search!SuggestProducts, Search!Fail, Search!Steps
    <2>2. ledger' \subseteq begun
      BY <2>1 DEF SearchTypes
    <2> QED  BY <2>1, <2>2, StepTypes
  <1>4. ASSUME NEW s \in searches, Search!Found(s) \/ Search!Failed(s)
        PROVE  SearchTypes' /\ KeysSpare'
    BY <1>4, EndTypes
  <1>5. ASSUME UNCHANGED <<client, allowed, added, queue, candidates, searchKey, searches, begun,
                           ledger>>,
               \/ UNCHANGED <<phase, applied>>
               \/ phase' \in {"form", "left"} /\ (applied' = applied \/ applied' = candidates)
        PROVE  SearchTypes' /\ KeysSpare'
    <2>1. /\ applied' \in (1..added) \cup {None} /\ (phase' = "photo" => queue = <<>>)
          /\ phase' \in {"photo", "searching", "pick", "form", "left"}
      BY <1>5 DEF SearchTypes
    <2> QED  BY <1>5, <2>1 DEF SearchTypes, KeysSpare
  <1>6. CASE Search!WebApplyCandidate \/ Search!PhoneApplyCandidate \/ Search!WebFillByHand
             \/ Search!PhoneFillByHand \/ Search!Leave \/ Search!PhonePlanRead
    BY <1>5, <1>6 DEF Search!WebApplyCandidate, Search!PhoneApplyCandidate, Search!ApplyCandidate,
       Search!WebFillByHand, Search!PhoneFillByHand, Search!FillByHand, Search!Leave, Search!PhonePlanRead
  <1>7. CASE UNCHANGED Search!vars
    BY <1>5, <1>7 DEF Search!vars
  <1> QED  BY <1>1, <1>2, <1>3, <1>4, <1>6, <1>7 DEF Search!Next

\* What the page and the server keep of the searches has its type; the keys
\* drawn stay within the two that each photo has.
THEOREM SearchIsTyped ==
    ASSUME Search!SearchAssumption
    PROVE  Search!Init /\ [][Search!Next]_(Search!vars) => []Search!TypeOK
  <1> QED  BY SearchInit, SearchNext, SearchTypesInit, SearchTypesNext, SearchTypesGive, PTL

----------------------------------------------------------------------------
(* The page of a shipment.                                                 *)

\* One page at a time registers, and it found the shipment pending.  What was
\* registered is what its pages sent, what the keys replay and what the mail says.
RegisteringInv ==
    /\ \A p, q \in ShipPages : shipPage[p].register = "locked" /\ shipPage[q].register = "locked" => p = q
    /\ \A p \in ShipPages : shipPage[p].register # "idle" => shipPage[p].sent \in Data
    /\ shipment.status = "pending" =>
          /\ mail = None /\ \A r \in used : r.data = None
          /\ \A p \in ShipPages : shipPage[p].register # "ok" /\ shipPage[p].said = None
    /\ shipment.status = "registered" =>
          /\ email => mail = shipment.data
          /\ \A r \in used : r.data = None \/ r.data = shipment.data
          /\ \A p \in ShipPages :
                /\ shipPage[p].register # "locked"
                /\ shipPage[p].register = "ok" => shipPage[p].sent = shipment.data
                /\ shipPage[p].said # None => shipPage[p].said = shipment.data

ShipInv == Ship!TypeOK /\ RegisteringInv

PageState ==
    [shown : Ship!Answer, form : Data, confirm : BOOLEAN, key : Ship!Keys,
     labelKey : Ship!Keys, said : Data \cup {None},
     register : {"idle", "sent", "locked", "ok", "error"},
     sent : Data \cup {None}, answer : Ship!Answer,
     label : {"idle", "sent", "ok", "error"}, labelAnswer : Ship!Answer]

\* What the pages know of the shipment is an answer.
LEMMA AnswersAre ==
    /\ Ship!Now \in Ship!Answer /\ Ship!Stale \in Ship!Answer
    /\ [registered |-> TRUE, paid |-> order = "paid"] \in Ship!Answer
  BY DEF Ship!Now, Ship!Stale, Ship!Answer

\* A page that is opened.
LEMMA OpenedIs ==
    ASSUME Ship!ShipmentAssumption, NEW k \in Ship!Keys, NEW l \in Ship!Keys
    PROVE  /\ Ship!Opened(k, l) \in PageState
           /\ Ship!Opened(k, l).register = "idle" /\ Ship!Opened(k, l).said = None
  <1> DEFINE n == Ship!Now
             s == Ship!Stale
  <1>1. n \in Ship!Answer /\ s \in Ship!Answer /\ Blank \in Data
    BY AnswersAre DEF Ship!ShipmentAssumption
  <1>2. Ship!Opened(k, l) =
          [shown |-> n, form |-> Blank, confirm |-> FALSE, key |-> k, labelKey |-> l, said |-> None,
           register |-> "idle", sent |-> None, answer |-> s, label |-> "idle", labelAnswer |-> s]
    BY DEF Ship!Opened
  <1> HIDE DEF n, s
  <1> QED  BY <1>1, <1>2 DEF PageState

\* A page that becomes another leaves the others alone.
LEMMA PageIs ==
    ASSUME shipPage \in [ShipPages -> PageState], NEW p \in ShipPages, NEW r \in PageState,
           shipPage' = [shipPage EXCEPT ![p] = r]
    PROVE  /\ shipPage' \in [ShipPages -> PageState] /\ shipPage'[p] = r
           /\ \A q \in ShipPages : q # p => shipPage'[q] = shipPage[q]
  OBVIOUS

\* It holds at first.
LEMMA ShipInit == Ship!ShipmentAssumption /\ Ship!Init => ShipInv
  <1> SUFFICES ASSUME Ship!ShipmentAssumption, Ship!Init PROVE ShipInv
    OBVIOUS
  <1>1. 1 \in Ship!Keys
    BY DEF Ship!ShipmentAssumption, Ship!Keys
  <1>2. /\ shipPage \in [ShipPages -> PageState]
        /\ \A p \in ShipPages : shipPage[p].register = "idle" /\ shipPage[p].said = None
    BY <1>1, OpenedIs DEF Ship!Init
  <1>3. /\ shipment = [status |-> "pending", data |-> None] /\ mail = None
        /\ labels = [made |-> 0, live |-> {}] /\ used = {} /\ left = {} /\ order = "paid"
        /\ mode \in Modes /\ email \in Emails
    BY DEF Ship!Init
  <1>4. shipment \in Ship!Row /\ labels \in [made : 0..MaxLabels, live : SUBSET (1..MaxLabels)]
    BY <1>3 DEF Ship!Row, Ship!ShipmentAssumption
  <1> QED  BY <1>2, <1>3, <1>4 DEF ShipInv, RegisteringInv, Ship!TypeOK, PageState

\* A page changes nothing of its request.
QuietStep(p) ==
    /\ shipPage' \in [ShipPages -> PageState]
    /\ \A q \in ShipPages : q # p => shipPage'[q] = shipPage[q]
    /\ shipPage'[p].register = shipPage[p].register /\ shipPage'[p].sent = shipPage[p].sent
    /\ shipPage'[p].said = shipPage[p].said

\* A page works on its form, its confirmation or its label.
LEMMA QuietIs ==
    ASSUME Ship!ShipmentAssumption, ShipInv, NEW p \in ShipPages,
           \/ Ship!Refetch(p) \/ (\E d \in Data : Ship!Enter(p, d)) \/ Ship!OpenConfirm(p)
           \/ Ship!CloseConfirm(p) \/ Ship!Generate(p) \/ Ship!Generated(p) \/ Ship!NotGenerated(p)
    PROVE  QuietStep(p) /\ UNCHANGED <<Ship!server, left>>
  <1> DEFINE n == Ship!Now
             s == Ship!Stale
  <1>0. /\ shipPage \in [ShipPages -> PageState] /\ n \in Ship!Answer /\ s \in Ship!Answer
        /\ Ship!Keys = 1..MaxShipKeys /\ MaxShipKeys \in Nat
    BY AnswersAre DEF ShipInv, Ship!TypeOK, PageState, Ship!ShipmentAssumption, Ship!Keys
  <1>1. CASE Ship!Refetch(p)
    <2> DEFINE r == [shipPage[p] EXCEPT !.shown = n]
    <2>1. shipPage' = [shipPage EXCEPT ![p] = r] /\ UNCHANGED <<Ship!server, left>>
      BY <1>1 DEF Ship!Refetch
    <2> HIDE DEF n
    <2>2. /\ r \in PageState /\ r.register = shipPage[p].register /\ r.sent = shipPage[p].sent
          /\ r.said = shipPage[p].said
      BY <1>0 DEF PageState
    <2> HIDE DEF r
    <2> QED  BY <1>0, <2>1, <2>2, PageIs DEF QuietStep
  <1>2. ASSUME NEW d \in Data, Ship!Enter(p, d)
        PROVE  QuietStep(p) /\ UNCHANGED <<Ship!server, left>>
    <2> DEFINE r == [shipPage[p] EXCEPT !.form = d]
    <2>1. shipPage' = [shipPage EXCEPT ![p] = r] /\ UNCHANGED <<Ship!server, left>>
      BY <1>2 DEF Ship!Enter
    <2>2. /\ r \in PageState /\ r.register = shipPage[p].register /\ r.sent = shipPage[p].sent
          /\ r.said = shipPage[p].said
      BY <1>0 DEF PageState
    <2> HIDE DEF r
    <2> QED  BY <1>0, <2>1, <2>2, PageIs DEF QuietStep
  <1>3. CASE Ship!OpenConfirm(p) \/ Ship!CloseConfirm(p)
    <2>1. PICK b \in BOOLEAN : shipPage' = [shipPage EXCEPT ![p] = [shipPage[p] EXCEPT !.confirm = b]] /\ UNCHANGED <<Ship!server, left>>
      BY <1>3 DEF Ship!OpenConfirm, Ship!CloseConfirm
    <2> DEFINE r == [shipPage[p] EXCEPT !.confirm = b]
    <2>2. /\ r \in PageState /\ r.register = shipPage[p].register /\ r.sent = shipPage[p].sent
          /\ r.said = shipPage[p].said
      BY <1>0 DEF PageState
    <2>3. shipPage' = [shipPage EXCEPT ![p] = r] /\ UNCHANGED <<Ship!server, left>>
      BY <2>1
    <2> HIDE DEF r
    <2> QED  BY <1>0, <2>2, <2>3, PageIs DEF QuietStep
  <1>4. CASE Ship!Generate(p) \/ Ship!NotGenerated(p)
    <2>1. PICK step \in {"sent", "idle"} :
             shipPage' = [shipPage EXCEPT ![p] = [shipPage[p] EXCEPT !.label = step]] /\ UNCHANGED <<Ship!server, left>>
      BY <1>4 DEF Ship!Generate, Ship!NotGenerated
    <2> DEFINE r == [shipPage[p] EXCEPT !.label = step]
    <2>2. /\ r \in PageState /\ r.register = shipPage[p].register /\ r.sent = shipPage[p].sent
          /\ r.said = shipPage[p].said
      BY <1>0 DEF PageState
    <2>3. shipPage' = [shipPage EXCEPT ![p] = r] /\ UNCHANGED <<Ship!server, left>>
      BY <2>1
    <2> HIDE DEF r
    <2> QED  BY <1>0, <2>2, <2>3, PageIs DEF QuietStep
  <1>5. CASE Ship!Generated(p)
    <2> DEFINE r == [shipPage[p] EXCEPT !.label = "idle", !.shown = shipPage[p].labelAnswer,
                                       !.labelKey = @ + 1, !.labelAnswer = s]
    <2>1. /\ shipPage[p].labelKey < MaxShipKeys /\ UNCHANGED <<Ship!server, left>>
          /\ shipPage' = [shipPage EXCEPT ![p] = r]
      BY <1>5 DEF Ship!Generated
    <2>2. shipPage[p].labelKey + 1 \in Ship!Keys /\ shipPage[p].labelAnswer \in Ship!Answer
      BY <1>0, <2>1 DEF PageState
    <2> HIDE DEF s
    <2>3. /\ r \in PageState /\ r.register = shipPage[p].register /\ r.sent = shipPage[p].sent
          /\ r.said = shipPage[p].said
      BY <1>0, <2>2 DEF PageState
    <2> HIDE DEF r
    <2> QED  BY <1>0, <2>1, <2>3, PageIs DEF QuietStep
  <1> QED  BY <1>1, <1>2, <1>3, <1>4, <1>5

\* Such a step keeps the invariant.
LEMMA QuietKeeps ==
    ASSUME ShipInv, NEW p \in ShipPages, QuietStep(p),
           UNCHANGED <<mode, email, order, shipment, mail, left>>,
           labels' \in [made : 0..MaxLabels, live : SUBSET (1..MaxLabels)],
           used' \subseteq Ship!Request,
           \A r \in used' : r \in used \/ r.data = None
    PROVE  ShipInv'
  <1>1. Ship!TypeOK'
    BY DEF ShipInv, Ship!TypeOK, QuietStep, PageState
  <1>2. \A q \in ShipPages : /\ shipPage'[q].register = shipPage[q].register /\ shipPage'[q].sent = shipPage[q].sent
                         /\ shipPage'[q].said = shipPage[q].said
    BY DEF QuietStep
  <1>3. RegisteringInv'
    BY <1>2 DEF ShipInv, RegisteringInv
  <1> QED  BY <1>1, <1>3 DEF ShipInv

\* A page opens, sends its form, or ends a request.
RequestStep(p) ==
    Ship!Reopen(p) \/ Ship!Register(p) \/ Ship!Registered(p) \/ Ship!NotRegistered(p)

\* What is under way of a page that is left is a request.
LEMMA SentIs ==
    ASSUME ShipInv, NEW p \in ShipPages
    PROVE  Ship!Sent(p) \subseteq Ship!Request
  <1>1. shipPage[p] \in PageState
    BY DEF ShipInv, Ship!TypeOK, PageState
  <1>2. /\ shipPage[p].key \in Ship!Keys /\ shipPage[p].labelKey \in Ship!Keys
        /\ shipPage[p].sent \in Data \cup {None}
    BY <1>1 DEF PageState
  <1> QED  BY <1>2 DEF Ship!Sent, Ship!LabelRecord, Ship!Request

LEMMA RequestKeeps ==
    ASSUME Ship!ShipmentAssumption, ShipInv, NEW p \in ShipPages, RequestStep(p)
    PROVE  ShipInv'
  <1> DEFINE s == Ship!Stale
  <1>0. /\ shipPage \in [ShipPages -> PageState] /\ s \in Ship!Answer
        /\ Ship!Keys = 1..MaxShipKeys /\ MaxShipKeys \in Nat /\ None \notin Data
        /\ RegisteringInv /\ shipment.status \in {"pending", "registered"}
    BY AnswersAre DEF ShipInv, Ship!TypeOK, PageState, Ship!ShipmentAssumption, Ship!Keys, Ship!Row
  <1>1. ASSUME UNCHANGED <<Ship!server, left>>, shipPage' \in [ShipPages -> PageState], RegisteringInv'
        PROVE  ShipInv'
    BY <1>1 DEF ShipInv, Ship!TypeOK, PageState, Ship!server
  <1>2. CASE Ship!Reopen(p)
    <2> DEFINE o == Ship!Opened(shipPage[p].key + 1, shipPage[p].labelKey + 1)
    <2>1. /\ shipPage' = [shipPage EXCEPT ![p] = o] /\ UNCHANGED Ship!server
          /\ left' = left \cup Ship!Sent(p)
          /\ shipPage[p].key + 1 < MaxShipKeys /\ shipPage[p].labelKey + 1 < MaxShipKeys
      BY <1>2 DEF Ship!Reopen
    <2>2. shipPage[p].key + 1 \in Ship!Keys /\ shipPage[p].labelKey + 1 \in Ship!Keys
      BY <1>0, <2>1 DEF PageState
    <2>3. o \in PageState /\ o.register = "idle" /\ o.said = None
      BY <2>2, OpenedIs
    <2> HIDE DEF o
    <2>4. shipPage' \in [ShipPages -> PageState]
      BY <1>0, <2>1, <2>3
    <2>5. RegisteringInv'
      BY <1>0, <2>1, <2>3 DEF RegisteringInv, Ship!server
    <2>6. left' \subseteq Ship!Request
      BY <2>1, SentIs DEF ShipInv, Ship!TypeOK
    <2> QED  BY <2>1, <2>4, <2>5, <2>6 DEF ShipInv, Ship!TypeOK, PageState, Ship!server
  <1>3. CASE Ship!Register(p)
    <2>1. /\ shipPage' \in [ShipPages -> PageState]
          /\ \A q \in ShipPages : q # p => shipPage'[q] = shipPage[q]
          /\ shipPage'[p].register = "sent" /\ shipPage'[p].sent \in Data /\ shipPage'[p].said = None
      <3> DEFINE r == [shipPage[p] EXCEPT !.register = "sent", !.sent = shipPage[p].form, !.said = None]
      <3>1. shipPage' = [shipPage EXCEPT ![p] = r]
        BY <1>3 DEF Ship!Register
      <3>2. r \in PageState /\ r.register = "sent" /\ r.sent \in Data /\ r.said = None
        BY <1>0 DEF PageState
      <3> HIDE DEF r
      <3> QED  BY <1>0, <3>1, <3>2, PageIs
    <2>2. UNCHANGED <<Ship!server, left>>
      BY <1>3 DEF Ship!Register
    <2>3. RegisteringInv'
      BY <1>0, <2>1, <2>2 DEF RegisteringInv, Ship!server
    <2> QED  BY <1>1, <2>1, <2>2, <2>3
  <1>4. CASE Ship!Registered(p)
    <2>1. /\ shipPage[p].register = "ok" /\ shipPage[p].key < MaxShipKeys /\ UNCHANGED <<Ship!server, left>>
          /\ shipPage' = [shipPage EXCEPT ![p].register = "idle", ![p].shown = shipPage[p].answer,
                            ![p].confirm = FALSE, ![p].key = @ + 1, ![p].said = shipPage[p].sent,
                            ![p].sent = None, ![p].answer = s]
      BY <1>4 DEF Ship!Registered
    <2>2. shipPage[p].key + 1 \in Ship!Keys /\ shipPage[p].answer \in Ship!Answer
      BY <1>0, <2>1 DEF PageState
    <2> HIDE DEF s
    <2>3. /\ shipPage' \in [ShipPages -> PageState]
          /\ \A q \in ShipPages : q # p => shipPage'[q] = shipPage[q]
          /\ shipPage'[p].register = "idle" /\ shipPage'[p].said = shipPage[p].sent
      BY <1>0, <2>1, <2>2 DEF PageState
    <2>4. RegisteringInv'
      BY <1>0, <2>1, <2>3 DEF RegisteringInv, Ship!server
    <2> QED  BY <1>1, <2>1, <2>3, <2>4
  <1>5. CASE Ship!NotRegistered(p)
    <2>1. /\ shipPage' \in [ShipPages -> PageState]
          /\ \A q \in ShipPages : q # p => shipPage'[q] = shipPage[q]
          /\ shipPage'[p].register = "idle" /\ shipPage'[p].said = shipPage[p].said
      <3> DEFINE r == [shipPage[p] EXCEPT !.register = "idle", !.confirm = FALSE, !.sent = None]
      <3>1. shipPage' = [shipPage EXCEPT ![p] = r]
        BY <1>5 DEF Ship!NotRegistered
      <3>2. r \in PageState /\ r.register = "idle" /\ r.said = shipPage[p].said
        BY <1>0 DEF PageState
      <3> HIDE DEF r
      <3> QED  BY <1>0, <3>1, <3>2, PageIs
    <2>2. UNCHANGED <<Ship!server, left>>
      BY <1>5 DEF Ship!NotRegistered
    <2>3. RegisteringInv'
      BY <1>0, <2>1, <2>2 DEF RegisteringInv, Ship!server
    <2> QED  BY <1>1, <2>1, <2>2, <2>3
  <1> QED  BY <1>2, <1>3, <1>4, <1>5 DEF RequestStep

\* An answer, or the lock of the row: of the request of a page, only its step
\* changes and the answer it has.
Answering(p, step) ==
    /\ shipPage' \in [ShipPages -> PageState]
    /\ \A q \in ShipPages : q # p => shipPage'[q] = shipPage[q]
    /\ shipPage'[p].register = step /\ shipPage'[p].sent = shipPage[p].sent /\ shipPage'[p].said = shipPage[p].said

LEMMA AnsweringIs ==
    ASSUME ShipInv, NEW p \in ShipPages
    PROVE  /\ Ship!Refuse(p) => Answering(p, "error")
           /\ shipPage' = [shipPage EXCEPT ![p].register = "locked"] => Answering(p, "locked")
           /\ \A a \in Ship!Answer : Ship!Say(p, a) => Answering(p, "ok") \/ Answering(p, "error")
  <1>1. shipPage \in [ShipPages -> PageState]
    BY DEF ShipInv, Ship!TypeOK, PageState
  <1>2. \A step \in {"locked", "error"} :
           shipPage' = [shipPage EXCEPT ![p].register = step] => Answering(p, step)
    BY <1>1 DEF PageState, Answering
  <1>3. ASSUME NEW a \in Ship!Answer, shipPage' = [shipPage EXCEPT ![p].register = "ok", ![p].answer = a]
        PROVE  Answering(p, "ok")
    <2> DEFINE r == [shipPage[p] EXCEPT !.register = "ok", !.answer = a]
    <2>1. shipPage' = [shipPage EXCEPT ![p] = r]
      BY <1>3
    <2>2. r \in PageState /\ r.register = "ok" /\ r.sent = shipPage[p].sent /\ r.said = shipPage[p].said
      BY <1>1 DEF PageState
    <2> HIDE DEF r
    <2> QED  BY <1>1, <2>1, <2>2, PageIs DEF Answering
  <1> QED  BY <1>2, <1>3 DEF Ship!Refuse, Ship!Say

\* The server answers a request.
LEMMA ServerKeeps ==
    ASSUME Ship!ShipmentAssumption, ShipInv, NEW p \in ShipPages,
           Ship!Unsent(p) \/ Ship!Replay(p) \/ Ship!LockShipment(p) \/ Ship!RegisterDispatch(p)
    PROVE  ShipInv'
  <1>0. /\ shipPage \in [ShipPages -> PageState] /\ None \notin Data
        /\ RegisteringInv /\ shipment \in Ship!Row /\ shipment.status \in {"pending", "registered"}
    BY DEF ShipInv, Ship!TypeOK, PageState, Ship!ShipmentAssumption, Ship!Row
  <1>1. ASSUME UNCHANGED <<Ship!server, left>>, shipPage' \in [ShipPages -> PageState], RegisteringInv'
        PROVE  ShipInv'
    BY <1>1 DEF ShipInv, Ship!TypeOK, PageState, Ship!server
  <1>2. ASSUME UNCHANGED <<Ship!server, left>>, shipPage[p].register # "idle", Answering(p, "error")
        PROVE  ShipInv'
    <2>1. RegisteringInv'
      BY <1>0, <1>2 DEF RegisteringInv, Answering, Ship!server
    <2> QED  BY <1>1, <1>2, <2>1 DEF Answering
  <1>3. CASE Ship!Unsent(p)
    <2>1. UNCHANGED <<Ship!server, left>>
      BY <1>3 DEF Ship!Unsent
    <2>2. CASE shipPage[p].register = "sent" /\ shipPage' = [shipPage EXCEPT ![p].register = "error"]
      <3>1. Answering(p, "error")
        BY <2>2, AnsweringIs DEF Ship!Refuse
      <3> QED  BY <1>2, <2>1, <2>2, <3>1
    <2>3. CASE shipPage' = [shipPage EXCEPT ![p].label = "error"]
      <3>1. QuietStep(p)
        BY <1>0, <2>3 DEF QuietStep, PageState
      <3> QED  BY <2>1, <3>1, QuietKeeps DEF Ship!server, ShipInv, Ship!TypeOK
    <2> QED  BY <1>3, <2>2, <2>3 DEF Ship!Unsent
  <1>4. CASE Ship!Replay(p)
    <2>1. /\ UNCHANGED <<Ship!server, left>> /\ shipPage[p].register = "sent" /\ Ship!Record(p) # {}
          /\ \/ (\A r \in Ship!Record(p) : r.data = shipPage[p].sent) /\ Ship!Say(p, Ship!Now)
             \/ Ship!Refuse(p)
      BY <1>4 DEF Ship!Replay
    <2>2. CASE Answering(p, "error")
      BY <1>2, <2>1, <2>2
    <2>3. CASE Answering(p, "ok") /\ \A r \in Ship!Record(p) : r.data = shipPage[p].sent
      <3>1. PICK r \in used : r.data # None /\ r.data = shipPage[p].sent
        BY <2>1, <2>3 DEF Ship!Record
      <3>2. shipment.status = "registered" /\ shipPage[p].sent = shipment.data
        BY <1>0, <3>1 DEF RegisteringInv
      <3>3. RegisteringInv'
        BY <1>0, <2>1, <2>3, <3>2 DEF RegisteringInv, Answering, Ship!server
      <3> QED  BY <1>1, <2>1, <2>3, <3>3 DEF Answering
    <2> QED  BY <2>1, <2>2, <2>3, AnsweringIs, AnswersAre
  <1>5. CASE Ship!LockShipment(p)
    <2>1. /\ UNCHANGED <<Ship!server, left>> /\ shipPage[p].register = "sent" /\ ~Ship!Locked
          /\ \/ shipment.status = "pending" /\ shipPage' = [shipPage EXCEPT ![p].register = "locked"]
             \/ Ship!Refuse(p)
      BY <1>5 DEF Ship!LockShipment
    <2>2. CASE Answering(p, "error")
      BY <1>2, <2>1, <2>2
    <2>3. CASE Answering(p, "locked") /\ shipment.status = "pending"
      <3>1. RegisteringInv'
        BY <1>0, <2>1, <2>3 DEF RegisteringInv, Answering, Ship!server, Ship!Locked
      <3> QED  BY <1>1, <2>1, <2>3, <3>1 DEF Answering
    <2> QED  BY <2>1, <2>2, <2>3, AnsweringIs
  <1>6. CASE Ship!RegisterDispatch(p)
    <2> DEFINE d == shipPage[p].sent
               k == [page |-> p, key |-> shipPage[p].key, data |-> d]
    <2>1. shipPage[p].register = "locked" /\ UNCHANGED <<mode, email, order, labels, left>>
      BY <1>6 DEF Ship!RegisterDispatch
    <2>2. d \in Data /\ shipment.status = "pending" /\ \A q \in ShipPages : q # p => shipPage[q].register # "locked"
      BY <1>0, <2>1 DEF RegisteringInv
    <2>3. CASE Ship!Refuse(p) /\ UNCHANGED <<shipment, mail, used>>
      BY <1>2, <2>1, <2>3, AnsweringIs DEF Ship!server
    <2>4. CASE /\ shipment' = [status |-> "registered", data |-> d]
               /\ mail' = IF email /\ mail = None THEN d ELSE mail
               /\ used' = used \cup {k}
               /\ Answering(p, "ok") \/ Answering(p, "error")
      <3>1. /\ k \in Ship!Request /\ k.data = d
            /\ shipment' \in Ship!Row /\ shipment'.status = "registered" /\ shipment'.data = d
        BY <1>0, <2>2, <2>4 DEF PageState, Ship!Row, Ship!Request
      <3>2. mail' \in Data \cup {None} /\ (email => mail' = d)
        BY <1>0, <2>2, <2>4 DEF RegisteringInv
      <3> HIDE DEF k, d
      <3>3. Ship!TypeOK'
        BY <2>1, <2>4, <3>1, <3>2 DEF ShipInv, Ship!TypeOK, Answering, PageState
      <3>4. RegisteringInv'
        BY <1>0, <2>1, <2>2, <2>4, <3>1, <3>2 DEF RegisteringInv, Answering, d
      <3> QED  BY <3>3, <3>4 DEF ShipInv
    <2>5. \/ Ship!Refuse(p) /\ UNCHANGED <<shipment, mail, used>>
          \/ /\ shipment' = [status |-> "registered", data |-> d]
             /\ mail' = IF email /\ mail = None THEN d ELSE mail
             /\ used' = used \cup {k}
             /\ Ship!Say(p, [registered |-> TRUE, paid |-> order = "paid"])
      BY <1>6 DEF Ship!RegisterDispatch, Ship!Dispatch
    <2> QED  BY <2>3, <2>4, <2>5, AnsweringIs, AnswersAre
  <1> QED  BY <1>3, <1>4, <1>5, <1>6

\* A label is made or replayed.
LEMMA LabelKeeps ==
    ASSUME Ship!ShipmentAssumption, ShipInv, NEW p \in ShipPages, Ship!GenerateLabel(p)
    PROVE  ShipInv'
  <1>0. /\ shipPage \in [ShipPages -> PageState] /\ MaxLabels \in Nat
        /\ labels \in [made : 0..MaxLabels, live : SUBSET (1..MaxLabels)]
        /\ used \subseteq Ship!Request
    BY DEF ShipInv, Ship!TypeOK, PageState, Ship!ShipmentAssumption
  <1>1. /\ UNCHANGED <<mode, email, order, shipment, mail, left>> /\ labels.made < MaxLabels
        /\ Ship!SayLabel(p) \/ shipPage' = [shipPage EXCEPT ![p].label = "error"]
        /\ used' = used \/ used' = used \cup {Ship!LabelRecord(p)}
        /\ labels' = labels \/ labels' = Ship!NewLabel
    BY DEF Ship!GenerateLabel
  <1>2. QuietStep(p)
    <2> DEFINE n == Ship!Now
    <2>1. n \in Ship!Answer
      BY AnswersAre
    <2>2. \/ shipPage' = [shipPage EXCEPT ![p].label = "ok", ![p].labelAnswer = n]
          \/ shipPage' = [shipPage EXCEPT ![p].label = "error"]
      BY <1>1 DEF Ship!SayLabel
    <2> HIDE DEF n
    <2> QED  BY <1>0, <2>1, <2>2 DEF QuietStep, PageState
  <1>3. /\ Ship!LabelRecord(p) \in Ship!Request
        /\ Ship!LabelRecord(p).data = None
    BY <1>0 DEF Ship!LabelRecord, Ship!Request, PageState
  <1>4. Ship!NewLabel \in [made : 0..MaxLabels, live : SUBSET (1..MaxLabels)]
    BY <1>0, <1>1 DEF Ship!NewLabel
  <1> QED  BY <1>0, <1>1, <1>2, <1>3, <1>4, QuietKeeps

\* A request whose page was left is executed only when the shipment is pending
\* and nobody holds its row.
LEMMA LeftKeeps ==
    ASSUME Ship!ShipmentAssumption, ShipInv, NEW r \in left, Ship!LeftEnds(r)
    PROVE  ShipInv'
  <1>0. /\ shipPage \in [ShipPages -> PageState] /\ MaxLabels \in Nat /\ None \notin Data
        /\ labels \in [made : 0..MaxLabels, live : SUBSET (1..MaxLabels)]
        /\ used \subseteq Ship!Request /\ left' \subseteq Ship!Request /\ r \in Ship!Request
        /\ RegisteringInv /\ shipment \in Ship!Row /\ UNCHANGED <<mode, email, order, shipPage>>
    BY DEF ShipInv, Ship!TypeOK, PageState, Ship!ShipmentAssumption, Ship!LeftEnds
  <1>1. CASE UNCHANGED <<shipment, mail, labels, used>>
    BY <1>0, <1>1 DEF ShipInv, Ship!TypeOK, RegisteringInv
  <1>2. CASE /\ used' = used \cup {r} /\ r.data = None /\ labels.made < MaxLabels
             /\ labels' = Ship!NewLabel /\ UNCHANGED <<shipment, mail>>
    <2>1. labels' \in [made : 0..MaxLabels, live : SUBSET (1..MaxLabels)]
      BY <1>0, <1>2 DEF Ship!NewLabel
    <2> QED  BY <1>0, <1>2, <2>1 DEF ShipInv, Ship!TypeOK, RegisteringInv
  <1>3. CASE /\ used' = used \cup {r} /\ r.data # None /\ ~Ship!Locked
             /\ shipment.status = "pending" /\ Ship!Dispatch(r.data) /\ UNCHANGED labels
    <2>1. r.data \in Data
      BY <1>0, <1>3 DEF Ship!Request
    <2>2. /\ shipment' \in Ship!Row /\ shipment'.status = "registered" /\ shipment'.data = r.data
          /\ mail' \in Data \cup {None} /\ (email => mail' = r.data)
      BY <1>0, <1>3, <2>1 DEF Ship!Dispatch, Ship!Row, RegisteringInv
    <2>3. Ship!TypeOK'
      BY <1>0, <1>3, <2>2 DEF ShipInv, Ship!TypeOK
    <2>4. \A p \in ShipPages : /\ shipPage[p].register \notin {"locked", "ok"}
                              /\ shipPage[p].said = None
      BY <1>0, <1>3 DEF RegisteringInv, Ship!Locked
    <2>5. RegisteringInv'
      BY <1>0, <1>3, <2>2, <2>4 DEF RegisteringInv
    <2> QED  BY <2>3, <2>5 DEF ShipInv
  <1> QED  BY <1>1, <1>2, <1>3 DEF Ship!LeftEnds

\* Every step keeps the invariant.
LEMMA ShipNext == Ship!ShipmentAssumption /\ ShipInv /\ [Ship!Next]_(Ship!vars) => ShipInv'
  <1> SUFFICES ASSUME Ship!ShipmentAssumption, ShipInv, [Ship!Next]_(Ship!vars) PROVE ShipInv'
    OBVIOUS
  <1>1. ASSUME NEW p \in ShipPages,
               \/ Ship!Refetch(p) \/ (\E d \in Data : Ship!Enter(p, d)) \/ Ship!OpenConfirm(p)
               \/ Ship!CloseConfirm(p) \/ Ship!Generate(p) \/ Ship!Generated(p) \/ Ship!NotGenerated(p)
        PROVE  ShipInv'
    <2>1. QuietStep(p) /\ UNCHANGED <<Ship!server, left>>
      BY <1>1, QuietIs
    <2> QED  BY <2>1, QuietKeeps DEF Ship!server, ShipInv, Ship!TypeOK
  <1>2. ASSUME NEW p \in ShipPages, RequestStep(p)
        PROVE  ShipInv'
    BY <1>2, RequestKeeps
  <1>3. CASE Ship!LabelExpires \/ Ship!Refund
    <2>1. /\ UNCHANGED <<mode, email, shipment, mail, used, shipPage, left>> /\ order' \in {"paid",
                         "refunded"}
          /\ labels' = labels \/ labels' = [labels EXCEPT !.live = {}]
      BY <1>3 DEF Ship!LabelExpires, Ship!Refund, ShipInv, Ship!TypeOK
    <2>2. Ship!TypeOK'
      BY <2>1 DEF ShipInv, Ship!TypeOK
    <2> QED  BY <2>1, <2>2 DEF ShipInv, RegisteringInv
  <1>4. CASE UNCHANGED Ship!vars
    BY <1>4 DEF Ship!vars, ShipInv, Ship!TypeOK, RegisteringInv
  <1>5. ASSUME NEW p \in ShipPages, Ship!Unsent(p) \/ Ship!Replay(p) \/ Ship!LockShipment(p)
                                \/ Ship!RegisterDispatch(p) \/ Ship!GenerateLabel(p)
        PROVE  ShipInv'
    BY <1>5, ServerKeeps, LabelKeeps
  <1>6. CASE \/ \E d \in Data : Ship!WebEnter(d) \/ Ship!PhoneEnter(d)
             \/ Ship!WebOpenConfirm \/ Ship!WebCloseConfirm \/ Ship!WebGenerate
             \/ Ship!WebGenerated \/ Ship!WebNotGenerated
             \/ Ship!PhoneOpenConfirm \/ Ship!PhoneCloseConfirm \/ Ship!PhoneGenerate
             \/ Ship!PhoneGenerated \/ Ship!PhoneNotGenerated
    BY <1>1, <1>6 DEF Ship!WebEnter, Ship!PhoneEnter, Ship!WebOpenConfirm, Ship!WebCloseConfirm,
       Ship!WebGenerate, Ship!WebGenerated, Ship!WebNotGenerated, Ship!PhoneOpenConfirm,
       Ship!PhoneCloseConfirm, Ship!PhoneGenerate, Ship!PhoneGenerated, Ship!PhoneNotGenerated
  <1>7. CASE \/ Ship!WebRegister \/ Ship!WebRegistered \/ Ship!WebNotRegistered
             \/ Ship!PhoneRegister \/ Ship!PhoneRegistered \/ Ship!PhoneNotRegistered
    BY <1>2, <1>7 DEF RequestStep, Ship!WebRegister, Ship!WebRegistered, Ship!WebNotRegistered,
       Ship!PhoneRegister, Ship!PhoneRegistered, Ship!PhoneNotRegistered
  <1>8. ASSUME NEW r \in left, Ship!LeftEnds(r)
        PROVE  ShipInv'
    BY <1>8, LeftKeeps
  <1> QED  BY <1>1, <1>2, <1>3, <1>4, <1>5, <1>6, <1>7, <1>8 DEF Ship!Next, RequestStep

\* What a page reports as registered is what the shipment keeps and what the
\* buyer was told.
THEOREM RegistrationsAreSaid ==
    ASSUME Ship!ShipmentAssumption
    PROVE  Ship!Spec => [](Ship!TypeOK /\ Ship!RegisteredAsSaid)
  <1>1. ShipInv => Ship!TypeOK /\ Ship!RegisteredAsSaid
    BY DEF ShipInv, RegisteringInv, Ship!RegisteredAsSaid, Ship!TypeOK, Ship!Row
  <1> QED  BY <1>1, ShipInit, ShipNext, PTL DEF Ship!Spec

----------------------------------------------------------------------------
(* The bank accounts.                                                      *)

Account == [key : Nat, data : Data]
Accounts == Seq(Account)
Lists == Seq(Data)
Saves == [number : Nat, accounts : Lists, step : {"sent", "late", "ok", "error"},
          here : BOOLEAN]

\* A function on the first numbers is a list.
LEMMA ListIs ==
    ASSUME NEW S, NEW n \in Nat, NEW f \in [1..n -> S]
    PROVE  f \in Seq(S) /\ Len(f) = n
  OBVIOUS

\* On the web the page that is open has one save under way, the last; what that
\* was answered well for is what is stored, unless a save has landed that went
\* astray.  A save that may still land after its page was left or gave it up has
\* gone astray.
SavesInv ==
    /\ \A c \in bankCalls :
          c.step = "late" \/ (~c.here /\ c.step = "sent") => c.accounts \in astray
    /\ client = "web" =>
          /\ \A c, d \in bankCalls :
                c.here /\ d.here /\ c.step # "late" /\ d.step # "late" => c = d
          /\ \A c \in bankCalls :
                c.here /\ c.step = "ok" => Bank!DataOf(stored) \in {c.accounts} \cup astray
          /\ reported # None =>
                /\ \A c \in bankCalls : c.here => c.step = "late"
                /\ Bank!DataOf(stored) \in {reported.accounts} \cup astray

BankInv ==
    /\ stored \in Accounts /\ bankDraft \in Accounts /\ seen.accounts \in Accounts
    /\ bankCalls \subseteq Saves
    /\ ids \in Nat /\ sends \in Nat
    /\ SavesInv

\* What accounts say is as long as they are.
LEMMA DataIs == ASSUME NEW s \in Accounts PROVE Bank!DataOf(s) \in Lists
  <1>1. DOMAIN s = 1..Len(s) /\ Len(s) \in Nat /\ \A i \in 1..Len(s) : s[i] \in Account
    BY DEF Accounts
  <1>2. Bank!DataOf(s) \in [1..Len(s) -> Data]
    BY <1>1 DEF Bank!DataOf, Account
  <1> QED  BY <1>1, <1>2, ListIs DEF Lists

\* A form is never empty.
LEMMA FillIs ==
    ASSUME Bank!BankAssumption, NEW s \in Accounts
    PROVE  Bank!Fill(s) \in Accounts
  <1> DEFINE a == [key |-> 0, data |-> Blank]
  <1>1. a \in Account
    BY DEF Bank!BankAssumption, Account
  <1>2. Bank!Fill(s) = s \/ Bank!Fill(s) = <<a>>
    BY DEF Bank!Fill, Bank!ToDraft
  <1> HIDE DEF a
  <1> QED  BY <1>1, <1>2 DEF Accounts

\* It holds at first.
LEMMA BankInit == Bank!BankAssumption /\ Bank!Init => BankInv
  <1> SUFFICES ASSUME Bank!BankAssumption, Bank!Init PROVE BankInv
    OBVIOUS
  <1>1. PICK d \in Data : stored = <<[key |-> MaxAccounts + 1, data |-> d]>>
    BY DEF Bank!Init
  <1>2. stored \in Accounts
    <2>1. [key |-> MaxAccounts + 1, data |-> d] \in Account
      BY DEF Bank!BankAssumption, Account
    <2> QED  BY <1>1, <2>1 DEF Accounts
  <1>3. seen.accounts \in Accounts /\ bankDraft \in Accounts
    BY <1>2, FillIs DEF Bank!Init, Bank!Viewer
  <1> QED  BY <1>2, <1>3 DEF Bank!Init, BankInv, SavesInv

\* The form changes, or what the page has read.
FormStep ==
    \/ \E k \in Bank!Keys, d \in Data : Bank!WebUpdate(k, d) \/ Bank!PhoneUpdate(k, d)
    \/ \E k \in Bank!Keys : Bank!WebRemove(k) \/ Bank!PhoneRemove(k)
    \/ Bank!WebAdd \/ Bank!PhoneAdd \/ Bank!WebReadViewer \/ Bank!PhoneReadViewer
    \/ Bank!WebSaveProfile \/ Bank!PhoneSaveProfile

\* The form stays a list of accounts.
LEMMA FormKeeps ==
    ASSUME Bank!BankAssumption, BankInv, FormStep
    PROVE  BankInv'
  <1> USE DEF Bank!server
  <1>0. stored \in Accounts /\ bankDraft \in Accounts /\ seen.accounts \in Accounts
    BY DEF BankInv
  <1>1. ASSUME UNCHANGED <<client, stored, ids, bankCalls, sends, reported, astray>>,
               bankDraft' \in Accounts, seen'.accounts \in Accounts
        PROVE  BankInv'
    BY <1>1 DEF BankInv, SavesInv, Bank!DataOf
  <1>2. ASSUME NEW k \in Bank!Keys, NEW d \in Data, Bank!Update(k, d)
        PROVE  BankInv'
    <2>1. bankDraft' = [i \in DOMAIN bankDraft |->
                      IF bankDraft[i].key = k THEN [key |-> k, data |-> d] ELSE bankDraft[i]]
      BY <1>2 DEF Bank!Update
    <2>2. DOMAIN bankDraft = 1..Len(bankDraft) /\ Len(bankDraft) \in Nat /\ \A i \in 1..Len(bankDraft) : bankDraft[i] \in Account
      BY <1>0 DEF Accounts
    <2>3. [key |-> k, data |-> d] \in Account
      BY DEF Account, Bank!BankAssumption, Bank!Keys, Bank!Ids
    <2>4. bankDraft' \in Accounts
      <3>1. bankDraft' \in [1..Len(bankDraft) -> Account]
        BY <2>1, <2>2, <2>3
      <3> QED  BY <2>2, <3>1, ListIs DEF Accounts
    <2> QED  BY <1>0, <1>1, <1>2, <2>4 DEF Bank!Update
  <1>3. ASSUME NEW k \in Bank!Keys, Bank!Remove(k)
        PROVE  BankInv'
    <2> DEFINE others == {i \in DOMAIN bankDraft : bankDraft[i].key # k}
               n == Cardinality(others)
    <2>1. \A S : Bank!Cardinality(S) = Cardinality(S)
      BY Zenon DEF Bank!Cardinality, Cardinality
    <2>2. n \in Nat
      <3>1. IsFiniteSet(1..Len(bankDraft))
        BY <1>0, FS_Interval DEF Accounts
      <3>2. others \subseteq 1..Len(bankDraft)
        BY <1>0 DEF Accounts
      <3> QED  BY <3>1, <3>2, FS_Subset, FS_CardinalityType
    <2>3. PICK at \in [1..n -> others] : bankDraft' = Bank!Fill([i \in 1..n |-> bankDraft[at[i]]])
      BY <1>3, <2>1 DEF Bank!Remove
    <2> HIDE DEF n
    <2>4. [i \in 1..n |-> bankDraft[at[i]]] \in Accounts
      <3>1. \A i \in others : bankDraft[i] \in Account
        BY <1>0 DEF Accounts
      <3>2. [i \in 1..n |-> bankDraft[at[i]]] \in [1..n -> Account]
        BY <2>3, <3>1
      <3> QED  BY <2>2, <3>2, ListIs DEF Accounts
    <2>5. bankDraft' \in Accounts
      BY <2>3, <2>4, FillIs
    <2> QED  BY <1>0, <1>1, <1>3, <2>5 DEF Bank!Remove
  <1>4. CASE Bank!Add
    <2> DEFINE a == [key |-> Len(bankDraft), data |-> Blank]
    <2>1. a \in Account
      BY <1>0 DEF Bank!BankAssumption, Accounts, Account
    <2>2. bankDraft' \in Accounts
      <3>1. bankDraft' = Append(bankDraft, a)
        BY <1>4 DEF Bank!Add, Bank!ToDraft
      <3> HIDE DEF a
      <3> QED  BY <1>0, <2>1, <3>1 DEF Accounts
    <2> QED  BY <1>0, <1>1, <1>4, <2>2 DEF Bank!Add
  <1>5. CASE Bank!WebReadViewer \/ Bank!PhoneReadViewer
    <2>1. bankDraft' \in Accounts /\ seen'.accounts \in Accounts
      BY <1>0, <1>5, FillIs DEF Bank!WebReadViewer, Bank!PhoneReadViewer, Bank!Viewer
    <2> QED  BY <1>1, <1>5, <2>1 DEF Bank!WebReadViewer, Bank!PhoneReadViewer
  <1>6. CASE Bank!SaveProfile
    BY <1>0, <1>1, <1>6 DEF Bank!SaveProfile
  <1> QED  BY <1>2, <1>3, <1>4, <1>5, <1>6 DEF FormStep, Bank!WebUpdate, Bank!PhoneUpdate,
             Bank!WebRemove, Bank!PhoneRemove, Bank!WebAdd, Bank!PhoneAdd, Bank!WebSaveProfile,
             Bank!PhoneSaveProfile

\* A page that is left leaves its saves behind.
LEMMA LeftCallIs ==
    ASSUME bankCalls \subseteq Saves, Bank!Reopen, NEW e \in bankCalls'
    PROVE  /\ e \in Saves /\ ~e.here
           /\ \E c \in bankCalls : /\ e.number = c.number /\ e.accounts = c.accounts
                                 /\ e.step = c.step
           /\ SavesInv /\ e.step \in {"sent", "late"} => e.accounts \in astray'
  <1>1. /\ bankCalls' = {[c EXCEPT !.here = FALSE] : c \in bankCalls}
        /\ astray' = astray \cup {c.accounts : c \in {d \in bankCalls : d.here /\ d.step = "sent"}}
    BY DEF Bank!Reopen
  <1>2. PICK c \in bankCalls : e = [c EXCEPT !.here = FALSE]
    BY <1>1
  <1>3. c \in Saves
    OBVIOUS
  <1>4. /\ e \in Saves /\ ~e.here /\ e.number = c.number /\ e.accounts = c.accounts
        /\ e.step = c.step
    BY <1>2, <1>3 DEF Saves
  <1>5. ASSUME SavesInv, e.step \in {"sent", "late"} PROVE c.accounts \in astray'
    <2>1. CASE c.here /\ c.step = "sent"
      BY <1>1, <2>1
    <2>2. CASE ~c.here /\ c.step = "sent"
      BY <1>1, <1>5, <2>2 DEF SavesInv
    <2>3. CASE c.step = "late"
      BY <1>1, <1>5, <2>3 DEF SavesInv
    <2> QED  BY <1>4, <1>5, <2>1, <2>2, <2>3
  <1> QED  BY <1>4, <1>5

LEMMA LeftListsAre ==
    ASSUME Bank!Reopen
    PROVE  /\ astray \subseteq astray'
           /\ \A a \in astray' : a \in astray \/ \E c \in bankCalls : a = c.accounts
  BY DEF Bank!Reopen

LEMMA ReopenKeeps ==
    ASSUME Bank!BankAssumption, BankInv, Bank!Reopen
    PROVE  BankInv'
  <1> USE DEF Bank!server
  <1>1. /\ UNCHANGED <<client, stored, ids, profile, seen, sends, reported>>
        /\ bankDraft' \in Accounts
    BY FillIs DEF Bank!Reopen, BankInv
  <1>2. SavesInv /\ bankCalls \subseteq Saves
    BY DEF BankInv
  <1>3. /\ astray \subseteq astray' /\ bankCalls' \subseteq Saves
        /\ \A e \in bankCalls' : ~e.here
    BY <1>2, LeftCallIs, LeftListsAre
  <1>4. ASSUME NEW e \in bankCalls', e.step \in {"sent", "late"}
        PROVE  e.accounts \in astray'
    BY <1>2, <1>4, LeftCallIs
  <1>5. client' = "web" /\ reported' # None =>
           Bank!DataOf(stored)' \in {reported'.accounts} \cup astray'
    BY <1>1, <1>2, <1>3 DEF SavesInv, Bank!DataOf
  <1>6. SavesInv'
    BY <1>3, <1>4, <1>5 DEF SavesInv
  <1> QED  BY <1>1, <1>3, <1>6 DEF BankInv

\* A save is sent.
LEMMA SaveKeeps ==
    ASSUME BankInv, Bank!WebSave \/ Bank!PhoneSave
    PROVE  BankInv'
  <1> USE DEF Bank!server
  <1> DEFINE c == [number |-> sends + 1, accounts |-> Bank!DataOf(bankDraft), step |-> "sent",
                   here |-> TRUE]
  <1>1. /\ bankCalls' = bankCalls \cup {c} /\ reported' = None /\ sends' = sends + 1
        /\ UNCHANGED <<client, stored, ids, profile, seen, bankDraft, astray>>
        /\ client = "web" => ~Bank!Waiting
    BY DEF Bank!WebSave, Bank!PhoneSave, Bank!Send
  <1>2. c \in Saves /\ c.step = "sent" /\ c.here
    BY DataIs DEF BankInv, Saves
  <1> HIDE DEF c
  <1>3. SavesInv'
    BY <1>1, <1>2 DEF BankInv, SavesInv, Bank!Waiting, Bank!DataOf
  <1> QED  BY <1>1, <1>2, <1>3 DEF BankInv

\* A save goes on.
BankCallStep(c) ==
    \/ Bank!WebSaved(c) \/ Bank!PhoneSaved(c) \/ Bank!WebNotSaved(c) \/ Bank!PhoneNotSaved(c)
    \/ Bank!ReplaceBankAccounts(c) \/ Bank!Unsent(c) \/ Bank!GiveUp(c)

LEMMA BankAnswerIs ==
    ASSUME BankInv, NEW c \in bankCalls, NEW step \in {"ok", "error", "late"}, Bank!Answer(c, step)
    PROVE  \E e \in Saves :
              /\ bankCalls' = (bankCalls \ {c}) \cup {e}
              /\ e.accounts = c.accounts /\ e.step = step /\ e.here = c.here
  <1> DEFINE e == [c EXCEPT !.step = step]
  <1>1. e \in Saves /\ e.accounts = c.accounts /\ e.step = step /\ e.here = c.here
    BY DEF BankInv, Saves
  <1>2. bankCalls' = (bankCalls \ {c}) \cup {e}
    BY DEF Bank!Answer
  <1> HIDE DEF e
  <1> QED  BY <1>1, <1>2

LEMMA BankCallKeeps ==
    ASSUME Bank!BankAssumption, BankInv, NEW c \in bankCalls, BankCallStep(c)
    PROVE  BankInv'
  <1> USE DEF Bank!server
  <1>0. /\ SavesInv /\ stored \in Accounts /\ ids \in Nat /\ c.accounts \in Lists
        /\ bankCalls \subseteq Saves
    BY DEF BankInv, Saves
  <1>1. CASE Bank!WebSaved(c) \/ Bank!PhoneSaved(c)
    <2>1. /\ bankCalls' = bankCalls \ {c} /\ c.step = "ok"
          /\ UNCHANGED <<client, stored, ids, profile, seen, bankDraft, sends, astray>>
          /\ reported' = reported \/ (c.here /\ reported'.accounts = c.accounts)
      BY <1>1 DEF Bank!WebSaved, Bank!PhoneSaved, Bank!Done
    <2>2. SavesInv'
      BY <1>0, <2>1 DEF SavesInv, Bank!DataOf
    <2> QED  BY <2>1, <2>2 DEF BankInv
  <1>2. CASE Bank!WebNotSaved(c) \/ Bank!PhoneNotSaved(c)
    <2>1. /\ bankCalls' = bankCalls \ {c}
          /\ UNCHANGED <<client, stored, ids, profile, seen, bankDraft, sends, astray, reported>>
      BY <1>2 DEF Bank!WebNotSaved, Bank!PhoneNotSaved, Bank!Failed
    <2>2. SavesInv'
      BY <1>0, <2>1 DEF SavesInv, Bank!DataOf
    <2> QED  BY <2>1, <2>2 DEF BankInv
  <1>3. CASE Bank!ReplaceBankAccounts(c)
    <2> DEFINE n == Len(c.accounts)
    <2>1. /\ c.step \in {"sent", "late"} /\ ids' = ids + n
          /\ stored' = [i \in 1..n |-> [key |-> MaxAccounts + ids + i, data |-> c.accounts[i]]]
          /\ UNCHANGED <<client, profile, seen, bankDraft, sends, reported, astray>>
          /\ IF c.step = "late" THEN bankCalls' = bankCalls \ {c}
             ELSE Bank!Answer(c, "ok") \/ Bank!Answer(c, "error")
      BY <1>3 DEF Bank!ReplaceBankAccounts
    <2>2. n \in Nat /\ MaxAccounts \in Nat
      BY <1>0 DEF Bank!BankAssumption, Lists
    <2>3. stored' \in Accounts
      <3>1. \A i \in 1..n : [key |-> MaxAccounts + ids + i, data |-> c.accounts[i]] \in Account
        BY <1>0, <2>2 DEF Lists, Account
      <3>2. stored' \in [1..n -> Account]
        BY <2>1, <3>1
      <3> QED  BY <2>2, <3>2, ListIs DEF Accounts
    <2>4. Bank!DataOf(stored)' = c.accounts
      <3>1. Bank!DataOf(stored)' = [i \in 1..n |-> c.accounts[i]]
        BY <2>1 DEF Bank!DataOf
      <3> QED  BY <1>0, <3>1 DEF Lists
    <2>5. CASE c.step = "late" /\ bankCalls' = bankCalls \ {c}
      <3>1. SavesInv'
        BY <1>0, <2>1, <2>4, <2>5 DEF SavesInv
      <3> QED  BY <2>1, <2>2, <2>3, <2>5, <3>1 DEF BankInv
    <2>6. CASE c.step = "sent" /\ (Bank!Answer(c, "ok") \/ Bank!Answer(c, "error"))
      <3>1. PICK e \in Saves :
               /\ bankCalls' = (bankCalls \ {c}) \cup {e}
               /\ e.accounts = c.accounts /\ e.step \in {"ok", "error"} /\ e.here = c.here
        <4>1. CASE Bank!Answer(c, "ok")
          BY <4>1, BankAnswerIs
        <4>2. CASE Bank!Answer(c, "error")
          BY <4>2, BankAnswerIs
        <4> QED  BY <2>6, <4>1, <4>2
      <3>2. SavesInv'
        BY <1>0, <2>1, <2>4, <2>6, <3>1 DEF SavesInv
      <3> QED  BY <2>1, <2>2, <2>3, <3>1, <3>2 DEF BankInv
    <2> QED  BY <2>1, <2>5, <2>6
  <1>4. CASE Bank!Unsent(c) \/ Bank!GiveUp(c)
    <2>1. PICK e \in Saves :
             /\ bankCalls' = (bankCalls \ {c}) \cup {e} /\ c.step = "sent"
             /\ e.accounts = c.accounts /\ e.here = c.here
             /\ \/ e.step = "error" /\ astray' = astray
                \/ e.step = "late" /\ astray' = astray \cup {c.accounts}
      <3>1. CASE Bank!Unsent(c)
        BY <3>1, BankAnswerIs DEF Bank!Unsent
      <3>2. CASE Bank!GiveUp(c)
        BY <3>2, BankAnswerIs DEF Bank!GiveUp
      <3> QED  BY <1>4, <3>1, <3>2
    <2>2. UNCHANGED <<client, stored, ids, profile, seen, bankDraft, sends, reported>>
      BY <1>4 DEF Bank!Unsent, Bank!GiveUp
    <2>3. SavesInv'
      BY <1>0, <2>1, <2>2 DEF SavesInv, Bank!DataOf
    <2> QED  BY <2>1, <2>2, <2>3 DEF BankInv
  <1> QED  BY <1>1, <1>2, <1>3, <1>4 DEF BankCallStep

\* Every step keeps the invariant.
LEMMA BankNext == Bank!BankAssumption /\ BankInv /\ [Bank!Next]_(Bank!vars) => BankInv'
  <1> SUFFICES ASSUME Bank!BankAssumption, BankInv, [Bank!Next]_(Bank!vars) PROVE BankInv'
    OBVIOUS
  <1>1. CASE FormStep
    BY <1>1, FormKeeps
  <1>2. CASE Bank!WebSave \/ Bank!PhoneSave
    BY <1>2, SaveKeeps
  <1>3. ASSUME NEW c \in bankCalls, BankCallStep(c)  PROVE BankInv'
    BY <1>3, BankCallKeeps
  <1>4. CASE Bank!Reopen
    BY <1>4, ReopenKeeps
  <1>5. CASE UNCHANGED Bank!vars
    BY <1>5 DEF Bank!vars, BankInv, SavesInv, Bank!DataOf
  <1> QED  BY <1>1, <1>2, <1>3, <1>4, <1>5 DEF Bank!Next, FormStep, BankCallStep

\* On the web buyers are shown what the last save was reported to have stored, or
\* the list of a save that went astray: its page was left, or its connection lost,
\* while it was under way.
THEOREM SavesStand ==
    ASSUME Bank!BankAssumption
    PROVE  Bank!Spec => []Bank!LastSaveStands
  <1>1. BankInv => Bank!LastSaveStands
    BY DEF BankInv, SavesInv, Bank!LastSaveStands
  <1> QED  BY <1>1, BankInit, BankNext, PTL DEF Bank!Spec

\* The accounts of a list that is typed.
LEMMA AccountsAre ==
    ASSUME NEW K, NEW s
    PROVE  Bank!IsAccounts(s, K) <=> s \in Seq([key : K, data : Data]) /\ Len(s) <= MaxAccounts
  BY DEF Bank!IsAccounts, Bank!IsList

\* Ids are keys, and so is the number of a draft.
LEMMA KeysAre ==
    ASSUME Bank!BankAssumption
    PROVE  /\ Bank!Ids \subseteq Bank!Keys
           /\ \A n \in Nat : n < MaxAccounts => n \in Bank!Keys
           /\ \A n \in Nat : n \in 1..MaxIds => MaxAccounts + n \in Bank!Ids
  BY DEF Bank!BankAssumption, Bank!Keys, Bank!Ids

\* What typed accounts say is no longer than they are.
LEMMA SaidIsTyped ==
    ASSUME NEW K, NEW s, Bank!IsAccounts(s, K)
    PROVE  Bank!IsList(Bank!DataOf(s), Data)
  <1>1. s \in Seq([key : K, data : Data]) /\ Len(s) <= MaxAccounts
    BY AccountsAre
  <1>2. DOMAIN s = 1..Len(s) /\ Len(s) \in Nat /\ \A i \in 1..Len(s) : s[i] \in [key : K, data : Data]
    BY <1>1, SeqIs
  <1>3. Bank!DataOf(s) \in [1..Len(s) -> Data]
    BY <1>2 DEF Bank!DataOf
  <1>4. Bank!DataOf(s) \in Seq(Data) /\ Len(Bank!DataOf(s)) = Len(s)
    BY <1>2, <1>3, ListIs
  <1> QED  BY <1>1, <1>4 DEF Bank!IsList

\* A form that is filled is never empty.
LEMMA FilledIsTyped ==
    ASSUME Bank!BankAssumption, NEW s, Bank!IsAccounts(s, Bank!Keys)
    PROVE  Bank!IsAccounts(Bank!Fill(s), Bank!Keys) /\ Len(Bank!Fill(s)) > 0
  <1>1. PICK a : a = [key |-> 0, data |-> Blank]
    OBVIOUS
  <1>2. a \in [key : Bank!Keys, data : Data] /\ MaxAccounts \in Nat /\ MaxAccounts > 0
    BY <1>1, KeysAre DEF Bank!BankAssumption
  <1>3. CASE s = <<>>
    <2>1. Bank!Fill(s) = <<a>>
      BY <1>1, <1>3 DEF Bank!Fill, Bank!ToDraft
    <2>2. <<a>> \in Seq([key : Bank!Keys, data : Data]) /\ Len(<<a>>) = 1
      BY <1>2, OneIs
    <2>3. Len(<<a>>) <= MaxAccounts /\ Len(<<a>>) > 0
      BY <1>2, <2>2
    <2>4. Bank!IsAccounts(<<a>>, Bank!Keys)
      BY <2>2, <2>3, AccountsAre
    <2> QED  BY <2>1, <2>3, <2>4
  <1>4. CASE s # <<>>
    <2>1. s \in Seq([key : Bank!Keys, data : Data])
      BY AccountsAre
    <2>2. Bank!Fill(s) = s /\ Len(s) > 0
      BY <1>4, <2>1 DEF Bank!Fill
    <2> QED  BY <2>2
  <1> QED  BY <1>3, <1>4

\* Rows are accounts that a form may show.
LEMMA RowsFill ==
    ASSUME Bank!BankAssumption, NEW s, Bank!IsAccounts(s, Bank!Ids)
    PROVE  Bank!IsAccounts(Bank!Fill(s), Bank!Keys) /\ Len(Bank!Fill(s)) > 0
  <1>1. s \in Seq([key : Bank!Ids, data : Data]) /\ Len(s) <= MaxAccounts
    BY AccountsAre
  <1>2. [key : Bank!Ids, data : Data] \subseteq [key : Bank!Keys, data : Data]
    BY KeysAre
  <1>3. s \in Seq([key : Bank!Keys, data : Data])
    BY <1>1, <1>2, SeqsWithin
  <1> QED  BY <1>1, <1>3, AccountsAre, FilledIsTyped

\* What is kept of the accounts, part by part.
RowsTyped ==
    /\ client \in Apps /\ ids \in 0..MaxIds /\ profile \in 0..MaxChanges
    /\ Bank!IsAccounts(stored, Bank!Ids)
FormTyped ==
    /\ seen.profile \in 0..MaxChanges /\ Bank!IsAccounts(seen.accounts, Bank!Ids)
    /\ Bank!IsAccounts(bankDraft, Bank!Keys) /\ Len(bankDraft) > 0
SavesTyped ==
    /\ sends \in 0..MaxSends /\ \A a \in astray : Bank!IsList(a, Data)
    /\ \A c \in bankCalls : /\ c.number \in 1..sends /\ c.step \in {"sent", "late", "ok", "error"}
                            /\ Bank!IsList(c.accounts, Data) /\ c.here \in BOOLEAN
    /\ reported # None => reported.number = sends /\ Bank!IsList(reported.accounts, Data)

LEMMA BankTypesAre == Bank!TypeOK <=> RowsTyped /\ FormTyped /\ SavesTyped
  BY DEF Bank!TypeOK, RowsTyped, FormTyped, SavesTyped

\* They hold at first.
LEMMA BankTypesInit == Bank!BankAssumption /\ Bank!Init => Bank!TypeOK
  <1> SUFFICES ASSUME Bank!BankAssumption, Bank!Init PROVE Bank!TypeOK
    OBVIOUS
  <1>1. PICK d \in Data : stored = <<[key |-> MaxAccounts + 1, data |-> d]>>
    BY DEF Bank!Init
  <1>2. Bank!IsAccounts(stored, Bank!Ids)
    <2>1. PICK a : a = [key |-> MaxAccounts + 1, data |-> d]
      OBVIOUS
    <2>2. a \in [key : Bank!Ids, data : Data] /\ MaxAccounts \in Nat /\ MaxAccounts > 0
      BY <2>1, KeysAre DEF Bank!BankAssumption
    <2>3. <<a>> \in Seq([key : Bank!Ids, data : Data]) /\ Len(<<a>>) = 1
      BY <2>2, OneIs
    <2>4. Len(<<a>>) <= MaxAccounts
      BY <2>2, <2>3
    <2>5. stored = <<a>>
      BY <1>1, <2>1
    <2> QED  BY <2>3, <2>4, <2>5, AccountsAre
  <1>3. RowsTyped
    BY <1>2 DEF RowsTyped, Bank!Init, Bank!BankAssumption
  <1>4. FormTyped
    BY <1>2, RowsFill DEF FormTyped, Bank!Init, Bank!BankAssumption, Bank!Viewer
  <1>5. SavesTyped
    <2>1. 0 \in 0..MaxSends
      BY DEF Bank!BankAssumption
    <2> QED  BY <2>1 DEF SavesTyped, Bank!Init
  <1> QED  BY <1>3, <1>4, <1>5, BankTypesAre

\* The form stays typed.
LEMMA FormStepTypes ==
    ASSUME Bank!BankAssumption, BankInv, Bank!TypeOK, FormStep
    PROVE  Bank!TypeOK'
  <1> USE DEF Bank!server
  <1> DEFINE Draft == [key : Bank!Keys, data : Data]
  <1>0. /\ RowsTyped /\ FormTyped /\ SavesTyped
        /\ bankDraft \in Seq(Draft) /\ Len(bankDraft) \in Nat /\ Len(bankDraft) <= MaxAccounts
        /\ DOMAIN bankDraft = 1..Len(bankDraft) /\ \A i \in 1..Len(bankDraft) : bankDraft[i] \in Draft
    <2>1. RowsTyped /\ FormTyped /\ SavesTyped
      BY BankTypesAre
    <2>2. bankDraft \in Seq(Draft) /\ Len(bankDraft) <= MaxAccounts
      BY <2>1, AccountsAre DEF FormTyped
    <2> HIDE DEF Draft
    <2> QED  BY <2>1, <2>2, SeqIs
  <1>1. ASSUME UNCHANGED <<client, stored, ids, profile, seen, bankCalls, sends, reported,
                           astray>>,
               Bank!IsAccounts(bankDraft', Bank!Keys), Len(bankDraft') > 0
        PROVE  Bank!TypeOK'
    <2>1. RowsTyped' /\ FormTyped' /\ SavesTyped'
      BY <1>0, <1>1 DEF RowsTyped, FormTyped, SavesTyped, Bank!IsAccounts, Bank!IsList
    <2> QED  BY <2>1 DEF Bank!TypeOK, RowsTyped, FormTyped, SavesTyped
  <1>2. ASSUME NEW k \in Bank!Keys, NEW d \in Data, Bank!Update(k, d)
        PROVE  Bank!TypeOK'
    <2>1. bankDraft' = [i \in DOMAIN bankDraft |->
                      IF bankDraft[i].key = k THEN [key |-> k, data |-> d] ELSE bankDraft[i]]
      BY <1>2 DEF Bank!Update
    <2>2. bankDraft' \in [1..Len(bankDraft) -> Draft]
      BY <1>0, <2>1
    <2>3. bankDraft' \in Seq(Draft) /\ Len(bankDraft') = Len(bankDraft)
      BY <1>0, <2>2, ListIs
    <2>4. Bank!IsAccounts(bankDraft', Bank!Keys) /\ Len(bankDraft') > 0
      BY <1>0, <2>3, AccountsAre DEF FormTyped
    <2> QED  BY <1>1, <1>2, <2>4 DEF Bank!Update
  <1>3. ASSUME NEW k \in Bank!Keys, Bank!Remove(k)
        PROVE  Bank!TypeOK'
    <2> DEFINE others == {i \in DOMAIN bankDraft : bankDraft[i].key # k}
               n == Cardinality(others)
    <2>1. \A S : Bank!Cardinality(S) = Cardinality(S)
      BY Zenon DEF Bank!Cardinality, Cardinality
    <2>2. n \in Nat /\ n <= Len(bankDraft)
      <3>1. IsFiniteSet(1..Len(bankDraft)) /\ Cardinality(1..Len(bankDraft)) = Len(bankDraft)
        BY <1>0, FS_Interval
      <3>2. others \subseteq 1..Len(bankDraft)
        BY <1>0
      <3> QED  BY <3>1, <3>2, FS_Subset, FS_CardinalityType
    <2>3. PICK at \in [1..n -> others] : bankDraft' = Bank!Fill([i \in 1..n |-> bankDraft[at[i]]])
      BY <1>3, <2>1 DEF Bank!Remove
    <2> HIDE DEF n
    <2>4. PICK kept : kept = [i \in 1..n |-> bankDraft[at[i]]]
      OBVIOUS
    <2> HIDE DEF Draft
    <2>5. kept \in [1..n -> Draft]
      <3>1. \A i \in others : bankDraft[i] \in Draft
        BY <1>0
      <3> QED  BY <2>3, <2>4, <3>1
    <2>6. kept \in Seq(Draft) /\ Len(kept) = n
      BY <2>2, <2>5, ListIs
    <2>7. n <= MaxAccounts
      BY <1>0, <2>2 DEF Bank!BankAssumption
    <2>8. Bank!IsAccounts(kept, Bank!Keys)
      BY <2>6, <2>7, AccountsAre DEF Draft
    <2>9. Bank!IsAccounts(bankDraft', Bank!Keys) /\ Len(bankDraft') > 0
      BY <2>3, <2>4, <2>8, FilledIsTyped
    <2> QED  BY <1>1, <1>3, <2>9 DEF Bank!Remove
  <1>4. CASE Bank!Add
    <2>1. PICK a : a = [key |-> Len(bankDraft), data |-> Blank]
      OBVIOUS
    <2>2. bankDraft' = Append(bankDraft, a) /\ Len(bankDraft) < MaxAccounts
      BY <1>4, <2>1 DEF Bank!Add, Bank!ToDraft
    <2>3. a \in Draft /\ MaxAccounts \in Nat
      BY <1>0, <2>1, <2>2, KeysAre DEF Bank!BankAssumption
    <2> HIDE DEF Draft
    <2>4. bankDraft' \in Seq(Draft) /\ Len(bankDraft') = Len(bankDraft) + 1
      BY <1>0, <2>2, <2>3
    <2>5. Len(bankDraft') <= MaxAccounts /\ Len(bankDraft') > 0
      BY <1>0, <2>2, <2>3, <2>4
    <2>6. Bank!IsAccounts(bankDraft', Bank!Keys)
      BY <2>4, <2>5, AccountsAre DEF Draft
    <2> QED  BY <1>1, <1>4, <2>5, <2>6 DEF Bank!Add
  <1>5. CASE Bank!WebReadViewer \/ Bank!PhoneReadViewer
    <2>1. /\ UNCHANGED <<client, stored, ids, profile, bankCalls, sends, reported, astray>>
          /\ seen' = [accounts |-> stored, profile |-> profile]
          /\ bankDraft' = bankDraft \/ bankDraft' = Bank!Fill(stored)
      BY <1>5 DEF Bank!WebReadViewer, Bank!PhoneReadViewer, Bank!Viewer
    <2>2. Bank!IsAccounts(bankDraft', Bank!Keys) /\ Len(bankDraft') > 0
      BY <1>0, <2>1, RowsFill DEF RowsTyped, FormTyped
    <2>3. RowsTyped' /\ SavesTyped'
      BY <1>0, <2>1 DEF RowsTyped, SavesTyped, Bank!IsAccounts, Bank!IsList
    <2>4. seen'.profile \in 0..MaxChanges /\ Bank!IsAccounts(seen'.accounts, Bank!Ids)
      BY <1>0, <2>1 DEF RowsTyped
    <2> QED  BY <2>2, <2>3, <2>4 DEF Bank!TypeOK, RowsTyped, FormTyped, SavesTyped
  <1>6. CASE Bank!SaveProfile
    <2>1. /\ UNCHANGED <<client, stored, ids, seen, bankDraft, bankCalls, sends, reported,
                         astray>>
          /\ profile' = profile + 1 /\ profile < MaxChanges
      BY <1>6 DEF Bank!SaveProfile
    <2>2. profile' \in 0..MaxChanges
      BY <1>0, <2>1 DEF RowsTyped, Bank!BankAssumption
    <2>3. RowsTyped' /\ FormTyped' /\ SavesTyped'
      BY <1>0, <2>1, <2>2 DEF RowsTyped, FormTyped, SavesTyped, Bank!IsAccounts, Bank!IsList
    <2> QED  BY <2>3 DEF Bank!TypeOK, RowsTyped, FormTyped, SavesTyped
  <1> QED  BY <1>2, <1>3, <1>4, <1>5, <1>6 DEF FormStep, Bank!WebUpdate, Bank!PhoneUpdate,
             Bank!WebRemove, Bank!PhoneRemove, Bank!WebAdd, Bank!PhoneAdd, Bank!WebSaveProfile,
             Bank!PhoneSaveProfile

\* A page that is left leaves its saves behind.
LEMMA ReopenTypes ==
    ASSUME Bank!BankAssumption, BankInv, Bank!TypeOK, Bank!Reopen
    PROVE  Bank!TypeOK'
  <1> USE DEF Bank!server
  <1>0. RowsTyped /\ FormTyped /\ SavesTyped
    BY BankTypesAre
  <1>1. /\ UNCHANGED <<client, stored, ids, profile, seen, sends, reported>>
        /\ Bank!IsAccounts(bankDraft', Bank!Keys) /\ Len(bankDraft') > 0
    BY <1>0, RowsFill DEF Bank!Reopen, FormTyped
  <1>2. SavesTyped'
    <2>1. bankCalls \subseteq Saves
      BY DEF BankInv
    <2>2. ASSUME NEW a \in astray' PROVE Bank!IsList(a, Data)
      BY <1>0, <2>2, LeftListsAre DEF SavesTyped
    <2>3. ASSUME NEW e \in bankCalls'
          PROVE  /\ e.number \in 1..sends /\ e.step \in {"sent", "late", "ok", "error"}
                 /\ Bank!IsList(e.accounts, Data) /\ e.here \in BOOLEAN
      <3>1. PICK c \in bankCalls : /\ e.number = c.number /\ e.accounts = c.accounts
                                  /\ e.step = c.step
        BY <2>1, Zenon, LeftCallIs
      <3>2. e.here \in BOOLEAN
        BY <2>1, LeftCallIs DEF Saves
      <3> QED  BY <1>0, <3>1, <3>2 DEF SavesTyped
    <2> QED  BY <1>0, <1>1, <2>2, <2>3 DEF SavesTyped, Bank!IsList
  <1>3. RowsTyped' /\ FormTyped'
    BY <1>0, <1>1 DEF RowsTyped, FormTyped, Bank!IsAccounts, Bank!IsList
  <1> QED  BY <1>2, <1>3 DEF Bank!TypeOK, RowsTyped, FormTyped, SavesTyped

\* A save that is sent says what the form says.
LEMMA SaveTypes ==
    ASSUME Bank!BankAssumption, Bank!TypeOK, Bank!WebSave \/ Bank!PhoneSave
    PROVE  Bank!TypeOK'
  <1> USE DEF Bank!server
  <1>0. RowsTyped /\ FormTyped /\ SavesTyped
    BY BankTypesAre
  <1>1. PICK c : c = [number |-> sends + 1, accounts |-> Bank!DataOf(bankDraft), step |-> "sent",
                      here |-> TRUE]
    OBVIOUS
  <1>2. /\ bankCalls' = bankCalls \cup {c} /\ reported' = None /\ sends' = sends + 1 /\ sends < MaxSends
        /\ UNCHANGED <<client, stored, ids, profile, seen, bankDraft, astray>>
    BY <1>1 DEF Bank!WebSave, Bank!PhoneSave, Bank!Send
  <1>3. Bank!IsList(c.accounts, Data) /\ c.number = sends + 1 /\ c.step = "sent" /\ c.here
    BY <1>0, <1>1, SaidIsTyped DEF FormTyped
  <1>4. SavesTyped'
    <2>1. sends' \in 0..MaxSends /\ c.number \in 1..sends' /\ 1..sends \subseteq 1..sends'
      BY <1>0, <1>2, <1>3 DEF SavesTyped, Bank!BankAssumption
    <2> QED  BY <1>0, <1>2, <1>3, <2>1 DEF SavesTyped, Bank!IsList
  <1>5. RowsTyped' /\ FormTyped'
    BY <1>0, <1>2 DEF RowsTyped, FormTyped, Bank!IsAccounts, Bank!IsList
  <1> QED  BY <1>4, <1>5 DEF Bank!TypeOK, RowsTyped, FormTyped, SavesTyped

\* A save that is answered keeps its number and what it says.
LEMMA SaveAnsweredTypes ==
    ASSUME BankInv, SavesTyped, NEW c \in bankCalls, NEW step \in {"ok", "error", "late"}, Bank!Answer(c, step)
    PROVE  \A e \in bankCalls' : /\ e.number \in 1..sends /\ e.step \in {"sent", "late", "ok", "error"}
                                 /\ Bank!IsList(e.accounts, Data) /\ e.here \in BOOLEAN
  <1>1. PICK e : e = [c EXCEPT !.step = step]
    OBVIOUS
  <1>2. c \in Saves
    BY DEF BankInv
  <1>3. /\ e.number = c.number /\ e.accounts = c.accounts /\ e.step = step
        /\ e.here \in BOOLEAN
    BY <1>1, <1>2 DEF Saves
  <1>4. bankCalls' = (bankCalls \ {c}) \cup {e}
    BY <1>1 DEF Bank!Answer
  <1> QED  BY <1>3, <1>4 DEF SavesTyped

LEMMA BankCallTypes ==
    ASSUME Bank!BankAssumption, BankInv, Bank!TypeOK, NEW c \in bankCalls, BankCallStep(c)
    PROVE  Bank!TypeOK'
  <1> USE DEF Bank!server
  <1>0. RowsTyped /\ FormTyped /\ SavesTyped
    BY BankTypesAre
  <1>1. /\ Bank!IsList(c.accounts, Data) /\ c.number \in 1..sends
        /\ c.accounts \in Seq(Data) /\ Len(c.accounts) \in Nat /\ Len(c.accounts) <= MaxAccounts
    BY <1>0 DEF SavesTyped, Bank!IsList
  <1>2. ASSUME SavesTyped', UNCHANGED <<client, stored, ids, profile, seen, bankDraft>>
        PROVE  Bank!TypeOK'
    <2>1. RowsTyped' /\ FormTyped'
      BY <1>0, <1>2 DEF RowsTyped, FormTyped, Bank!IsAccounts, Bank!IsList
    <2> QED  BY <1>2, <2>1 DEF Bank!TypeOK, RowsTyped, FormTyped, SavesTyped
  <1>3. CASE Bank!WebSaved(c) \/ Bank!PhoneSaved(c) \/ Bank!WebNotSaved(c) \/ Bank!PhoneNotSaved(c)
    <2>1. /\ bankCalls' = bankCalls \ {c}
          /\ UNCHANGED <<client, stored, ids, profile, seen, bankDraft, sends, astray>>
          /\ reported' = reported \/ reported' = [number |-> sends, accounts |-> c.accounts]
      BY <1>3 DEF Bank!WebSaved, Bank!PhoneSaved, Bank!Done, Bank!WebNotSaved, Bank!PhoneNotSaved, Bank!Failed
    <2>2. SavesTyped'
      BY <1>0, <1>1, <2>1 DEF SavesTyped, Bank!IsList
    <2> QED  BY <1>2, <2>1, <2>2
  <1>4. CASE Bank!Unsent(c) \/ Bank!GiveUp(c)
    <2>1. /\ UNCHANGED <<client, stored, ids, profile, seen, bankDraft, sends, reported>>
          /\ astray' = astray \/ astray' = astray \cup {c.accounts}
          /\ Bank!Answer(c, "error") \/ Bank!Answer(c, "late")
      BY <1>4 DEF Bank!Unsent, Bank!GiveUp
    <2>2. \A e \in bankCalls' : /\ e.number \in 1..sends /\ e.step \in {"sent", "late", "ok", "error"}
                                /\ Bank!IsList(e.accounts, Data) /\ e.here \in BOOLEAN
      BY <1>0, <2>1, SaveAnsweredTypes
    <2>3. SavesTyped'
      BY <1>0, <1>1, <2>1, <2>2 DEF SavesTyped, Bank!IsList
    <2> QED  BY <1>2, <2>1, <2>3
  <1>5. CASE Bank!ReplaceBankAccounts(c)
    <2>1. PICK n : n = Len(c.accounts)
      OBVIOUS
    <2>2. /\ ids' = ids + n /\ ids + n <= MaxIds
          /\ stored' = [i \in 1..n |-> [key |-> MaxAccounts + ids + i, data |-> c.accounts[i]]]
          /\ UNCHANGED <<client, profile, seen, bankDraft, sends, reported, astray>>
          /\ bankCalls' = bankCalls \ {c} \/ Bank!Answer(c, "ok") \/ Bank!Answer(c, "error")
      BY <1>5, <2>1 DEF Bank!ReplaceBankAccounts
    <2>3. n \in Nat /\ n <= MaxAccounts /\ MaxAccounts \in Nat /\ MaxIds \in Nat /\ ids \in Nat
      BY <1>0, <1>1, <2>1 DEF Bank!BankAssumption, RowsTyped
    <2>4. \A i \in 1..n : MaxAccounts + ids + i \in Bank!Ids /\ c.accounts[i] \in Data
      <3> SUFFICES ASSUME NEW i \in 1..n PROVE MaxAccounts + ids + i \in Bank!Ids /\ c.accounts[i] \in Data
        OBVIOUS
      <3>1. ids + i \in 1..MaxIds /\ MaxAccounts + ids + i = MaxAccounts + (ids + i) /\ ids + i \in Nat
        BY <2>2, <2>3
      <3> QED  BY <1>1, <2>1, <3>1, KeysAre
    <2>5. stored' \in [1..n -> [key : Bank!Ids, data : Data]]
      BY <2>2, <2>4
    <2>6. stored' \in Seq([key : Bank!Ids, data : Data]) /\ Len(stored') = n
      BY <2>3, <2>5, ListIs
    <2>7. Bank!IsAccounts(stored', Bank!Ids)
      BY <2>3, <2>6, AccountsAre
    <2>8. RowsTyped' /\ FormTyped'
      <3>1. ids' \in 0..MaxIds
        BY <2>2, <2>3
      <3> QED  BY <1>0, <2>2, <2>7, <3>1 DEF RowsTyped, FormTyped, Bank!IsAccounts, Bank!IsList
    <2>9. SavesTyped'
      <3>1. \A e \in bankCalls' : /\ e.number \in 1..sends /\ e.step \in {"sent", "late", "ok", "error"}
                                  /\ Bank!IsList(e.accounts, Data) /\ e.here \in BOOLEAN
        <4>1. CASE bankCalls' = bankCalls \ {c}
          BY <1>0, <4>1 DEF SavesTyped
        <4>2. CASE Bank!Answer(c, "ok") \/ Bank!Answer(c, "error")
          BY <1>0, <4>2, SaveAnsweredTypes
        <4> QED  BY <2>2, <4>1, <4>2
      <3> QED  BY <1>0, <2>2, <3>1 DEF SavesTyped, Bank!IsList
    <2> QED  BY <2>8, <2>9 DEF Bank!TypeOK, RowsTyped, FormTyped, SavesTyped
  <1> QED  BY <1>3, <1>4, <1>5 DEF BankCallStep

\* Every step keeps the types.
LEMMA BankTypesNext ==
    ASSUME Bank!BankAssumption, BankInv, Bank!TypeOK, [Bank!Next]_(Bank!vars)
    PROVE  Bank!TypeOK'
  <1>1. CASE FormStep
    BY <1>1, FormStepTypes
  <1>2. CASE Bank!WebSave \/ Bank!PhoneSave
    BY <1>2, SaveTypes
  <1>3. ASSUME NEW c \in bankCalls, BankCallStep(c)  PROVE Bank!TypeOK'
    BY <1>3, BankCallTypes
  <1>4. CASE Bank!Reopen
    BY <1>4, ReopenTypes
  <1>5. CASE UNCHANGED Bank!vars
    BY <1>5 DEF Bank!vars, Bank!TypeOK, Bank!IsAccounts, Bank!IsList
  <1> QED  BY <1>1, <1>2, <1>3, <1>4, <1>5 DEF Bank!Next, FormStep, BankCallStep

\* The form is never empty nor longer than the accounts a shop may have, each of
\* its accounts has the key of a row or of a draft, and what was last reported
\* is what the last save said.
THEOREM BankIsTyped ==
    ASSUME Bank!BankAssumption
    PROVE  Bank!Spec => []Bank!TypeOK
  <1> QED  BY BankInit, BankNext, BankTypesInit, BankTypesNext, PTL DEF Bank!Spec

----------------------------------------------------------------------------
(* The checkout of a sale.                                                 *)

TabRow == [step : 1..3, form : Checkout!Form, call : {None, "details", "initiate", "ok", "error"},
        page : {"comprar", "comprobante", "estado", "provider"}, url : Checkout!Checkouts \cup {None}]

SaleAndPayment ==
    /\ method \in Methods /\ saleMode \in CheckoutModes
    /\ status \in {"reserved", "purchase_in_progress", "paid", "cancelled"}
    /\ buyer \in Checkout!Form \cup {None} /\ checkout \in Checkout!Checkouts \cup {None}
    /\ made \in 0..MaxMade /\ used \subseteq Tabs

\* The tabs are rows of their type.
LEMMA CheckoutTypeIsRows == Checkout!TypeOK <=> SaleAndPayment /\ tab \in [Tabs -> TabRow]
  BY DEF Checkout!TypeOK, SaleAndPayment, TabRow

\* The steps of a page, which leave the server alone.
BuyerStep(t) ==
    \/ \E f \in Checkout!Form : Checkout!Update(t, f)
    \/ Checkout!ContinueFromContact(t) \/ Checkout!ReviewPurchase(t) \/ Checkout!Back(t) \/ Checkout!Submit(t) \/ Checkout!Succeeded(t)
    \/ Checkout!Failed(t) \/ Checkout!Return(t) \/ Checkout!Unsent(t)

\* A step of the page alone changes one row within its type.
LEMMA BuyerType ==
    ASSUME Checkout!TypeOK, Checkout!CheckoutAssumption, NEW t \in Tabs, BuyerStep(t)
    PROVE  Checkout!TypeOK'
  <1>1. SaleAndPayment /\ tab \in [Tabs -> TabRow]
    BY CheckoutTypeIsRows
  <1>2. UNCHANGED Checkout!server
    BY DEF BuyerStep, Checkout!Update, Checkout!ContinueFromContact, Checkout!ReviewPurchase, Checkout!Back, Checkout!Submit, Checkout!Succeeded, Checkout!Failed,
           Checkout!Return, Checkout!Unsent
  <1>3. SaleAndPayment'
    BY <1>1, <1>2 DEF SaleAndPayment, Checkout!server
  <1>4. tab' \in [Tabs -> TabRow]
    <2>1. CASE \E f \in Checkout!Form : Checkout!Update(t, f)
      BY <1>1, <2>1 DEF Checkout!Update, TabRow
    <2>2. CASE Checkout!ContinueFromContact(t) \/ Checkout!ReviewPurchase(t) \/ Checkout!Submit(t) \/ Checkout!Failed(t) \/ Checkout!Return(t)
               \/ Checkout!Unsent(t)
      BY <1>1, <2>2 DEF Checkout!ContinueFromContact, Checkout!ReviewPurchase, Checkout!Submit, Checkout!Failed, Checkout!Return, Checkout!Unsent, Checkout!Fail,
                        TabRow
    <2>3. CASE Checkout!Back(t)
      BY <1>1, <2>3 DEF Checkout!Back, Checkout!At, TabRow
    <2>4. CASE Checkout!Succeeded(t)
      <3>1. PICK p \in {"provider", "comprobante", "estado"} :
               tab' = [tab EXCEPT ![t].call = None, ![t].page = p]
        BY <2>4 DEF Checkout!Succeeded
      <3> QED  BY <1>1, <3>1 DEF TabRow
    <2> QED  BY <2>1, <2>2, <2>3, <2>4 DEF BuyerStep
  <1> QED  BY <1>3, <1>4, CheckoutTypeIsRows DEF Checkout!TypeOK, SaleAndPayment, TabRow

\* An answer of the server, or its failure, is a row of its type.
LEMMA CheckoutAnswerType ==
    ASSUME Checkout!TypeOK, NEW t \in Tabs, NEW c \in Checkout!Checkouts \cup {None}, Checkout!Answer(t, c)
    PROVE  tab' \in [Tabs -> TabRow]
  BY CheckoutTypeIsRows DEF Checkout!Answer, Checkout!Fail, TabRow

\* A checkout that is new adds to those made, within their bound.
LEMMA CheckoutsMadeType ==
    ASSUME Checkout!TypeOK, Checkout!CheckoutAssumption
    PROVE  Checkout!PaymentCheckout \in Checkout!Checkouts =>
               (IF made < Checkout!PaymentCheckout THEN made + 1 ELSE made) \in 0..MaxMade
  BY DEF Checkout!TypeOK, Checkout!CheckoutAssumption, Checkout!PaymentCheckout, Checkout!Checkouts

\* A step of the server changes the sale, its payment and one row.
LEMMA CheckoutServerType ==
    ASSUME Checkout!TypeOK, Checkout!CheckoutAssumption, NEW t \in Tabs,
           Checkout!SetBuyerDetails(t) \/ Checkout!Replay(t) \/ Checkout!InitiateCheckout(t) \/ Checkout!CommitFails(t)
           \/ Checkout!InitiateRefused(t)
    PROVE  Checkout!TypeOK'
  <1>1. SaleAndPayment /\ tab \in [Tabs -> TabRow]
    BY CheckoutTypeIsRows
  <1>2. CASE Checkout!SetBuyerDetails(t)
    <2>1. tab' \in [Tabs -> TabRow]
      BY <1>1, <1>2 DEF Checkout!SetBuyerDetails, Checkout!Fail, TabRow
    <2>2. tab[t].form \in Checkout!Form
      BY <1>1 DEF TabRow
    <2>3. SaleAndPayment'
      BY <1>1, <1>2, <2>2 DEF Checkout!SetBuyerDetails, SaleAndPayment
    <2> QED  BY <2>1, <2>3 DEF Checkout!TypeOK, SaleAndPayment, TabRow
  <1>3. CASE Checkout!Replay(t)
    <2>1. tab' \in [Tabs -> TabRow]
      BY <1>1, <1>3, CheckoutAnswerType DEF Checkout!Replay, SaleAndPayment
    <2>2. SaleAndPayment'
      BY <1>1, <1>3 DEF Checkout!Replay, SaleAndPayment, Checkout!server
    <2> QED  BY <2>1, <2>2 DEF Checkout!TypeOK, SaleAndPayment, TabRow
  <1>4. CASE Checkout!InitiateCheckout(t)
    <2>1. Checkout!PaymentCheckout \in Checkout!Checkouts
      BY <1>4 DEF Checkout!InitiateCheckout
    <2>2. tab' \in [Tabs -> TabRow]
      BY <1>4, <2>1, CheckoutAnswerType DEF Checkout!InitiateCheckout
    <2>3. SaleAndPayment'
      BY <1>1, <1>4, <2>1, CheckoutsMadeType DEF Checkout!InitiateCheckout, SaleAndPayment
    <2> QED  BY <2>2, <2>3 DEF Checkout!TypeOK, SaleAndPayment, TabRow
  <1>5. CASE Checkout!CommitFails(t)
    <2>1. tab' \in [Tabs -> TabRow]
      BY <1>1, <1>5 DEF Checkout!CommitFails, Checkout!Fail, TabRow
    <2>2. made' \in 0..MaxMade
      BY <1>1, <1>5 DEF Checkout!CommitFails, SaleAndPayment, Checkout!CheckoutAssumption
    <2>3. SaleAndPayment'
      BY <1>1, <1>5, <2>2 DEF Checkout!CommitFails, SaleAndPayment
    <2> QED  BY <2>1, <2>3 DEF Checkout!TypeOK, SaleAndPayment, TabRow
  <1>6. CASE Checkout!InitiateRefused(t)
    <2>1. tab' \in [Tabs -> TabRow]
      BY <1>1, <1>6 DEF Checkout!InitiateRefused, Checkout!Fail, TabRow
    <2>2. SaleAndPayment'
      BY <1>1, <1>6 DEF Checkout!InitiateRefused, SaleAndPayment, Checkout!server
    <2> QED  BY <2>1, <2>2 DEF Checkout!TypeOK, SaleAndPayment, TabRow
  <1> QED  BY <1>2, <1>3, <1>4, <1>5, <1>6

\* Every step keeps the types.
LEMMA CheckoutNextType ==
    ASSUME Checkout!TypeOK, Checkout!CheckoutAssumption, [Checkout!Next]_(Checkout!vars)
    PROVE  Checkout!TypeOK'
  <1>1. CASE Checkout!Pay \/ Checkout!Cancel
    BY <1>1 DEF Checkout!Pay, Checkout!Cancel, Checkout!TypeOK
  <1>2. CASE UNCHANGED Checkout!vars
    BY <1>2 DEF Checkout!vars, Checkout!TypeOK
  <1> QED  BY <1>1, <1>2, BuyerType, CheckoutServerType DEF Checkout!Next, BuyerStep

\* Where the tabs were sent is left alone by everything but an answer.
LEMMA UrlsStay ==
    ASSUME Checkout!TypeOK, NEW t \in Tabs,
           BuyerStep(t) \/ Checkout!SetBuyerDetails(t) \/ Checkout!CommitFails(t) \/ Checkout!InitiateRefused(t)
    PROVE  checkout' = checkout /\ \A u \in Tabs : tab'[u].url = tab[u].url
  <1>1. tab \in [Tabs -> TabRow]
    BY CheckoutTypeIsRows
  <1>2. CASE (\E f \in Checkout!Form : Checkout!Update(t, f)) \/ Checkout!ContinueFromContact(t) \/ Checkout!ReviewPurchase(t)
             \/ Checkout!Back(t) \/ Checkout!Submit(t)
    BY <1>1, <1>2 DEF Checkout!Update, Checkout!ContinueFromContact, Checkout!ReviewPurchase, Checkout!Back, Checkout!Submit, Checkout!server, TabRow
  <1>3. CASE Checkout!Succeeded(t) \/ Checkout!Failed(t) \/ Checkout!Return(t) \/ Checkout!Unsent(t)
    BY <1>1, <1>3 DEF Checkout!Succeeded, Checkout!Failed, Checkout!Return, Checkout!Unsent, Checkout!Fail, Checkout!server, TabRow
  <1>4. CASE Checkout!SetBuyerDetails(t) \/ Checkout!CommitFails(t) \/ Checkout!InitiateRefused(t)
    BY <1>1, <1>4 DEF Checkout!SetBuyerDetails, Checkout!CommitFails, Checkout!InitiateRefused, Checkout!Fail, Checkout!server, TabRow
  <1> QED  BY <1>2, <1>3, <1>4 DEF BuyerStep

\* An answer sends its tab to the checkout it carries, and no other tab anywhere.
LEMMA AnswerSends ==
    ASSUME Checkout!TypeOK, NEW t \in Tabs, NEW c, Checkout!Answer(t, c)
    PROVE  \A u \in Tabs : tab'[u].url = tab[u].url \/ (u = t /\ tab'[u].url = c)
  BY CheckoutTypeIsRows DEF Checkout!Answer, Checkout!Fail, TabRow

\* Every step keeps one checkout.
LEMMA CheckoutNext ==
    ASSUME Checkout!TypeOK, Checkout!OneCheckout, Checkout!CheckoutAssumption, [Checkout!Next]_(Checkout!vars)
    PROVE  Checkout!OneCheckout'
  <1>1. CASE Checkout!Pay \/ Checkout!Cancel \/ UNCHANGED Checkout!vars
    BY <1>1 DEF Checkout!Pay, Checkout!Cancel, Checkout!vars, Checkout!OneCheckout
  <1>2. ASSUME NEW t \in Tabs,
               BuyerStep(t) \/ Checkout!SetBuyerDetails(t) \/ Checkout!CommitFails(t) \/ Checkout!InitiateRefused(t)
        PROVE  Checkout!OneCheckout'
    BY <1>2, UrlsStay DEF Checkout!OneCheckout
  <1>3. ASSUME NEW t \in Tabs, Checkout!Replay(t)
        PROVE  Checkout!OneCheckout'
    <2>1. Checkout!Answer(t, checkout) /\ checkout' = checkout
      BY <1>3 DEF Checkout!Replay, Checkout!server
    <2> QED  BY <2>1, AnswerSends DEF Checkout!OneCheckout
  <1>4. ASSUME NEW t \in Tabs, Checkout!InitiateCheckout(t)
        PROVE  Checkout!OneCheckout'
    <2>1. Checkout!Answer(t, Checkout!PaymentCheckout) /\ checkout' = Checkout!PaymentCheckout
      BY <1>4 DEF Checkout!InitiateCheckout
    <2>2. \A u \in Tabs : tab[u].url # None => tab[u].url = Checkout!PaymentCheckout
      BY DEF Checkout!OneCheckout, Checkout!PaymentCheckout
    <2> QED  BY <2>1, <2>2, AnswerSends DEF Checkout!OneCheckout
  <1> QED  BY <1>1, <1>2, <1>3, <1>4 DEF Checkout!Next, BuyerStep

\* All tabs lead to the checkout that the payment names, for any number of tabs,
\* lost answers, rolled-back transactions and corrections of the details, and the
\* checkout keeps its types.
THEOREM TabsShareCheckout ==
    ASSUME Checkout!CheckoutAssumption
    PROVE  /\ Checkout!Spec => []Checkout!OneCheckout
           /\ Checkout!Spec => []Checkout!TypeOK
  <1>1. Checkout!Init => Checkout!TypeOK /\ Checkout!OneCheckout
    <2> SUFFICES ASSUME Checkout!Init PROVE Checkout!TypeOK /\ Checkout!OneCheckout
      OBVIOUS
    <2>1. SaleAndPayment /\ tab \in [Tabs -> TabRow]
      BY DEF Checkout!Init, SaleAndPayment, TabRow, Checkout!Form, Checkout!CheckoutAssumption
    <2>2. Checkout!OneCheckout
      BY DEF Checkout!Init, Checkout!OneCheckout
    <2> QED  BY <2>1, <2>2, CheckoutTypeIsRows
  <1>2. Checkout!TypeOK /\ Checkout!OneCheckout /\ [Checkout!Next]_(Checkout!vars) => (Checkout!TypeOK /\ Checkout!OneCheckout)'
    BY CheckoutNextType, CheckoutNext
  <1> QED  BY <1>1, <1>2, PTL DEF Checkout!Spec
===============================================================================
