----------------------------- MODULE ProductForm -----------------------------
(***************************************************************************)
(* The form that creates a product, on the web (ProductFormPage.tsx) and   *)
(* on the phone (inventario/producto.tsx): by hand, as a variant of        *)
(* another or from a photo.  It sends the product under a key, then its    *)
(* photos one by one.  Other sellers create and archive products too, and  *)
(* the plan of the shop limits how many are in the catalogue.              *)
(***************************************************************************)
EXTENDS Naturals, Sequences, FiniteSets, SequencesExt

CONSTANTS
    Clients,     \* subset of {"web", "mobile"}
    Names,       \* names, compared without case and outer spaces
    Quantities,  \* initial quantities, 0 among them
    Photos,
    Limit,       \* products the plan allows in the catalogue
    MaxKeys,     \* bound on the keys drawn
    None         \* no name, no product, no call, no primary photo

FormAssumption ==
    /\ Clients \subseteq {"web", "mobile"} /\ Limit \in Nat /\ MaxKeys \in Nat \ {0}
    /\ 0 \in Quantities /\ IsFiniteSet(Photos) /\ None \notin Names \cup Photos

VARIABLES
    client,
    origin,      \* manual, variant, assisted
    products,    \* rows of the catalogue, archived ones included
    source,      \* name of the product a variant starts from
    draft,       \* name and initial quantity
    photos,      \* queue of photos, the first is the main one
    key, keys,   \* idempotencyKey and how many were drawn
    call,        \* the save that is under way
    told,        \* what the last failure said
    saved,       \* the call whose success closed the form
    page

vars == <<client, origin, products, source, draft, photos, key, keys, call, told, saved, page>>
form == <<source, draft, photos>>
given == <<client, origin>>

Draft == [name : Names \cup {None}, quantity : Quantities]
Queue == {q \in BoundedSeq(Photos, Cardinality(Photos)) : IsInjective(q)}

\* One row: the key it was created under, 0 for those of other sellers.
Product == [key : 0..MaxKeys, draft : Draft, archived : BOOLEAN,
            gallery : Queue, primary : Photos \cup {None}]

Call == [key : 1..MaxKeys, draft : Draft, photos : Queue,
         step : {"sent", "checked", "created", "rejected", "lost", "attaching"}]

Live == {p \in products : ~p.archived}
Of(k) == {p \in products : p.key = k}
Row(k, d) == [key |-> k, draft |-> d, archived |-> FALSE, gallery |-> <<>>, primary |-> None]

TypeOK ==
    /\ client \in Clients /\ origin \in {"manual", "variant", "assisted"}
    /\ products \subseteq Product
    /\ \A p, q \in Live : p.draft.name = q.draft.name => p = q
    /\ source \in Names \cup {None} /\ draft \in Draft /\ photos \in Queue
    /\ keys \in 1..MaxKeys /\ key \in 1..keys
    /\ call \in Call \cup {None} /\ saved \in Call \cup {None}
    /\ told \in {"nothing", "rejected", "offline"} /\ page \in {"form", "left", "saved"}

Init ==
    /\ client \in Clients /\ origin \in {"manual", "variant", "assisted"}
    /\ \E n \in Names : products = {Row(0, [name |-> n, quantity |-> 0])}
    /\ source = None /\ draft = [name |-> None, quantity |-> 0] /\ photos = <<>>
    /\ key = 1 /\ keys = 1 /\ call = None /\ told = "nothing" /\ saved = None /\ page = "form"

----------------------------------------------------------------------------
(* Filling the form.  Nothing is disabled while a save is under way.       *)

\* A variant starts as a copy of its source, name included.
ApplySource ==
    /\ page = "form" /\ origin = "variant" /\ source = None
    /\ \E p \in Live : source' = p.draft.name /\ draft' = [draft EXCEPT !.name = p.draft.name]
    /\ UNCHANGED <<given, products, photos, key, keys, call, told, saved, page>>

WebApplySource == client = "web" /\ ApplySource
PhoneApplySource == client = "mobile" /\ ApplySource

ChooseAnother ==
    /\ page = "form" /\ source # None /\ source' = None
    /\ UNCHANGED <<given, products, draft, photos, key, keys, call, told, saved, page>>

WebChooseAnother == client = "web" /\ ChooseAnother
PhoneChooseAnother == client = "mobile" /\ ChooseAnother

\* The fields show once a variant has its source and an assisted form its photo.
ShowForm ==
    /\ page = "form"
    /\ origin = "variant" => source # None
    /\ origin = "assisted" => photos # <<>>

WebType(d) ==
    /\ client = "web" /\ ShowForm /\ d # draft /\ draft' = d
    /\ UNCHANGED <<given, products, source, photos, key, keys, call, told, saved, page>>

PhoneType(d) ==
    /\ client = "mobile" /\ ShowForm /\ d # draft /\ draft' = d
    /\ UNCHANGED <<given, products, source, photos, key, keys, call, told, saved, page>>

WebAddPhoto(f) ==
    /\ client = "web" /\ page = "form" /\ ~Contains(photos, f) /\ photos' = Append(photos, f)
    /\ UNCHANGED <<given, products, source, draft, key, keys, call, told, saved, page>>

PhoneAddPhoto(f) ==
    /\ client = "mobile" /\ page = "form" /\ ~Contains(photos, f) /\ photos' = Append(photos, f)
    /\ UNCHANGED <<given, products, source, draft, key, keys, call, told, saved, page>>

RemovePhoto(f) ==
    /\ page = "form"
    /\ \E i \in 1..Len(photos) : photos[i] = f /\ photos' = RemoveAt(photos, i)
    /\ UNCHANGED <<given, products, source, draft, key, keys, call, told, saved, page>>

WebRemovePhoto(f) == client = "web" /\ RemovePhoto(f)
PhoneRemovePhoto(f) == client = "mobile" /\ RemovePhoto(f)

Leave ==
    /\ page = "form" /\ page' = "left"
    /\ UNCHANGED <<given, products, form, key, keys, call, told, saved>>

WebLeave == client = "web" /\ Leave
PhoneLeave == client = "mobile" /\ Leave

----------------------------------------------------------------------------
(* Saving.                                                                 *)

Valid == draft.name # None /\ (origin = "variant" => draft.name # source)

Save == call' = [key |-> key, draft |-> draft, photos |-> photos, step |-> "sent"]

WebSubmit ==
    /\ client = "web" /\ ShowForm /\ call = None /\ Valid
    /\ Save /\ UNCHANGED <<given, products, form, key, keys, told, saved, page>>

PhoneSubmit ==
    /\ client = "mobile" /\ ShowForm /\ call = None /\ Valid
    /\ Save /\ UNCHANGED <<given, products, form, key, keys, told, saved, page>>

Step(s) == call' = [call EXCEPT !.step = s]
At(s) == call # None /\ call.step = s

\* The quota is read before the transaction of the key.
AssertCanCreate ==
    /\ At("sent")
    /\ Step(IF Cardinality(Live) < Limit THEN "checked" ELSE "rejected")
    /\ UNCHANGED <<given, products, form, key, keys, told, saved, page>>

\* Fault: the key is not looked up.
CreateProductAgain ==
    /\ At("checked")
    /\ IF \E p \in Live : p.draft.name = call.draft.name
         THEN Step("rejected") /\ UNCHANGED products
         ELSE products' = products \cup {Row(call.key, call.draft)} /\ Step("created")
    /\ UNCHANGED <<given, form, key, keys, told, saved, page>>

\* A key seen before answers its product, or refuses other data.  A new
\* product needs a name that no product of the catalogue has.
CreateProduct ==
    /\ At("checked")
    /\ IF Of(call.key) # {}
         THEN /\ Step(IF \E p \in Of(call.key) : p.draft = call.draft
                      THEN "created" ELSE "rejected")
              /\ UNCHANGED products
         ELSE IF \E p \in Live : p.draft.name = call.draft.name
         THEN Step("rejected") /\ UNCHANGED products
         ELSE products' = products \cup {Row(call.key, call.draft)} /\ Step("created")
    /\ UNCHANGED <<given, form, key, keys, told, saved, page>>

\* The request is lost on its way, or its answer.
Lose ==
    /\ \/ At("sent") \/ At("created") \/ At("rejected")
    /\ Step("lost")
    /\ UNCHANGED <<given, products, form, key, keys, told, saved, page>>

Created ==
    /\ At("created") /\ Step("attaching")
    /\ UNCHANGED <<given, products, form, key, keys, told, saved, page>>

Attach(p, f) ==
    [p EXCEPT !.gallery = Append(@, f), !.primary = IF p.gallery = <<>> THEN f ELSE @]

\* The next photo of the queue is uploaded and attached.
AttachNext ==
    /\ At("attaching")
    /\ \E p \in Of(call.key) :
          /\ ~p.archived /\ Len(p.gallery) < Len(call.photos)
          /\ products' = (products \ {p}) \cup {Attach(p, call.photos[Len(p.gallery) + 1])}
    /\ UNCHANGED <<given, form, key, keys, call, told, saved, page>>

\* Fault: the form takes the draft on the screen for the one it sent.
SavedAsShown ==
    /\ At("attaching")
    /\ call' = None /\ saved' = [call EXCEPT !.draft = draft]
    /\ page' = IF page = "form" THEN "saved" ELSE page
    /\ UNCHANGED <<given, products, form, key, keys, told>>

\* All photos are in, or one failed and the rest is left to the gallery.
Saved ==
    /\ At("attaching")
    /\ call' = None /\ saved' = call
    /\ page' = IF page = "form" THEN "saved" ELSE page
    /\ UNCHANGED <<given, products, form, key, keys, told>>

WebSaved == client = "web" /\ Saved
PhoneSaved == client = "mobile" /\ Saved

NewKey == keys < MaxKeys /\ key' = keys + 1 /\ keys' = keys + 1

\* An answer that refuses draws a new key; without an answer the key stays, and
\* the page of the web says nothing.
WebFailed ==
    /\ client = "web"
    /\ \/ At("rejected") /\ NewKey /\ told' = "rejected"
       \/ At("lost") /\ told' = "nothing" /\ UNCHANGED <<key, keys>>
    /\ call' = None /\ UNCHANGED <<given, products, form, saved, page>>

PhoneFailed ==
    /\ client = "mobile"
    /\ \/ At("rejected") /\ NewKey /\ told' = "rejected"
       \/ At("lost") /\ told' = "offline" /\ UNCHANGED <<key, keys>>
    /\ call' = None /\ UNCHANGED <<given, products, form, saved, page>>

----------------------------------------------------------------------------
(* Other sellers.                                                          *)

OthersCreate(n) ==
    /\ Cardinality(Live) < Limit /\ \A p \in Live : p.draft.name # n
    /\ products' = products \cup {Row(0, [name |-> n, quantity |-> 0])}
    /\ UNCHANGED <<given, form, key, keys, call, told, saved, page>>

\* An archived product of another form plays no further part.
OthersArchive(p) ==
    /\ ~p.archived
    /\ products' = (products \ {p}) \cup
                      (IF p.key = 0 THEN {} ELSE {[p EXCEPT !.archived = TRUE]})
    /\ UNCHANGED <<given, form, key, keys, call, told, saved, page>>

Next ==
    \/ WebApplySource \/ PhoneApplySource \/ WebChooseAnother \/ PhoneChooseAnother
    \/ WebLeave \/ PhoneLeave
    \/ \E d \in Draft : d.name # None /\ (WebType(d) \/ PhoneType(d))
    \/ \E f \in Photos : WebAddPhoto(f) \/ PhoneAddPhoto(f) \/ WebRemovePhoto(f) \/ PhoneRemovePhoto(f)
    \/ WebSubmit \/ PhoneSubmit \/ AssertCanCreate \/ CreateProduct \/ Lose
    \/ Created \/ AttachNext \/ WebSaved \/ PhoneSaved \/ WebFailed \/ PhoneFailed
    \/ \E n \in Names : OthersCreate(n)
    \/ \E p \in products : OthersArchive(p)

Spec == Init /\ [][Next]_vars

----------------------------------------------------------------------------
(* Properties.                                                             *)

\* A form makes one product per key, although its answer may be lost, other
\* sellers archive products and free their names, and the form is sent again.
OneProductPerKey == \A p, q \in products : p.key = q.key /\ p.key # 0 => p = q

\* The form closes as saved only when the catalogue has, or had until it was
\* archived, the product as it was sent, although the fields can be changed
\* while the save is under way.
SavedIsMade == saved # None => \E p \in Of(saved.key) : p.draft = saved.draft

\* The photos of a new product are the first ones of its queue in their order,
\* whatever upload fails, and the main photo is the first of the queue.
PhotosInOrder ==
    \A c \in {saved} \cup (IF At("attaching") THEN {call} ELSE {}) :
        c # None => \A p \in Of(c.key) :
            p.gallery # <<>> => IsPrefix(p.gallery, c.photos) /\ p.primary = c.photos[1]

\* "createProduct y recordStockMovement son idempotentes por clave: reenviar la
\* misma solicitud devuelve el resultado original sin duplicar".
ResendIsAnswered == At("rejected") => \A p \in Of(call.key) : p.draft # call.draft
=============================================================================
