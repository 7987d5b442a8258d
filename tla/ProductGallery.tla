--------------------------- MODULE ProductGallery ---------------------------
(***************************************************************************)
(* The gallery of a product: ProductMediaGallery.tsx on the web and        *)
(* product-media.tsx on the phone over inventory/media.py.  A photo is     *)
(* uploaded as an asset of its own and then attached; the page asks for it *)
(* to be the main one when it shows no photos.  Two pages are open, their  *)
(* lists are read now and then, and answers are lost.                      *)
(***************************************************************************)
EXTENDS Naturals, Sequences, FiniteSets, SequencesExt

CONSTANTS
    Pages,       \* open pages
    Web,         \* those on the web; the others are on phones
    MaxImages,   \* MAX_PRODUCT_IMAGES
    MaxAssets,   \* bound on the assets uploaded
    None

GalleryAssumption == Web \subseteq Pages /\ MaxImages \in Nat /\ MaxAssets \in Nat

VARIABLES
    archived,
    gallery,     \* attachments in the order of their position
    primary,     \* primary_image of the product
    assets,      \* assets drawn so far; an asset is its number
    ready,       \* uploaded and not removed
    shown,       \* the gallery each page read last
    upload,      \* the upload of each page: asset, makePrimary and step
    failed,      \* whether a page offers to send its photo again
    change       \* the change of main photo and the removal a page has sent

vars == <<archived, gallery, primary, assets, ready, shown, upload, failed, change>>

Asset == 1..MaxAssets
Upload == [asset : Asset, makePrimary : BOOLEAN, step : {"sent", "put", "ok", "error"}]
Change == [asset : Asset, kind : {"primary", "remove"}]

TypeOK ==
    /\ archived \in BOOLEAN /\ assets \in 0..MaxAssets /\ ready \subseteq 1..assets
    /\ IsInjective(gallery) /\ ToSet(gallery) \subseteq ready
    /\ primary \in (1..assets) \cup {None}
    /\ \A p \in Pages :
          /\ ToSet(shown[p]) \subseteq 1..assets
          /\ upload[p] \in Upload \cup {None} /\ change[p] \subseteq Change
          /\ \A c, d \in change[p] : c.kind = d.kind => c = d
          /\ failed[p] => upload[p] = None

Init ==
    /\ archived = FALSE /\ gallery = <<>> /\ primary = None /\ assets = 0 /\ ready = {}
    /\ shown = [p \in Pages |-> <<>>] /\ upload = [p \in Pages |-> None]
    /\ failed = [p \in Pages |-> FALSE] /\ change = [p \in Pages |-> {}]

----------------------------------------------------------------------------
(* Uploading.                                                              *)

Refresh(p) ==
    /\ shown[p] # gallery /\ shown' = [shown EXCEPT ![p] = gallery]
    /\ UNCHANGED <<archived, gallery, primary, assets, ready, upload, failed, change>>

\* The list is read when the upload begins and decides which photo is main.
Begin(p) ==
    /\ upload[p] = None /\ assets < MaxAssets /\ assets' = assets + 1
    /\ upload' = [upload EXCEPT ![p] = [asset |-> assets + 1, makePrimary |-> shown[p] = <<>>,
                                        step |-> "sent"]]
    /\ failed' = [failed EXCEPT ![p] = FALSE]
    /\ UNCHANGED <<archived, gallery, primary, ready, shown, change>>

WebUpload(p) == p \in Web /\ ~archived /\ Len(shown[p]) < MaxImages /\ Begin(p)
PhoneUpload(p) == p \notin Web /\ ~archived /\ Begin(p)

\* A photo that failed is uploaded again, as an asset of its own.
Retry(p) == failed[p] /\ Begin(p)

\* The upload is prepared, put and completed.
UploadPrivateFile(p) ==
    /\ upload[p] # None /\ upload[p].step = "sent"
    /\ upload' = [upload EXCEPT ![p].step = "put"] /\ ready' = ready \cup {upload[p].asset}
    /\ UNCHANGED <<archived, gallery, primary, assets, shown, failed, change>>

\* Fault: the photos are not counted.
AttachAnyNumber(p) ==
    /\ upload[p] # None /\ upload[p].step = "put"
    /\ upload' = [upload EXCEPT ![p].step = "ok"]
    /\ gallery' = Append(gallery, upload[p].asset)
    /\ primary' = IF upload[p].makePrimary \/ primary = None THEN upload[p].asset ELSE primary
    /\ UNCHANGED <<archived, assets, ready, shown, failed, change>>

\* Under the lock of the product.
AttachProductMedia(p) ==
    /\ upload[p] # None /\ upload[p].step = "put"
    /\ LET accepted == ~archived /\ Len(gallery) < MaxImages IN
         /\ upload' = [upload EXCEPT ![p].step = IF accepted THEN "ok" ELSE "error"]
         /\ gallery' = IF accepted THEN Append(gallery, upload[p].asset) ELSE gallery
         /\ primary' = IF accepted /\ (upload[p].makePrimary \/ primary = None)
                       THEN upload[p].asset ELSE primary
    /\ UNCHANGED <<archived, assets, ready, shown, failed, change>>

\* A request is lost, or its answer.
Lose(p) ==
    /\ upload[p] # None /\ upload[p].step # "error"
    /\ upload' = [upload EXCEPT ![p].step = "error"]
    /\ UNCHANGED <<archived, gallery, primary, assets, ready, shown, failed, change>>

UploadFailed(p) ==
    /\ upload[p] # None /\ upload[p].step = "error"
    /\ upload' = [upload EXCEPT ![p] = None] /\ failed' = [failed EXCEPT ![p] = TRUE]
    /\ UNCHANGED <<archived, gallery, primary, assets, ready, shown, change>>

\* The read that a success asks for is another step.
UploadOK(p) ==
    /\ upload[p] # None /\ upload[p].step = "ok"
    /\ upload' = [upload EXCEPT ![p] = None]
    /\ UNCHANGED <<archived, gallery, primary, assets, ready, shown, failed, change>>

----------------------------------------------------------------------------
(* Main photo and removal.                                                 *)

Asked(p, kind) == {c \in change[p] : c.kind = kind}

\* Each of the two has its own button and waits for its own answer.
Ask(p, kind, a) ==
    /\ Asked(p, kind) = {} /\ Contains(shown[p], a)
    /\ change' = [change EXCEPT ![p] = @ \cup {[asset |-> a, kind |-> kind]}]
    /\ UNCHANGED <<archived, gallery, primary, assets, ready, shown, upload, failed>>

WebAsk(p, kind, a) == p \in Web /\ Ask(p, kind, a)
PhoneAsk(p, kind, a) == p \notin Web /\ Ask(p, kind, a)

\* Whatever the answer, the button is enabled again.
Answered(p, c) == change' = [change EXCEPT ![p] = @ \ {c}]

SetPrimary(p, c) ==
    /\ c.kind = "primary" /\ Answered(p, c)
    /\ primary' = IF Contains(gallery, c.asset) THEN c.asset ELSE primary
    /\ UNCHANGED <<archived, gallery, assets, ready, shown, upload, failed>>

\* The main photo is replaced by the first of those that are left.
Replaced(a, left) ==
    IF primary # a THEN primary ELSE IF left = <<>> THEN None ELSE left[1]

RemoveMedia(p, c) ==
    /\ c.kind = "remove" /\ Answered(p, c)
    /\ IF Contains(gallery, c.asset)
         THEN /\ \E i \in 1..Len(gallery) :
                    gallery[i] = c.asset /\ gallery' = RemoveAt(gallery, i)
              /\ primary' = Replaced(c.asset, gallery')
              /\ ready' = ready \ {c.asset}
         ELSE UNCHANGED <<gallery, primary, ready>>
    /\ UNCHANGED <<archived, assets, shown, upload, failed>>

LoseChange(p, c) ==
    /\ Answered(p, c)
    /\ UNCHANGED <<archived, gallery, primary, assets, ready, shown, upload, failed>>

Archive ==
    /\ archived' = ~archived
    /\ UNCHANGED <<gallery, primary, assets, ready, shown, upload, failed, change>>

Next ==
    \/ Archive
    \/ \E p \in Pages :
          \/ Refresh(p) \/ WebUpload(p) \/ PhoneUpload(p) \/ Retry(p) \/ UploadPrivateFile(p)
          \/ AttachProductMedia(p) \/ Lose(p) \/ UploadFailed(p) \/ UploadOK(p)
          \/ \E c \in change[p] : SetPrimary(p, c) \/ RemoveMedia(p, c) \/ LoseChange(p, c)
          \/ \E kind \in {"primary", "remove"}, a \in Asset : WebAsk(p, kind, a) \/ PhoneAsk(p, kind, a)

Spec == Init /\ [][Next]_vars

----------------------------------------------------------------------------
(* Properties.                                                             *)

\* The product has a main photo exactly when it has photos, and it is one of
\* them, whatever pages attach, choose and remove from lists that are old.
PrimaryInGallery == IF gallery = <<>> THEN primary = None ELSE Contains(gallery, primary)

\* "Cada producto admite hasta 10 fotos", although the phone does not look at
\* the number and pages upload at the same time.
LimitHolds == Len(gallery) <= MaxImages

\* A main photo gives way only when it is removed, when a page asks for another,
\* or to an upload that began on a page that showed no photos: the last may have
\* begun long before the photo it replaces was chosen.
ReplacesMain ==
    primary # None /\ primary' # primary =>
        \/ ~Contains(gallery', primary)
        \/ \E p \in Pages : \E c \in change[p] : c.kind = "primary" /\ c.asset = primary'
        \/ \E p \in Pages : upload[p] # None /\ upload[p].makePrimary
                            /\ upload[p].asset = primary'
=============================================================================
