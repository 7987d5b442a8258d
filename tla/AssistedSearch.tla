--------------------------- MODULE AssistedSearch ---------------------------
(***************************************************************************)
(* A product made from a photo: ProductFormPage.tsx on the web and         *)
(* inventario/producto.tsx on the phone.  The first photo is uploaded and  *)
(* searched under a key, the seller picks a candidate or goes on by hand.  *)
(* A photo can be removed while its search is under way: the search is     *)
(* not called off, and its answer comes later.                             *)
(***************************************************************************)
EXTENDS Naturals, Sequences, FiniteSets, SequencesExt

CONSTANTS
    Clients,     \* subset of {"web", "mobile"}
    MaxPhotos,   \* bound on the photos added
    MaxQueue,    \* bound on the photos kept at once
    None

SearchAssumption ==
    Clients \subseteq {"web", "mobile"} /\ MaxPhotos \in Nat /\ MaxQueue \in Nat

VARIABLES
    client,
    allowed,     \* the plan has the assisted search
    added,       \* photos added so far; a photo is its number
    photos,      \* the queue
    phase,       \* photo, searching, pick, form, left
    candidates,  \* photo whose candidates are held, None for none
    applied,     \* photo whose candidate filled the form
    key,         \* suggestionKey; a key is the number of times it was drawn
    searches,    \* searches under way
    begun,       \* every search begun: its photo and its key
    ledger       \* server: keys answered, with the photo they were sent for

vars == <<client, allowed, added, photos, phase, candidates, applied, key, searches, begun, ledger>>

Photo == 1..MaxPhotos
Key == 1..(2 * MaxPhotos + 1)   \* a photo draws at most two, when removed and when it fails
Steps == {"uploading", "sent", "found", "failed"}
Ask == [photo : Photo, key : Key]

TypeOK ==
    /\ client \in Clients /\ allowed \in BOOLEAN /\ added \in 0..MaxPhotos
    /\ ToSet(photos) \subseteq 1..added /\ Len(photos) <= MaxQueue /\ IsInjective(photos)
    /\ phase \in {"photo", "searching", "pick", "form", "left"}
    /\ candidates \in (1..added) \cup {None} /\ applied \in (1..added) \cup {None}
    /\ key \in Key /\ begun \subseteq Ask
    /\ searches \subseteq [photo : Photo, key : Key, step : Steps]
    /\ \A s, t \in searches : s.photo = t.photo => s = t
    /\ ledger \subseteq begun
    /\ phase = "photo" => photos = <<>>

Init ==
    /\ client \in Clients /\ allowed \in BOOLEAN
    /\ added = 0 /\ photos = <<>> /\ phase = "photo" /\ candidates = None /\ applied = None
    /\ key = 1 /\ searches = {} /\ begun = {} /\ ledger = {}

----------------------------------------------------------------------------
(* The page.                                                               *)

RunAssistedSearch(f) ==
    /\ phase' = "searching"
    /\ searches' = searches \cup {[photo |-> f, key |-> key, step |-> "uploading"]}
    /\ begun' = begun \cup {[photo |-> f, key |-> key]}

\* Only the first photo of an empty queue is searched.
AddPhoto ==
    LET f == added + 1 IN
    /\ phase # "left" /\ added < MaxPhotos /\ Len(photos) < MaxQueue
    /\ added' = f /\ photos' = Append(photos, f)
    /\ IF photos = <<>> THEN RunAssistedSearch(f) ELSE UNCHANGED <<phase, searches, begun>>
    /\ UNCHANGED <<client, allowed, candidates, applied, key, ledger>>

WebAddPhoto == client = "web" /\ AddPhoto
PhoneAddPhoto == client = "mobile" /\ AddPhoto

ResetAssistedSearch == candidates' = None /\ phase' = "photo" /\ key' = key + 1

RemovePhoto(f) ==
    /\ phase # "left"
    /\ \E i \in 1..Len(photos) : photos[i] = f /\ photos' = RemoveAt(photos, i)
    /\ IF photos' = <<>> THEN ResetAssistedSearch ELSE UNCHANGED <<candidates, phase, key>>
    /\ UNCHANGED <<client, allowed, added, applied, searches, begun, ledger>>

WebRemovePhoto(f) == client = "web" /\ RemovePhoto(f)
PhoneRemovePhoto(f) == client = "mobile" /\ RemovePhoto(f)

ApplyCandidate ==
    /\ phase = "pick" /\ candidates # None
    /\ applied' = candidates /\ phase' = "form"
    /\ UNCHANGED <<client, allowed, added, photos, candidates, key, searches, begun, ledger>>

WebApplyCandidate == client = "web" /\ ApplyCandidate
PhoneApplyCandidate == client = "mobile" /\ ApplyCandidate

FillByHand ==
    /\ phase = "pick" /\ phase' = "form"
    /\ UNCHANGED <<client, allowed, added, photos, candidates, applied, key, searches, begun, ledger>>

WebFillByHand == client = "web" /\ FillByHand
PhoneFillByHand == client = "mobile" /\ FillByHand

Leave ==
    /\ phase # "left" /\ phase' = "left"
    /\ UNCHANGED <<client, allowed, added, photos, candidates, applied, key, searches, begun, ledger>>

\* The phone reads the plan and goes to its page when it lacks the search.
PhonePlanRead ==
    /\ client = "mobile" /\ ~allowed /\ phase # "left" /\ phase' = "left"
    /\ UNCHANGED <<client, allowed, added, photos, candidates, applied, key, searches, begun, ledger>>

----------------------------------------------------------------------------
(* A search.                                                               *)

Step(s, step) == searches' = (searches \ {s}) \cup {[s EXCEPT !.step = step]}

Upload(s) ==
    /\ s.step = "uploading" /\ Step(s, "sent")
    /\ UNCHANGED <<client, allowed, added, photos, phase, candidates, applied, key, begun, ledger>>

\* A key answers again what it answered before, or refuses another photo; only
\* a search that finds enough products is kept under its key.
SuggestProducts(s) ==
    /\ s.step = "sent"
    /\ LET past == {a \in ledger : a.key = s.key} IN
         \/ allowed /\ past \subseteq {[photo |-> s.photo, key |-> s.key]} /\ Step(s, "found")
            /\ ledger' = ledger \cup {[photo |-> s.photo, key |-> s.key]}
         \/ Step(s, "failed") /\ UNCHANGED ledger
    /\ UNCHANGED <<client, allowed, added, photos, phase, candidates, applied, key, begun>>

\* The upload is refused, or a request or its answer is lost.
Fail(s) ==
    /\ s.step \in {"uploading", "sent", "found"} /\ Step(s, "failed")
    /\ UNCHANGED <<client, allowed, added, photos, phase, candidates, applied, key, begun, ledger>>

On(p) == IF phase = "left" THEN phase ELSE p

Found(s) ==
    /\ s.step = "found" /\ searches' = searches \ {s}
    /\ candidates' = s.photo /\ phase' = On("pick")
    /\ UNCHANGED <<client, allowed, added, photos, applied, key, begun, ledger>>

\* Fault: the page goes on searching.
FailedSilently(s) ==
    /\ s.step = "failed" /\ searches' = searches \ {s} /\ key' = key + 1
    /\ UNCHANGED <<client, allowed, added, photos, phase, candidates, applied, begun, ledger>>

Failed(s) ==
    /\ s.step = "failed" /\ searches' = searches \ {s}
    /\ phase' = On("form") /\ key' = key + 1
    /\ UNCHANGED <<client, allowed, added, photos, candidates, applied, begun, ledger>>

Next ==
    \/ WebAddPhoto \/ PhoneAddPhoto \/ WebApplyCandidate \/ PhoneApplyCandidate
    \/ WebFillByHand \/ PhoneFillByHand \/ Leave \/ PhonePlanRead
    \/ \E f \in Photo : WebRemovePhoto(f) \/ PhoneRemovePhoto(f)
    \/ \E s \in searches : Upload(s) \/ SuggestProducts(s) \/ Fail(s) \/ Found(s) \/ Failed(s)

\* An upload, a request and a callback of a search end; the seller may do nothing.
Proceeds(f) ==
    \E s \in searches : s.photo = f /\
        (Upload(s) \/ SuggestProducts(s) \/ Found(s) \/ Failed(s))
Fairness == \A f \in Photo : WF_vars(Proceeds(f))

Spec == Init /\ [][Next]_vars /\ Fairness

----------------------------------------------------------------------------
(* Properties.                                                             *)

\* Two searches never share a key, so none is answered with the candidates of
\* another photo nor refused for them, also when photos are removed and added
\* while searches are under way and fail.
OneSearchPerKey == \A a, b \in begun : a.key = b.key => a = b

\* The page does not search for ever: the search it waits for is answered,
\* fails, or loses its photo.
Searching == phase = "searching"
SearchEnds == Searching ~> ~Searching
=============================================================================
