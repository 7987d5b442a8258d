----------------------------- MODULE NewSaleWeb -----------------------------
(***************************************************************************)
(* The "new sale" wizard of the web application, sales/NewSalePage.tsx     *)
(* with the draft of sales/model.ts, in front of the server of SaleDesk.   *)
(*                                                                         *)
(* The draft lives in the state of the page and in the storage of the      *)
(* browser.  React writes it there again in an effect, some time after     *)
(* every change ("effect").  A submission is a mutation that outlives the  *)
(* page: when the seller leaves, its callbacks still run ("left"), with    *)
(* the draft it was given.                                                 *)
(***************************************************************************)
EXTENDS SaleDesk

CONSTANTS
    NoDraft,
    Background  \* may the seller leave while a submission is under way?

VARIABLES
    draft,      \* useState<SaleDraft> of the page
    stored,     \* the draft in localStorage
    page,       \* "away", "open", or "leaving" once navigate() was called
    effect,     \* the effect that saves the draft has not run yet
    confirm,    \* the dialog that confirms a sale in cash
    connected,  \* mercadoPagoActive
    calls,      \* submissions: of the page, and of a page already left
    used,       \* keys drawn so far
    reported    \* sales whose completion the seller was shown

pageVars == <<draft, stored, page, effect, confirm, connected, calls, used, reported>>
vars == <<deskVars, pageVars>>

Draft ==
    [key : Keys, step : 1..4, cart : Carts \cup {NoCart}, method : Methods,
     order : BOOLEAN,   \* createdOrderId is set: the sale of "key"
     url : BOOLEAN]     \* publicUrl is set

WizardAssumption == Background \in BOOLEAN /\ NoDraft \notin Draft

Slot == {"page", "left"}

Idle == [phase |-> "idle"]

Call ==
    {Idle} \cup
    [phase : {"creating", "publishing"}, reply : Reply, draft : Draft,
     method : Methods]

TypeOK ==
    /\ DeskTypeOK
    /\ draft \in Draft \cup {NoDraft}
    /\ stored \in Draft \cup {NoDraft}
    /\ page \in {"away", "open", "leaving"}
    /\ effect \in BOOLEAN /\ confirm \in BOOLEAN /\ connected \in BOOLEAN
    /\ calls \in [Slot -> Call]
    /\ used \subseteq Keys /\ reported \subseteq Keys

Init ==
    /\ DeskInit
    /\ draft = NoDraft /\ stored = NoDraft
    /\ page = "away"
    /\ effect = FALSE /\ confirm = FALSE /\ connected = FALSE
    /\ calls = [s \in Slot |-> Idle]
    /\ used = {} /\ reported = {}

----------------------------------------------------------------------------
(* The draft.                                                              *)

\* Fault: the steps are numbered from zero, as the list that draws them is.
EmptyDraftFromZero(k) ==
    [key |-> k, step |-> 0, cart |-> NoCart, method |-> "bank_transfer",
     order |-> FALSE, url |-> FALSE]

EmptyDraft(k) ==
    [key |-> k, step |-> 1, cart |-> NoCart, method |-> "bank_transfer",
     order |-> FALSE, url |-> FALSE]

FreshKey(k) == k \in Keys \ used /\ used' = used \cup {k}

Completed(d) == d.step = 4 /\ d.order

\* Mercado Pago is taken only while the shop is connected.
Selected(d) ==
    IF d.method = "mercado_pago" /\ ~connected THEN "bank_transfer" ELSE d.method

Valid(d) == d.cart \in Carts

\* setDraft and saveSaleDraft together; the effect will save it once more.
ReplaceDraft(d) == draft' = d /\ stored' = d /\ effect' = TRUE

\* resolveSaleDraftOnEnter: a completed sale is only shown in a notice.
Enter ==
    /\ page = "away"
    /\ IF stored # NoDraft /\ ~Completed(stored)
         THEN draft' = stored /\ UNCHANGED <<stored, used, reported>>
         ELSE /\ \E k \in Keys : FreshKey(k) /\ draft' = EmptyDraft(k)
              /\ reported' = reported \cup (IF stored = NoDraft THEN {} ELSE {stored.key})
              /\ stored' = NoDraft
    /\ page' = "open" /\ effect' = TRUE
    /\ UNCHANGED <<deskVars, confirm, connected, calls>>

SaveEffect ==
    /\ page # "away" /\ effect
    /\ stored' = draft /\ effect' = FALSE
    /\ UNCHANGED <<deskVars, draft, page, confirm, connected, calls, used, reported>>

LoadConnection ==
    /\ connected' \in BOOLEAN \ {connected}
    /\ "mercado_pago" \in Methods
    /\ UNCHANGED <<deskVars, draft, stored, page, effect, confirm, calls, used, reported>>

\* React runs the effects of a change before it takes the next event.
Ready == page = "open" /\ ~effect

\* Lines are added, changed and removed in the first step, and this does not
\* wait for a submission under way.
EditLines(cart) ==
    /\ Ready /\ draft.step = 1 /\ cart # draft.cart
    /\ ReplaceDraft([draft EXCEPT !.cart = cart])
    /\ UNCHANGED <<deskVars, page, confirm, connected, calls, used, reported>>

ChooseMethod(m) ==
    /\ Ready /\ draft.step = 2
    /\ m = "mercado_pago" => connected
    /\ ReplaceDraft([draft EXCEPT !.method = m])
    /\ UNCHANGED <<deskVars, page, confirm, connected, calls, used, reported>>

\* goToStep: forward by "Continuar", back by "Volver" or the list of steps.
GoToStep(s) ==
    /\ Ready /\ ~confirm
    /\ draft.step < 4 /\ s # draft.step /\ s \in 1..(draft.step + 1) \cap 1..3
    /\ s > 1 => Valid(draft)
    /\ ReplaceDraft([draft EXCEPT !.step = s])
    /\ UNCHANGED <<deskVars, page, confirm, connected, calls, used, reported>>

----------------------------------------------------------------------------
(* The submission.                                                         *)

SubmitEnabled ==
    /\ Ready /\ draft.step = 3 /\ Valid(draft)
    /\ calls["page"] = Idle

AskCash ==
    /\ SubmitEnabled /\ Selected(draft) = "cash" /\ ~confirm
    /\ confirm' = TRUE
    /\ UNCHANGED <<deskVars, draft, stored, page, effect, connected, calls, used, reported>>

CloseCash ==
    /\ Ready /\ confirm /\ calls["page"] = Idle
    /\ confirm' = FALSE
    /\ UNCHANGED <<deskVars, draft, stored, page, effect, connected, calls, used, reported>>

\* onSuccess in cash: the stored draft is cleared and the sale's page opens.
CashDone(k) ==
    /\ stored' = NoDraft
    /\ confirm' = FALSE
    /\ reported' = reported \cup {k}
    /\ page' = IF page = "open" THEN "leaving" ELSE page

\* A draft that already has its order is not created again.
Submit ==
    /\ SubmitEnabled
    /\ confirm <=> Selected(draft) = "cash"
    /\ IF draft.order /\ Selected(draft) = "cash"
         THEN CashDone(draft.key) /\ UNCHANGED calls
         ELSE /\ calls' = [calls EXCEPT !["page"] =
                   [phase |-> IF draft.order THEN "publishing" ELSE "creating",
                    reply |-> "none", draft |-> draft, method |-> Selected(draft)]]
              /\ UNCHANGED <<stored, confirm, reported, page>>
    /\ UNCHANGED <<deskVars, draft, effect, connected, used>>

RequestOf(c) ==
    [kind |-> IF c.phase = "creating" THEN "create" ELSE "publish",
     key |-> c.draft.key, terms |-> [cart |-> c.draft.cart, method |-> c.method]]

Waiting(s) == calls[s] # Idle /\ calls[s].reply = "none"

ServeCall(s) ==
    /\ Waiting(s)
    /\ \E reply \in Reply :
          /\ Serve(RequestOf(calls[s]), reply)
          /\ calls' = [calls EXCEPT ![s].reply = reply]
    /\ UNCHANGED <<late, draft, stored, page, effect, confirm, connected, used, reported>>

Answered(s, phase) ==
    calls[s] # Idle /\ calls[s].phase = phase /\ calls[s].reply = "done"

\* The page takes a draft that a submission hands it; a page left has none.
ShowDraft(s, d) ==
    IF s = "page" THEN draft' = d /\ effect' = TRUE ELSE UNCHANGED <<draft, effect>>

\* mutationFn after createOrder: the draft it was given comes back, with its
\* order; a sale in cash is done, any other is published.
Created(s) ==
    /\ Answered(s, "creating")
    /\ LET d == [calls[s].draft EXCEPT !.order = TRUE] IN
       /\ ShowDraft(s, d)
       /\ IF calls[s].method = "cash"
            THEN CashDone(d.key) /\ calls' = [calls EXCEPT ![s] = Idle]
            ELSE /\ stored' = d
                 /\ calls' = [calls EXCEPT ![s].phase = "publishing",
                                           ![s].reply = "none", ![s].draft = d]
                 /\ UNCHANGED <<page, confirm, reported>>
    /\ UNCHANGED <<deskVars, connected, used>>

\* onSuccess with a link: the draft of the page moves to its last step, unless
\* cash was chosen meanwhile.
Published(s) ==
    /\ Answered(s, "publishing")
    /\ LET base == IF s = "page" THEN draft ELSE calls[s].draft
           d == [base EXCEPT !.step = 4, !.order = TRUE, !.url = TRUE] IN
       IF Selected(base) = "cash"
         THEN CashDone(d.key) /\ UNCHANGED <<draft, effect>>
         ELSE /\ ShowDraft(s, d) /\ stored' = d
              /\ reported' = IF s = "page" THEN reported \cup {d.key} ELSE reported
              /\ confirm' = IF s = "page" THEN FALSE ELSE confirm
              /\ UNCHANGED page
    /\ calls' = [calls EXCEPT ![s] = Idle]
    /\ UNCHANGED <<deskVars, connected, used>>

\* onError: the draft and its keys stay as they are.
Failed(s) ==
    /\ calls[s] # Idle /\ calls[s].reply \in {"refused", "reused"}
    /\ calls' = [calls EXCEPT ![s] = Idle]
    /\ UNCHANGED <<deskVars, draft, stored, page, effect, confirm, connected, used, reported>>

Unserved(slots) == {RequestOf(calls[s]) : s \in {t \in slots : Waiting(t)}}

\* The connection breaks: fetch throws, whatever the server has done.
LoseAnswer(s) ==
    /\ calls[s] # Idle
    /\ Abandon(Unserved({s}))
    /\ calls' = [calls EXCEPT ![s] = Idle]
    /\ UNCHANGED <<sold, published, draft, stored, page, effect, confirm, connected, used, reported>>

----------------------------------------------------------------------------
(* Leaving the page.                                                       *)

\* reset: "Crear otra venta".
Reset ==
    /\ Ready /\ draft.step = 4
    /\ \E k \in Keys : FreshKey(k) /\ draft' = EmptyDraft(k)
    /\ stored' = NoDraft /\ effect' = TRUE
    /\ UNCHANGED <<deskVars, page, confirm, connected, calls, reported>>

LeaveToSales ==
    /\ Ready /\ ~confirm
    /\ page' = "leaving"
    /\ IF draft.step = 4
         THEN /\ \E k \in Keys : FreshKey(k) /\ draft' = EmptyDraft(k)
              /\ stored' = NoDraft /\ effect' = TRUE
         ELSE UNCHANGED <<draft, stored, effect, used>>
    /\ UNCHANGED <<deskVars, confirm, connected, calls, reported>>

\* React commits the change of the draft first: a navigation is a transition.
Unmount ==
    /\ page = "leaving" /\ ~effect
    /\ calls["page"] # Idle => Background /\ calls["left"] = Idle
    /\ page' = "away" /\ draft' = NoDraft
    /\ calls' = IF calls["page"] = Idle THEN calls
                ELSE [calls EXCEPT !["page"] = Idle, !["left"] = calls["page"]]
    /\ UNCHANGED <<deskVars, stored, effect, confirm, connected, used, reported>>

\* The tab is closed or reloaded: only the storage remains.
CloseTab ==
    /\ page # "away" \/ calls["left"] # Idle
    /\ Abandon(Unserved(Slot))
    /\ calls' = [s \in Slot |-> Idle]
    /\ page' = "away" /\ draft' = NoDraft /\ effect' = FALSE /\ confirm' = FALSE
    /\ UNCHANGED <<sold, published, stored, connected, used, reported>>

ServeLater == ServeLate /\ UNCHANGED pageVars

Next ==
    \/ Enter \/ SaveEffect \/ LoadConnection
    \/ \E cart \in Carts \cup {NoCart} : EditLines(cart)
    \/ \E m \in Methods : ChooseMethod(m)
    \/ \E s \in 1..3 : GoToStep(s)
    \/ AskCash \/ CloseCash \/ Submit
    \/ \E s \in Slot : ServeCall(s) \/ Created(s) \/ Published(s) \/ Failed(s) \/ LoseAnswer(s)
    \/ Reset \/ LeaveToSales \/ Unmount \/ CloseTab
    \/ ServeLater

Spec == Init /\ [][Next]_vars

----------------------------------------------------------------------------
(* Properties.                                                             *)

Known(k) == k \in reported \/ \E d \in {draft, stored} \ {NoDraft} : d.key = k

\* No sale is left holding stock behind the seller's back: every sale that
\* exists has been shown as done, or its key is still in a draft with which
\* the wizard will ask for it again, or a submission is about to report it.
NoOrphanSale ==
    \A k \in Keys :
        sold[k] # NoTerms =>
            Known(k) \/ \E s \in Slot : calls[s] # Idle /\ calls[s].draft.key = k

\* What a draft says of its sale is true on the server, through any number of
\* retries, reloads and answers that come late: the order it names exists and
\* the link it shows is served.
DraftTellsTruth ==
    \A d \in {draft, stored} \ {NoDraft} :
        /\ d.order => sold[d.key] # NoTerms
        /\ d.url => d.key \in published
=============================================================================
