---------------------------- MODULE NewSaleMobile ----------------------------
(***************************************************************************)
(* The "new sale" wizard of the mobile application, ventas/nueva.tsx with  *)
(* the draft of lib/sales-draft.ts, in front of the server of SaleDesk.    *)
(*                                                                         *)
(* The draft is read from the device after the screen opens (hydrated) and *)
(* written back by an effect after every change.  Unlike the web, a retry  *)
(* always sends the creation again: only the key ties it to its sale.      *)
(***************************************************************************)
EXTENDS SaleDesk

CONSTANTS
    NoDraft,
    Background  \* may the seller leave while a submission is under way?

VARIABLES
    draft,      \* useState<SaleDraft>, NoDraft until hydrated
    stored,     \* the draft in AsyncStorage
    screen,     \* "away", "loading" or "open"
    effect,     \* the effect that saves the draft has not run yet
    confirm,    \* the sheet that confirms a sale in cash
    connected,  \* mercadoPagoActive
    calls,      \* submissions: of the screen, and of a screen already left
    used,       \* keys drawn so far
    reported    \* sales whose completion the seller was shown

screenVars == <<draft, stored, screen, effect, confirm, connected, calls, used, reported>>
vars == <<deskVars, screenVars>>

Step == {"products", "terms", "review", "result"}

Draft ==
    [key : Keys, step : Step, cart : Carts \cup {NoCart}, method : Methods,
     result : BOOLEAN]  \* the order and the link of the sale

ScreenAssumption == Background \in BOOLEAN /\ NoDraft \notin Draft

Slot == {"screen", "left"}

Idle == [phase |-> "idle"]

Call ==
    {Idle} \cup
    [phase : {"creating", "publishing"}, reply : Reply, draft : Draft]

TypeOK ==
    /\ DeskTypeOK
    /\ draft \in Draft \cup {NoDraft}
    /\ stored \in Draft \cup {NoDraft}
    /\ screen \in {"away", "loading", "open"}
    /\ screen = "open" <=> draft # NoDraft
    /\ effect \in BOOLEAN /\ confirm \in BOOLEAN /\ connected \in BOOLEAN
    /\ calls \in [Slot -> Call]
    /\ used \subseteq Keys /\ reported \subseteq Keys

Init ==
    /\ DeskInit
    /\ draft = NoDraft /\ stored = NoDraft
    /\ screen = "away"
    /\ effect = FALSE /\ confirm = FALSE /\ connected = FALSE
    /\ calls = [s \in Slot |-> Idle]
    /\ used = {} /\ reported = {}

----------------------------------------------------------------------------
(* The draft.                                                              *)

EmptyDraft(k) ==
    [key |-> k, step |-> "products", cart |-> NoCart,
     method |-> "bank_transfer", result |-> FALSE]

FreshKey(k) == k \in Keys \ used /\ used' = used \cup {k}

Completed(d) == d.step = "result" /\ d.result

Valid(d) == d.cart \in Carts

SetDraft(d) == draft' = d /\ effect' = TRUE

Enter ==
    /\ screen = "away"
    /\ screen' = "loading"
    /\ UNCHANGED <<deskVars, draft, stored, effect, confirm, connected, calls, used, reported>>

\* resolveSaleDraftOnEnter and the effect that applies it.
Hydrate ==
    /\ screen = "loading"
    /\ IF stored # NoDraft /\ ~Completed(stored)
         THEN SetDraft(stored) /\ UNCHANGED <<stored, used, reported>>
         ELSE /\ \E k \in Keys : FreshKey(k) /\ SetDraft(EmptyDraft(k))
              /\ reported' = reported \cup (IF stored = NoDraft THEN {} ELSE {stored.key})
              /\ stored' = NoDraft
    /\ screen' = "open"
    /\ UNCHANGED <<deskVars, confirm, connected, calls>>

SaveEffect ==
    /\ screen = "open" /\ effect
    /\ stored' = draft /\ effect' = FALSE
    /\ UNCHANGED <<deskVars, draft, screen, confirm, connected, calls, used, reported>>

LoadConnection ==
    /\ "mercado_pago" \in Methods
    /\ connected' \in BOOLEAN \ {connected}
    /\ UNCHANGED <<deskVars, draft, stored, screen, effect, confirm, calls, used, reported>>

\* React runs the effects of a change before it takes the next touch.
Ready == screen = "open" /\ ~effect

\* Lines are added, changed, repeated and removed in the first step.
EditLines(cart) ==
    /\ Ready /\ draft.step = "products" /\ cart # draft.cart
    /\ SetDraft([draft EXCEPT !.cart = cart])
    /\ UNCHANGED <<deskVars, stored, screen, confirm, connected, calls, used, reported>>

ChooseMethod(m) ==
    /\ Ready /\ draft.step = "terms" /\ m # draft.method
    /\ m = "mercado_pago" => connected
    /\ SetDraft([draft EXCEPT !.method = m])
    /\ UNCHANGED <<deskVars, stored, screen, confirm, connected, calls, used, reported>>

GoNext ==
    /\ Ready
    /\ \/ /\ draft.step = "products" /\ Valid(draft)
          /\ SetDraft([draft EXCEPT !.step = "terms"])
       \/ draft.step = "terms" /\ SetDraft([draft EXCEPT !.step = "review"])
    /\ UNCHANGED <<deskVars, stored, screen, confirm, connected, calls, used, reported>>

\* "Volver" is there while a submission is under way, too.
GoBack ==
    /\ Ready /\ ~confirm
    /\ \/ draft.step = "terms" /\ SetDraft([draft EXCEPT !.step = "products"])
       \/ draft.step = "review" /\ SetDraft([draft EXCEPT !.step = "terms"])
    /\ UNCHANGED <<deskVars, stored, screen, confirm, connected, calls, used, reported>>

----------------------------------------------------------------------------
(* The submission.                                                         *)

\* submitLock and isPending keep a second tap out.
SubmitEnabled ==
    Ready /\ draft.step = "review" /\ calls["screen"] = Idle

AskCash ==
    /\ SubmitEnabled /\ draft.method = "cash" /\ ~confirm
    /\ confirm' = TRUE
    /\ UNCHANGED <<deskVars, draft, stored, screen, effect, connected, calls, used, reported>>

CloseCash ==
    /\ Ready /\ confirm /\ calls["screen"] = Idle
    /\ confirm' = FALSE
    /\ UNCHANGED <<deskVars, draft, stored, screen, effect, connected, calls, used, reported>>

\* Fault: a retry draws a key of its own.
SubmitWithNewKey ==
    /\ SubmitEnabled
    /\ confirm <=> draft.method = "cash"
    /\ \E k \in Keys :
          /\ FreshKey(k)
          /\ SetDraft([draft EXCEPT !.key = k])
          /\ calls' = [calls EXCEPT !["screen"] =
                [phase |-> "creating", reply |-> "none", draft |-> [draft EXCEPT !.key = k]]]
    /\ UNCHANGED <<deskVars, stored, screen, confirm, connected, reported>>

\* Fault: a retry publishes the sale made before instead of asking for it.
SubmitOldOrder ==
    /\ SubmitEnabled
    /\ confirm <=> draft.method = "cash"
    /\ calls' = [calls EXCEPT !["screen"] =
          [phase |-> IF sold[draft.key] = NoTerms THEN "creating" ELSE "publishing",
           reply |-> "none", draft |-> draft]]
    /\ UNCHANGED <<deskVars, draft, stored, screen, effect, confirm, connected, used, reported>>

Submit ==
    /\ SubmitEnabled
    /\ confirm <=> draft.method = "cash"
    /\ calls' = [calls EXCEPT !["screen"] =
          [phase |-> "creating", reply |-> "none", draft |-> draft]]
    /\ UNCHANGED <<deskVars, draft, stored, screen, effect, confirm, connected, used, reported>>

RequestOf(c) ==
    [kind |-> IF c.phase = "creating" THEN "create" ELSE "publish",
     key |-> c.draft.key, terms |-> [cart |-> c.draft.cart, method |-> c.draft.method]]

Waiting(s) == calls[s] # Idle /\ calls[s].reply = "none"

ServeCall(s) ==
    /\ Waiting(s)
    /\ \E reply \in Reply :
          /\ Serve(RequestOf(calls[s]), reply)
          /\ calls' = [calls EXCEPT ![s].reply = reply]
    /\ UNCHANGED <<late, draft, stored, screen, effect, confirm, connected, used, reported>>

Answered(s, phase) ==
    calls[s] # Idle /\ calls[s].phase = phase /\ calls[s].reply = "done"

\* The screen is replaced: its submission, if any, goes on without it.
LeaveScreen ==
    /\ screen' = "away" /\ draft' = NoDraft /\ effect' = FALSE /\ confirm' = FALSE

\* A sale in cash clears the stored draft and opens the page of the sale in the
\* place of the screen that is shown, whose own submission then goes on without
\* it; any other sale is published next.
Created(s) ==
    /\ Answered(s, "creating")
    /\ IF calls[s].draft.method = "cash"
         THEN /\ stored' = NoDraft
              /\ reported' = reported \cup {calls[s].draft.key}
              /\ LeaveScreen
              /\ calls' = [calls EXCEPT !["screen"] = Idle,
                    !["left"] = IF s = "left" THEN calls["screen"] ELSE calls["left"]]
         ELSE /\ calls' = [calls EXCEPT ![s].phase = "publishing", ![s].reply = "none"]
              /\ UNCHANGED <<stored, reported, screen, draft, effect, confirm>>
    /\ UNCHANGED <<deskVars, connected, used>>

\* The draft of a screen that is gone does not change.
Published(s) ==
    /\ Answered(s, "publishing")
    /\ calls' = [calls EXCEPT ![s] = Idle]
    /\ IF s = "screen"
         THEN /\ SetDraft([draft EXCEPT !.step = "result", !.result = TRUE])
              /\ reported' = reported \cup {draft.key}
              /\ confirm' = FALSE
         ELSE UNCHANGED <<draft, effect, reported, confirm>>
    /\ UNCHANGED <<deskVars, stored, screen, connected, used>>

\* onError, for an answer of the server or for a connection that broke.
Failed(s) ==
    /\ calls[s] # Idle
    /\ \/ calls[s].reply \in {"refused", "reused"} /\ UNCHANGED late
       \/ Abandon(IF Waiting(s) THEN {RequestOf(calls[s])} ELSE {})
    /\ calls' = [calls EXCEPT ![s] = Idle]
    /\ UNCHANGED <<sold, published, draft, stored, screen, effect, confirm, connected, used, reported>>

----------------------------------------------------------------------------
(* Leaving the screen.                                                     *)

\* "Crear otra venta", in the last step.
Reset ==
    /\ Ready /\ draft.step = "result"
    /\ \E k \in Keys : FreshKey(k) /\ SetDraft(EmptyDraft(k))
    /\ stored' = NoDraft
    /\ UNCHANGED <<deskVars, screen, confirm, connected, calls, reported>>

\* "Cerrar" and "Ver detalle de la venta" forget a sale that is done.
Leave ==
    /\ Ready /\ ~confirm
    /\ stored' = IF draft.step = "result" THEN NoDraft ELSE stored
    /\ calls["screen"] # Idle => Background /\ calls["left"] = Idle
    /\ calls' = IF calls["screen"] = Idle THEN calls
                ELSE [calls EXCEPT !["screen"] = Idle, !["left"] = calls["screen"]]
    /\ LeaveScreen
    /\ UNCHANGED <<deskVars, connected, used, reported>>

\* The system ends the application: only the device's storage remains.
KillApp ==
    /\ screen # "away" \/ calls["left"] # Idle
    /\ Abandon({RequestOf(calls[s]) : s \in {t \in Slot : Waiting(t)}})
    /\ calls' = [s \in Slot |-> Idle]
    /\ LeaveScreen
    /\ UNCHANGED <<sold, published, stored, connected, used, reported>>

ServeLater == ServeLate /\ UNCHANGED screenVars

Next ==
    \/ Enter \/ Hydrate \/ SaveEffect \/ LoadConnection
    \/ \E cart \in Carts \cup {NoCart} : EditLines(cart)
    \/ \E m \in Methods : ChooseMethod(m)
    \/ GoNext \/ GoBack \/ AskCash \/ CloseCash \/ Submit
    \/ \E s \in Slot : ServeCall(s) \/ Created(s) \/ Published(s) \/ Failed(s)
    \/ Reset \/ Leave \/ KillApp \/ ServeLater

Spec == Init /\ [][Next]_vars

----------------------------------------------------------------------------
(* Properties.                                                             *)

\* No sale is left holding stock behind the seller's back: a sale that exists
\* was shown as done, or a draft or a submission still has its key.  The draft
\* must reach the device before the sale can be made, or ending the
\* application in between would lose the key.
NoOrphanSale ==
    \A k \in Keys :
        sold[k] # NoTerms =>
            \/ k \in reported
            \/ \E d \in {draft, stored} \ {NoDraft} : d.key = k
            \/ \E s \in Slot : calls[s] # Idle /\ calls[s].draft.key = k

\* Whatever the seller edits between the retries of one sale, and while one is
\* under way, on this screen or after it, the sale shown as done is the one that
\* was reviewed when the button of the submission that ends was pressed.
SellsAsReviewed ==
    \A k \in reported' \ reported :
      \A s \in Slot : calls[s] # Idle /\ calls[s] \notin {calls'[t] : t \in Slot}
          => sold[k] = RequestOf(calls[s]).terms
=============================================================================
