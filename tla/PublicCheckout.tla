---------------------------- MODULE PublicCheckout ----------------------------
(***************************************************************************)
(* The buyer's checkout without an account (PublicCheckoutPage.tsx and     *)
(* checkoutDraft.ts), in several tabs, in front of set_buyer_details and   *)
(* initiate_mercado_pago_checkout.  The draft of a tab is kept by its      *)
(* sessionStorage at every change, with the key of its checkout, so a      *)
(* reload finds it as it was.  Requests and answers may be lost, and the   *)
(* transaction that has asked the provider for a checkout may not commit.  *)
(***************************************************************************)
EXTENDS Naturals, FiniteSets

CONSTANTS
    Tabs,     \* tabs of the buyer, each with its own draft and key
    Methods,  \* payment methods of the sale
    Modes,    \* delivery modes of the sale
    MaxMade,  \* bound on the checkouts the provider makes
    None

CheckoutAssumption ==
    /\ Methods \subseteq {"mercado_pago", "bank_transfer", "cash"}
    /\ Modes \subseteq {"shipping", "pickup"} /\ MaxMade \in Nat /\ None \notin 1..MaxMade

VARIABLES
    method, mode,  \* of the sale
    status,        \* of the sale
    buyer,         \* BuyerSnapshot: what the last details said
    checkout,      \* the checkout the payment names
    made,          \* checkouts the provider made
    used,          \* keys of initiateMercadoPagoCheckout that succeeded, by tab
    tab            \* tab[t]: the draft, the request it is at and where it went

vars == <<method, mode, status, buyer, checkout, made, used, tab>>
server == <<method, mode, status, buyer, checkout, made, used>>

\* A form: empty, with a phone alone or a mail address, or with the delivery too.
Form == {"empty", "phone", "mail", "phone_delivery", "mail_delivery"}
Complete == {"phone_delivery", "mail_delivery"}
Checkouts == 1..MaxMade

TypeOK ==
    /\ method \in Methods /\ mode \in Modes
    /\ status \in {"reserved", "purchase_in_progress", "paid", "cancelled"}
    /\ buyer \in Form \cup {None} /\ checkout \in Checkouts \cup {None}
    /\ made \in 0..MaxMade /\ used \subseteq Tabs
    /\ tab \in [Tabs -> [step : 1..3, form : Form,
                         call : {None, "details", "initiate", "ok", "error"},
                         page : {"comprar", "comprobante", "estado", "provider"},
                         url : Checkouts \cup {None}]]

Init ==
    /\ method \in Methods /\ mode \in Modes /\ status = "reserved" /\ buyer = None
    /\ checkout = None /\ made = 0 /\ used = {}
    /\ tab = [t \in Tabs |-> [step |-> 1, form |-> "empty", call |-> None, page |-> "comprar",
                              url |-> None]]

At(t, step) == tab[t].page = "comprar" /\ tab[t].step = step /\ tab[t].call = None

----------------------------------------------------------------------------
(* The page.                                                               *)

Update(t, form) ==
    /\ At(t, 1) /\ form # tab[t].form /\ tab' = [tab EXCEPT ![t].form = form]
    /\ UNCHANGED server

RequiresDelivery == mode = "shipping" \/ method = "bank_transfer"

\* A name and a mail address or a phone; a delivery needs everything.
ContactErrors(t) ==
    IF RequiresDelivery THEN tab[t].form \notin Complete ELSE tab[t].form = "empty"

ContinueFromContact(t) ==
    /\ At(t, 1) /\ ~ContactErrors(t) /\ tab' = [tab EXCEPT ![t].step = 2] /\ UNCHANGED server

\* The sale offers the one method its seller chose, and the page preselects it.
ReviewPurchase(t) ==
    /\ At(t, 2) /\ tab' = [tab EXCEPT ![t].step = 3] /\ UNCHANGED server

Back(t) ==
    /\ \E s \in {2, 3} : At(t, s)
    /\ tab' = [tab EXCEPT ![t].step = @ - 1] /\ UNCHANGED server

Submit(t) ==
    /\ At(t, 3) /\ tab' = [tab EXCEPT ![t].call = "details"] /\ UNCHANGED server

Succeeded(t) ==
    /\ tab[t].call = "ok"
    /\ tab' = [tab EXCEPT ![t].call = None,
                          ![t].page = CASE method = "mercado_pago" -> "provider"
                                        [] method = "bank_transfer" -> "comprobante"
                                        [] OTHER -> "estado"]
    /\ UNCHANGED server

\* The form stays, and so does the key.
Failed(t) ==
    /\ tab[t].call = "error" /\ tab' = [tab EXCEPT ![t].call = None] /\ UNCHANGED server

\* A failed payment leads back to the checkout, and so does the browser.
Return(t) ==
    /\ tab[t].page # "comprar" /\ tab' = [tab EXCEPT ![t].page = "comprar"] /\ UNCHANGED server

----------------------------------------------------------------------------
(* The server.                                                             *)

Open == status \in {"reserved", "purchase_in_progress"}
Fail(t) == tab' = [tab EXCEPT ![t].call = "error"]

\* Offline, or lost on its way.
Unsent(t) == tab[t].call \in {"details", "initiate"} /\ Fail(t) /\ UNCHANGED server

\* The details are written again at every request: their key is not looked at.
SetBuyerDetails(t) ==
    /\ tab[t].call = "details"
    /\ IF Open
       THEN /\ buyer' = tab[t].form /\ status' = "purchase_in_progress"
            /\ \/ tab' = [tab EXCEPT ![t].call = IF method = "mercado_pago" THEN "initiate"
                                                 ELSE "ok"]
               \/ Fail(t)
       ELSE Fail(t) /\ UNCHANGED <<buyer, status>>
    /\ UNCHANGED <<method, mode, checkout, made, used>>

Answer(t, c) ==
    \/ tab' = [tab EXCEPT ![t].call = "ok", ![t].url = c]
    \/ Fail(t)

Replay(t) ==
    /\ tab[t].call = "initiate" /\ t \in used /\ Answer(t, checkout) /\ UNCHANGED server

HasEmail == buyer \in {"mail", "mail_delivery"}
Allowed(t) == tab[t].call = "initiate" /\ t \notin used /\ Open /\ HasEmail

\* Fault: every key has a checkout of its own.
OwnCheckout == made + 1

\* The payment keeps the checkout it has; the buyer who corrects the mail
\* address is sent to the one made for the old address.
PaymentCheckout == IF checkout # None THEN checkout ELSE made + 1

InitiateCheckout(t) ==
    /\ Allowed(t) /\ PaymentCheckout \in Checkouts
    /\ checkout' = PaymentCheckout /\ made' = IF made < PaymentCheckout THEN made + 1 ELSE made
    /\ status' = "purchase_in_progress" /\ used' = used \cup {t} /\ Answer(t, PaymentCheckout)
    /\ UNCHANGED <<method, mode, buyer>>

\* The provider made the checkout and the transaction was rolled back.
CommitFails(t) ==
    /\ Allowed(t) /\ checkout = None /\ made < MaxMade
    /\ made' = made + 1 /\ Fail(t)
    /\ UNCHANGED <<method, mode, status, buyer, checkout, used>>

\* BUYER_DETAILS_REQUIRED, or the sale was closed since.
InitiateRefused(t) ==
    /\ tab[t].call = "initiate" /\ t \notin used /\ ~(Open /\ HasEmail)
    /\ Fail(t) /\ UNCHANGED server

\* The webhook confirms a payment at a checkout a buyer reached.
Pay ==
    /\ Open /\ \E t \in Tabs : tab[t].page = "provider"
    /\ status' = "paid" /\ UNCHANGED <<method, mode, buyer, checkout, made, used, tab>>

Cancel ==
    /\ Open /\ status' = "cancelled"
    /\ UNCHANGED <<method, mode, buyer, checkout, made, used, tab>>

Next ==
    \/ \E t \in Tabs :
          \/ \E form \in Form : Update(t, form)
          \/ ContinueFromContact(t) \/ ReviewPurchase(t) \/ Back(t) \/ Submit(t) \/ Succeeded(t)
          \/ Failed(t) \/ Return(t) \/ Unsent(t) \/ SetBuyerDetails(t) \/ Replay(t)
          \/ InitiateCheckout(t) \/ CommitFails(t) \/ InitiateRefused(t)
    \/ Pay \/ Cancel

Spec == Init /\ [][Next]_vars

----------------------------------------------------------------------------
(* Properties.                                                             *)

\* All tabs lead to one checkout of the provider, the one the payment names, so
\* that what is paid there is this payment: after lost answers, rolled-back
\* transactions and corrected details, too.
OneCheckout ==
    \A t \in Tabs : tab[t].url # None => tab[t].url = checkout
=============================================================================
