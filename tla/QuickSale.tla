------------------------------ MODULE QuickSale ------------------------------
(***************************************************************************)
(* "Generar venta" on a product of the inventory: the dialog of the web    *)
(* (GenerateSaleDialog.tsx) and the sheet of the phone                     *)
(* (generate-sale-sheet.tsx).  Each opening draws one key for the creation *)
(* and one for the publication and keeps them until it closes.  It may be  *)
(* closed at any time: its requests and their callbacks go on without it.  *)
(***************************************************************************)
EXTENDS Naturals, FiniteSets

CONSTANTS
    Clients,     \* subset of {"web", "mobile"}
    Available,   \* units of the product as the list showed it
    MaxOpenings,
    MaxKeys

QuickAssumption ==
    /\ Clients \subseteq {"web", "mobile"} /\ Clients # {}
    /\ Available \in Nat \ {0} /\ MaxOpenings \in Nat /\ MaxKeys \in Nat

VARIABLES
    client,
    bank,        \* the shop has bank details; the phone may not know it yet
    viewed,      \* the viewer was read
    connected,   \* mercadoPagoActive
    free,        \* units the server has left
    sales,       \* orders created from here, with the opening they come from
    published,   \* keys of the orders whose link is published
    mailed,      \* keys of the orders whose link was mailed
    opening,     \* the open dialog, 0 when there is none
    opened,
    key,         \* createKey and publishKey
    keys,        \* keys drawn
    form, confirmCash, result,
    calls,       \* publish and createCash of this dialog and of closed ones
    mail,        \* sendEmail
    filed        \* the address the server has for emailKey, 0 when it has none

vars == <<client, bank, viewed, connected, free, sales, published, mailed, opening,
          opened, key, keys, form, confirmCash, result, calls, mail, filed>>
server == <<bank, free, sales, published, mailed>>
dialog == <<opening, opened, key, keys, form, confirmCash, result>>
given == <<client, viewed, connected>>

Address == {1, 2}
Method == {"deposit", "online", "cash"}
Form == [method : Method, quantity : 1..Available]
Blank == [method |-> "deposit", quantity |-> 1]

Call == [opening : 1..MaxOpenings, key : 1..MaxKeys, form : Form,
         phase : {"create", "publish"}, reply : {"sent", "ok", "error"}]

TypeOK ==
    /\ client \in Clients /\ bank \in BOOLEAN /\ viewed \in BOOLEAN /\ connected \in BOOLEAN
    /\ free \in 0..Available
    /\ sales \subseteq [opening : 1..MaxOpenings, key : 1..MaxKeys, form : Form]
    /\ published \subseteq {s.key : s \in sales} /\ mailed \subseteq published
    /\ opening \in 0..opened /\ opened \in 0..MaxOpenings
    /\ key \in 0..keys /\ keys \in 0..MaxKeys
    /\ form \in Form /\ confirmCash \in BOOLEAN /\ result \in BOOLEAN
    /\ calls \subseteq Call
    /\ mail \in {"none", "ok", "error", "sent"} /\ filed \in {0} \cup Address

Init ==
    /\ client \in Clients /\ bank \in BOOLEAN /\ viewed = FALSE /\ connected \in BOOLEAN
    /\ free = Available /\ sales = {} /\ published = {} /\ mailed = {}
    /\ opening = 0 /\ opened = 0 /\ key = 0 /\ keys = 0
    /\ form = Blank /\ confirmCash = FALSE /\ result = FALSE
    /\ calls = {} /\ mail = "none" /\ filed = 0

----------------------------------------------------------------------------
(* The server, behind its keys.                                            *)

Filed(c) == {s \in sales : s.key = c.key}

\* Fault: the answer of a key is repeated whatever the data.
TakesAnyData(c) ==
    IF Filed(c) # {} THEN TRUE
    ELSE c.form.quantity <= free /\ (c.form.method = "deposit" => bank)

\* A key seen before answers only the same data; a new sale needs its units
\* and, to be paid by transfer, the account to pay to.
Takes(c) ==
    IF Filed(c) # {} THEN \E s \in Filed(c) : s.form = c.form
    ELSE c.form.quantity <= free /\ (c.form.method = "deposit" => bank)

Answer(c, phase, reply) == (calls \ {c}) \cup {[c EXCEPT !.phase = phase, !.reply = reply]}

CreateOrder(c) ==
    /\ c.phase = "create" /\ c.reply = "sent"
    /\ IF ~Takes(c)
         THEN calls' = Answer(c, "create", "error") /\ UNCHANGED <<free, sales>>
         ELSE /\ IF Filed(c) # {} THEN UNCHANGED <<free, sales>>
                 ELSE /\ free' = free - c.form.quantity
                      /\ sales' = sales \cup {[opening |-> c.opening, key |-> c.key, form |-> c.form]}
              /\ calls' = IF c.form.method = "cash" THEN Answer(c, "create", "ok")
                          ELSE Answer(c, "publish", "sent")
    /\ UNCHANGED <<given, bank, published, mailed, dialog, mail, filed>>

PublishOrderLink(c) ==
    /\ c.phase = "publish" /\ c.reply = "sent"
    /\ published' = published \cup {c.key}
    /\ calls' = Answer(c, "publish", "ok")
    /\ UNCHANGED <<given, bank, free, sales, mailed, dialog, mail, filed>>

\* The answer is lost, or the request.
Lose(c) ==
    /\ c.reply \in {"sent", "ok"}
    /\ calls' = Answer(c, c.phase, "error")
    /\ UNCHANGED <<given, server, dialog, mail, filed>>

OthersTake ==
    /\ free > 0 /\ free' = free - 1
    /\ UNCHANGED <<given, bank, sales, published, mailed, dialog, calls, mail, filed>>

LoadViewer ==
    /\ ~viewed /\ viewed' = TRUE
    /\ UNCHANGED <<client, connected, server, dialog, calls, mail, filed>>

----------------------------------------------------------------------------
(* The dialog.                                                             *)

\* The phone supposes bank details until it has read the viewer.
HasBankDetails == bank \/ (client = "mobile" /\ ~viewed)

Reset == form' = Blank /\ confirmCash' = FALSE /\ result' = FALSE /\ mail' = "none" /\ filed' = 0

Open ==
    /\ opening = 0 /\ opened < MaxOpenings /\ keys < MaxKeys
    /\ opening' = opened + 1 /\ opened' = opened + 1
    /\ key' = keys + 1 /\ keys' = keys + 1 /\ Reset
    /\ UNCHANGED <<given, server, calls>>

Close ==
    /\ opening # 0 /\ opening' = 0 /\ Reset
    /\ UNCHANGED <<given, server, opened, key, keys, calls>>

Choosing == opening # 0 /\ ~result /\ ~confirmCash

WebChooseMethod(m) ==
    /\ client = "web" /\ Choosing /\ m # form.method
    /\ m = "online" => connected
    /\ form' = [form EXCEPT !.method = m]
    /\ UNCHANGED <<given, server, opening, opened, key, keys, confirmCash, result, calls, mail, filed>>

PhoneChooseMethod(m) ==
    /\ client = "mobile" /\ Choosing /\ m # form.method
    /\ m = "online" => connected
    /\ form' = [form EXCEPT !.method = m]
    /\ UNCHANGED <<given, server, opening, opened, key, keys, confirmCash, result, calls, mail, filed>>

StepQuantity(q) ==
    /\ Choosing /\ Available > 1
    /\ q \in {form.quantity - 1, form.quantity + 1} /\ q \in 1..Available
    /\ form' = [form EXCEPT !.quantity = q]
    /\ UNCHANGED <<given, server, opening, opened, key, keys, confirmCash, result, calls, mail, filed>>

\* A mutation of the open dialog is under way: one publishes, one sells in cash.
Busy(cash) == \E c \in calls : c.opening = opening /\ (c.form.method = "cash") = cash

AskCash ==
    /\ Choosing /\ form.method = "cash" /\ confirmCash' = TRUE
    /\ UNCHANGED <<given, server, opening, opened, key, keys, form, result, calls, mail, filed>>

BackFromCash ==
    /\ opening # 0 /\ confirmCash /\ ~Busy(TRUE) /\ confirmCash' = FALSE
    /\ UNCHANGED <<given, server, opening, opened, key, keys, form, result, calls, mail, filed>>

Send == calls' = calls \cup {[opening |-> opening, key |-> key, form |-> form,
                              phase |-> "create", reply |-> "sent"]}

WebPublish ==
    /\ client = "web" /\ Choosing /\ ~Busy(FALSE)
    /\ \/ form.method = "deposit" /\ HasBankDetails
       \/ form.method = "online" /\ connected
    /\ Send /\ UNCHANGED <<given, server, dialog, mail, filed>>

PhonePublish ==
    /\ client = "mobile" /\ Choosing /\ ~Busy(FALSE)
    /\ \/ form.method = "deposit" /\ HasBankDetails
       \/ form.method = "online" /\ connected
    /\ Send /\ UNCHANGED <<given, server, dialog, mail, filed>>

WebCreateCash ==
    /\ client = "web" /\ opening # 0 /\ confirmCash /\ ~Busy(TRUE)
    /\ Send /\ UNCHANGED <<given, server, dialog, mail, filed>>

PhoneCreateCash ==
    /\ client = "mobile" /\ opening # 0 /\ confirmCash /\ ~Busy(TRUE)
    /\ Send /\ UNCHANGED <<given, server, dialog, mail, filed>>

\* Fault: the link is shown in whichever dialog is open.
PublishedOKAnywhere(c) ==
    /\ c.phase = "publish" /\ c.reply = "ok"
    /\ calls' = calls \ {c}
    /\ result' = (opening # 0)
    /\ UNCHANGED <<given, server, opening, opened, key, keys, form, confirmCash, mail, filed>>

\* The link is shown in the dialog that asked for it, if it is still open.
PublishedOK(c) ==
    /\ c.phase = "publish" /\ c.reply = "ok"
    /\ calls' = calls \ {c}
    /\ result' = (result \/ c.opening = opening)
    /\ UNCHANGED <<given, server, opening, opened, key, keys, form, confirmCash, mail, filed>>

\* The dialog closes, also one opened since for another sale, and the page of
\* the sale opens.
CashOK(c) ==
    /\ c.phase = "create" /\ c.reply = "ok"
    /\ calls' = calls \ {c} /\ opening' = 0 /\ Reset
    /\ UNCHANGED <<given, server, opened, key, keys>>

Failed(c) ==
    /\ c.reply = "error" /\ calls' = calls \ {c}
    /\ UNCHANGED <<given, server, dialog, mail, filed>>

\* The link by mail.  The key of the mail changes only after a failure, so a
\* second address under the key of the first is refused once.
SendOfferLink(a) ==
    /\ opening # 0 /\ result /\ mail \notin {"ok", "error"}
    /\ \/ /\ filed \in {0, a} /\ filed' = a /\ mailed' = mailed \cup {key}
          /\ mail' \in {"ok", "error"}
       \/ mail' = "error" /\ UNCHANGED <<filed, mailed>>
    /\ UNCHANGED <<given, bank, free, sales, published, dialog, calls>>

WebSendEmail(a) == client = "web" /\ SendOfferLink(a)
PhoneSendEmail(a) == client = "mobile" /\ SendOfferLink(a)

EmailAnswered ==
    /\ mail \in {"ok", "error"}
    /\ \/ mail = "ok" /\ mail' = "sent" /\ UNCHANGED filed
       \/ mail = "error" /\ mail' = "none" /\ filed' = 0
    /\ UNCHANGED <<given, server, dialog, calls>>

Next ==
    \/ \E c \in calls :
          \/ CreateOrder(c) \/ PublishOrderLink(c) \/ Lose(c)
          \/ PublishedOK(c) \/ CashOK(c) \/ Failed(c)
    \/ OthersTake \/ LoadViewer \/ Open \/ Close
    \/ \E m \in Method : WebChooseMethod(m) \/ PhoneChooseMethod(m)
    \/ \E q \in 1..Available : StepQuantity(q)
    \/ AskCash \/ BackFromCash \/ WebPublish \/ PhonePublish \/ WebCreateCash \/ PhoneCreateCash
    \/ EmailAnswered \/ \E a \in Address : WebSendEmail(a) \/ PhoneSendEmail(a)

Spec == Init /\ [][Next]_vars

----------------------------------------------------------------------------
(* Properties.                                                             *)

\* One opening of the dialog sells once, whatever is retried or changed in it
\* after a lost answer, and whether it ends as a link or in cash.
OneSalePerOpening == \A s, t \in sales : s.opening = t.opening => s = t

\* A link that is shown, or mailed, is that of a sale made from this opening
\* and is published: the buyer who opens it finds the sale.
LinkIsLive ==
    result => /\ key \in published
              /\ \E s \in sales : s.key = key /\ s.opening = opening /\ s.form.method # "cash"

\* A sale the seller is told of was made with the quantity and the method of
\* the attempt that is answered, not of an earlier one under the same key.
SoldAsAsked ==
    \A c \in calls : c.reply = "ok" => \E s \in sales : s.key = c.key /\ s.form = c.form
=============================================================================
