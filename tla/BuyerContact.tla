---------------------------- MODULE BuyerContact ----------------------------
(***************************************************************************)
(* The buyer's row of a sale, edited by its seller: two cards on the web   *)
(* (SaleContactCards.tsx), one sheet on the phone (ventas/[orderId].tsx).  *)
(* Every save sends the whole row: what was typed, and the rest as the     *)
(* page last read it.  The buyer writes the same row from the public page. *)
(***************************************************************************)
EXTENDS Naturals, FiniteSets

CONSTANTS
    None,
    Clients,    \* subset of {"web", "mobile"}
    Names, Phones, Addresses, Taxes,  \* what may be typed, without blanks
    MaxKeys,
    MaxWrites   \* times the buyer writes

Empty == "empty"  \* the text without characters

VARIABLES
    client,
    emailed,   \* the row has an e-mail address, so a phone may be missing
    shipped,   \* order_requires_delivery_details
    row,       \* BuyerSnapshot
    filed,     \* idempotency records: key and the fields they cover
    seen,      \* order.buyer as the page read it
    editing,   \* the open form
    draft,     \* what its fields hold
    key,
    call,
    writes

vars == <<client, emailed, shipped, row, filed, seen, editing, draft, key, call, writes>>
fixed == <<client, emailed, shipped>>

Blank(S) == S \cup {Empty}
Row == [name : Blank(Names \cup {"Comprador"} \cup Addresses), phone : Blank(Phones),
        address : Blank(Addresses), tax : Blank(Taxes)]
NoRow == [name |-> Empty, phone |-> Empty, address |-> Empty, tax |-> Empty]

\* A save remembers what was typed and what the page knew, for the properties.
Call == [payload : Row, key : 1..MaxKeys, typed : Row, section : {"buyer", "delivery", "sheet"},
         known : Row, reply : {"sent", "ok", "invalid", "reused", "lost"}]

ContactAssumption ==
    /\ Clients \subseteq {"web", "mobile"} /\ Clients # {}
    /\ Empty \notin Names \cup Phones \cup Addresses \cup Taxes
    /\ MaxKeys \in Nat \ {0} /\ MaxWrites \in Nat
    /\ None \notin Call \cup {"buyer", "delivery", "sheet"}

TypeOK ==
    /\ client \in Clients /\ emailed \in BOOLEAN /\ shipped \in BOOLEAN
    /\ row \in Row /\ seen \in Row /\ draft \in Row
    /\ row # NoRow =>
          /\ row.name # Empty /\ (row.phone # Empty \/ emailed)
          /\ shipped => row.phone # Empty /\ row.address # Empty
    /\ \A a, b \in filed : a.key = b.key => a = b
    /\ editing \in IF client = "web" THEN {None, "buyer", "delivery"} ELSE {None, "sheet"}
    /\ key \in 1..MaxKeys
    /\ call \in Call \cup {None}
    /\ writes \in 0..MaxWrites

Init ==
    /\ client \in Clients /\ emailed \in BOOLEAN /\ shipped \in BOOLEAN
    /\ row = NoRow /\ seen = NoRow /\ draft = NoRow
    /\ filed = {} /\ editing = None /\ key = 1 /\ call = None /\ writes = 0

----------------------------------------------------------------------------
(* The server.                                                             *)

\* _apply_buyer_snapshot
Valid(r) ==
    /\ r.name # Empty /\ (r.phone # Empty \/ emailed)
    /\ shipped => r.phone # Empty /\ r.address # Empty

\* The digest of the request leaves the tax data out.
Digest(k, r) == [key |-> k, name |-> r.name, phone |-> r.phone, address |-> r.address]

UpdateOrderBuyer ==
    /\ call # None /\ call.reply = "sent"
    /\ LET d == Digest(call.key, call.payload)
           old == {f \in filed : f.key = call.key} IN
       IF old # {}
         THEN /\ call' = [call EXCEPT !.reply = IF d \in old THEN "ok" ELSE "reused"]
              /\ UNCHANGED <<row, filed>>
         ELSE IF Valid(call.payload)
         THEN /\ row' = call.payload /\ filed' = filed \cup {d}
              /\ call' = [call EXCEPT !.reply = "ok"]
         ELSE /\ call' = [call EXCEPT !.reply = "invalid"]
              /\ UNCHANGED <<row, filed>>
    /\ UNCHANGED <<fixed, seen, editing, draft, key, writes>>

LoseAnswer ==
    /\ call # None /\ call.reply \in {"sent", "ok", "invalid", "reused"}
    /\ call' = [call EXCEPT !.reply = "lost"]
    /\ UNCHANGED <<fixed, row, filed, seen, editing, draft, key, writes>>

\* The buyer fills the public form, tax data included.
SetBuyerDetails ==
    /\ writes < MaxWrites /\ writes' = writes + 1
    /\ \E n \in Names, p \in Blank(Phones), a \in Blank(Addresses), t \in Blank(Taxes) :
          LET r == [name |-> n, phone |-> p, address |-> a, tax |-> t] IN
          Valid(r) /\ row' = r
    /\ UNCHANGED <<fixed, filed, seen, editing, draft, key, call>>

Refetch ==
    /\ seen # row /\ seen' = row
    /\ UNCHANGED <<fixed, row, filed, editing, draft, key, call, writes>>

----------------------------------------------------------------------------
(* The forms.                                                              *)

Pending == call # None

Or(a, b) == IF a # Empty THEN a ELSE b

\* Fault: the tax data that the form does not show is sent blank.
WebPayloadWithoutTax(buyer, delivery) ==
    [name |-> Or(Or(buyer.name, delivery.address), "Comprador"),
     phone |-> Or(buyer.phone, delivery.phone),
     address |-> delivery.address, tax |-> Empty]

\* payloadFrom: a missing name is that of who receives (here, of the address).
WebPayload(buyer, delivery) ==
    [name |-> Or(Or(buyer.name, delivery.address), "Comprador"),
     phone |-> Or(buyer.phone, delivery.phone),
     address |-> delivery.address, tax |-> seen.tax]

PhonePayload ==
    [name |-> Or(Or(draft.name, draft.address), "Comprador"),
     phone |-> draft.phone, address |-> draft.address, tax |-> seen.tax]

WebStartEdit(section) ==
    /\ client = "web" /\ ~Pending /\ editing # section
    /\ editing' = section /\ draft' = seen
    /\ UNCHANGED <<fixed, row, filed, seen, key, call, writes>>

OpenContactEditor ==
    /\ client = "mobile" /\ editing = None
    /\ editing' = "sheet" /\ draft' = seen
    /\ UNCHANGED <<fixed, row, filed, seen, key, call, writes>>

\* Each form has fields for its part of the row; the phone is in both cards.
WebBuyerFields ==
    /\ editing = "buyer" /\ ~Pending
    /\ \E n \in Blank(Names), p \in Blank(Phones) :
          draft' = [draft EXCEPT !.name = n, !.phone = p]
    /\ UNCHANGED <<fixed, row, filed, seen, editing, key, call, writes>>

WebDeliveryFields ==
    /\ editing = "delivery" /\ ~Pending
    /\ \E p \in Blank(Phones), a \in Blank(Addresses) :
          draft' = [draft EXCEPT !.phone = p, !.address = a]
    /\ UNCHANGED <<fixed, row, filed, seen, editing, key, call, writes>>

PhoneFields ==
    /\ editing = "sheet" /\ ~Pending
    /\ \E n \in Blank(Names), p \in Blank(Phones), a \in Blank(Addresses) :
          draft' = [draft EXCEPT !.name = n, !.phone = p, !.address = a]
    /\ UNCHANGED <<fixed, row, filed, seen, editing, key, call, writes>>

WebCancel ==
    /\ client = "web" /\ editing # None /\ ~Pending
    /\ editing' = None /\ draft' = NoRow
    /\ UNCHANGED <<fixed, row, filed, seen, key, call, writes>>

PhoneCancel ==
    /\ client = "mobile" /\ editing # None
    /\ editing' = None /\ draft' = NoRow
    /\ UNCHANGED <<fixed, row, filed, seen, key, call, writes>>

Send(payload) ==
    /\ call' = [payload |-> payload, key |-> key, typed |-> draft, section |-> editing,
                known |-> seen, reply |-> "sent"]
    /\ UNCHANGED <<fixed, row, filed, seen, editing, draft, key, writes>>

WebSave ==
    /\ client = "web" /\ editing # None /\ ~Pending
    /\ Send(IF editing = "buyer" THEN WebPayload(draft, seen) ELSE WebPayload(seen, draft))

PhoneSave == editing = "sheet" /\ ~Pending /\ Send(PhonePayload)

NewKey == key < MaxKeys /\ key' = key + 1

\* Saved: the form closes; the read it asks for is another step.
Saved ==
    /\ Pending /\ call.reply = "ok"
    /\ editing' = None /\ call' = None /\ NewKey
    /\ draft' = NoRow
    /\ UNCHANGED <<fixed, row, filed, seen, writes>>

\* The web keeps its key after a failure.
WebError ==
    /\ client = "web" /\ Pending /\ call.reply \in {"invalid", "reused", "lost"}
    /\ call' = None
    /\ UNCHANGED <<fixed, row, filed, seen, editing, draft, key, writes>>

\* Fault: the phone keeps it too.
PhoneErrorKeepsKey ==
    /\ client = "mobile" /\ Pending /\ call.reply \in {"invalid", "reused", "lost"}
    /\ call' = None
    /\ UNCHANGED <<fixed, row, filed, seen, editing, draft, key, writes>>

PhoneError ==
    /\ client = "mobile" /\ Pending /\ call.reply \in {"invalid", "reused", "lost"}
    /\ call' = None /\ NewKey
    /\ UNCHANGED <<fixed, row, filed, seen, editing, draft, writes>>

Next ==
    \/ UpdateOrderBuyer \/ LoseAnswer \/ SetBuyerDetails \/ Refetch
    \/ \E s \in {"buyer", "delivery"} : WebStartEdit(s)
    \/ WebBuyerFields \/ WebDeliveryFields \/ WebCancel \/ WebSave \/ WebError
    \/ OpenContactEditor \/ PhoneFields \/ PhoneCancel \/ PhoneSave \/ PhoneError
    \/ Saved

Spec == Init /\ [][Next]_vars

----------------------------------------------------------------------------
(* Properties.                                                             *)

FieldsOf(section) ==
    CASE section = "buyer" -> {"name", "phone"}
      [] section = "delivery" -> {"phone", "address"}
      [] section = "sheet" -> {"name", "phone", "address"}

Executes == Pending /\ call.reply = "sent" /\ filed' # filed

\* Although the whole row is sent, a save changes only the fields of its form
\* when nobody wrote the row since the page read it: the delivery and the tax
\* data survive a correction of the buyer's name.
KeepsRest ==
    Executes /\ call.known = row /\ row # NoRow =>
       \A f \in DOMAIN row \ FieldsOf(call.section) : row'[f] = row[f]

\* What the seller typed into a form is what is stored when it is saved.
SavesAsTyped ==
    Executes =>
       \A f \in FieldsOf(call.section) :
          call.typed[f] # Empty => row'[f] = call.typed[f]

\* A seller who corrects the form after a failure is not refused for the key.
CorrectionIsAccepted == Pending => call.reply # "reused"
=============================================================================
