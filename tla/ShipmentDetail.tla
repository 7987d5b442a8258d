---------------------------- MODULE ShipmentDetail ----------------------------
(***************************************************************************)
(* The page of a shipment on the web (ShipmentDetailPage.tsx) and on the   *)
(* phone (despachos/[shipmentId].tsx), open at once in front of            *)
(* shipping/services.py: registering the dispatch or the delivery, once    *)
(* and with a mail to the buyer, and the internal label, which expires.    *)
(* The order may be refunded meanwhile, and answers may be lost.           *)
(***************************************************************************)
EXTENDS Naturals, FiniteSets

CONSTANTS
    Pages,      \* pages open, a subset of {"web", "phone"}
    Modes,      \* delivery modes
    Emails,     \* whether the buyer leaves a mail address
    Data,       \* what the form may say, Blank without a carrier
    Invalid,    \* data the server refuses, as a wrong address of tracking
    Blank,
    MaxKeys,    \* bound on the keys a page draws
    MaxLabels,  \* bound on the labels
    None

ShipmentAssumption ==
    /\ Pages \subseteq {"web", "phone"} /\ Modes \subseteq {"shipping", "pickup"}
    /\ Emails \subseteq BOOLEAN /\ Blank \in Data /\ Invalid \subseteq Data \ {Blank}
    /\ MaxKeys \in Nat \ {0} /\ MaxLabels \in Nat /\ None \notin Data

VARIABLES
    mode,      \* deliveryMode of the order
    email,     \* whether the buyer left one
    order,     \* status of the order
    shipment,  \* row: status and what was registered
    mail,      \* event of the outbox, unique per shipment and status
    labels,    \* labels made, by number, and those that have not expired
    used,      \* idempotency records of the two scopes
    page,      \* page[p]
    left       \* requests under way of pages that were left

vars == <<mode, email, order, shipment, mail, labels, used, page, left>>

Keys == 1..MaxKeys
Row == [status : {"pending", "registered"}, data : Data \cup {None}]
Answer == [registered : BOOLEAN, paid : BOOLEAN]

\* Registering sends data, and asking for a label sends None.
Request == [page : Pages, key : Keys, data : Data \cup {None}]

TypeOK ==
    /\ mode \in Modes /\ email \in Emails /\ order \in {"paid", "refunded"}
    /\ shipment \in Row /\ mail \in Data \cup {None}
    /\ labels \in [made : 0..MaxLabels, live : SUBSET (1..MaxLabels)]
    /\ used \subseteq Request /\ left \subseteq Request
    /\ page \in [Pages -> [shown : Answer, form : Data, confirm : BOOLEAN, key : Keys,
                           labelKey : Keys, said : Data \cup {None},
                           register : {"idle", "sent", "locked", "ok", "error"},
                           sent : Data \cup {None}, answer : Answer,
                           label : {"idle", "sent", "ok", "error"}, labelAnswer : Answer]]

\* allowedActions: registering asks for a pending shipment of a paid order.
Now == [registered |-> shipment.status = "registered", paid |-> order = "paid"]
CanRegister(p) == page[p].shown.paid /\ ~page[p].shown.registered
CanGenerateLabel(p) == page[p].shown.paid

Stale == [registered |-> FALSE, paid |-> FALSE]
Opened(k, l) ==
    [shown |-> Now, form |-> Blank, confirm |-> FALSE, key |-> k, labelKey |-> l, said |-> None,
     register |-> "idle", sent |-> None, answer |-> Stale, label |-> "idle", labelAnswer |-> Stale]

Init ==
    /\ mode \in Modes /\ email \in Emails /\ order = "paid"
    /\ shipment = [status |-> "pending", data |-> None] /\ mail = None
    /\ labels = [made |-> 0, live |-> {}] /\ used = {}
    /\ page = [p \in Pages |-> Opened(1, 1)] /\ left = {}

server == <<mode, email, order, shipment, mail, labels, used>>
Idle(p) == page[p].register = "idle" /\ page[p].label = "idle"
LabelRecord(p) == [page |-> p, key |-> page[p].labelKey, data |-> None]

----------------------------------------------------------------------------
(* The pages.                                                              *)

\* What a page has sent may be executed after it was left.
Sent(p) ==
    (IF page[p].register = "sent"
     THEN {[page |-> p, key |-> page[p].key, data |-> page[p].sent]} ELSE {})
    \cup (IF page[p].label = "sent" THEN {LabelRecord(p)} ELSE {})

Reopen(p) ==
    /\ page[p].register # "locked"
    /\ page[p].key + 1 < MaxKeys /\ page[p].labelKey + 1 < MaxKeys
    /\ page' = [page EXCEPT ![p] = Opened(page[p].key + 1, page[p].labelKey + 1)]
    /\ left' = left \cup Sent(p)
    /\ UNCHANGED server

Refetch(p) ==
    /\ page[p].shown # Now /\ page' = [page EXCEPT ![p].shown = Now] /\ UNCHANGED <<server, left>>

Enter(p, d) ==
    /\ CanRegister(p) /\ ~page[p].confirm /\ d # page[p].form
    /\ page' = [page EXCEPT ![p].form = d] /\ UNCHANGED <<server, left>>

WebEnter(d) == "web" \in Pages /\ Enter("web", d)
PhoneEnter(d) == "phone" \in Pages /\ Enter("phone", d)

RequiresCarrier == mode = "shipping"
FormValid(p) == ~RequiresCarrier \/ page[p].form # Blank

OpenConfirm(p) ==
    /\ CanRegister(p) /\ FormValid(p) /\ ~page[p].confirm
    /\ page' = [page EXCEPT ![p].confirm = TRUE] /\ UNCHANGED <<server, left>>

\* The web waits for the label, too; the phone does not.
WebOpenConfirm == "web" \in Pages /\ Idle("web") /\ OpenConfirm("web")
PhoneOpenConfirm == "phone" \in Pages /\ OpenConfirm("phone")

CloseConfirm(p) ==
    /\ page[p].confirm /\ page[p].register = "idle"
    /\ page' = [page EXCEPT ![p].confirm = FALSE] /\ UNCHANGED <<server, left>>

WebCloseConfirm == "web" \in Pages /\ CloseConfirm("web")
PhoneCloseConfirm == "phone" \in Pages /\ CloseConfirm("phone")

Register(p) ==
    /\ page[p].confirm /\ page[p].register = "idle"
    /\ page' = [page EXCEPT ![p].register = "sent", ![p].sent = page[p].form, ![p].said = None]
    /\ UNCHANGED <<server, left>>

WebRegister == "web" \in Pages /\ Register("web")
PhoneRegister == "phone" \in Pages /\ Register("phone")

\* The answer is shown and a key drawn for the next request.
Registered(p) ==
    /\ page[p].register = "ok" /\ page[p].key < MaxKeys
    /\ page' = [page EXCEPT ![p].register = "idle", ![p].shown = page[p].answer,
                            ![p].confirm = FALSE, ![p].key = @ + 1, ![p].said = page[p].sent,
                            ![p].sent = None, ![p].answer = Stale]
    /\ UNCHANGED <<server, left>>

WebRegistered == "web" \in Pages /\ Registered("web")
PhoneRegistered == "phone" \in Pages /\ Registered("phone")

\* The key stays, and the page is not read again.
NotRegistered(p) ==
    /\ page[p].register = "error"
    /\ page' = [page EXCEPT ![p].register = "idle", ![p].confirm = FALSE, ![p].sent = None]
    /\ UNCHANGED <<server, left>>

WebNotRegistered == "web" \in Pages /\ NotRegistered("web")
PhoneNotRegistered == "phone" \in Pages /\ NotRegistered("phone")

Generate(p) ==
    /\ CanGenerateLabel(p) /\ page[p].label = "idle" /\ ~page[p].confirm
    /\ labels.made < MaxLabels
    /\ page' = [page EXCEPT ![p].label = "sent"] /\ UNCHANGED <<server, left>>

WebGenerate == "web" \in Pages /\ page["web"].register = "idle" /\ Generate("web")
PhoneGenerate == "phone" \in Pages /\ Generate("phone")

Generated(p) ==
    /\ page[p].label = "ok" /\ page[p].labelKey < MaxKeys
    /\ page' = [page EXCEPT ![p].label = "idle", ![p].shown = page[p].labelAnswer,
                            ![p].labelKey = @ + 1, ![p].labelAnswer = Stale]
    /\ UNCHANGED <<server, left>>

WebGenerated == "web" \in Pages /\ Generated("web")
PhoneGenerated == "phone" \in Pages /\ Generated("phone")

NotGenerated(p) ==
    /\ page[p].label = "error" /\ page' = [page EXCEPT ![p].label = "idle"] /\ UNCHANGED <<server, left>>

WebNotGenerated == "web" \in Pages /\ NotGenerated("web")
PhoneNotGenerated == "phone" \in Pages /\ NotGenerated("phone")

----------------------------------------------------------------------------
(* The server.                                                             *)

Unsent(p) ==
    /\ \/ page[p].register = "sent" /\ page' = [page EXCEPT ![p].register = "error"]
       \/ page[p].label = "sent" /\ page' = [page EXCEPT ![p].label = "error"]
    /\ UNCHANGED <<server, left>>

\* The answer is given, or lost.
Say(p, answer) ==
    \/ page' = [page EXCEPT ![p].register = "ok", ![p].answer = answer]
    \/ page' = [page EXCEPT ![p].register = "error"]
Refuse(p) == page' = [page EXCEPT ![p].register = "error"]

\* A key that was used replays its answer, but for other data it is refused.
Record(p) == {r \in used : r.page = p /\ r.key = page[p].key /\ r.data # None}

Replay(p) ==
    /\ page[p].register = "sent" /\ Record(p) # {}
    /\ IF \A r \in Record(p) : r.data = page[p].sent THEN Say(p, Now) ELSE Refuse(p)
    /\ UNCHANGED <<server, left>>

Locked == \E p \in Pages : page[p].register = "locked"

\* Fault: nobody looks whether it was registered.
LockAnyShipment(p) ==
    /\ page[p].register = "sent" /\ Record(p) = {} /\ ~Locked
    /\ IF order = "paid" THEN page' = [page EXCEPT ![p].register = "locked"] ELSE Refuse(p)
    /\ UNCHANGED <<server, left>>

\* The row is locked, the order only read.
LockShipment(p) ==
    /\ page[p].register = "sent" /\ Record(p) = {} /\ ~Locked
    /\ IF shipment.status = "pending" /\ order = "paid"
       THEN page' = [page EXCEPT ![p].register = "locked"]
       ELSE Refuse(p)
    /\ UNCHANGED <<server, left>>

Accepts(d) == RequiresCarrier => d \notin Invalid \cup {Blank}

Dispatch(d) ==
    /\ shipment' = [status |-> "registered", data |-> d]
    /\ mail' = IF email /\ mail = None THEN d ELSE mail

RegisterDispatch(p) ==
    LET d == page[p].sent IN
    /\ page[p].register = "locked"
    /\ IF ~Accepts(d)
       THEN Refuse(p) /\ UNCHANGED <<shipment, mail, used>>
       ELSE /\ Dispatch(d)
            /\ used' = used \cup {[page |-> p, key |-> page[p].key, data |-> d]}
            /\ Say(p, [registered |-> TRUE, paid |-> order = "paid"])
    /\ UNCHANGED <<mode, email, order, labels, left>>

SayLabel(p) ==
    \/ page' = [page EXCEPT ![p].label = "ok", ![p].labelAnswer = Now]
    \/ page' = [page EXCEPT ![p].label = "error"]

NewLabel ==
    IF labels.live # {} THEN labels
    ELSE [made |-> labels.made + 1, live |-> labels.live \cup {labels.made + 1}]

\* The label that has not expired is the one to print; the row is locked.
GenerateLabel(p) ==
    /\ page[p].label = "sent" /\ ~Locked /\ labels.made < MaxLabels
    /\ CASE LabelRecord(p) \in used -> SayLabel(p) /\ UNCHANGED <<labels, used>>
         [] LabelRecord(p) \notin used /\ order = "paid" ->
              labels' = NewLabel /\ used' = used \cup {LabelRecord(p)} /\ SayLabel(p)
         [] OTHER -> page' = [page EXCEPT ![p].label = "error"] /\ UNCHANGED <<labels, used>>
    /\ UNCHANGED <<mode, email, order, shipment, mail, left>>

\* A request whose page was left is executed, or refused, or lost.
LeftEnds(r) ==
    /\ left' = left \ {r}
    /\ \/ UNCHANGED <<shipment, mail, labels, used>>
       \/ /\ ~Locked /\ order = "paid" /\ r \notin used /\ used' = used \cup {r}
          /\ IF r.data = None
               THEN labels.made < MaxLabels /\ labels' = NewLabel /\ UNCHANGED <<shipment, mail>>
               ELSE /\ shipment.status = "pending" /\ Accepts(r.data)
                    /\ Dispatch(r.data) /\ UNCHANGED labels
    /\ UNCHANGED <<mode, email, order, page>>

LabelExpires ==
    /\ labels.live # {} /\ labels' = [labels EXCEPT !.live = {}]
    /\ UNCHANGED <<mode, email, order, shipment, mail, used, page, left>>

\* Nothing that refunds the order looks at its shipment.
Refund ==
    /\ order = "paid" /\ order' = "refunded"
    /\ UNCHANGED <<mode, email, shipment, mail, labels, used, page, left>>

Next ==
    \/ \E p \in Pages :
          \/ Reopen(p) \/ Refetch(p) \/ Unsent(p) \/ Replay(p) \/ LockShipment(p)
          \/ RegisterDispatch(p) \/ GenerateLabel(p)
    \/ \E d \in Data : WebEnter(d) \/ PhoneEnter(d)
    \/ WebOpenConfirm \/ WebCloseConfirm \/ WebRegister \/ WebRegistered \/ WebNotRegistered
    \/ WebGenerate \/ WebGenerated \/ WebNotGenerated
    \/ PhoneOpenConfirm \/ PhoneCloseConfirm \/ PhoneRegister \/ PhoneRegistered
    \/ PhoneNotRegistered \/ PhoneGenerate \/ PhoneGenerated \/ PhoneNotGenerated
    \/ \E r \in left : LeftEnds(r)
    \/ LabelExpires \/ Refund

Spec == Init /\ [][Next]_vars

----------------------------------------------------------------------------
(* Properties.                                                             *)

\* What a page reports as registered is what the shipment keeps and what the
\* buyer was told, whatever another page registered, retried or lost.
RegisteredAsSaid ==
    \A p \in Pages : page[p].said # None =>
        /\ shipment = [status |-> "registered", data |-> page[p].said]
        /\ email => mail = page[p].said
=============================================================================
