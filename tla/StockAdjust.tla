----------------------------- MODULE StockAdjust -----------------------------
(***************************************************************************)
(* Adjusting the stock of a product by hand, archiving and restoring it:   *)
(* StockAdjustDialog.tsx on the web, stock-adjust-sheet.tsx on the phone,  *)
(* over record_stock_movement.  The dialog of the web and the sheet of the *)
(* phone's list are made anew at every opening, and with them their key;   *)
(* the sheet of the phone's product page lives as long as the page.  They  *)
(* can be closed while their request is under way.                         *)
(***************************************************************************)
EXTENDS Integers, FiniteSets

CONSTANTS
    Screens,      \* subset of {"web", "list", "product"}
    Sizes,        \* units a seller adds or takes
    Stocks,       \* units there are in the beginning
    MaxStock,     \* bound on the units
    Reserved,     \* units held by sales
    MaxOpenings,  \* bound on the openings
    MaxKeys,      \* bound on the keys drawn
    None

AdjustAssumption ==
    /\ Screens \subseteq {"web", "list", "product"} /\ Sizes \subseteq Nat \ {0}
    /\ Stocks \subseteq Reserved..MaxStock /\ Reserved \in Nat /\ MaxStock \in Nat
    /\ MaxOpenings \in Nat /\ MaxKeys \in Nat \ {0}

VARIABLES
    screen,
    onHand, archived,  \* server: balance and status of the product
    moves,             \* server: movements by hand, with their key and opening
    shown,             \* units the screen shows
    opening, isOpen,   \* number of the opening, and whether it is open
    draft,             \* change entered, None for none or a wrong one
    key, keys,         \* idempotencyKey and how many were drawn
    calls,             \* requests under way
    lost,              \* openings that lost an answer
    done               \* openings that ended well, with the change sent

vars == <<screen, onHand, archived, moves, shown, opening, isOpen, draft, key, keys, calls, lost, done>>
server == <<onHand, archived, moves>>
dialog == <<opening, isOpen, draft, key, keys>>

\* An entry adds, an exit and a shrinkage take, a correction does either.
Changes == Sizes \cup {-s : s \in Sizes}
Opening == 1..MaxOpenings
Call == [opening : Opening, key : 1..MaxKeys, change : Changes,
         step : {"sent", "ok", "error", "lost"}]
Move == [opening : Opening, key : 1..MaxKeys, change : Changes]

TypeOK ==
    /\ screen \in Screens /\ onHand \in Reserved..MaxStock /\ archived \in BOOLEAN
    /\ moves \subseteq Move /\ \A m, n \in moves : m.key = n.key => m = n
    /\ shown \in 0..MaxStock /\ opening \in 0..MaxOpenings /\ isOpen \in BOOLEAN
    /\ draft \in Changes \cup {None} /\ keys \in 1..MaxKeys /\ key \in 1..keys
    /\ calls \subseteq Call /\ lost \subseteq Opening
    /\ done \subseteq Opening \X Changes

Init ==
    /\ screen \in Screens /\ onHand \in Stocks /\ archived = FALSE /\ moves = {}
    /\ shown = onHand /\ opening = 0 /\ isOpen = FALSE /\ draft = None
    /\ key = 1 /\ keys = 1 /\ calls = {} /\ lost = {} /\ done = {}

----------------------------------------------------------------------------
(* The dialog.                                                             *)

\* Fault: the key outlives the dialog.
OpenWithOldKey ==
    /\ ~isOpen /\ opening < MaxOpenings
    /\ opening' = opening + 1 /\ isOpen' = TRUE /\ draft' = None /\ UNCHANGED <<key, keys>>
    /\ UNCHANGED <<screen, server, shown, calls, lost, done>>

NewKey == keys < MaxKeys /\ key' = keys + 1 /\ keys' = keys + 1

\* Only a dialog that is made anew draws a key.  The lists and the phone's page
\* offer it for archived products, too.
Open ==
    /\ ~isOpen /\ opening < MaxOpenings
    /\ opening' = opening + 1 /\ isOpen' = TRUE /\ draft' = None
    /\ IF screen = "product" THEN UNCHANGED <<key, keys>> ELSE NewKey
    /\ UNCHANGED <<screen, server, shown, calls, lost, done>>

\* The dialogs take the product as it was when they were opened; the sheet of
\* the product page follows what the page reads.
Read ==
    /\ shown # onHand /\ (isOpen => screen = "product") /\ shown' = onHand
    /\ UNCHANGED <<screen, server, dialog, calls, lost, done>>

WebEnter(q) ==
    /\ screen = "web" /\ isOpen /\ q # draft /\ draft' = q
    /\ UNCHANGED <<screen, server, shown, opening, isOpen, key, keys, calls, lost, done>>

PhoneEnter(q) ==
    /\ screen # "web" /\ isOpen /\ q # draft /\ draft' = q
    /\ UNCHANGED <<screen, server, shown, opening, isOpen, key, keys, calls, lost, done>>

ProjectedBalance(q) == shown + q

\* Fault: the button stays enabled.
NeverPending == FALSE

\* The mutation of the sheet is one for all its openings; that of a dialog is its own.
Pending == IF screen = "product" THEN calls # {} ELSE \E c \in calls : c.opening = opening

Send ==
    /\ isOpen /\ draft # None /\ ~Pending /\ ProjectedBalance(draft) >= 0
    /\ calls' = calls \cup {[opening |-> opening, key |-> key, change |-> draft, step |-> "sent"]}
    /\ UNCHANGED <<screen, server, shown, dialog, lost, done>>

WebSubmit == screen = "web" /\ Send
PhoneSubmit == screen # "web" /\ Send

WebClose ==
    /\ screen = "web" /\ isOpen /\ isOpen' = FALSE
    /\ UNCHANGED <<screen, server, shown, opening, draft, key, keys, calls, lost, done>>

PhoneClose ==
    /\ screen # "web" /\ isOpen /\ isOpen' = FALSE /\ draft' = None
    /\ UNCHANGED <<screen, server, shown, opening, key, keys, calls, lost, done>>

----------------------------------------------------------------------------
(* The request.                                                            *)

Step(c, step) == calls' = (calls \ {c}) \cup {[c EXCEPT !.step = step]}
Of(k) == {m \in moves : m.key = k}
Made(c) == [opening |-> c.opening, key |-> c.key, change |-> c.change]

\* A key seen before answers its movement or refuses another change.  A new
\* movement needs a product that is not archived and leaves the reserved units.
RecordStockMovement(c) ==
    /\ c.step = "sent"
    /\ IF Of(c.key) # {}
         THEN /\ Step(c, IF \E m \in Of(c.key) : m.change = c.change THEN "ok" ELSE "error")
              /\ UNCHANGED <<onHand, moves>>
         ELSE IF archived \/ onHand + c.change \notin Reserved..MaxStock
         THEN Step(c, "error") /\ UNCHANGED <<onHand, moves>>
         ELSE /\ onHand' = onHand + c.change /\ moves' = moves \cup {Made(c)}
              /\ Step(c, "ok")
    /\ UNCHANGED <<screen, archived, shown, dialog, lost, done>>

Lose(c) ==
    /\ c.step # "lost" /\ Step(c, "lost") /\ lost' = lost \cup {c.opening}
    /\ UNCHANGED <<screen, server, shown, dialog, done>>

\* The answer closes the opening there is, its own or not.
WebDone(c) ==
    /\ screen = "web" /\ c.step = "ok" /\ calls' = calls \ {c} /\ isOpen' = FALSE
    /\ done' = done \cup {<<c.opening, c.change>>}
    /\ UNCHANGED <<screen, server, shown, opening, draft, key, keys, lost>>

\* The sheet also empties its fields.
PhoneDone(c) ==
    /\ screen # "web" /\ c.step = "ok" /\ calls' = calls \ {c} /\ isOpen' = FALSE
    /\ done' = done \cup {<<c.opening, c.change>>} /\ draft' = None
    /\ UNCHANGED <<screen, server, shown, opening, key, keys, lost>>

\* Any failure draws a new key; that of a dialog closed before is gone with it.
OwnKey(c) ==
    IF screen = "product" \/ c.opening = opening THEN NewKey ELSE UNCHANGED <<key, keys>>

WebFailed(c) ==
    /\ screen = "web" /\ c.step \in {"error", "lost"} /\ calls' = calls \ {c} /\ OwnKey(c)
    /\ UNCHANGED <<screen, server, shown, opening, isOpen, draft, lost, done>>

PhoneFailed(c) ==
    /\ screen # "web" /\ c.step \in {"error", "lost"} /\ calls' = calls \ {c} /\ OwnKey(c)
    /\ UNCHANGED <<screen, server, shown, opening, isOpen, draft, lost, done>>

----------------------------------------------------------------------------
(* The product page, and other sellers.                                    *)

Archive ==
    /\ ~archived /\ Reserved = 0 /\ archived' = TRUE
    /\ UNCHANGED <<screen, onHand, moves, shown, dialog, calls, lost, done>>

WebArchive == screen = "web" /\ ~isOpen /\ Archive
PhoneArchive == screen = "product" /\ ~isOpen /\ Archive
OthersArchive == Archive

Restore ==
    /\ archived /\ archived' = FALSE
    /\ UNCHANGED <<screen, onHand, moves, shown, dialog, calls, lost, done>>

WebRestore == screen = "web" /\ ~isOpen /\ Restore
PhoneRestore == screen = "product" /\ ~isOpen /\ Restore

OthersMove(q) ==
    /\ ~archived /\ onHand + q \in Reserved..MaxStock /\ onHand' = onHand + q
    /\ UNCHANGED <<screen, archived, moves, shown, dialog, calls, lost, done>>

Next ==
    \/ Open \/ Read \/ WebSubmit \/ PhoneSubmit \/ WebClose \/ PhoneClose
    \/ WebArchive \/ PhoneArchive \/ OthersArchive \/ WebRestore \/ PhoneRestore
    \/ \E q \in Changes : WebEnter(q) \/ PhoneEnter(q) \/ OthersMove(q)
    \/ \E c \in calls :
          \/ RecordStockMovement(c) \/ Lose(c)
          \/ WebDone(c) \/ PhoneDone(c) \/ WebFailed(c) \/ PhoneFailed(c)

Spec == Init /\ [][Next]_vars

----------------------------------------------------------------------------
(* Properties.                                                             *)

MovesOf(o) == {m \in moves : m.opening = o}

\* An opening that ended well has moved the stock as it was asked, by itself:
\* its key was never used by an opening before it.
DoneHasMoved == \A d \in done : \E m \in MovesOf(d[1]) : m.change = d[2]

\* An opening moves the stock a second time only after it lost an answer.
TwiceOnlyWhenLost == \A o \in Opening : Cardinality(MovesOf(o)) > 1 => o \in lost
=============================================================================
