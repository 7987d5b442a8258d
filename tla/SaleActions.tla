----------------------------- MODULE SaleActions -----------------------------
(***************************************************************************)
(* What a seller does to one sale from its page: SaleDetailPage.tsx on the *)
(* web, ventas/[orderId].tsx on the phone.  The page shows the sale as it  *)
(* was last read, offers the actions allowed then, and sends each one with *)
(* an idempotency key.  Answers are lost, requests arrive late, and other  *)
(* people (the buyer, another seller) change the sale meanwhile.           *)
(*                                                                         *)
(* An "intent" is one opening of the dialog of an action; the server's     *)
(* record of an executed command remembers the intent that sent it.        *)
(***************************************************************************)
EXTENDS Naturals, FiniteSets

CONSTANTS
    None,
    Clients,     \* subset of {"web", "mobile"}
    Methods,     \* payment methods of the sale
    Texts,       \* reasons, amounts and addresses the seller may type
    Kinds,       \* actions the seller uses
    MaxIntents,  \* dialogs opened
    MaxKeys,     \* keys drawn
    MaxMoves     \* changes of the sale made by others

VARIABLES
    client, method,
    sale,      \* the row of the server: status, where restore leads, changes
    answers,   \* idempotency records of the server
    detail,    \* the sale as the page shows it
    fetching,  \* a read under way, with what it will bring
    dialog,    \* the open action, its text and its intent
    intents,   \* dialogs opened so far
    key,       \* idempotencyKey, actionKey
    call,      \* performAction, executeAction
    late,      \* a request given up that the server may still receive
    moves,     \* changes made by others
    shown      \* the change that the last success message spoke of

vars == <<client, method, sale, answers, detail, fetching, dialog, intents, key,
          call, late, moves, shown>>
pageVars == <<client, method, dialog, intents, key, shown>>

Status == {"reserved", "purchase_in_progress", "purchase_validation", "paid",
           "cancelled", "refunded"}
Active == {"reserved", "purchase_in_progress", "purchase_validation"}
Kind == {"approve", "reject", "manual", "cancel", "restore", "refund", "resend",
         "reissue"}

Sale == [status : Status, back : Active \cup {None}, version : Nat]

\* A page has a key from the start; None stands for no sale and for no status.
ActionsAssumption ==
    /\ Clients \subseteq {"web", "mobile"} /\ Clients # {} /\ Kinds \subseteq Kind
    /\ MaxIntents \in Nat /\ MaxKeys \in Nat \ {0} /\ MaxMoves \in Nat
    /\ None \notin Status /\ None \notin Sale

\* The commands that take a text from the seller.
Wordy == {"reject", "cancel", "refund", "manual", "resend"}

Text(k) == IF k \in Wordy THEN Texts ELSE {None}

\* The scope under which the server files the key of a command.
Scope(k) == IF k \in {"approve", "reject"} THEN "review" ELSE k

Request == [kind : Kind, text : Texts \cup {None}, key : 1..MaxKeys, intent : 1..MaxIntents]

TypeOK ==
    /\ client \in Clients /\ method \in Methods
    /\ sale \in Sale /\ detail \in Sale \cup {None} /\ fetching \in Sale \cup {None}
    /\ answers \subseteq Request
    /\ \A a, b \in answers : Scope(a.kind) = Scope(b.kind) /\ a.key = b.key => a = b
    /\ dialog = None \/ dialog \in [kind : Kind, text : Texts \cup {None}, intent : 1..MaxIntents]
    /\ intents \in 0..MaxIntents /\ key \in 1..MaxKeys
    /\ call = None \/ call \in [request : Request, reply : {"sent", "ok", "refused", "lost"}]
    /\ late \in Request \cup {None}
    /\ moves \in 0..MaxMoves
    /\ shown \in Nat

Init ==
    /\ client \in Clients /\ method \in Methods
    /\ sale = [status |-> "reserved", back |-> None, version |-> 0]
    /\ detail = None
    /\ answers = {} /\ fetching = None /\ dialog = None /\ intents = 0 /\ key = 1
    /\ call = None /\ late = None /\ moves = 0 /\ shown = 0

----------------------------------------------------------------------------
(* The server: which command a status allows and what it makes of the sale. *)

Allowed(k, s) ==
    CASE k \in {"approve", "reject"} -> s.status = "purchase_validation"
      [] k = "manual" -> /\ s.status \in {"reserved", "purchase_in_progress"}
                         /\ method \in {"cash", "bank_transfer"}
      [] k \in {"cancel", "resend"} -> s.status \in Active
      [] k = "restore" -> s.status = "cancelled" /\ s.back # None
      [] k = "refund" -> s.status = "paid"
      [] k = "reissue" -> s.status = "purchase_validation" /\ method = "bank_transfer"

Moved(s, status, back) ==
    [status |-> status, back |-> back, version |-> s.version + 1]

After(k, s) ==
    CASE k \in {"approve", "manual"} -> Moved(s, "paid", s.back)
      [] k \in {"reject", "reissue"} -> Moved(s, "cancelled", s.back)
      [] k = "cancel" -> Moved(s, "cancelled", s.status)
      [] k = "restore" -> Moved(s, s.back, s.back)
      [] k = "refund" -> Moved(s, "refunded", s.back)
      [] k = "resend" -> s

Filed(r) == {a \in answers : Scope(a.kind) = Scope(r.kind) /\ a.key = r.key}

\* A key seen before repeats its answer, or is refused when it comes with
\* other data; a command that the sale does not allow leaves no record.
Execute(r) ==
    IF Filed(r) = {} /\ Allowed(r.kind, sale)
      THEN sale' = After(r.kind, sale) /\ answers' = answers \cup {r}
      ELSE UNCHANGED <<sale, answers>>

Accepts(r) ==
    IF Filed(r) = {} THEN Allowed(r.kind, sale)
    ELSE \E a \in Filed(r) : a.kind = r.kind /\ a.text = r.text

Serve ==
    /\ call # None /\ call.reply = "sent"
    /\ Execute(call.request)
    /\ call' = [call EXCEPT !.reply = IF Accepts(call.request) THEN "ok" ELSE "refused"]
    /\ UNCHANGED <<pageVars, detail, fetching, late, moves>>

\* The network fails on the way back, or on the way there.
LoseAnswer ==
    /\ call # None /\ call.reply \in {"ok", "refused"}
    /\ call' = [call EXCEPT !.reply = "lost"]
    /\ UNCHANGED <<pageVars, sale, answers, detail, fetching, late, moves>>

LoseRequest ==
    /\ call # None /\ call.reply = "sent"
    /\ call' = [call EXCEPT !.reply = "lost"]
    /\ late' \in {None, call.request}
    /\ UNCHANGED <<pageVars, sale, answers, detail, fetching, moves>>

\* When only its page was left, its answer still asks for a read.
ServeLate ==
    /\ late # None
    /\ Execute(late) /\ late' = None
    /\ fetching' \in {fetching, sale'}
    /\ UNCHANGED <<pageVars, detail, call, moves>>

\* The buyer sends a receipt; another seller, elsewhere, acts on the sale.
OthersMove ==
    /\ moves < MaxMoves /\ moves' = moves + 1
    /\ \/ /\ sale.status \in {"reserved", "purchase_in_progress"} /\ method = "bank_transfer"
          /\ sale' = Moved(sale, "purchase_validation", sale.back)
       \/ \E k \in {"cancel", "restore", "approve"} :
             Allowed(k, sale) /\ sale' = After(k, sale)
    /\ UNCHANGED <<pageVars, answers, detail, fetching, call, late>>

----------------------------------------------------------------------------
(* The page reads the sale.                                                *)

\* A read: when the page opens, on "Reintentar", or when the network is back.
StartFetch ==
    /\ fetching = None /\ detail # sale
    /\ fetching' = sale
    /\ UNCHANGED <<pageVars, sale, answers, detail, call, late, moves>>

EndFetch ==
    /\ fetching # None
    /\ detail' = fetching /\ fetching' = None
    /\ UNCHANGED <<pageVars, sale, answers, call, late, moves>>

\* The error state, which offers to read again.
FetchFails ==
    /\ fetching # None /\ detail = None
    /\ fetching' = None
    /\ UNCHANGED <<pageVars, sale, answers, detail, call, late, moves>>

\* Fault: a read under way is taken for the one that was asked for.
InvalidateIdleOnly == fetching' = IF fetching = None THEN sale ELSE fetching

\* invalidateSalesLists: a read under way is dropped for a new one.
Invalidate == fetching' = sale

Pending == call # None

----------------------------------------------------------------------------
(* The dialog of an action.                                                *)

\* The buttons: what the sale allowed when it was read.  Neither application
\* offers to reject the receipt of a transfer.
WebShown(k) ==
    /\ client = "web" /\ ~Pending
    /\ k \in Kinds /\ detail # None /\ Allowed(k, detail)
    /\ k = "reject" => method # "bank_transfer"

PhoneShown(k) ==
    /\ client = "mobile"
    /\ k \in Kinds /\ detail # None /\ Allowed(k, detail)
    /\ k = "reject" => method # "bank_transfer"

\* Opening a dialog is an intent of its own.
Open(k) ==
    /\ intents < MaxIntents /\ dialog = None
    /\ intents' = intents + 1
    /\ \E t \in Text(k) : dialog' = [kind |-> k, text |-> t, intent |-> intents + 1]
    /\ UNCHANGED <<client, method, sale, answers, detail, fetching, call, late, moves, shown>>

NewKey == key < MaxKeys /\ key' = key + 1

WebOpenAction(k) == WebShown(k) /\ Open(k) /\ UNCHANGED key

PhoneOpenAction(k) == PhoneShown(k) /\ Open(k) /\ NewKey

WebEditText(t) ==
    /\ client = "web" /\ dialog # None /\ t \in Text(dialog.kind) \ {dialog.text}
    /\ dialog' = [dialog EXCEPT !.text = t]
    /\ UNCHANGED <<client, method, sale, answers, detail, fetching, intents, key, call, late, moves, shown>>

PhoneEditText(t) ==
    /\ client = "mobile" /\ dialog # None /\ t \in Text(dialog.kind) \ {dialog.text}
    /\ dialog' = [dialog EXCEPT !.text = t]
    /\ UNCHANGED <<client, method, sale, answers, detail, fetching, intents, key, call, late, moves, shown>>

Close ==
    /\ dialog # None /\ dialog' = None
    /\ UNCHANGED <<client, method, sale, answers, detail, fetching, intents, key, call, late, moves, shown>>

\* closeActionModal waits for the answer; the sheet of the phone does not.
WebClose == client = "web" /\ ~Pending /\ Close
PhoneClose == client = "mobile" /\ Close

\* The request of each action, with the fields it takes from the dialog.
WebRequest(k) == [kind |-> dialog.kind, text |-> dialog.text, key |-> k, intent |-> dialog.intent]
PhoneRequest(k) == [kind |-> dialog.kind, text |-> dialog.text, key |-> k, intent |-> dialog.intent]

Send(r) ==
    /\ call' = [request |-> r, reply |-> "sent"]
    /\ UNCHANGED <<client, method, sale, answers, detail, fetching, dialog, intents, late, moves, shown>>

\* Fault: every confirmation draws a key, a retry too.
WebSubmitWithNewKey ==
    /\ client = "web" /\ dialog # None /\ ~Pending
    /\ NewKey /\ Send(WebRequest(key + 1))

WebSubmitAction ==
    /\ client = "web" /\ dialog # None /\ ~Pending
    /\ Send(WebRequest(key)) /\ UNCHANGED key

PhoneConfirmAction ==
    /\ client = "mobile" /\ dialog # None /\ ~Pending
    /\ Send(PhoneRequest(key)) /\ UNCHANGED key

\* The dialog closes, on the phone also one opened since, and the sale is read
\* again.
Succeed ==
    /\ Pending /\ call.reply = "ok"
    /\ dialog' = None /\ call' = None
    /\ Invalidate /\ shown' = sale.version
    /\ UNCHANGED <<client, method, sale, answers, detail, intents, late, moves>>

WebSuccess == client = "web" /\ Succeed /\ NewKey
PhoneSuccess == client = "mobile" /\ Succeed /\ UNCHANGED key

\* The key is kept for the retry, except to send a link again.
Fail ==
    /\ Pending /\ call.reply \in {"refused", "lost"}
    /\ call' = None
    /\ IF call.request.kind = "resend" THEN NewKey ELSE UNCHANGED key
    /\ UNCHANGED <<client, method, sale, answers, detail, fetching, dialog, intents, late, moves, shown>>

WebError == client = "web" /\ Fail
PhoneError == client = "mobile" /\ Fail

\* The seller leaves the page, whatever is under way, and comes back: its state
\* starts anew, with the sale as the cache of reads has it.  A request goes on
\* without the page: it is answered as the page is left, or may arrive later.
Reopen ==
    /\ NewKey /\ dialog' = None /\ call' = None
    /\ late' \in {late} \cup (IF Pending /\ call.reply = "sent" THEN {call.request} ELSE {})
    /\ fetching' = IF Pending /\ call.reply = "ok" THEN sale ELSE fetching
    /\ UNCHANGED <<client, method, sale, answers, detail, intents, moves, shown>>

Next ==
    \/ Serve \/ LoseAnswer \/ LoseRequest \/ ServeLate \/ OthersMove
    \/ StartFetch \/ EndFetch \/ FetchFails \/ Reopen
    \/ \E k \in Kinds : WebOpenAction(k) \/ PhoneOpenAction(k)
    \/ \E t \in Texts : WebEditText(t) \/ PhoneEditText(t)
    \/ WebClose \/ WebSubmitAction \/ WebSuccess \/ WebError
    \/ PhoneClose \/ PhoneConfirmAction \/ PhoneSuccess \/ PhoneError

Spec == Init /\ [][Next]_vars

----------------------------------------------------------------------------
(* Properties.                                                             *)

\* However often the seller retries in one dialog, after lost answers and late
\* requests, the command of the dialog is executed at most once (sending the
\* link again is the exception: it draws a key after every failure).
OncePerIntent ==
    \A a, b \in answers :
        a.intent = b.intent /\ a.kind # "resend" => a = b

\* Once the read that follows a success has ended, the page shows the sale at
\* least as new as that success, whatever read was under way before it.
FreshAfterSuccess ==
    fetching = None /\ detail # None => detail.version >= shown

\* The success the seller is told of is that of the dialog just confirmed, and
\* not the stored answer of an earlier one.
SucceedsForThisIntent ==
    Pending /\ call.reply = "ok" /\ call' = None =>
       \A a \in Filed(call.request) : a.intent = call.request.intent
=============================================================================
