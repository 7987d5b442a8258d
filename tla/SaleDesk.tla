------------------------------ MODULE SaleDesk ------------------------------
(***************************************************************************)
(* What the server makes of the requests of the two "new sale" wizards:    *)
(* create_order and publish_order_link of sales/order_services.py behind   *)
(* execute_idempotent of audit/idempotency.py.  A sale is named by the     *)
(* idempotency key that created it.  A request whose caller has stopped    *)
(* waiting may still be on its way: it is kept in "late" until it is       *)
(* served or lost.                                                         *)
(***************************************************************************)
EXTENDS Integers, FiniteSets

CONSTANTS
    Keys,       \* idempotency keys a wizard may draw
    Carts,      \* valid contents of a sale: lines, quantities and prices
    NoCart,     \* lines that do not pass the validation, or none
    Methods,    \* payment methods in use, a part of PaymentMethod
    MaxLate     \* bound: requests that may be late at the same time

PaymentMethod == {"bank_transfer", "cash", "mercado_pago"}

DeskAssumption ==
    /\ IsFiniteSet(Keys)
    /\ NoCart \notin Carts
    /\ MaxLate \in Nat
    /\ "bank_transfer" \in Methods /\ Methods \subseteq PaymentMethod

VARIABLES
    sold,       \* the terms of the sale each key created
    published,  \* sales whose public link was published
    late        \* requests on their way that nobody waits for

deskVars == <<sold, published, late>>

Terms == [cart : Carts, method : Methods]

NoTerms == [cart |-> NoCart, method |-> "none"]

Request == [kind : {"create", "publish"}, key : Keys, terms : Terms]

Reply == {"none", "done", "refused", "reused"}

DeskTypeOK ==
    /\ sold \in [Keys -> Terms \cup {NoTerms}]
    /\ published \subseteq Keys
    /\ late \subseteq Request

DeskInit ==
    /\ sold = [k \in Keys |-> NoTerms]
    /\ published = {}
    /\ late = {}

\* A key used with other data is refused for good; with the same data, the
\* first answer is repeated.
Replies(r) ==
    IF r.kind = "publish" \/ sold[r.key] = NoTerms THEN {"done", "refused"}
    ELSE IF sold[r.key] = r.terms THEN {"done"} ELSE {"reused"}

\* Without stock, a creation is rolled back with its key; a sale that has
\* lapsed cannot be published.
Serve(r, reply) ==
    /\ reply \in Replies(r)
    /\ sold' = IF r.kind = "create" /\ reply = "done"
                 THEN [sold EXCEPT ![r.key] = r.terms] ELSE sold
    /\ published' = IF r.kind = "publish" /\ reply = "done"
                      THEN published \cup {r.key} ELSE published

ServeLate ==
    \E r \in late : \E reply \in Reply :
        /\ Serve(r, reply)
        /\ late' = late \ {r}

\* The callers of these requests stop waiting: each one is lost or late.
Abandon(requests) ==
    \E kept \in SUBSET requests :
        /\ late' = late \cup kept
        /\ Cardinality(late') <= MaxLate
=============================================================================
