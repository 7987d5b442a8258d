----------------------------- MODULE StockPromise -----------------------------
(***************************************************************************)
(* What the sales of one inventory promise about its stock, with no        *)
(* counters, reservation rows, payments or messages: a sale holds its      *)
(* cart while it is open, sells it at most once, and never holds a unit    *)
(* that another open sale holds or that is not on the shelf.  There is no  *)
(* "reserved" column here: what is promised is computed from the sales,    *)
(* so an implementation that keeps one has to keep it in step.             *)
(***************************************************************************)
EXTENDS Integers, FiniteSets

CONSTANTS
    Products,       \* what is sold
    Sales,          \* the sales that may be made
    Carts,          \* units of each product
    MaxQuantity,    \* the largest quantity of a line
    FirstStock,     \* units on the shelf at first
    Adjustments     \* what the seller may add to or take from the shelf

VARIABLES
    shelf,  \* units of each product the seller has
    phase,  \* of each sale
    cart    \* of each sale

promiseVars == <<shelf, phase, cart>>

NoCart == [p \in Products |-> 0]

PromisedUnits(p) ==
    {u \in Sales \X (1..MaxQuantity) : phase[u[1]] = "open" /\ u[2] <= cart[u[1]][p]}

Promised(p) == Cardinality(PromisedUnits(p))

Fits(c) == \A p \in Products : Promised(p) + c[p] <= shelf[p]

Init ==
    /\ shelf = FirstStock
    /\ phase = [s \in Sales |-> "none"]
    /\ cart = [s \in Sales |-> NoCart]

Open(s, c) ==
    /\ phase[s] = "none"
    /\ Fits(c)
    /\ phase' = [phase EXCEPT ![s] = "open"]
    /\ cart' = [cart EXCEPT ![s] = c]
    /\ UNCHANGED shelf

\* A closed sale may come back, a lapsed one may not.
Close(s) ==
    /\ phase[s] = "open"
    /\ \E end \in {"closed", "lapsed"} : phase' = [phase EXCEPT ![s] = end]
    /\ UNCHANGED <<shelf, cart>>

Reopen(s) ==
    /\ phase[s] = "closed"
    /\ Fits(cart[s])
    /\ phase' = [phase EXCEPT ![s] = "open"]
    /\ UNCHANGED <<shelf, cart>>

\* The place of an open sale is taken by a new one with the same cart.
Replace(s, n) ==
    /\ phase[s] = "open"
    /\ phase[n] = "none"
    /\ phase' = [phase EXCEPT ![s] = "closed", ![n] = "open"]
    /\ cart' = [cart EXCEPT ![n] = cart[s]]
    /\ UNCHANGED shelf

Sell(s) ==
    /\ phase[s] = "open"
    /\ phase' = [phase EXCEPT ![s] = "sold"]
    /\ shelf' = [p \in Products |-> shelf[p] - cart[s][p]]
    /\ UNCHANGED cart

\* The money goes back, the units do not.
Refund(s) ==
    /\ phase[s] = "sold"
    /\ phase' = [phase EXCEPT ![s] = "refunded"]
    /\ UNCHANGED <<shelf, cart>>

\* The seller may take only what is not promised.
Restock(p, n) ==
    /\ shelf[p] + n >= Promised(p)
    /\ shelf' = [shelf EXCEPT ![p] = @ + n]
    /\ UNCHANGED <<phase, cart>>

Next ==
    \/ \E s \in Sales :
          \/ \E c \in Carts : Open(s, c)
          \/ \E n \in Sales : Replace(s, n)
          \/ Close(s)
          \/ Reopen(s)
          \/ Sell(s)
          \/ Refund(s)
    \/ \E p \in Products, n \in Adjustments : Restock(p, n)

Spec == Init /\ [][Next]_promiseVars
=============================================================================
