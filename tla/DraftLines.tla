----------------------------- MODULE DraftLines -----------------------------
(***************************************************************************)
(* The lines of a sale being drafted, as the two wizards edit and check    *)
(* them: lineFromProduct, validateDraftLines and discountedPrice of the    *)
(* web (sales/model.ts, sales/NewSalePage.tsx) beside createSaleDraftLine, *)
(* validateSaleDraftLines and calculateDiscountedPrice of the mobile       *)
(* application (lib/sales-draft.ts, ventas/nueva.tsx).                     *)
(*                                                                         *)
(* A product may be on several lines at different prices.  Each line keeps *)
(* the availability it was added with, which may have changed since.  Text *)
(* that is no number is the value Text: no quantity and no price.            *)
(***************************************************************************)
EXTENDS Integers, Sequences, FiniteSetsExt, SequencesExt

CONSTANTS
    Products,
    References,     \* reference prices, in pesos
    Discounts,      \* percentages that may be typed, of any size
    Prices,         \* prices that may be typed
    MaxAvailable,   \* bound: units of a product at the shop
    MaxQuantity,    \* bound: units typed in a line
    MaxLines        \* bound: lines of the draft

LinesAssumption ==
    /\ References \subseteq Nat /\ Discounts \subseteq Nat
    /\ Prices \subseteq Nat
    /\ MaxAvailable \in Nat /\ MaxQuantity \in Nat \ {0} /\ MaxLines \in Nat

VARIABLES
    client,     \* the application in use: "web" or "mobile"
    lines,      \* the lines of the draft
    atShop      \* available units of each product as the search shows them

vars == <<client, lines, atShop>>

Text == -1      \* typed, but no number
NoDiscount == -2      \* no discount typed

Line ==
    [product : Products, available : 0..MaxAvailable, quantity : Text..MaxQuantity,
     reference : References, price : Nat \cup {Text}, discount : Discounts \cup {NoDiscount}]

TypeOK ==
    /\ client \in {"web", "mobile"}
    /\ lines \in Seq(Line) /\ Len(lines) <= MaxLines
    /\ atShop \in [Products -> 0..MaxAvailable]

Init ==
    /\ client \in {"web", "mobile"}
    /\ lines = <<>>
    /\ atShop \in [Products -> 0..MaxAvailable]

----------------------------------------------------------------------------
(* Prices.                                                                 *)

\* Math.round(reference * (1 - discount / 100))
Rounded(reference, discount) == (2 * reference * (100 - discount) + 100) \div 200

\* A discount that is no percentage gives the reference price back.
WebDiscountedPrice(reference, discount) ==
    IF discount \in 0..100 THEN Rounded(reference, discount) ELSE reference

\* A discount that is no percentage leaves the price of the line alone.
MobileDiscountedPrice(l, discount) ==
    IF discount \in 0..100 THEN Rounded(l.reference, discount) ELSE l.price

----------------------------------------------------------------------------
(* Validation.                                                             *)

LinesOf(p) == {i \in DOMAIN lines : lines[i].product = p}

Quantity(i) == lines[i].quantity

\* The error under a line: the quantity is a positive integer, the price an
\* amount in pesos.
LineError(l) == l.quantity < 1 \/ l.price < 0

\* Fault: each line is compared with the availability on its own.
WebPerLineError(p) == \E i \in LinesOf(p) : Quantity(i) > lines[i].available

\* Web: the sum of all the lines, compared with what each of them shows.
WebProductError(p) ==
    \E i \in LinesOf(p) : MapThenSumSet(Quantity, LinesOf(p)) > lines[i].available

WebValid ==
    /\ lines # <<>>
    /\ \A i \in DOMAIN lines : ~LineError(lines[i])
    /\ \A p \in Products : ~WebProductError(p)

\* Mobile: the sum of the lines with a quantity, compared with the smallest
\* availability among them.
MobileProductError(p) ==
    LET counted == {i \in LinesOf(p) : Quantity(i) > 0} IN
    /\ counted # {}
    /\ MapThenSumSet(Quantity, counted) > Min({lines[i].available : i \in counted})

MobileValid ==
    /\ lines # <<>>
    /\ \A i \in DOMAIN lines : ~LineError(lines[i])
    /\ \A p \in Products : ~MobileProductError(p)

----------------------------------------------------------------------------
(* Editing.                                                                *)

NewLine(p, reference) ==
    [product |-> p, available |-> atShop[p], quantity |-> 1,
     reference |-> reference, price |-> reference, discount |-> NoDiscount]

MobileNewLine(p, reference) ==
    [product |-> p, available |-> atShop[p], quantity |-> 1,
     reference |-> reference, price |-> reference, discount |-> NoDiscount]

AddLineWeb(p, reference) ==
    /\ client = "web" /\ Len(lines) < MaxLines /\ atShop[p] >= 1
    /\ lines' = Append(lines, NewLine(p, reference))
    /\ UNCHANGED <<client, atShop>>

AddLineMobile(p, reference) ==
    /\ client = "mobile" /\ Len(lines) < MaxLines /\ atShop[p] > 0
    /\ lines' = Append(lines, MobileNewLine(p, reference))
    /\ UNCHANGED <<client, atShop>>

\* "Agregar otra línea de precio": the same product and price, one unit.
DuplicateLine(i) ==
    /\ client = "mobile" /\ Len(lines) < MaxLines
    /\ lines' = Append(lines, [lines[i] EXCEPT !.quantity = 1, !.discount = NoDiscount])
    /\ UNCHANGED <<client, atShop>>

RemoveLine(i) ==
    /\ lines' = RemoveAt(lines, i)
    /\ UNCHANGED <<client, atShop>>

EditQuantity(i, q) ==
    /\ q # lines[i].quantity
    /\ lines' = [lines EXCEPT ![i].quantity = q]
    /\ UNCHANGED <<client, atShop>>

\* A price typed by hand forgets the discount.
EditPrice(i, price) ==
    /\ lines' = [lines EXCEPT ![i].price = price, ![i].discount = NoDiscount]
    /\ UNCHANGED <<client, atShop>>

EditDiscountWeb(i, d) ==
    /\ client = "web"
    /\ lines' = [lines EXCEPT ![i].discount = d,
                              ![i].price = WebDiscountedPrice(lines[i].reference, d)]
    /\ UNCHANGED <<client, atShop>>

EditDiscountMobile(i, d) ==
    /\ client = "mobile"
    /\ lines' = [lines EXCEPT ![i].discount = d,
                              ![i].price = MobileDiscountedPrice(lines[i], d)]
    /\ UNCHANGED <<client, atShop>>

\* Other sales take and return units while the draft is written.
StockMoves(p, n) ==
    /\ n # atShop[p]
    /\ atShop' = [atShop EXCEPT ![p] = n]
    /\ UNCHANGED <<client, lines>>

Next ==
    \/ \E p \in Products, r \in References : AddLineWeb(p, r) \/ AddLineMobile(p, r)
    \/ \E i \in DOMAIN lines :
          \/ DuplicateLine(i) \/ RemoveLine(i)
          \/ \E q \in Text..MaxQuantity : EditQuantity(i, q)
          \/ \E price \in Prices \cup {Text} : EditPrice(i, price)
          \/ \E d \in Discounts : EditDiscountWeb(i, d) \/ EditDiscountMobile(i, d)
    \/ \E p \in Products, n \in 0..MaxAvailable : StockMoves(p, n)

Spec == Init /\ [][Next]_vars

----------------------------------------------------------------------------
(* Properties.                                                             *)

\* A draft that may go on asks for no more units of a product, over all its
\* lines, than the smallest availability the seller was shown.
ValidFitsStock ==
    WebValid =>
        \A p \in Products : \A i \in LinesOf(p) :
            MapThenSumSet(Quantity, LinesOf(p)) <= lines[i].available

\* The two applications, which check the lines in different ways, agree on
\* which drafts may go on: a draft sold on one could be sold on the other.
ValidatorsAgree == WebValid <=> MobileValid

\* As long as a percentage stands beside a price, it explains the price, to
\* the nearest peso: the two fields are never from different edits.
DiscountExplainsPrice ==
    \A i \in DOMAIN lines :
        LET l == lines[i] IN
        l.discount \in 0..100 =>
            2 * (100 * l.price - l.reference * (100 - l.discount)) \in -99..100
=============================================================================
