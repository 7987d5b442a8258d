---------------------------- MODULE MCSalesOrders ----------------------------
(***************************************************************************)
(* Small instances of SalesOrders: the values the configurations give its  *)
(* constants, and the symmetry of the orders and of the identifiers of the *)
(* provider's payments (nothing tells them apart).                         *)
(***************************************************************************)
EXTENDS SalesOrders, TLC

TwoOfEach == [p \in Products |-> 2]

\* One unit, or two: with two on the shelf, two sales of two collide.
OneOrTwo == {c \in [Products -> 0..2] : \E p \in Products : c[p] > 0}

\* Carts of one unit, of one or of several products.
SingleUnits == {c \in [Products -> 0..1] : \E p \in Products : c[p] > 0}

TakeOne == {-1}

NoAdjustments == {}

OrderSymmetry == Permutations(Orders)

ReportSymmetry == Permutations(Orders) \cup Permutations(ProviderPayments)
=============================================================================
