------------------------------- MODULE Stock -------------------------------
(***************************************************************************)
(* The stock of one inventory: backend/apps/inventory/services.py.         *)
(*                                                                         *)
(* A product has a balance (StockBalance: on_hand, reserved) and a         *)
(* catalogue status.  Sales move the balance through reserve_stock,        *)
(* release_stock and consume_stock; the seller moves it by appending an    *)
(* immutable StockMovement.  Every writer of a balance holds that          *)
(* balance's row lock until it commits, so a balance update is one step.   *)
(* The catalogue status is different: the sale and the movement read it    *)
(* WITHOUT a lock before they take the balance, so both are split in two   *)
(* steps here and an archive_product may commit between them.              *)
(*                                                                         *)
(* A definition marked "Fault" is the one below it as a plausible mistake  *)
(* would have it.  No specification uses it: put in the place of the other *)
(* it makes a run fail, which shows that the run can tell the two apart.   *)
(***************************************************************************)
EXTENDS Integers, FiniteSets

CONSTANTS
    Products,       \* the products of the inventory
    InitialStock,   \* the units of the first movement, made with the product
    Adjustments,    \* the signed quantities a seller's movement may have
    EditedProducts, \* the products whose catalogue entry the seller edits
    MaxOnHand,      \* bound: the units one product may reach by a movement
    MaxMovements    \* bound: the seller's movements in flight at once

ASSUME StockAssumption ==
    /\ InitialStock \in [Products -> Nat]
    /\ Adjustments \subseteq Int
    /\ EditedProducts \subseteq Products
    /\ MaxOnHand \in Nat
    /\ MaxMovements \in Nat

VARIABLES
    onHand,     \* StockBalance.on_hand
    reserved,   \* StockBalance.reserved
    adjusted,   \* the sum of the StockMovement rows that are not sales
    catalog,    \* Product.catalog_status
    moving      \* movements whose product was found unarchived, not yet appended

stockVars == <<onHand, reserved, adjusted, catalog, moving>>

CatalogStatus == {"active", "inactive", "archived"}

Movement == [product : Products, quantity : Adjustments]

StockTypeOK ==
    /\ onHand \in [Products -> Int]
    /\ reserved \in [Products -> Int]
    /\ adjusted \in [Products -> Int]
    /\ catalog \in [Products -> CatalogStatus]
    /\ moving \in SUBSET Movement

StockInit ==
    /\ onHand = InitialStock
    /\ reserved = [p \in Products |-> 0]
    /\ adjusted = InitialStock
    /\ catalog = [p \in Products |-> "active"]
    /\ moving = {}

----------------------------------------------------------------------------
(* What a sale asks of the balances.  A request gives the aggregate        *)
(* quantity of each product; a product with quantity 0 is not in it.       *)

Available(p) == onHand[p] - reserved[p]

CanReserve(req) == \A p \in Products : req[p] > 0 => req[p] <= Available(p)

CanRelease(req) == \A p \in Products : req[p] > 0 => req[p] <= reserved[p]

CanConsume(req) ==
    \A p \in Products : req[p] > 0 => req[p] <= reserved[p] /\ req[p] <= onHand[p]

ReserveStock(req) ==
    /\ CanReserve(req)
    /\ reserved' = [p \in Products |-> reserved[p] + req[p]]
    /\ UNCHANGED <<onHand, adjusted, catalog, moving>>

ReleaseStock(req) ==
    /\ CanRelease(req)
    /\ reserved' = [p \in Products |-> reserved[p] - req[p]]
    /\ UNCHANGED <<onHand, adjusted, catalog, moving>>

\* Fault: the reservation is closed and the units stay on hand.
ConsumeReservedOnly(req) ==
    /\ CanConsume(req)
    /\ reserved' = [p \in Products |-> reserved[p] - req[p]]
    /\ UNCHANGED <<onHand, adjusted, catalog, moving>>

ConsumeStock(req) ==
    /\ CanConsume(req)
    /\ reserved' = [p \in Products |-> reserved[p] - req[p]]
    /\ onHand' = [p \in Products |-> onHand[p] - req[p]]
    /\ UNCHANGED <<adjusted, catalog, moving>>

----------------------------------------------------------------------------
(* The seller's movements: entry, exit, shrinkage and correction.          *)

\* record_stock_movement finds the product unarchived, with no lock on it.
BeginMovement(p, n) ==
    /\ catalog[p] # "archived"
    /\ Cardinality(moving) < MaxMovements
    /\ moving' = moving \cup {[product |-> p, quantity |-> n]}
    /\ UNCHANGED <<onHand, reserved, adjusted, catalog>>

\* Fault: an exit may take what sales hold.
MovementFitsOnHand(m) == onHand[m.product] + m.quantity >= 0

\* A movement may neither go below zero nor below the units sales hold.
MovementFits(m) ==
    /\ onHand[m.product] + m.quantity >= 0
    /\ onHand[m.product] + m.quantity >= reserved[m.product]

AppendMovement(m) ==
    /\ MovementFits(m)
    /\ onHand[m.product] + m.quantity <= MaxOnHand
    /\ onHand' = [onHand EXCEPT ![m.product] = @ + m.quantity]
    /\ adjusted' = [adjusted EXCEPT ![m.product] = @ + m.quantity]
    /\ moving' = moving \ {m}
    /\ UNCHANGED <<reserved, catalog>>

\* INSUFFICIENT_STOCK or STOCK_RESERVED: the transaction is rolled back.
RefuseMovement(m) ==
    /\ ~MovementFits(m)
    /\ moving' = moving \ {m}
    /\ UNCHANGED <<onHand, reserved, adjusted, catalog>>

----------------------------------------------------------------------------
(* The catalogue entry.                                                    *)

SetCatalogStatus(p, status) ==
    /\ catalog[p] # "archived"
    /\ status \in {"active", "inactive"}
    /\ catalog' = [catalog EXCEPT ![p] = status]
    /\ UNCHANGED <<onHand, reserved, adjusted, moving>>

\* Fault: archived whatever sales hold.
ArchiveUnchecked(p) ==
    /\ catalog[p] # "archived"
    /\ catalog' = [catalog EXCEPT ![p] = "archived"]
    /\ UNCHANGED <<onHand, reserved, adjusted, moving>>

ArchiveProduct(p) ==
    /\ catalog[p] # "archived"
    /\ reserved[p] <= 0
    /\ catalog' = [catalog EXCEPT ![p] = "archived"]
    /\ UNCHANGED <<onHand, reserved, adjusted, moving>>

RestoreProduct(p) ==
    /\ catalog[p] = "archived"
    /\ catalog' = [catalog EXCEPT ![p] = "active"]
    /\ UNCHANGED <<onHand, reserved, adjusted, moving>>

CatalogueStep(p) ==
    \/ \E status \in CatalogStatus : SetCatalogStatus(p, status)
    \/ ArchiveProduct(p)
    \/ RestoreProduct(p)

StockStep ==
    \/ \E p \in Products, n \in Adjustments : BeginMovement(p, n)
    \/ \E m \in moving : AppendMovement(m) \/ RefuseMovement(m)
    \/ \E p \in EditedProducts : CatalogueStep(p)
=============================================================================
