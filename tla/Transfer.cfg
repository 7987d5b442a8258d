SPECIFICATION Spec
CONSTANTS
    Products = {p1}
    InitialStock <- TwoOfEach
    Adjustments <- NoAdjustments
    EditedProducts = {}
    MaxOnHand = 2
    MaxMovements = 0
    Orders = {o1, o2, o3}
    Methods = {"bank_transfer"}
    Carts <- SingleUnits
    BuyerDetails = {"phone"}
    SnapshotKinds = {}
    ProviderPayments = {}
    NoProviderPayment = NoProviderPayment
    MaxLineQuantity = 1
SYMMETRY OrderSymmetry
INVARIANTS
    TypeOK
    ReservedIsHeld
    OpenSaleHoldsCart
    ReviewHasReceipt
PROPERTIES
    ReissueKeepsUnits
CHECK_DEADLOCK FALSE
