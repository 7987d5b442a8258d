SPECIFICATION Spec
CONSTANTS
    Products = {p1, p2}
    InitialStock <- TwoOfEach
    Adjustments <- NoAdjustments
    EditedProducts = {}
    MaxOnHand = 2
    MaxMovements = 0
    Orders = {o1}
    Methods = {"mercado_pago"}
    Carts <- SingleUnits
    BuyerDetails = {"email"}
    SnapshotKinds = {"approved", "rejected", "cancelled", "pending", "refunded", "partially_refunded", "other", "fee_mismatch", "mismatch", "unavailable"}
    ProviderPayments = {mp1, mp2}
    NoProviderPayment = NoProviderPayment
    MaxLineQuantity = 1
INVARIANTS
    MoneyFollowsSale
PROPERTIES
    OpenSaleCanBePaid
    DoubtLeavesIssue
    EndsAreFinal
CHECK_DEADLOCK FALSE
