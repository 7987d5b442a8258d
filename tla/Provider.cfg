SPECIFICATION Spec
CONSTANTS
    Products = {p1}
    InitialStock <- TwoOfEach
    Adjustments <- NoAdjustments
    EditedProducts = {}
    MaxOnHand = 2
    MaxMovements = 0
    Orders = {o1, o2}
    Methods = {"mercado_pago"}
    Carts <- OneOrTwo
    BuyerDetails = {"email"}
    SnapshotKinds = {"approved", "rejected", "pending", "refunded"}
    ProviderPayments = {mp1, mp2}
    NoProviderPayment = NoProviderPayment
    MaxLineQuantity = 2
SYMMETRY ReportSymmetry
INVARIANTS
    LedgerBalances
    PaidSaleTookCart
    ClosedSaleGaveBack
CHECK_DEADLOCK FALSE
