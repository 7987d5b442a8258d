SPECIFICATION JobSpec
CONSTANTS
    Products = {p1}
    InitialStock <- TwoOfEach
    Adjustments <- NoAdjustments
    EditedProducts = {}
    MaxOnHand = 2
    MaxMovements = 0
    Orders = {o1, o2}
    Methods = {"bank_transfer", "mercado_pago"}
    Carts <- SingleUnits
    BuyerDetails = {"email"}
    SnapshotKinds = {"approved"}
    ProviderPayments = {mp1}
    NoProviderPayment = NoProviderPayment
    MaxLineQuantity = 1
    Limit = 1
PROPERTIES
    LapsedSaleCloses
CHECK_DEADLOCK FALSE
