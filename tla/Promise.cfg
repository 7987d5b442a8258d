SPECIFICATION Spec
CONSTANTS
    Products = {p1}
    InitialStock <- TwoOfEach
    Adjustments <- TakeOne
    EditedProducts = {p1}
    MaxOnHand = 2
    MaxMovements = 1
    Orders = {o1, o2}
    Methods = {"cash", "mercado_pago"}
    Carts <- OneOrTwo
    BuyerDetails = {"email"}
    SnapshotKinds = {"approved"}
    ProviderPayments = {mp1, mp2}
    NoProviderPayment = NoProviderPayment
    MaxLineQuantity = 2
SYMMETRY ReportSymmetry
INVARIANTS
    NoOversell
PROPERTIES
    ArchiveFindsNoHold
    KeepsPromise
CHECK_DEADLOCK FALSE
