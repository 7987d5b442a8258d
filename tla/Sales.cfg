SPECIFICATION Spec
CONSTANTS
    None = None
    NoCart = NoCart
INVARIANTS
    TypeOK
    ShownIsTrue
    NoOrphanSale
    LinesFitStock
    OncePerIntent
    SoldAsAsked
    FreshAfterSuccess
    CorrectionIsAccepted
PROPERTIES
    DoneAsConfirmed
    SavedAsTyped
CHECK_DEADLOCK FALSE
