SPECIFICATION Spec
CONSTANTS
    Sizes = {1}
    Stocks = {1}
    MaxStock = 2
    MaxOpenings = 2
    MaxKeys = 4
    None = None
    Reserved = 0
    Screens = {"product"}
INVARIANTS
    DoneHasMoved
CHECK_DEADLOCK FALSE
