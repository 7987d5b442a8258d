SPECIFICATION Spec
CONSTANTS
    Clients = {"web", "mobile"}
    Names = {n1, n2}
    Quantities = {0, 1}
    Photos = {}
    Limit = 2
    MaxKeys = 2
    None = None
INVARIANTS
    ResendIsAnswered
CHECK_DEADLOCK FALSE
