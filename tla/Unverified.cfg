SPECIFICATION Spec
CONSTANTS
    Tabs = {"a", "b"}
    MaxAssets = 2
    None = None
INVARIANTS
    ReadyWasVerified
CHECK_DEADLOCK FALSE
