SPECIFICATION Spec
CONSTANTS
    None = None
INVARIANTS
    TypeOK
    OneRequestPerKey
    MadeAsSent
    GalleryIsSound
    DoneHasMoved
    TwiceOnlyWhenLost
    EachRowOnce
    RegisteredAsSaid
    OneCheckout
    ReviewIsBacked
    LastSaveStands
PROPERTIES
    EditsKeepTheRest
CHECK_DEADLOCK FALSE
