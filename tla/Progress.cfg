SPECIFICATION Spec
CONSTANTS
    None = None
PROPERTIES
    SearchEnds
    ScreensCatchUp
CHECK_DEADLOCK FALSE
