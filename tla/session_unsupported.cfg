SPECIFICATION Spec
CONSTANTS
    Final = 4
    MaxSent = 0
    Executables = {"good", "unmappable", "unsupported", "corrupt"}
    Programs <- MCShort
INVARIANT
    UnsupportedIsNotTraced
CHECK_DEADLOCK FALSE
