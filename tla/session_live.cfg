SPECIFICATION FairSpec
CONSTANTS
    Final = 4
    MaxSent = 1
    Executables = {"good", "unmappable", "unsupported", "corrupt"}
    Programs <- MCShort
PROPERTIES
    Terminates
    InterruptEnds
CHECK_DEADLOCK FALSE
