SPECIFICATION Spec
CONSTANTS
    Final = 5
    MaxSent = 2
    Executables = {"good", "unmappable", "unsupported", "corrupt"}
    Programs <- MCAllPrograms
INVARIANTS
    TypeOK
    NothingSkipped
    ShownInOrder
    ShownWasExecuted
    ResultIsFresh
    BegunGraphIsClosed
    StrayMeansNoGraph
    CommandDoesNotOutlive
    InterruptSparesStopped
    GivenUpProcessLives
CHECK_DEADLOCK FALSE
