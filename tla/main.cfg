SPECIFICATION MainSpec
CONSTANTS
    Final = 7
    MaxSent = 2
    Executables = {"good"}
    Programs <- MCPrograms
    Launches <- MCLaunches
    Empty = ""
    Funcs = {"main", "f"}
    Syscalls = {"write", "exit"}
    Unk = "U n K"
    Blank = "blank"
    op <- MCOps
INVARIANTS
    GraphIsTheProgram
    FailureIsReported
    RunsTheFirst
    Inherits
CHECK_DEADLOCK FALSE
