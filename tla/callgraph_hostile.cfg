SPECIFICATION Spec
CONSTANTS
    f1 = f1
    f2 = f2
    f3 = f3
    page = page
    other = other
    Funcs = {f1, f2}
    Stems = {page, other}
    Syscalls = {s}
    Unk = Unk
    Blank = Blank
    HasSymbols = TRUE
    Stem <- MCStem
    Hazards <- HostileHazards
    MaxDepth = 2
    MaxTokens = 13
INVARIANTS WellFormedDot
