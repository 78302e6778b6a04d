SPECIFICATION Spec
CONSTANTS
    f1 = f1
    f2 = f2
    f3 = f3
    page = page
    other = other
    Funcs = {f1, f2, f3}
    Stems = {page, other}
    Syscalls = {s}
    Unk = Unk
    Blank = Blank
    HasSymbols = FALSE
    Stem <- MCStem
    Hazards <- LossyHazards
    MaxDepth = 3
    MaxTokens = 13
INVARIANTS RemembersActive OnlyFirstArrowDangles
PROPERTIES NewEdgesFromActive
