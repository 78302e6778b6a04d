SPECIFICATION FairSpec
CONSTANTS
    a = a
    b = b
    n = n
    Chars = {a, b}
    NL = n
    BufSize = 3
    Files <- MCAnyFiles
    MaxOpens = 3
INVARIANTS
    TypeOK
    NothingLost
    OthersAreWhole
    LettersKept
PROPERTY
    CallsReturn
CHECK_DEADLOCK FALSE
