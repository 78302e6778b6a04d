SPECIFICATION Spec
CONSTANTS
    Word32 = 4
    MaxAddr = 12
    Files = {"/prog", "/lib"}
    Program = "/prog"
    Self = "/ftrace"
    Disks <- MCDisks
    Layouts <- MCLayouts
    Peek = 2
    Ones = {11}
    Lookalikes = {5}
    Garbled <- MCGarbled
INVARIANTS
    TypeOK
    WalksEnd
    CachedOnce
    MainIsNamed
    KnownIsNamed
