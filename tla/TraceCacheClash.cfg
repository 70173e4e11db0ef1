CONSTANTS
    Pages = {0, 1}
    RamPages = {0, 1}
    PageSize = 4
    L1Size = 2
    Entries = {0, 4, 5}
    Straddling = {}
    Contents = {"a", "b"}
    Exits <- MCExits
    Spaces = {0}
    MayMap <- FlatOnly
    PgModes = {FALSE}
    TlbSize = 2
    ArenaCap = 3
    NoPage = NoPage
    NotFetched = NotFetched
SPECIFICATION Spec
PROPERTIES EntersCurrentBytes
