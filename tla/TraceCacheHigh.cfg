CONSTANTS
    Pages = {0, 1}
    RamPages = {0, 1}
    PageSize = 4
    L1Size = 2
    Entries = {0, 2, 4}
    Straddling = {}
    Contents = {"a", "b"}
    Exits <- MCExits
    Spaces = {0}
    MayMap <- HighMap
    PgModes = {TRUE}
    TlbSize = 2
    ArenaCap = 3
    NoPage = NoPage
    NotFetched = NotFetched
SPECIFICATION Spec
PROPERTIES SmcInvalidatesPage
