CONSTANTS
    Pages = {0, 1}
    RamPages = {0, 1}
    PageSize = 4
    L1Size = 1
    Entries = {0, 2, 4}
    Straddling = {2}
    Contents = {"a", "b"}
    Exits <- MCExits
    Spaces = {0}
    MayMap <- AnyMap
    PgModes = {TRUE}
    TlbSize = 2
    ArenaCap = 2
    NoPage = NoPage
    NotFetched = NotFetched
SPECIFICATION Spec
INVARIANT LinksAreLive
