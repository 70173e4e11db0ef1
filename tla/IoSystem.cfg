CONSTANTS
    Ids = {i1, i2}
    Handles = {h1, h2}
    RawHandles = {r1}
CHECK_DEADLOCK FALSE
SPECIFICATION FairSpec
INVARIANTS TypeOK NoRequestLost WorkIsNoticed HeldIsMapped
PROPERTIES Answered ImplementsService
