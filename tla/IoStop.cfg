CONSTANTS
    Ids = {i1, i2}
    Handles = {h1}
    RawHandles = {r1}
CHECK_DEADLOCK FALSE
SPECIFICATION FairSpec
PROPERTIES StopReturns
