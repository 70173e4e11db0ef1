CONSTANTS
    HeapUnits = 2
    MaxThreads = 3
    MaxDpcs = 2
    MaxOpens = 2
    Files = {"a", "b"}
    FileSize = 2
    Titles = {{"threads", "memory"}, {"dpcs"}, {"files"}}
    Modes = {"hle", "lle", "llek", "nbox"}
SPECIFICATION Spec
INVARIANTS TypeOK MenuIsQuiet DpcsOnce ThreadsApart FileReads
PROPERTIES UiLive Scheduled
