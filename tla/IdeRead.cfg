CONSTANTS
    Byte = 2
    RtcPeriod = 2
    Cells = 2
    FifoSize = 1
    Data = {0, 1}
    Words = 2
    Sectors = 2
    Blocks = 3
    PacketWords = 2
    MaxCount = 3
    Bits <- MCBits
    Pages = 2
    PageBytes = 1
    ReadArray <- MCReadArray
    ReadId <- MCReadId
    ReadStatus <- MCReadStatus
    ClearStatus <- MCClearStatus
    ByteProgram <- MCByteProgram
    EraseSetup <- MCEraseSetup
    EraseConfirm <- MCEraseConfirm
    Frames = 4
    VblankPeriod = 2
    Times = 3
    RamSize = 16
    Ram <- MCRam
    MaxDwords = 8
    Drivers = {"hdd"}
    PitModes = {0, 2}
    SectorCounts = {0, 3}
    Commands <- MCCommands
    GuestPuts = {0, 3, 5, 12}
    Starts = {0, 3}
    AtapiOps = {"test", "answer", "bad"}
    Headers <- MCHeaders
    NextFence <- MCNextFence
    Trail <- MCTrail
SPECIFICATION Spec
INVARIANT ReadDeliversAll
