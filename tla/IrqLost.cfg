CONSTANTS
    DeviceIrqs = {8, 11}
    Masks = {{}}
    TrapIrqs = {}
    InitModes <- MCModes
    AutoEoi = {FALSE}
    MasterSpecific = FALSE
    SlaveSpecific = TRUE
    MaxNest = 2
SPECIFICATION Spec
INVARIANT PendingIsSeen
