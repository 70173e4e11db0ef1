CONSTANTS
    DeviceIrqs = {0, 3, 8, 11}
    Masks <- MCMasks
    TrapIrqs = {3}
    InitModes <- MCModes
    AutoEoi = {TRUE, FALSE}
    MasterSpecific = FALSE
    SlaveSpecific = TRUE
    MaxNest = 3
SPECIFICATION Spec
INVARIANTS TypeOK IdleNotInService
PROPERTIES NoSpuriousVector MasterPriority
