SPECIFICATION Spec
CONSTANTS
    Batch <- MCBatch
    Slot <- MCSlot
    Foreign = {}
    MaxNonce = 2
    MaxFee = 1
    MaxFault = 1
    MaxCrash = 1
    MaxReorg = 1
    CanPanic = TRUE
    PromptLoop = FALSE
INVARIANTS
    NoncesDistinct
    GateIsOwned
