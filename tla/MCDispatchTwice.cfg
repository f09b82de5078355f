SPECIFICATION Spec
CONSTANTS
    Batch <- MCBatch
    Slot <- MCSlot
    Foreign = {}
    MaxNonce = 2
    MaxFee = 2
    MaxFault = 1
    MaxCrash = 1
    MaxReorg = 0
    CanPanic = FALSE
    PromptLoop = TRUE
INVARIANT OneWorkerPerBatch
