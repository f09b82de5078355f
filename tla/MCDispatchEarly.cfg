SPECIFICATION Spec
CONSTANTS
    Batch <- MCBatch
    Slot <- MCSlot
    Foreign = {}
    MaxNonce = 2
    MaxFee = 2
    MaxFault = 0
    MaxCrash = 0
    MaxReorg = 0
    CanPanic = FALSE
    PromptLoop = TRUE
INVARIANT DoneMeansFinal
