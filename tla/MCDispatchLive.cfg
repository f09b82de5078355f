SPECIFICATION LiveSpec
CONSTANTS
    Batch <- MCBatch
    Slot <- MCSlot
    Foreign = {1}
    MaxNonce = 3
    MaxFee = 2
    MaxFault = 1
    MaxCrash = 1
    MaxReorg = 0
    CanPanic = FALSE
    PromptLoop = TRUE
PROPERTY EveryBatchFinalized
