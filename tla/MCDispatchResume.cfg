SPECIFICATION FairSpec
CONSTANTS
    Batch <- MCBatch
    Slot <- MCSlot
    Foreign = {}
    MaxNonce = 3
    MaxFee = 2
    MaxFault = 0
    MaxCrash = 1
    MaxReorg = 0
    CanPanic = FALSE
    PromptLoop = TRUE
PROPERTY EveryBatchFinalized
