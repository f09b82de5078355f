SPECIFICATION Spec
CONSTANTS
    Batch <- MCBatch
    Slot <- MCSlot
    Foreign = {1}
    MaxNonce = 2
    MaxFee = 2
    MaxFault = 1
    MaxCrash = 1
    MaxReorg = 0
    CanPanic = TRUE
    PromptLoop = FALSE
INVARIANTS
    TypeOK
    DoneMeansPreconfirmed
PROPERTY TickerUndoesReverted
