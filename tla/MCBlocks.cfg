SPECIFICATION FairSpec
CONSTANTS
    MaxBlock = 3
    SafeBlocks = 0
    CatchupBatch = 2
    ColdBatch = 2
    Retention = 1
    UnwindEnv = {0, 2}
    InitRemote = {2}
    TxCount <- MCTxCount
    Batch = {1, 2}
    BlocksOf <- MCBlocksOf
    Workers = 2
    InitCkpt = {1}
    MaxKey = 2
    MaxFaults = 2
INVARIANTS TypeOK StaticFollowsMdbx BytesMatch ColdBehindTip NoBlockLost NoRowLeaks
PROPERTY BlocksAnswered
CHECK_DEADLOCK FALSE
