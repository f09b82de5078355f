SPECIFICATION Spec
CONSTANTS
    Batch <- MCBatch
    Block <- MCBlock
    Span <- MCSpan
    Tx = {t1, t2}
    L1Block <- MCL1Block
    MaxEpoch = 2
INVARIANTS
    TypeOK
    MemoryMirrorsDb
    SignatureIsDurable
    ResumeFindsSignature
    NoStaleSignature
    ExecutedWorkSurvives
PROPERTIES
    ExternalRowsStay
    ImplementsLifecycle
