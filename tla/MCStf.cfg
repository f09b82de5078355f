SPECIFICATION Spec
CONSTANTS
  Addr <- MCKeys
  Slot <- MCKeys
  Scenarios <- MCScenarios
  Sources <- AllSources
  InlinePath = 1
  Nobody = nobody
  Batches <- MCBatches
  BytesPerField = 3
  FieldsPerBlob = 4
  FetchBatchSize = 2
INVARIANTS
  WitnessSuffices
  ReadsRight
  SparseSound
  BatchDecodes
  MerkleRootBinds
CHECK_DEADLOCK FALSE
