SPECIFICATION FairSpec
CONSTANTS
  Client = {c1, c2}
  Boot = boot
  Nobody = nobody
  Inputs <- MCInputs
  Blobs <- MCBlobs
  Pool = 1
  StoreCap = 1
  MaxKey = 2
  Provers = {p, q}
  HaProvers = {p, q}
  Setups <- MCSetups
INVARIANTS TypeOK SignedBatchSound KeyTracked OneLoopPerKey ProversLeft
PROPERTIES KeysSettle RequestsAnswered ChallengeSettles
CHECK_DEADLOCK FALSE
