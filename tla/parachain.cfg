SPECIFICATION Spec
CONSTANTS
  Accounts = {"alice", "bob", "charlie"}
  GenesisInvulnerables <- MCGenesis
  Period = 2
  KickThreshold = 2
  MinEligibleCollators = 1
  MaxCandidates = 2
  MaxInvulnerables = 2
  MaxInstructions = 5
  MaxPrefixes = 2
  MAXIMUM_BLOCK_WEIGHT = 12
  AVERAGE_ON_INITIALIZE = 1
  BlockExecutionWeight = 1
  ExtrinsicBaseWeight = 1
  Messages <- MCMessages
  Programs <- MCPrograms
  Calls <- MCCalls
  ExtrinsicWeights = {2, 5}
  UnitWeightCost = 1
  MaxQueue = 2
  MaxExtrinsics = 3
  MaxBlock = 6
INVARIANTS TypeOK LimitsAreKept OnlyRelayGoverns
PROPERTIES AuthorsAreKept EligibleFloor
CHECK_DEADLOCK FALSE
