SPECIFICATION Spec
CONSTANTS
  BasePaths = {"p"}
  JsonPath = "plain.json"
  Invocations <- MCInvocations
  MaxRuns = 3
  MaxBlocks = 3
  BlockCapacity = 1
INVARIANTS TypeOK ServiceFitsRuntime
PROPERTIES
  PersistentChainsAreKept
  RunsWithoutBasePathStartAfresh
  
  NoServiceWithoutItsTasks
  
CHECK_DEADLOCK FALSE
