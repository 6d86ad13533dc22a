SPECIFICATION Spec
CONSTANTS
  a = a  b = b  pair = pair
  w1 = w1  w2 = w2  c1 = c1  c2 = c2  r1 = r1  r2 = r2
  Subs <- OneSub
  NoSub = NoSub
  Pairs <- MCPairs
  PairOf <- MCPairOf
  Verdicts <- MCVerdicts
  Outcomes <- MCOutcomes
  Home <- MCHome
  Procs <- TwoProcs
  Consumers <- OneConsumer
  Reclaimers <- TwoReclaimers
  NoTestCases = {}
  MaxId = 3
  MaxDeliveries = 1
  ClaimBatch = 2
  DepthLimit = 2
  SlowWorkers = FALSE
  FaultKinds = {"crash", "redis", "executor"}
  MaxFaults = 3
INVARIANTS
  NoLostWork
  ExclusiveHandling
PROPERTIES
  OnlyPoisonIsDeadLettered
CHECK_DEADLOCK FALSE
