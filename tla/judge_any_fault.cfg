SPECIFICATION Spec
CONSTANTS
  a = a  b = b  pair = pair
  w1 = w1  w2 = w2  c1 = c1  c2 = c2  r1 = r1  r2 = r2
  Subs <- MCSubs
  NoSub = NoSub
  Pairs <- MCPairs
  PairOf <- MCPairOf
  Verdicts <- MCVerdicts
  Outcomes <- MCOutcomes
  Home <- MCHome
  Procs <- OneProc
  Consumers <- OneConsumer
  Reclaimers <- OneReclaimer
  NoTestCases <- OnlyB
  MaxId = 2
  MaxDeliveries = 1
  ClaimBatch = 2
  DepthLimit = 1
  SlowWorkers = TRUE
  FaultKinds = {"crash", "redis", "executor", "flush", "db"}
  MaxFaults = 2
INVARIANTS
  CreditsAreEarned
PROPERTIES
  ImplementsContract
CHECK_DEADLOCK FALSE
