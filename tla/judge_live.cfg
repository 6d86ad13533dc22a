SPECIFICATION FairSpec
CONSTANTS
  a = a  b = b  pair = pair
  w1 = w1  w2 = w2  c1 = c1  c2 = c2  r1 = r1  r2 = r2
  Subs <- OneSub
  NoSub = NoSub
  Pairs <- MCPairs
  PairOf <- MCPairOf
  Verdicts <- MCVerdicts
  Outcomes <- MCOutcomes
  Home <- MCHome
  Procs <- OneProc
  Consumers <- OneConsumer
  Reclaimers <- OneReclaimer
  NoTestCases = {}
  MaxId = 4
  MaxDeliveries = 2
  ClaimBatch = 2
  DepthLimit = 2
  SlowWorkers = TRUE
  FaultKinds = {"crash", "redis", "executor"}
  MaxFaults = 3
PROPERTIES
  RemovedOnlyWhenJudged
  AcceptedIsJudged
  EveryDeliveryIsAcked
CHECK_DEADLOCK FALSE
