SPECIFICATION FairSpec
CONSTANTS
  x1 = x1  r1 = r1  r2 = r2
  nl = nl  sp = sp  a = a  b = b
  NewLine = nl
  Blank <- Blanks
  Expected <- TheAnswer
  Outputs <- Printed
  OutputLimit = 6
  Executors = {x1}
  Requests = {r1, r2}
  TimeLimits = {3}
  CallBudget <- Budgets
  MaxConcurrent = 1
  CompileTimeout = 1
  RunTimeout = 1
  RunTimeoutMax = 2
  WriteTimeout = 1
  LifetimeGrace = 0
  ReapSlack = 0
  TailTime = 1
  MaxFaults = 1
INVARIANTS
  TypeOK
  SlotsAreHeld
  InUseIsUp
  VerdictIsEarned
PROPERTIES
  LeaksEnd
  EveryCallEnds
CHECK_DEADLOCK FALSE
