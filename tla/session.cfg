SPECIFICATION Spec
CONSTANTS
  t1 = t1  t2 = t2  b1 = b1  b2 = b2
  Tabs = {t1, t2}
  Browsers = {b1, b2}
  MaxTokens = 3
  MaxLogins = 1
  FaultKinds = {"refused", "db", "lost", "reload", "copied"}
  MaxFaults = 1
INVARIANTS
  QuietSession
  RotatedIsDead
  ReuseEndsFamily
CHECK_DEADLOCK FALSE
SYMMETRY SameForAll
