SPECIFICATION FairSpec
CONSTANTS
  ann = ann  bob = bob  cid = cid  p1 = p1  p2 = p2
  s1 = s1  s2 = s2  r1 = r1  r2 = r2
  Users = {ann, bob}
  Problems = {p1, p2}
  SqlName <- Alphabetical
  GoName <- Alphabetical
  Member <- Alphabetical
  Scorers = {s1, s2}
  Readers = {r1}
  Limit = 2
  Elapsed <- Skewed
  Attempts = {0, 1}
  Surcharge = 1
  MaxPenalty = 2
  Weight = 5
  MaxSolves = 2
  FaultKinds = {"redis", "db", "crash"}
  MaxFaults = 1
INVARIANTS
  TypeOK
  Truthful
  RanksLikeSql
  CutIsRight
PROPERTIES
  Settles
CHECK_DEADLOCK FALSE
