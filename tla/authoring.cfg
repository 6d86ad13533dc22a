SPECIFICATION Spec
CONSTANTS
  m1 = m1  m2 = m2  s1 = s1
  x = x  y = y  head = head
  empty = empty  spaces = spaces  caseRule = caseRule  halfRule = halfRule
  Nil = Nil  Failed = Failed
  Words = {x, y, head}
  HeaderWords = {head}
  Empty = empty
  Spaces = spaces
  CaseRule = caseRule
  HalfRule = halfRule
  MaxImportCases = 2
  MaxFieldLines = 3
  Admins = {m1, m2}
  Slugs = {s1}
  EditorOf <- FirstProblem
  Instants = {1, 3}
  st = st
  Statements = {st}
  Files <- Uploads
  Cases <- AllCases
  Typed <- TypedCases
  MaxTestCasesPerRequest = 2
  MaxCalls = 4
  MaxEntries = 2
  MaxOrd = 8
  MaxFaults = 1
INVARIANTS
  ScheduleIsConsistent
  OrdsAreContiguous
  WrittenAloneIsStored
  EditorIsHonest
PROPERTY ImportIsWhole
SYMMETRY AdminSymmetry
CHECK_DEADLOCK FALSE
