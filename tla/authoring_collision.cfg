SPECIFICATION Spec
CONSTANTS
  m1 = m1  m2 = m2  s1 = s1
  x = x  y = y  head = head
  empty = empty  spaces = spaces  caseRule = caseRule  halfRule = halfRule
  Nil = Nil  Failed = Failed
  Words = {x, y, head}
  HeaderWords = {head}
  Empty = empty
  Spaces = spaces
  CaseRule = caseRule
  HalfRule = halfRule
  MaxImportCases = 2
  MaxFieldLines = 3
  Admins = {m1, m2}
  Slugs = {s1}
  EditorOf <- FirstProblem
  Instants = {1, 3}
  st = st
  Statements = {st}
  Files = {}
  Cases = {}
  Typed = {}
  MaxTestCasesPerRequest = 2
  MaxCalls = 2
  MaxEntries = 0
  MaxOrd = 8
  MaxFaults = 0
INVARIANT NeverCollides
CHECK_DEADLOCK FALSE
