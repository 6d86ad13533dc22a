----------------------------- MODULE MCAuthoring ----------------------------
(***************************************************************************)
(* Two admins at one contest and the editor of its first problem, and      *)
(* files in every format, good ones and broken ones.                       *)
(***************************************************************************)
EXTENDS Authoring, TLC

CONSTANTS m1, m2, s1, st, x, y, head, empty, spaces, caseRule, halfRule

FirstProblem == [m \in {m1, m2} |-> <<s1, 1>>]

TypedCases == {TestCase(<<x>>, <<>>)}

Uploads == {
  \* Two cases, the second one of two lines and with no output.
  [ext |-> "txt", data |-> <<x, halfRule, y, caseRule, spaces, caseRule, x, empty, y, halfRule, empty>>],
  \* A second rule in a case.
  [ext |-> "txt", data |-> <<x, halfRule, y, halfRule, x>>],
  [ext |-> "csv", data |-> << <<<<head>>, <<head>>>>, <<<<spaces>>>>, <<<<y>>, <<head>>>>, <<<<head>>, <<head>>, <<x>>>> >>],
  \* A row of one column.
  [ext |-> "csv", data |-> << <<<<x>>, <<y>>>>, <<<<x>>>> >>],
  [ext |-> "xlsx", data |-> << <<>>, <<<<y>>>> >>],
  [ext |-> "json", data |-> << [stdin |-> Nil, input |-> <<y>>, expected_output |-> <<y>>, output |-> <<x>>] >>],
  [ext |-> "pdf", data |-> <<x>>] }

AllCases == TypedCases \cup
  {TestCase(<<x>>, <<y>>), TestCase(<<x, empty, y>>, <<>>), TestCase(<<y>>, <<head>>),
   TestCase(<<head>>, <<head>>), TestCase(<<y>>, <<>>), TestCase(<<y>>, <<y>>)}

AdminSymmetry == Permutations({m1, m2})
=============================================================================
