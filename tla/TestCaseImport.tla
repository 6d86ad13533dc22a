--------------------------- MODULE TestCaseImport ---------------------------
(***************************************************************************)
(* The parsers of an uploaded file (testcase_import.go).  A text is a      *)
(* sequence of lines; a file is a text, a table of cells, which are texts, *)
(* or an array of objects whose fields are texts or Nil.                   *)
(***************************************************************************)
EXTENDS Integers, Sequences, SequencesExt

CONSTANTS
  Words,           \* lines with something on them
  Empty, Spaces,   \* lines with nothing, and with blanks only
  CaseRule, HalfRule,   \* lines that are only '=' or only '-'
  HeaderWords,     \* the members of Words that look like a heading
  MaxImportCases,
  MaxFieldLines,
  Nil,             \* an absent field
  Failed           \* instead of a list of cases

IsBlank(text) == \A i \in DOMAIN text : text[i] \in {Empty, Spaces}

TestCase(a, b) == [stdin |-> a, expected |-> b]

LooksLikeHeader(a, b) ==
  \A text \in {a, b} : Len(text) = 1 /\ text[1] \in HeaderWords

\* The rows of a table for which Kept(i) holds, as test cases.
CasesOf(rows, Kept(_)) ==
  LET kept == SelectSeq([i \in DOMAIN rows |-> i], Kept)
  IN [k \in DOMAIN kept |-> TestCase(rows[kept[k]][1], rows[kept[k]][2])]

\* Deviation: whatever looks like a header is skipped, in every row.
AnyHeader(i, a, b) == LooksLikeHeader(a, b)

IsHeader(i, a, b) == i = 1 /\ LooksLikeHeader(a, b)

\* Rows may be ragged, but one with something in it needs two columns.
ParseCSVCases(rows) ==
  LET blank(i) == Len(rows[i]) = 0 \/ (Len(rows[i]) = 1 /\ IsBlank(rows[i][1]))
  IN IF \E i \in DOMAIN rows : ~blank(i) /\ Len(rows[i]) < 2 THEN Failed
     ELSE CasesOf(rows, LAMBDA i : ~blank(i) /\ ~IsHeader(i, rows[i][1], rows[i][2]))

\* A sheet leaves out the empty cells at the end of a row.
ParseXLSXCases(rows) ==
  LET cell(i, n) == IF n \in DOMAIN rows[i] THEN rows[i][n] ELSE <<>>
      padded == [i \in DOMAIN rows |-> <<cell(i, 1), cell(i, 2)>>]
  IN CasesOf(padded, LAMBDA i : /\ ~(IsBlank(padded[i][1]) /\ IsBlank(padded[i][2]))
                                /\ ~IsHeader(i, padded[i][1], padded[i][2]))

FirstNonNil(a, b) == IF a # Nil THEN a ELSE IF b # Nil THEN b ELSE <<>>

ParseJSONCases(objects) ==
  [i \in DOMAIN objects |->
     TestCase(FirstNonNil(objects[i].stdin, objects[i].input),
              FirstNonNil(objects[i].expected_output, objects[i].output))]

SplitOnSeparator(text, rule) ==
  FoldLeft(LAMBDA segments, line :
             IF line = rule THEN Append(segments, <<>>)
             ELSE [segments EXCEPT ![Len(segments)] = Append(@, line)],
           << <<>> >>, text)

\* strings.Trim(s, "\n"): lines with blanks stay.
TrimNewLines(text) ==
  LET full == {i \in DOMAIN text : text[i] # Empty}
  IN IF full = {} THEN <<>> ELSE SubSeq(text, Min(full), Max(full))

\* Deviation: what follows a second rule is dropped.
AtLeastTwo(parts) == Len(parts) >= 2

IsOneCase(parts) == Len(parts) = 2

ParseBlockCases(text) ==
  LET blocks == SelectSeq(SplitOnSeparator(text, CaseRule), LAMBDA block : ~IsBlank(block))
      parts == [i \in DOMAIN blocks |-> SplitOnSeparator(blocks[i], HalfRule)]
  IN IF \E i \in DOMAIN parts : ~IsOneCase(parts[i]) THEN Failed
     ELSE [i \in DOMAIN parts |-> TestCase(TrimNewLines(parts[i][1]), TrimNewLines(parts[i][2]))]

ParseTestCases(file) ==
  CASE file.ext = "csv" -> ParseCSVCases(file.data)
    [] file.ext = "xlsx" -> ParseXLSXCases(file.data)
    [] file.ext = "json" -> ParseJSONCases(file.data)
    [] file.ext = "txt" -> ParseBlockCases(file.data)
    [] OTHER -> Failed

ValidTestCaseIO(c) == Len(c.stdin) <= MaxFieldLines /\ Len(c.expected) <= MaxFieldLines

\* What the upload is answered: the cases, or an error and nothing.
ParseUpload(file) ==
  LET cases == ParseTestCases(file)
  IN IF \/ file.data = <<>> \/ cases = Failed
        \/ Len(cases) \notin 1..MaxImportCases
        \/ \E i \in DOMAIN cases : ~ValidTestCaseIO(cases[i])
     THEN Failed ELSE cases

-----------------------------------------------------------------------------
(* Reference: what a reader of the file sees in it, in order.              *)

WordsOf(text) == SelectSeq(text, LAMBDA line : line \in Words)

\* The first two columns without a heading in the first row.
WordsOfTable(rows) ==
  FlattenSeq([i \in DOMAIN rows |->
    LET columns == FlattenSeq(SubSeq(rows[i], 1, IF Len(rows[i]) < 2 THEN Len(rows[i]) ELSE 2))
    IN IF i = 1 /\ Len(columns) = 2 /\ Len(rows[1]) >= 2 /\ {columns[1], columns[2]} \subseteq HeaderWords
       THEN <<>> ELSE WordsOf(columns)])

\* One name for each field, the older one being the first.
WordsOfObjects(objects) ==
  FlattenSeq([i \in DOMAIN objects |->
    LET o == objects[i]
        text(a, b) == IF a = Nil /\ b = Nil THEN <<>> ELSE WordsOf(IF a = Nil THEN b ELSE a)
    IN text(o.stdin, o.input) \o text(o.expected_output, o.output)])

WordsInFile(file) ==
  CASE file.ext = "json" -> WordsOfObjects(file.data)
    [] file.ext = "txt" -> WordsOf(file.data)
    [] OTHER -> WordsOfTable(file.data)

WordsInCases(cases) ==
  FlattenSeq([i \in DOMAIN cases |-> WordsOf(cases[i].stdin) \o WordsOf(cases[i].expected)])

RulesInFile(file) == Len(SelectSeq(file.data, LAMBDA line : line = HalfRule))
=============================================================================
