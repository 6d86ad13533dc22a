------------------------------ MODULE Authoring -----------------------------
(***************************************************************************)
(* Contests, problems and test cases as admins write them (handlers_admin, *)
(* db/contests.go, the test case editor of the frontend, ADR-0015/0016).   *)
(* A position is read with one statement and written with another; a batch *)
(* of test cases is written row by row, without a transaction.             *)
(*                                                                         *)
(* An admin has one call of the API at a time, an upload aside, and the    *)
(* editor of one problem open.                                             *)
(***************************************************************************)
EXTENDS TestCaseImport

CONSTANTS
  Admins,
  Slugs,
  EditorOf,      \* admin -> the problem whose editor is open: a slug, a position
  Instants,      \* the instants that schedules are made of
  Statements,    \* the problems that are written
  Files,         \* what can be uploaded
  Cases,         \* test cases: those that are typed in, those of the files
  Typed,
  MaxTestCasesPerRequest,
  MaxCalls,      \* bound: problems and batches in one behaviour
  MaxEntries,    \* bound: test cases typed and files imported
  MaxOrd,        \* bound: positions in a list
  MaxFaults      \* bound: statements and answers that are lost

ASSUME AuthoringConstants ==
  /\ \A f \in Files : ParseUpload(f) = Failed \/ ParseUpload(f) \in Seq(Cases)
  /\ Typed \subseteq Cases
  /\ EditorOf \in [Admins -> Slugs \X (1..MaxOrd)]
  /\ Slugs \cap (Slugs \X (1..MaxOrd)) = {}
  /\ Instants \subseteq Nat
  /\ {MaxCalls, MaxEntries, MaxOrd, MaxFaults} \subseteq Nat /\ MaxTestCasesPerRequest \in Nat \ {0}
  /\ MaxCalls * MaxTestCasesPerRequest <= MaxOrd

VARIABLES
  contests,   \* slug -> its schedule
  rows,       \* parent -> position -> the problem or the test case there
  pc,         \* admin -> where its call is
  call,       \* admin -> parent, items, first position, rows written
  alone,      \* admin -> history: no other call wrote to the parent meanwhile
  draft,      \* admin -> the test cases in its editor
  file,       \* admin -> the file that is being imported
  fate,       \* admin -> history: where the test cases are that were entered
  acked,      \* history: the rows that were answered with 201
  calls,      \* calls left
  entries,    \* entries left
  faults      \* faults left

editorVars == <<draft, file, fate, entries>>
callVars == <<pc, call, alone>>
vars == <<contests, rows, callVars, editorVars, acked, calls, faults>>

Schedules == {c \in [starts: Instants, ends: Instants] : c.starts < c.ends}
ProblemIds == Slugs \X (1..MaxOrd)
Parents == Slugs \cup ProblemIds
Items == [by: Admins, what: Cases \cup Statements]

NoCall == [parent |-> Nil, items |-> <<>>, ord |-> 0, done |-> 0]

TypeOK ==
  /\ DOMAIN contests \subseteq Slugs /\ \A s \in DOMAIN contests : contests[s] \in Schedules
  /\ DOMAIN rows = Parents
  /\ \A p \in Parents : DOMAIN rows[p] \subseteq 1..MaxOrd /\ Range(rows[p]) \subseteq Items
  /\ pc \in [Admins -> {"idle", "next_problem", "problem", "next_case", "cases"}]
  /\ \A m \in Admins :
       /\ call[m].parent \in Parents \cup {Nil} /\ ToSet(call[m].items) \subseteq Items
       /\ call[m].ord \in 0..MaxOrd /\ call[m].done \in 0..Len(call[m].items)
  /\ alone \in [Admins -> BOOLEAN]
  /\ draft \in [Admins -> Seq(Cases)]
  /\ file \in [Admins -> Files \cup {Nil}]
  /\ fate \in [Admins -> [Cases -> {"new", "draft", "late", "saved", "lost"}]]
  /\ acked \subseteq [parent: Parents, ord: 1..MaxOrd, item: Items, alone: BOOLEAN]
  /\ calls \in 0..MaxCalls /\ entries \in 0..MaxEntries /\ faults \in 0..MaxFaults

Init ==
  /\ contests = <<>>
  /\ rows = [p \in Parents |-> <<>>]
  /\ pc = [m \in Admins |-> "idle"]
  /\ call = [m \in Admins |-> NoCall]
  /\ alone = [m \in Admins |-> TRUE]
  /\ draft = [m \in Admins |-> <<>>]
  /\ file = [m \in Admins |-> Nil]
  /\ fate = [m \in Admins |-> [c \in Cases |-> "new"]]
  /\ acked = {}
  /\ calls = MaxCalls /\ entries = MaxEntries /\ faults = MaxFaults

Put(f, key, value) == [k \in DOMAIN f \cup {key} |-> IF k = key THEN value ELSE f[k]]

Exists(id) == id[1] \in DOMAIN contests /\ id[2] \in DOMAIN rows[id[1]]

-----------------------------------------------------------------------------
(* Contests.                                                               *)

\* Deviation: the times are not compared.
AnyTimes(c) == TRUE

ValidContestTimes(c) == c.ends > c.starts

\* A slug that exists is answered with a conflict.
CreateContest(s, c) ==
  /\ ValidContestTimes(c) /\ s \notin DOMAIN contests
  /\ contests' = Put(contests, s, c)
  /\ UNCHANGED <<rows, callVars, editorVars, acked, calls, faults>>

UpdateContest(s, c) ==
  /\ ValidContestTimes(c) /\ s \in DOMAIN contests
  /\ contests' = [contests EXCEPT ![s] = c]
  /\ UNCHANGED <<rows, callVars, editorVars, acked, calls, faults>>

\* The instants of schedules, and what is before, between and after.
Moments == UNION {{i - 1, i, i + 1} : i \in Instants}

Filters == {"active", "upcoming", "past"}

\* Deviation: a contest is active at the instant of its end.
ListedToTheEnd(filter, c, now) ==
  CASE filter = "active" -> c.starts <= now /\ now <= c.ends
    [] filter = "upcoming" -> now < c.starts
    [] filter = "past" -> c.ends <= now

\* The conditions of ListContests.
Listed(filter, c, now) ==
  CASE filter = "active" -> c.starts <= now /\ now < c.ends
    [] filter = "upcoming" -> now < c.starts
    [] filter = "past" -> c.ends <= now

\* Whether contestants may read a statement, and whether they may submit.
StatementIsOpen(c, now) == ~(now < c.starts)
SubmissionsAreOpen(c, now) == ~(now < c.starts) /\ ~(now > c.ends)

-----------------------------------------------------------------------------
(* Rows: the next position, then the upserts.                              *)

\* Deviations: the highest position, or one too many.
HighestOrd(list) == IF DOMAIN list = {} THEN 0 ELSE Max(DOMAIN list)
AfterNextOrd(list) == HighestOrd(list) + 2

NextOrd(list) == IF DOMAIN list = {} THEN 1 ELSE Max(DOMAIN list) + 1

\* Deviation: every row of a batch goes to the first position.
FirstPosition(k) == k.ord

Position(k) == k.ord + k.done

Begin(m, place, parent, items) ==
  /\ pc[m] = "idle" /\ calls > 0
  /\ pc' = [pc EXCEPT ![m] = place]
  /\ call' = [call EXCEPT ![m] = [parent |-> parent, items |-> items, ord |-> 0, done |-> 0]]
  /\ calls' = calls - 1
  /\ UNCHANGED <<contests, rows, alone, editorVars, acked, faults>>

ReadOrd(m, from, to) ==
  LET others == {n \in Admins \ {m} : pc[n] = to /\ call[n].parent = call[m].parent}
  IN /\ pc[m] = from
     /\ pc' = [pc EXCEPT ![m] = to]
     /\ call' = [call EXCEPT ![m].ord = NextOrd(rows[call[m].parent])]
     /\ alone' = [n \in Admins |-> IF n = m THEN others = {} ELSE alone[n] /\ n \notin others]
     /\ UNCHANGED <<contests, rows, editorVars, acked, calls, faults>>

Upserted(k) == [rows EXCEPT ![k.parent] = Put(@, Position(k), k.items[k.done + 1])]

End(m) ==
  /\ pc' = [pc EXCEPT ![m] = "idle"]
  /\ call' = [call EXCEPT ![m] = NoCall]
  /\ alone' = [alone EXCEPT ![m] = TRUE]

AckedRows(k, a) ==
  {[parent |-> k.parent, ord |-> Position([k EXCEPT !.done = i - 1]),
    item |-> k.items[i], alone |-> a] : i \in DOMAIN k.items}

StartProblem(m, s, statement) ==
  /\ s \in DOMAIN contests
  /\ Begin(m, "next_problem", s, <<[by |-> m, what |-> statement]>>)

NextProblemOrd(m) == ReadOrd(m, "next_problem", "problem")

CreateProblem(m) ==
  /\ pc[m] = "problem"
  /\ rows' = Upserted(call[m])
  /\ acked' = acked \cup AckedRows(call[m], alone[m])
  /\ End(m)
  /\ UNCHANGED <<contests, editorVars, calls, faults>>

\* A batch that is too long is refused as a whole.
Save(m) ==
  /\ Exists(EditorOf[m]) /\ Len(draft[m]) \in 1..MaxTestCasesPerRequest
  /\ \A i \in DOMAIN draft[m] : ValidTestCaseIO(draft[m][i])
  /\ Begin(m, "next_case", EditorOf[m],
           [i \in DOMAIN draft[m] |-> [by |-> m, what |-> draft[m][i]]])

NextTestCaseOrd(m) == ReadOrd(m, "next_case", "cases")

CreateTestCase(m) ==
  /\ pc[m] = "cases" /\ call[m].done < Len(call[m].items)
  /\ rows' = Upserted(call[m])
  /\ call' = [call EXCEPT ![m].done = @ + 1]
  /\ UNCHANGED <<contests, pc, alone, editorVars, acked, calls, faults>>

-----------------------------------------------------------------------------
(* The editor.                                                             *)

\* Deviation: the form is reset when the answer is there, whatever it is.
Reset(m) == draft' = [draft EXCEPT ![m] = <<>>]

\* Deviation: the form is left as it is.
Leave(m) == UNCHANGED draft

AfterError(m) == UNCHANGED draft
AfterSuccess(m) == draft' = [draft EXCEPT ![m] = <<>>]

\* What was entered while the save was under way is in the draft again.
SaveFailed(m) ==
  /\ AfterError(m)
  /\ fate' = [fate EXCEPT ![m] = [c \in Cases |-> IF @[c] = "late" THEN "draft" ELSE @[c]]]
  /\ UNCHANGED <<file, entries>>

\* The draft is emptied, with what was entered meanwhile.
SaveSucceeded(m) ==
  /\ AfterSuccess(m)
  /\ fate' = [fate EXCEPT ![m] =
       [c \in Cases |-> IF [by |-> m, what |-> c] \in ToSet(call[m].items) THEN "saved"
                        ELSE IF @[c] = "late" THEN "lost" ELSE @[c]]]
  /\ UNCHANGED <<file, entries>>

AnswerSave(m) ==
  /\ pc[m] = "cases" /\ call[m].done = Len(call[m].items)
  /\ acked' = acked \cup AckedRows(call[m], alone[m])
  /\ \/ SaveSucceeded(m) /\ UNCHANGED faults
     \/ SaveFailed(m) /\ faults > 0 /\ faults' = faults - 1
  /\ End(m)
  /\ UNCHANGED <<contests, rows, calls>>

\* A statement fails; what it should write may have been written.  What was
\* written before stays.
StatementFails(m) ==
  /\ pc[m] # "idle" /\ faults > 0
  /\ faults' = faults - 1
  /\ \/ UNCHANGED rows
     \/ /\ pc[m] \in {"problem", "cases"} /\ call[m].done < Len(call[m].items)
        /\ rows' = Upserted(call[m])
  /\ IF pc[m] \in {"next_case", "cases"} THEN SaveFailed(m) ELSE UNCHANGED editorVars
  /\ End(m)
  /\ UNCHANGED <<contests, acked, calls>>

\* Everything is entered once, in order to be told from the rest.
Entered(m, cases) ==
  /\ \A c \in ToSet(cases) : fate[m][c] = "new"
  /\ draft' = [draft EXCEPT ![m] = @ \o cases]
  /\ fate' = [fate EXCEPT ![m] =
       [c \in Cases |-> IF c \notin ToSet(cases) THEN @[c]
                        ELSE IF pc[m] \in {"next_case", "cases"} THEN "late" ELSE "draft"]]

Type(m, c) ==
  /\ entries > 0 /\ entries' = entries - 1
  /\ Entered(m, <<c>>)
  /\ UNCHANGED <<contests, rows, callVars, file, acked, calls, faults>>

\* The upload parses and does not write.
ImportFile(m, f) ==
  /\ entries > 0 /\ entries' = entries - 1
  /\ file[m] = Nil
  /\ file' = [file EXCEPT ![m] = f]
  /\ UNCHANGED <<contests, rows, callVars, draft, fate, acked, calls, faults>>

Imported(m) ==
  /\ file[m] # Nil
  /\ LET cases == ParseUpload(file[m])
     IN IF cases = Failed THEN UNCHANGED <<draft, fate>> ELSE Entered(m, cases)
  /\ file' = [file EXCEPT ![m] = Nil]
  /\ UNCHANGED <<contests, rows, callVars, entries, acked, calls, faults>>

ImportFails(m) ==
  /\ file[m] # Nil /\ faults > 0 /\ faults' = faults - 1
  /\ file' = [file EXCEPT ![m] = Nil]
  /\ UNCHANGED <<contests, rows, callVars, draft, fate, entries, acked, calls>>

Next ==
  \/ \E s \in Slugs, c \in [starts: Instants, ends: Instants] :
       CreateContest(s, c) \/ UpdateContest(s, c)
  \/ \E m \in Admins :
       \/ \E s \in Slugs, statement \in Statements : StartProblem(m, s, statement)
       \/ NextProblemOrd(m) \/ CreateProblem(m)
       \/ Save(m) \/ NextTestCaseOrd(m) \/ CreateTestCase(m) \/ AnswerSave(m)
       \/ StatementFails(m)
       \/ \E c \in Typed : Type(m, c)
       \/ \E f \in Files : ImportFile(m, f)
       \/ Imported(m) \/ ImportFails(m)

Spec == Init /\ [][Next]_vars

-----------------------------------------------------------------------------
(* Properties.                                                             *)

\* "Validation mirrors the CHECK constraints", and the three lists and the
\* two gates agree: a contest is in exactly one list at any time, and who may
\* submit may read, and is listed as active or past its last instant.
ScheduleIsConsistent ==
  \A s \in DOMAIN contests, now \in Moments :
    LET c == contests[s]
    IN /\ \E filter \in Filters : {f \in Filters : Listed(f, c, now)} = {filter}
       /\ SubmissionsAreOpen(c, now) =>
            StatementIsOpen(c, now) /\ (Listed("active", c, now) \/ now = c.ends)

\* Positions have no gap, so the judge never runs a later test case without
\* the earlier ones, whoever writes at the same time and whatever fails.
OrdsAreContiguous ==
  \A p \in Parents : DOMAIN rows[p] = 1..Cardinality(DOMAIN rows[p])

\* What was answered to a call that had its list to itself is there for good,
\* and what such a call has written so far is a prefix of its batch.
WrittenAloneIsStored ==
  /\ \A a \in acked : a.alone =>
       a.ord \in DOMAIN rows[a.parent] /\ rows[a.parent][a.ord] = a.item
  /\ \A m \in Admins : pc[m] = "cases" /\ alone[m] =>
       \A i \in 1..call[m].done :
         LET list == rows[call[m].parent]
             ord == call[m].ord + i - 1
         IN ord \in DOMAIN list /\ list[ord] = call[m].items[i]

\* The editor loses nothing through errors: what was entered is in the draft
\* until it is saved, unless it was entered while a save was under way.
EntriesAreKept ==
  \A m \in Admins, c \in Cases : fate[m][c] = "draft" => c \in ToSet(draft[m])

\* Only a failure makes an admin store a test case twice, by its retry.
StoredOnce ==
  faults = MaxFaults =>
    \A m \in Admins, c \in Cases :
      Cardinality({o \in DOMAIN rows[EditorOf[m]] :
                     rows[EditorOf[m]][o] = [by |-> m, what |-> c]}) <= 1

\* The editor and the database agree on what was saved.
EditorIsHonest == EntriesAreKept /\ StoredOnce

\* An import adds every word of the file to the draft, in order, with one
\* case for each rule inside of a case, or it adds nothing.
ImportIsWhole ==
  [][\A m \in Admins : file[m] # Nil /\ file'[m] = Nil =>
       LET added == SubSeq(draft'[m], Len(draft[m]) + 1, Len(draft'[m]))
       IN draft'[m] # draft[m] =>
            /\ WordsInCases(added) = WordsInFile(file[m])
            /\ file[m].ext = "txt" => Len(added) = RulesInFile(file[m])]_vars

\* What the docs say of the positions (ADR-0015, "conflict-free"; the comment
\* of NextProblemOrd): no two problems that were created are one row.
NeverCollides ==
  \A a, b \in acked : a.parent \in Slugs /\ b.parent = a.parent /\ a.ord = b.ord => a = b
=============================================================================
