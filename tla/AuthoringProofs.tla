--------------------------- MODULE AuthoringProofs --------------------------
(***************************************************************************)
(* Theorems about Authoring for every number of admins, contests and       *)
(* calls, for every size of a batch and whatever can be uploaded.          *)
(***************************************************************************)
EXTENDS Authoring, FiniteSetTheorems, TLAPS

Saving == {"next_case", "cases"}
Writing == {"problem", "cases"}

LEMMA Bounds ==
  /\ EditorOf \in [Admins -> ProblemIds]
  /\ Slugs \cap ProblemIds = {}
  /\ Instants \subseteq Nat
  /\ \A f \in Files : ParseUpload(f) = Failed \/ ParseUpload(f) \in Seq(Cases)
  /\ Typed \subseteq Cases
  BY AuthoringConstants DEF AuthoringConstants, ProblemIds

\* The types that the proofs need; what is bounded in a run is any number here.
Typing ==
  /\ pc \in [Admins -> {"idle", "next_problem", "problem", "next_case", "cases"}]
  /\ call \in [Admins -> [parent: Parents \cup {Nil}, items: Seq(Items), ord: Nat, done: Nat]]
  /\ alone \in [Admins -> BOOLEAN]
  /\ draft \in [Admins -> Seq(Cases)]
  /\ file \in [Admins -> Files \cup {Nil}]
  /\ fate \in [Admins -> [Cases -> {"new", "draft", "late", "saved", "lost"}]]

\* A call knows its list, and writes no more than its items.
CallOK(m) ==
  /\ pc[m] \in {"next_problem", "problem"} =>
       call[m].parent \in Slugs /\ Len(call[m].items) = 1 /\ call[m].done = 0
  /\ pc[m] \in Saving => call[m].parent \in ProblemIds
  /\ pc[m] # "cases" => call[m].done = 0
  /\ call[m].done <= Len(call[m].items)

LEMMA CallTyped ==
  ASSUME Typing, NEW m \in Admins
  PROVE  /\ call[m] \in [parent: Parents \cup {Nil}, items: Seq(Items), ord: Nat, done: Nat]
         /\ call[m].items \in Seq(Items) /\ call[m].ord \in Nat /\ call[m].done \in Nat
         /\ DOMAIN call[m].items = 1..Len(call[m].items) /\ Len(call[m].items) \in Nat
<1>1. call[m] \in [parent: Parents \cup {Nil}, items: Seq(Items), ord: Nat, done: Nat]
  BY DEF Typing
<1>2. call[m].items \in Seq(Items) /\ call[m].ord \in Nat /\ call[m].done \in Nat
  BY <1>1
<1> QED
  BY <1>1, <1>2

LEMMA NoCallTyped ==
  /\ NoCall \in [parent: Parents \cup {Nil}, items: Seq(Items), ord: Nat, done: Nat]
  /\ NoCall.done = 0 /\ Len(NoCall.items) = 0
  BY DEF NoCall

\* The items that Save sends are those of the draft.
SentItems(m) == [i \in DOMAIN draft[m] |-> [by |-> m, what |-> draft[m][i]]]

LEMMA SentTyped ==
  ASSUME Typing, NEW m \in Admins
  PROVE  /\ SentItems(m) \in Seq(Items)
         /\ \A c \in ToSet(draft[m]) : [by |-> m, what |-> c] \in ToSet(SentItems(m))
<1>1. draft[m] \in Seq(Cases)
  BY DEF Typing
<1>2. DOMAIN draft[m] = 1..Len(draft[m]) /\ Len(draft[m]) \in Nat
  BY <1>1
<1>3. \A i \in 1..Len(draft[m]) : [by |-> m, what |-> draft[m][i]] \in Items
  BY <1>1, <1>2 DEF Items
<1>4. SentItems(m) \in Seq(Items)
  BY <1>2, <1>3 DEF SentItems
<1>5. \A c \in ToSet(draft[m]) : [by |-> m, what |-> c] \in ToSet(SentItems(m))
  BY DEF ToSet, SentItems
<1> QED
  BY <1>4, <1>5

-----------------------------------------------------------------------------
(* Schedules.                                                              *)

SchedulesOK ==
  \A s \in DOMAIN contests :
    /\ contests[s].starts \in Instants /\ contests[s].ends \in Instants
    /\ contests[s].starts < contests[s].ends

LEMMA SchedulesStep == SchedulesOK /\ [Next]_vars => SchedulesOK'
<1> SUFFICES ASSUME SchedulesOK, [Next]_vars PROVE SchedulesOK'
  OBVIOUS
<1>1. ASSUME NEW s \in Slugs, NEW c \in [starts: Instants, ends: Instants], CreateContest(s, c)
      PROVE  SchedulesOK'
  <2>1. c.starts \in Instants /\ c.ends \in Instants /\ c.starts < c.ends
    BY <1>1, Bounds DEF CreateContest, ValidContestTimes
  <2>2. contests' = Put(contests, s, c)
    BY <1>1 DEF CreateContest
  <2> QED
    BY <2>1, <2>2 DEF SchedulesOK, Put
<1>2. ASSUME NEW s \in Slugs, NEW c \in [starts: Instants, ends: Instants], UpdateContest(s, c)
      PROVE  SchedulesOK'
  <2>1. c.starts \in Instants /\ c.ends \in Instants /\ c.starts < c.ends
    BY <1>2, Bounds DEF UpdateContest, ValidContestTimes
  <2>2. contests' = [contests EXCEPT ![s] = c]
    BY <1>2 DEF UpdateContest
  <2> QED
    BY <2>1, <2>2 DEF SchedulesOK
<1>3. CASE UNCHANGED contests
  BY <1>3 DEF SchedulesOK
<1> QED
  BY <1>1, <1>2, <1>3 DEF Next, vars, StartProblem, NextProblemOrd, CreateProblem, Save, NextTestCaseOrd,
    CreateTestCase, AnswerSave, StatementFails, Type, ImportFile, Imported, ImportFails, Begin, ReadOrd

LEMMA SchedulesHold == Spec => []SchedulesOK
<1>1. Init => SchedulesOK
  BY DEF Init, SchedulesOK
<1> QED
  BY <1>1, SchedulesStep, PTL DEF Spec

\* Lists and gates agree on every schedule an admin can store, at every
\* moment: the CHECK of the table is what the four conditions need.
THEOREM SchedulesAgree == Spec => []ScheduleIsConsistent
<1>1. ASSUME SchedulesOK, NEW s \in DOMAIN contests, NEW now \in Moments
      PROVE  LET c == contests[s]
             IN /\ \E filter \in Filters : {f \in Filters : Listed(f, c, now)} = {filter}
                /\ SubmissionsAreOpen(c, now) =>
                     StatementIsOpen(c, now) /\ (Listed("active", c, now) \/ now = c.ends)
  <2>1. PICK b, e : b = contests[s].starts /\ e = contests[s].ends
    OBVIOUS
  <2>a. PICK i \in Instants : now \in {i - 1, i, i + 1}
    BY DEF Moments
  <2>2. b \in Int /\ e \in Int /\ b < e /\ now \in Int
    <3>1. b \in Instants /\ e \in Instants /\ b < e
      BY <1>1, <2>1 DEF SchedulesOK
    <3> QED
      BY <2>a, <3>1, Bounds
  <2>3. /\ Listed("active", contests[s], now) <=> b <= now /\ now < e
        /\ Listed("upcoming", contests[s], now) <=> now < b
        /\ Listed("past", contests[s], now) <=> e <= now
    BY <2>1 DEF Listed
  <2>4. \E filter \in Filters : {f \in Filters : Listed(f, contests[s], now)} = {filter}
    <3>1. CASE now < b
      <4>1. {f \in Filters : Listed(f, contests[s], now)} = {"upcoming"}
        BY <2>2, <2>3, <3>1 DEF Filters
      <4> QED
        BY <4>1 DEF Filters
    <3>2. CASE b <= now /\ now < e
      <4>1. {f \in Filters : Listed(f, contests[s], now)} = {"active"}
        BY <2>2, <2>3, <3>2 DEF Filters
      <4> QED
        BY <4>1 DEF Filters
    <3>3. CASE e <= now
      <4>1. {f \in Filters : Listed(f, contests[s], now)} = {"past"}
        BY <2>2, <2>3, <3>3 DEF Filters
      <4> QED
        BY <4>1 DEF Filters
    <3> QED
      BY <2>2, <3>1, <3>2, <3>3
  <2>5. SubmissionsAreOpen(contests[s], now) =>
          StatementIsOpen(contests[s], now) /\ (Listed("active", contests[s], now) \/ now = e)
    BY <2>1, <2>2, <2>3 DEF SubmissionsAreOpen, StatementIsOpen
  <2> QED
    BY <2>1, <2>4, <2>5
<1>2. SchedulesOK => ScheduleIsConsistent
  BY <1>1 DEF ScheduleIsConsistent
<1> QED
  BY <1>2, SchedulesHold, PTL

-----------------------------------------------------------------------------
(* Calls are typed, step by step.                                          *)

CallsInv == Typing /\ \A m \in Admins : CallOK(m)

\* The parts of a step: what it does to the call, and what to the editor.
EditorTyped ==
  /\ draft \in [Admins -> Seq(Cases)]
  /\ file \in [Admins -> Files \cup {Nil}]
  /\ fate \in [Admins -> [Cases -> {"new", "draft", "late", "saved", "lost"}]]

CallsTyped ==
  /\ pc \in [Admins -> {"idle", "next_problem", "problem", "next_case", "cases"}]
  /\ call \in [Admins -> [parent: Parents \cup {Nil}, items: Seq(Items), ord: Nat, done: Nat]]
  /\ alone \in [Admins -> BOOLEAN]
  /\ \A m \in Admins : CallOK(m)

LEMMA CallsInvParts == CallsInv <=> EditorTyped /\ CallsTyped
  BY DEF CallsInv, Typing, EditorTyped, CallsTyped

LEMMA EndTyped ==
  ASSUME CallsTyped, NEW m \in Admins, End(m)
  PROVE  CallsTyped'
<1>1. /\ pc' = [pc EXCEPT ![m] = "idle"]
      /\ call' = [call EXCEPT ![m] = NoCall]
      /\ alone' = [alone EXCEPT ![m] = TRUE]
  BY DEF End
<1>2. ASSUME NEW n \in Admins PROVE CallOK(n)'
  <2>1. CASE n = m
    <3>1. pc'[n] = "idle" /\ call'[n] = NoCall
      BY <1>1, <2>1 DEF CallsTyped
    <3> QED
      BY <3>1, NoCallTyped DEF CallOK, Saving
  <2>2. CASE n # m
    <3>1. pc'[n] = pc[n] /\ call'[n] = call[n]
      BY <1>1, <2>2 DEF CallsTyped
    <3> QED
      BY <3>1 DEF CallsTyped, CallOK
  <2> QED
    BY <2>1, <2>2
<1>3. /\ pc' \in [Admins -> {"idle", "next_problem", "problem", "next_case", "cases"}]
      /\ call' \in [Admins -> [parent: Parents \cup {Nil}, items: Seq(Items), ord: Nat, done: Nat]]
  BY <1>1, NoCallTyped DEF CallsTyped
<1>4. alone' \in [Admins -> BOOLEAN]
  BY <1>1 DEF CallsTyped
<1> QED
  BY <1>2, <1>3, <1>4 DEF CallsTyped, CallOK, Saving

\* What a call may be at a place.
Fits(place, record) ==
  /\ place \in {"next_problem", "problem", "next_case", "cases"}
  /\ record \in [parent: Parents \cup {Nil}, items: Seq(Items), ord: Nat, done: Nat]
  /\ place \in {"next_problem", "problem"} =>
       record.parent \in Slugs /\ Len(record.items) = 1 /\ record.done = 0
  /\ place \in Saving => record.parent \in ProblemIds
  /\ place # "cases" => record.done = 0
  /\ record.done <= Len(record.items)

Moved(m, place, record) == pc' = [pc EXCEPT ![m] = place] /\ call' = [call EXCEPT ![m] = record]

\* A call that moves on: its place and its record change, others' do not.
LEMMA MoveTyped ==
  ASSUME CallsTyped, NEW m \in Admins, NEW place, NEW record,
         Fits(place, record), Moved(m, place, record), alone' \in [Admins -> BOOLEAN]
  PROVE  CallsTyped'
<1>1. ASSUME NEW n \in Admins PROVE CallOK(n)'
  <2>1. CASE n = m
    <3>1. pc'[n] = place /\ call'[n] = record
      BY <2>1 DEF CallsTyped, Moved
    <3> QED
      BY <3>1 DEF CallOK, Saving, Fits
  <2>2. CASE n # m
    <3>1. pc'[n] = pc[n] /\ call'[n] = call[n]
      BY <2>2 DEF CallsTyped, Moved
    <3> QED
      BY <3>1 DEF CallsTyped, CallOK
  <2> QED
    BY <2>1, <2>2
<1>2. /\ pc' \in [Admins -> {"idle", "next_problem", "problem", "next_case", "cases"}]
      /\ call' \in [Admins -> [parent: Parents \cup {Nil}, items: Seq(Items), ord: Nat, done: Nat]]
  BY DEF CallsTyped, Moved, Fits
<1> QED
  BY <1>1, <1>2 DEF CallsTyped

LEMMA BeginTyped ==
  ASSUME CallsTyped, NEW m \in Admins, NEW place, NEW parent, NEW items, Begin(m, place, parent, items),
         items \in Seq(Items),
         \/ place = "next_problem" /\ parent \in Slugs /\ Len(items) = 1
         \/ place = "next_case" /\ parent \in ProblemIds
  PROVE  CallsTyped'
<1>1. PICK record : record = [parent |-> parent, items |-> items, ord |-> 0, done |-> 0]
  OBVIOUS
<1>2. parent \in Parents
  BY DEF Parents
<1>3. record \in [parent: Parents \cup {Nil}, items: Seq(Items), ord: Nat, done: Nat]
  BY <1>1, <1>2
<1>4. Moved(m, place, record) /\ alone' \in [Admins -> BOOLEAN]
  BY <1>1 DEF Begin, CallsTyped, Moved
<1>5. record.parent = parent /\ record.items = items /\ record.done = 0 /\ Len(items) \in Nat
  BY <1>1
<1>6. Fits(place, record)
  BY <1>3, <1>5 DEF Fits, Saving
<1> QED
  BY <1>4, <1>6, MoveTyped

\* The next position is a number, whatever the list is.
LEMMA NextOrdOfList ==
  ASSUME NEW list, NEW n \in Nat, DOMAIN list = 1..n
  PROVE  NextOrd(list) = n + 1
<1>1. CASE n = 0
  BY <1>1 DEF NextOrd
<1>2. CASE n # 0
  <2>1. n \in 1..n /\ \A k \in 1..n : n >= k
    BY <1>2
  <2>2. \A k \in 1..n : (\A j \in 1..n : k >= j) => k = n
    BY <2>1
  <2>3. Max(1..n) = n
    BY <2>1, <2>2 DEF Max
  <2>4. 1..n # {}
    BY <2>1
  <2> QED
    BY <2>3, <2>4 DEF NextOrd
<1> QED
  BY <1>1, <1>2

-----------------------------------------------------------------------------
(* Positions.                                                              *)

RowsOK ==
  /\ DOMAIN rows = Parents /\ rows = [p \in Parents |-> rows[p]]
  /\ \A p \in Parents : \E n \in Nat : DOMAIN rows[p] = 1..n

\* A writer is at most one row behind the end of its list.
PositionOK(m) ==
  pc[m] \in Writing =>
    /\ call[m].ord >= 1
    /\ Position(call[m]) - 1 \in DOMAIN rows[call[m].parent] \cup {0}

LEMMA UpsertKeepsRows ==
  ASSUME RowsOK, CallsInv, NEW m \in Admins, PositionOK(m), pc[m] \in Writing,
         rows' = Upserted(call[m])
  PROVE  /\ RowsOK'
         /\ \A p \in Parents \ {call[m].parent} : rows'[p] = rows[p]
         /\ DOMAIN rows'[call[m].parent] = DOMAIN rows[call[m].parent] \cup {Position(call[m])}
         /\ rows'[call[m].parent][Position(call[m])] = call[m].items[call[m].done + 1]
         /\ \A o \in DOMAIN rows[call[m].parent] \ {Position(call[m])} :
              rows'[call[m].parent][o] = rows[call[m].parent][o]
<1>1. PICK p, k, item : p = call[m].parent /\ k = Position(call[m]) /\ item = call[m].items[call[m].done + 1]
  OBVIOUS
<1>2. p \in Parents
  BY <1>1 DEF CallsInv, CallOK, Writing, Saving, Parents
<1>3. k \in Nat /\ k >= 1
  <2>1. call[m].ord \in Nat /\ call[m].done \in Nat /\ call[m].ord >= 1
    BY CallTyped DEF CallsInv, PositionOK
  <2> QED
    BY <1>1, <2>1 DEF Position
<1>4. rows' = [rows EXCEPT ![p] = Put(rows[p], k, item)]
  BY <1>1 DEF Upserted
<1>5. rows'[p] = Put(rows[p], k, item) /\ \A q \in Parents \ {p} : rows'[q] = rows[q]
  BY <1>2, <1>4 DEF RowsOK
<1>6. DOMAIN rows' = Parents /\ rows' = [q \in Parents |-> rows'[q]]
  BY <1>4 DEF RowsOK
<1>7. DOMAIN rows'[p] = DOMAIN rows[p] \cup {k} /\ rows'[p][k] = item
      /\ \A o \in DOMAIN rows[p] \ {k} : rows'[p][o] = rows[p][o]
  BY <1>5 DEF Put
<1>8. \E n \in Nat : DOMAIN rows'[p] = 1..n
  <2>1. PICK n \in Nat : DOMAIN rows[p] = 1..n
    BY <1>2 DEF RowsOK
  <2>2. k - 1 \in 1..n \cup {0}
    BY <1>1, <2>1 DEF PositionOK
  <2>3. CASE k <= n
    BY <1>3, <1>7, <2>1, <2>3
  <2>4. CASE k = n + 1
    <3>1. DOMAIN rows'[p] = 1..(n + 1)
      BY <1>7, <2>1, <2>4
    <3> QED
      BY <3>1
  <2> QED
    BY <1>3, <2>2, <2>3, <2>4
<1>9. Parents' = Parents
  OBVIOUS
<1>10. \A q \in Parents : \E n \in Nat : DOMAIN rows'[q] = 1..n
  BY <1>5, <1>8 DEF RowsOK
<1> QED
  BY <1>1, <1>5, <1>6, <1>7, <1>10 DEF RowsOK

-----------------------------------------------------------------------------
(* Every step is one of five kinds, as far as calls and rows go.           *)

StaysOut == UNCHANGED <<rows, pc, call, alone, acked>>

Begins(m) ==
  \E place \in {"next_problem", "next_case"}, parent \in Parents, items \in Seq(Items) :
    /\ Begin(m, place, parent, items)
    /\ \/ place = "next_problem" /\ parent \in Slugs /\ Len(items) = 1
       \/ place = "next_case" /\ parent \in ProblemIds

Reads(m) == ReadOrd(m, "next_problem", "problem") \/ ReadOrd(m, "next_case", "cases")

Writes(m) ==
  /\ pc[m] \in Writing /\ call[m].done < Len(call[m].items)
  /\ rows' = Upserted(call[m])

Continues(m) ==
  /\ pc[m] = "cases" /\ Writes(m)
  /\ call' = [call EXCEPT ![m].done = @ + 1]
  /\ UNCHANGED <<pc, alone, acked>>

\* A call ends, with a last row or without, answered with 201 or not.
Finishes(m) ==
  /\ pc[m] # "idle" /\ End(m)
  /\ \/ UNCHANGED rows /\ UNCHANGED acked
     \/ Writes(m) /\ UNCHANGED acked
     \/ pc[m] = "problem" /\ Writes(m) /\ acked' = acked \cup AckedRows(call[m], alone[m])
     \/ /\ pc[m] = "cases" /\ call[m].done = Len(call[m].items) /\ UNCHANGED rows
        /\ acked' = acked \cup AckedRows(call[m], alone[m])

LEMMA KindsOfSteps ==
  ASSUME CallsInv, [Next]_vars
  PROVE  StaysOut \/ \E m \in Admins : Begins(m) \/ Reads(m) \/ Continues(m) \/ Finishes(m)
<1>1. CASE UNCHANGED vars
  BY <1>1 DEF vars, callVars, StaysOut
<1>2. ASSUME NEW s \in Slugs, NEW c \in [starts: Instants, ends: Instants],
             CreateContest(s, c) \/ UpdateContest(s, c)
      PROVE  StaysOut
  BY <1>2 DEF CreateContest, UpdateContest, callVars, StaysOut
<1>3. ASSUME NEW m \in Admins, NEW s \in Slugs, NEW statement \in Statements, StartProblem(m, s, statement)
      PROVE  Begins(m)
  <2>1. PICK items : items = <<[by |-> m, what |-> statement]>>
    OBVIOUS
  <2>2. items \in Seq(Items) /\ Len(items) = 1
    BY <2>1 DEF Items
  <2>3. Begin(m, "next_problem", s, items) /\ s \in Parents
    BY <1>3, <2>1 DEF StartProblem, Parents
  <2> QED
    BY <2>2, <2>3 DEF Begins
<1>4. ASSUME NEW m \in Admins, Save(m) PROVE Begins(m)
  <2>1. Begin(m, "next_case", EditorOf[m], SentItems(m))
    BY <1>4 DEF Save, SentItems
  <2>2. SentItems(m) \in Seq(Items)
    BY SentTyped DEF CallsInv
  <2>3. EditorOf[m] \in ProblemIds /\ EditorOf[m] \in Parents
    BY Bounds DEF Parents
  <2> QED
    BY <2>1, <2>2, <2>3 DEF Begins
<1>5. ASSUME NEW m \in Admins, NextProblemOrd(m) \/ NextTestCaseOrd(m) PROVE Reads(m)
  BY <1>5 DEF NextProblemOrd, NextTestCaseOrd, Reads
<1>6. ASSUME NEW m \in Admins, CreateProblem(m) PROVE Finishes(m)
  <2>1. call[m].done < Len(call[m].items)
    BY <1>6 DEF CreateProblem, CallsInv, CallOK
  <2> QED
    BY <1>6, <2>1 DEF CreateProblem, Finishes, Writes, Writing
<1>7. ASSUME NEW m \in Admins, CreateTestCase(m) PROVE Continues(m)
  BY <1>7 DEF CreateTestCase, Continues, Writes, Writing
<1>8. ASSUME NEW m \in Admins, AnswerSave(m) PROVE Finishes(m)
  BY <1>8 DEF AnswerSave, Finishes
<1>9. ASSUME NEW m \in Admins, StatementFails(m) PROVE Finishes(m)
  BY <1>9 DEF StatementFails, Finishes, Writes, Writing
<1>10. ASSUME NEW m \in Admins,
              \/ \E c \in Typed : Type(m, c)
              \/ \E f \in Files : ImportFile(m, f)
              \/ Imported(m) \/ ImportFails(m)
       PROVE  StaysOut
  BY <1>10 DEF Type, ImportFile, Imported, ImportFails, callVars, StaysOut
<1> QED
  BY <1>1, <1>2, <1>3, <1>4, <1>5, <1>6, <1>7, <1>8, <1>9, <1>10 DEF Next

LEMMA ReadTyped ==
  ASSUME CallsInv, RowsOK, NEW m \in Admins, Reads(m)
  PROVE  /\ CallsTyped'
         /\ Moved(m, IF pc[m] = "next_problem" THEN "problem" ELSE "cases",
                  [call[m] EXCEPT !.ord = NextOrd(rows[call[m].parent])])
         /\ call[m].parent \in Parents /\ pc[m] \in {"next_problem", "next_case"} /\ call[m].done = 0
<1>1. PICK place : place = IF pc[m] = "next_problem" THEN "problem" ELSE "cases"
  OBVIOUS
<1>2. PICK ord : ord = NextOrd(rows[call[m].parent])
  OBVIOUS
<1>3. /\ pc[m] \in {"next_problem", "next_case"} /\ Moved(m, place, [call[m] EXCEPT !.ord = ord])
      /\ alone' \in [Admins -> BOOLEAN]
  <2>1. ASSUME NEW from, NEW to, ReadOrd(m, from, to)
        PROVE  /\ pc[m] = from /\ Moved(m, to, [call[m] EXCEPT !.ord = ord])
               /\ alone' \in [Admins -> BOOLEAN]
    <3>1. pc[m] = from /\ pc' = [pc EXCEPT ![m] = to] /\ alone' \in [Admins -> BOOLEAN]
      BY <2>1 DEF ReadOrd, CallsInv, Typing
    <3>2. call' = [call EXCEPT ![m] = [call[m] EXCEPT !.ord = ord]]
      BY <1>2, <2>1 DEF ReadOrd
    <3> QED
      BY <3>1, <3>2 DEF Moved
  <2>2. CASE ReadOrd(m, "next_problem", "problem")
    BY <1>1, <2>1, <2>2
  <2>3. CASE ReadOrd(m, "next_case", "cases")
    BY <1>1, <2>1, <2>3
  <2> QED
    BY <2>2, <2>3 DEF Reads
<1>4. call[m].parent \in Parents /\ call[m].done = 0
  BY <1>3 DEF CallsInv, CallOK, Saving, Parents
<1>5. ord \in Nat
  <2>1. PICK n \in Nat : DOMAIN rows[call[m].parent] = 1..n
    BY <1>4 DEF RowsOK
  <2> QED
    BY <1>2, <2>1, NextOrdOfList
<1>6. PICK record : record = [call[m] EXCEPT !.ord = ord]
  OBVIOUS
<1>7. /\ record \in [parent: Parents \cup {Nil}, items: Seq(Items), ord: Nat, done: Nat]
      /\ record.parent = call[m].parent /\ record.items = call[m].items /\ record.done = call[m].done
  BY <1>5, <1>6, CallTyped DEF CallsInv
<1>8. Fits(place, record)
  BY <1>1, <1>3, <1>4, <1>7 DEF CallsInv, CallOK, Fits, Saving
<1>9. CallsTyped'
  BY <1>3, <1>6, <1>8, MoveTyped, CallsInvParts
<1> QED
  BY <1>1, <1>2, <1>3, <1>4, <1>9

LEMMA ContinueTyped ==
  ASSUME CallsInv, NEW m \in Admins, Continues(m)
  PROVE  CallsTyped' /\ Moved(m, "cases", [call[m] EXCEPT !.done = call[m].done + 1])
<1>1. Moved(m, "cases", [call[m] EXCEPT !.done = call[m].done + 1]) /\ alone' \in [Admins -> BOOLEAN]
  BY DEF Continues, Moved, CallsInv, Typing
<1>2. PICK record : record = [call[m] EXCEPT !.done = call[m].done + 1]
  OBVIOUS
<1>3. /\ record \in [parent: Parents \cup {Nil}, items: Seq(Items), ord: Nat, done: Nat]
      /\ record.parent = call[m].parent /\ record.items = call[m].items /\ record.done = call[m].done + 1
  BY <1>2, CallTyped DEF CallsInv
<1>4. call[m].parent \in ProblemIds /\ record.done <= Len(record.items)
  BY <1>3, CallTyped DEF CallsInv, CallOK, Saving, Continues, Writes
<1>5. Fits("cases", record)
  BY <1>3, <1>4 DEF Fits
<1> QED
  BY <1>1, <1>2, <1>5, MoveTyped, CallsInvParts

-----------------------------------------------------------------------------
(* Lists stay without gaps, and what was written alone stays.              *)

\* A call that is alone has no competitor, and its rows are there.
AloneOK(m) ==
  pc[m] \in Writing /\ alone[m] =>
    /\ \A n \in Admins \ {m} : ~(pc[n] \in Writing /\ call[n].parent = call[m].parent)
    /\ \A i \in 1..call[m].done :
         /\ call[m].ord + i - 1 \in DOMAIN rows[call[m].parent]
         /\ rows[call[m].parent][call[m].ord + i - 1] = call[m].items[i]

\* An answered row is there, and whoever writes now writes behind it.
AnsweredOK(a) ==
  /\ a.parent \in Parents /\ a.ord \in Nat
  /\ a.ord \in DOMAIN rows[a.parent] /\ rows[a.parent][a.ord] = a.item
  /\ \A m \in Admins : pc[m] \in Writing /\ call[m].parent = a.parent => a.ord < call[m].ord

AckedOK == \A a \in acked : a.alone => AnsweredOK(a)

Lists ==
  /\ RowsOK
  /\ \A m \in Admins : PositionOK(m) /\ AloneOK(m)
  /\ AckedOK

LEMMA OutsideKeepsLists ==
  ASSUME CallsInv, Lists, StaysOut
  PROVE  CallsTyped' /\ Lists'
<1>1. CallsTyped'
  BY CallsInvParts DEF StaysOut, CallsTyped, CallOK
<1>2. Lists'
  BY DEF StaysOut, Lists, RowsOK, PositionOK, AloneOK, AckedOK, AnsweredOK, Position
<1> QED
  BY <1>1, <1>2

LEMMA BeginKeepsLists ==
  ASSUME CallsInv, Lists, NEW m \in Admins, Begins(m)
  PROVE  CallsTyped' /\ Lists'
<1>1. PICK place \in {"next_problem", "next_case"}, parent \in Parents, items \in Seq(Items) :
        /\ Begin(m, place, parent, items)
        /\ \/ place = "next_problem" /\ parent \in Slugs /\ Len(items) = 1
           \/ place = "next_case" /\ parent \in ProblemIds
  BY DEF Begins
<1>2. CallsTyped'
  BY <1>1, BeginTyped, CallsInvParts
<1>3. /\ UNCHANGED <<rows, acked, alone>> /\ pc'[m] \notin Writing
      /\ \A n \in Admins \ {m} : pc'[n] = pc[n] /\ call'[n] = call[n]
  BY <1>1 DEF Begin, CallsInv, Typing, Writing
<1>4. \A n \in Admins : PositionOK(n)'
  BY <1>3 DEF Lists, PositionOK, Position
<1>5. \A n \in Admins : AloneOK(n)'
  BY <1>3 DEF Lists, AloneOK
<1>6. RowsOK' /\ AckedOK'
  BY <1>3 DEF Lists, RowsOK, AckedOK, AnsweredOK
<1> QED
  BY <1>2, <1>4, <1>5, <1>6 DEF Lists

LEMMA ReadKeepsLists ==
  ASSUME CallsInv, Lists, NEW m \in Admins, Reads(m)
  PROVE  CallsTyped' /\ Lists'
<1>1. PICK to : to = IF pc[m] = "next_problem" THEN "problem" ELSE "cases"
  OBVIOUS
<1>2. PICK p, ord, k : p = call[m].parent /\ ord = NextOrd(rows[call[m].parent]) /\ k = call[m]
  OBVIOUS
<1>3. /\ CallsTyped' /\ Moved(m, to, [k EXCEPT !.ord = ord])
      /\ p \in Parents /\ pc[m] \in {"next_problem", "next_case"} /\ k.done = 0
  BY <1>1, <1>2, ReadTyped DEF Lists
<1>4. PICK n \in Nat : DOMAIN rows[p] = 1..n
  BY <1>3 DEF Lists, RowsOK
<1>5. ord = n + 1
  BY <1>2, <1>4, NextOrdOfList
<1>6. /\ pc'[m] = to /\ call'[m] = [k EXCEPT !.ord = ord]
      /\ \A w \in Admins \ {m} : pc'[w] = pc[w] /\ call'[w] = call[w]
  BY <1>3 DEF Moved, CallsInv, Typing
<1>7. call'[m].parent = p /\ call'[m].ord = ord /\ call'[m].done = 0 /\ call'[m].items = k.items
  BY <1>2, <1>3, <1>6, CallTyped DEF CallsInv
<1>8. UNCHANGED <<rows, acked>> /\ pc'[m] \in Writing
  BY <1>1, <1>6 DEF Reads, ReadOrd, Writing
<1>9. \A w \in Admins \ {m} : alone'[w] <=> alone[w] /\ ~(pc[w] = to /\ call[w].parent = p)
  <2>1. ASSUME NEW from, NEW place, ReadOrd(m, from, place), NEW w \in Admins \ {m}
        PROVE  alone'[w] <=> alone[w] /\ ~(pc[w] = place /\ call[w].parent = p)
    BY <1>2, <2>1, Zenon DEF ReadOrd
  <2>2. CASE ReadOrd(m, "next_problem", "problem")
    <3>1. to = "problem"
      BY <1>1, <2>2 DEF ReadOrd
    <3> QED
      BY <2>1, <2>2, <3>1
  <2>3. CASE ReadOrd(m, "next_case", "cases")
    <3>1. to = "cases"
      BY <1>1, <2>3 DEF ReadOrd
    <3> QED
      BY <2>1, <2>3, <3>1
  <2> QED
    BY <2>2, <2>3 DEF Reads
<1>10. alone'[m] => \A w \in Admins \ {m} : ~(pc[w] = to /\ call[w].parent = p)
  <2>1. ASSUME NEW from, NEW place, ReadOrd(m, from, place), alone'[m], NEW w \in Admins \ {m}
        PROVE  ~(pc[w] = place /\ call[w].parent = p)
    BY <1>2, <2>1, Zenon DEF ReadOrd
  <2>2. CASE ReadOrd(m, "next_problem", "problem")
    <3>1. to = "problem"
      BY <1>1, <2>2 DEF ReadOrd
    <3> QED
      BY <2>1, <2>2, <3>1
  <2>3. CASE ReadOrd(m, "next_case", "cases")
    <3>1. to = "cases"
      BY <1>1, <2>3 DEF ReadOrd
    <3> QED
      BY <2>1, <2>3, <3>1
  <2> QED
    BY <2>2, <2>3 DEF Reads
\* Writers of another kind have another list.
<1>11. ASSUME NEW w \in Admins, pc[w] \in Writing, call[w].parent = p PROVE pc[w] = to
  <2>1. pc[w] = "problem" => p \in Slugs
    BY <1>11 DEF CallsInv, CallOK
  <2>2. pc[w] = "cases" => p \in ProblemIds
    BY <1>11 DEF CallsInv, CallOK, Saving
  <2>3. pc[m] = "next_problem" => p \in Slugs
    BY <1>2 DEF CallsInv, CallOK
  <2>4. pc[m] = "next_case" => p \in ProblemIds
    BY <1>2 DEF CallsInv, CallOK, Saving
  <2> QED
    BY <1>1, <1>3, <1>11, <2>1, <2>2, <2>3, <2>4, Bounds DEF Writing
<1>12. ASSUME NEW w \in Admins PROVE PositionOK(w)'
  <2>1. CASE w = m
    <3>1. Position(call'[m]) = n + 1
      BY <1>5, <1>7 DEF Position
    <3> QED
      BY <1>4, <1>5, <1>7, <1>8, <2>1, <3>1 DEF PositionOK
  <2>2. CASE w # m
    BY <1>6, <1>8, <2>2 DEF Lists, PositionOK, Position
  <2> QED
    BY <2>1, <2>2
<1>13. ASSUME NEW w \in Admins PROVE AloneOK(w)'
  <2>1. CASE w = m
    <3>1. alone'[m] => \A v \in Admins \ {m} : ~(pc'[v] \in Writing /\ call'[v].parent = call'[m].parent)
      BY <1>6, <1>7, <1>10, <1>11
    <3> QED
      BY <1>7, <2>1, <3>1 DEF AloneOK
  <2>2. CASE w # m
    <3>1. SUFFICES ASSUME pc[w] \in Writing, alone'[w] PROVE AloneOK(w)'
      BY <1>6, <2>2 DEF AloneOK
    <3>2. alone[w] /\ ~(pc[w] = to /\ call[w].parent = p)
      BY <1>9, <2>2, <3>1
    <3>3. call[w].parent # p
      BY <1>11, <3>1, <3>2
    <3>4. AloneOK(w)
      BY DEF Lists
    <3>5. pc'[w] = pc[w] /\ call'[w] = call[w] /\ rows' = rows
      BY <1>6, <1>8, <2>2
    <3>6. \A u \in Admins \ {w} : ~(pc'[u] \in Writing /\ call'[u].parent = call[w].parent)
      <4> SUFFICES ASSUME NEW u \in Admins \ {w}, pc'[u] \in Writing, call'[u].parent = call[w].parent
                   PROVE  FALSE
        OBVIOUS
      <4>1. u # m
        BY <1>7, <3>3
      <4>2. pc[u] \in Writing /\ call[u].parent = call[w].parent
        BY <1>6, <4>1
      <4> QED
        BY <3>1, <3>2, <3>4, <4>2 DEF AloneOK
    <3>7. \A i \in 1..call[w].done :
            /\ call[w].ord + i - 1 \in DOMAIN rows[call[w].parent]
            /\ rows[call[w].parent][call[w].ord + i - 1] = call[w].items[i]
      BY <3>1, <3>2, <3>4 DEF AloneOK
    <3> QED
      BY <3>5, <3>6, <3>7 DEF AloneOK
  <2> QED
    BY <2>1, <2>2
<1>14. ASSUME NEW a \in acked, a.alone PROVE AnsweredOK(a)'
  <2>1. AnsweredOK(a)
    BY <1>14 DEF Lists, AckedOK
  <2>2. a.parent = p => a.ord < ord
    BY <1>4, <1>5, <2>1 DEF AnsweredOK
  <2> QED
    BY <1>6, <1>7, <1>8, <2>1, <2>2 DEF AnsweredOK
<1>15. RowsOK' /\ AckedOK'
  BY <1>8, <1>14 DEF Lists, RowsOK, AckedOK
<1> QED
  BY <1>3, <1>12, <1>13, <1>15 DEF Lists

Same(w) == pc'[w] = pc[w] /\ call'[w] = call[w] /\ (alone'[w] <=> alone[w])

\* Of all calls only that of m changes, and it stays at its list or ends.
OnlyMoves(m) ==
  /\ \A w \in Admins \ {m} : Same(w)
  /\ pc'[m] = "idle" \/ call'[m].parent = call[m].parent

\* One more row of m leaves the other calls and what was answered as they are.
LEMMA WriteKeepsOthers ==
  ASSUME CallsInv, Lists, NEW m \in Admins, Writes(m)
  PROVE  /\ RowsOK'
         /\ OnlyMoves(m) =>
              \A w \in Admins \ {m} : PositionOK(w)' /\ AloneOK(w)'
         /\ \A a \in acked : a.alone =>
              a.ord \in DOMAIN rows'[a.parent] /\ rows'[a.parent][a.ord] = a.item
<1>1. PICK p, k : p = call[m].parent /\ k = Position(call[m])
  OBVIOUS
<1>2. /\ RowsOK' /\ \A q \in Parents \ {p} : rows'[q] = rows[q]
      /\ DOMAIN rows'[p] = DOMAIN rows[p] \cup {k}
      /\ \A o \in DOMAIN rows[p] \ {k} : rows'[p][o] = rows[p][o]
  BY <1>1, UpsertKeepsRows DEF Writes, Lists
<1>3. k \in Nat /\ k >= call[m].ord /\ pc[m] \in Writing
  BY <1>1, CallTyped DEF Position, CallsInv, Writes
<1>4. ASSUME OnlyMoves(m), NEW w \in Admins \ {m} PROVE PositionOK(w)'
  <2>1. CASE pc[w] \notin Writing
    BY <1>4, <2>1 DEF OnlyMoves, Same, PositionOK
  <2>2. CASE pc[w] \in Writing
    <3>1. PositionOK(w) /\ call[w].parent \in Parents
      BY <2>2 DEF Lists, CallsInv, CallOK, Writing, Saving, Parents
    <3>2. DOMAIN rows[call[w].parent] \subseteq DOMAIN rows'[call[w].parent]
      BY <1>2, <3>1
    <3> QED
      BY <1>4, <2>2, <3>1, <3>2 DEF OnlyMoves, Same, PositionOK, Position
  <2> QED
    BY <2>1, <2>2
<1>5. ASSUME OnlyMoves(m), NEW w \in Admins \ {m} PROVE AloneOK(w)'
  <2>1. CASE ~(pc[w] \in Writing /\ alone[w])
    BY <1>5, <2>1 DEF OnlyMoves, Same, AloneOK
  <2>2. CASE pc[w] \in Writing /\ alone[w]
    <3>1. AloneOK(w) /\ call[w].parent \in Parents
      BY <2>2 DEF Lists, CallsInv, CallOK, Writing, Saving, Parents
    <3>2. call[w].parent # p
      BY <1>1, <1>3, <2>2, <3>1 DEF AloneOK
    <3>3. rows'[call[w].parent] = rows[call[w].parent]
      BY <1>2, <3>1, <3>2
    <3>4. PICK q : q = call[w].parent
      OBVIOUS
    <3>5. \A i \in 1..call[w].done :
            call[w].ord + i - 1 \in DOMAIN rows'[q] /\ rows'[q][call[w].ord + i - 1] = call[w].items[i]
      BY <2>2, <3>1, <3>3, <3>4 DEF AloneOK
    <3>6. \A n \in Admins \ {w} : ~(pc'[n] \in Writing /\ call'[n].parent = call[w].parent)
      <4> SUFFICES ASSUME NEW n \in Admins \ {w}, pc'[n] \in Writing, call'[n].parent = call[w].parent
                   PROVE  FALSE
        OBVIOUS
      <4>1. CASE n = m
        BY <1>1, <1>5, <3>2, <4>1 DEF OnlyMoves, Writing
      <4>2. CASE n # m
        BY <1>5, <2>2, <3>1, <4>2 DEF OnlyMoves, Same, AloneOK
      <4> QED
        BY <4>1, <4>2
    <3> QED
      BY <1>5, <3>4, <3>5, <3>6 DEF OnlyMoves, Same, AloneOK
  <2> QED
    BY <2>1, <2>2
<1>6. ASSUME NEW a \in acked, a.alone
      PROVE  a.ord \in DOMAIN rows'[a.parent] /\ rows'[a.parent][a.ord] = a.item
  <2>1. AnsweredOK(a)
    BY <1>6 DEF Lists, AckedOK
  <2>2. a.parent = p => a.ord < k
    BY <1>1, <1>3, <2>1, CallTyped DEF AnsweredOK, CallsInv
  <2>3. a.ord \in Nat /\ a.parent \in Parents
    BY <2>1 DEF AnsweredOK
  <2> QED
    BY <1>2, <1>3, <2>1, <2>2, <2>3 DEF AnsweredOK
<1> QED
  BY <1>2, <1>4, <1>5, <1>6

LEMMA ContinueKeepsLists ==
  ASSUME CallsInv, Lists, NEW m \in Admins, Continues(m)
  PROVE  CallsTyped' /\ Lists'
<1>1. PICK p, k, ord, done, items :
        /\ p = call[m].parent /\ k = Position(call[m]) /\ ord = call[m].ord
        /\ done = call[m].done /\ items = call[m].items
  OBVIOUS
<1>2. ord \in Nat /\ done \in Nat /\ k = ord + done /\ ord >= 1 /\ p \in Parents
  <2>1. pc[m] \in Writing /\ PositionOK(m) /\ CallOK(m) /\ pc[m] = "cases"
    BY DEF Lists, CallsInv, Continues, Writes
  <2> QED
    BY <1>1, <2>1, CallTyped DEF CallsInv, Position, PositionOK, CallOK, Saving, Parents
<1>3. CallsTyped' /\ Moved(m, "cases", [call[m] EXCEPT !.done = call[m].done + 1])
  BY ContinueTyped
<1>4. /\ call'[m].parent = p /\ call'[m].ord = ord /\ call'[m].done = done + 1 /\ call'[m].items = items
      /\ \A w \in Admins \ {m} : call'[w] = call[w]
  BY <1>1, <1>3, CallTyped DEF Moved, CallsInv, Typing
<1>5. UNCHANGED <<pc, alone, acked>> /\ Writes(m) /\ pc[m] \in Writing
  BY DEF Continues, Writes
<1>6. OnlyMoves(m)
  BY <1>1, <1>4, <1>5 DEF OnlyMoves, Same
<1>7. /\ DOMAIN rows'[p] = DOMAIN rows[p] \cup {k} /\ rows'[p][k] = items[done + 1]
      /\ \A o \in DOMAIN rows[p] \ {k} : rows'[p][o] = rows[p][o]
  BY <1>1, <1>5, UpsertKeepsRows DEF Writes, Lists
<1>8. RowsOK' /\ \A w \in Admins \ {m} : PositionOK(w)' /\ AloneOK(w)'
  BY <1>5, <1>6, WriteKeepsOthers
<1>9. PositionOK(m)'
  BY <1>2, <1>4, <1>7 DEF PositionOK, Position
<1>10. AloneOK(m)'
  <2>1. SUFFICES ASSUME alone[m] PROVE AloneOK(m)'
    BY <1>5, Zenon DEF AloneOK
  <2>2. AloneOK(m)
    BY DEF Lists
  <2>3. \A n \in Admins \ {m} : ~(pc'[n] \in Writing /\ call'[n].parent = p)
    BY <1>1, <1>4, <1>5, <2>1, <2>2 DEF AloneOK
  <2>4. ASSUME NEW i \in 1..(done + 1)
        PROVE  ord + i - 1 \in DOMAIN rows'[p] /\ rows'[p][ord + i - 1] = items[i]
    <3>1. CASE i = done + 1
      BY <1>2, <1>7, <3>1
    <3>2. CASE i # done + 1
      <4>1. i \in 1..done
        BY <1>2, <3>2
      <4>2. ord + i - 1 \in DOMAIN rows[p] /\ rows[p][ord + i - 1] = items[i]
        BY <1>1, <1>5, <2>1, <2>2, <4>1 DEF AloneOK
      <4> QED
        BY <1>2, <1>7, <4>1, <4>2
    <3> QED
      BY <3>1, <3>2
  <2> QED
    BY <1>4, <2>3, <2>4 DEF AloneOK
<1>11. ASSUME NEW a \in acked, a.alone PROVE AnsweredOK(a)'
  <2>1. AnsweredOK(a)
    BY <1>11 DEF Lists, AckedOK
  <2>2. a.ord \in DOMAIN rows'[a.parent] /\ rows'[a.parent][a.ord] = a.item
    BY <1>5, <1>11, WriteKeepsOthers
  <2>3. \A w \in Admins : call'[w].ord = call[w].ord /\ call'[w].parent = call[w].parent
    BY <1>1, <1>4
  <2> QED
    BY <1>5, <2>1, <2>2, <2>3 DEF AnsweredOK
<1>12. AckedOK'
  BY <1>5, <1>11 DEF AckedOK
<1> QED
  BY <1>3, <1>8, <1>9, <1>10, <1>12 DEF Lists

\* What m is answered, if it was alone, is what it wrote.
LEMMA AnsweredIsWritten ==
  ASSUME CallsInv, Lists, NEW m \in Admins, alone[m], NEW a \in AckedRows(call[m], alone[m]),
         \/ pc[m] = "problem" /\ Writes(m)
         \/ pc[m] = "cases" /\ call[m].done = Len(call[m].items) /\ UNCHANGED rows
  PROVE  /\ a.parent = call[m].parent /\ a.ord \in Nat
         /\ a.ord \in DOMAIN rows'[a.parent] /\ rows'[a.parent][a.ord] = a.item
<1>1. PICK i \in DOMAIN call[m].items :
        a = [parent |-> call[m].parent, ord |-> Position([call[m] EXCEPT !.done = i - 1]),
             item |-> call[m].items[i], alone |-> alone[m]]
  BY DEF AckedRows
<1>2. /\ call[m].ord \in Nat /\ i \in Nat /\ i >= 1 /\ i <= Len(call[m].items)
      /\ call[m] \in [parent: Parents \cup {Nil}, items: Seq(Items), ord: Nat, done: Nat]
  BY <1>1, CallTyped DEF CallsInv
<1>3. Position([call[m] EXCEPT !.done = i - 1]) = call[m].ord + (i - 1)
  BY <1>2 DEF Position
<1>4. a.parent = call[m].parent /\ a.ord = call[m].ord + i - 1 /\ a.item = call[m].items[i]
  BY <1>1, <1>2, <1>3
<1>5. CASE pc[m] = "problem" /\ Writes(m)
  <2>1. Len(call[m].items) = 1 /\ call[m].done = 0
    BY <1>5 DEF CallsInv, CallOK
  <2>2. i = 1 /\ Position(call[m]) = call[m].ord
    BY <1>2, <2>1 DEF Position
  <2>3. /\ Position(call[m]) \in DOMAIN rows'[call[m].parent]
        /\ rows'[call[m].parent][Position(call[m])] = call[m].items[call[m].done + 1]
    BY <1>5, UpsertKeepsRows DEF Writes, Lists
  <2> QED
    BY <1>2, <1>4, <2>1, <2>2, <2>3
<1>6. CASE pc[m] = "cases" /\ call[m].done = Len(call[m].items) /\ UNCHANGED rows
  <2>1. AloneOK(m) /\ pc[m] \in Writing /\ i \in 1..call[m].done
    BY <1>2, <1>6 DEF Lists, Writing
  <2>2. /\ call[m].ord + i - 1 \in DOMAIN rows[call[m].parent]
        /\ rows[call[m].parent][call[m].ord + i - 1] = call[m].items[i]
    BY <2>1 DEF AloneOK
  <2> QED
    BY <1>2, <1>4, <1>6, <2>2
<1> QED
  BY <1>5, <1>6

LEMMA FinishKeepsLists ==
  ASSUME CallsInv, Lists, NEW m \in Admins, Finishes(m)
  PROVE  CallsTyped' /\ Lists'
<1>1. CallsTyped'
  BY EndTyped, CallsInvParts DEF Finishes
<1>2. OnlyMoves(m) /\ pc'[m] = "idle"
  <2>1. pc' = [pc EXCEPT ![m] = "idle"] /\ call' = [call EXCEPT ![m] = NoCall]
    BY DEF Finishes, End
  <2>2. alone' = [alone EXCEPT ![m] = TRUE]
    BY DEF Finishes, End
  <2>3. \A w \in Admins \ {m} : alone'[w] <=> alone[w]
    BY <2>2, Zenon DEF CallsInv, Typing
  <2> QED
    BY <2>1, <2>3 DEF OnlyMoves, Same, CallsInv, Typing
<1>3. /\ RowsOK' /\ \A w \in Admins \ {m} : PositionOK(w)' /\ AloneOK(w)'
      /\ \A a \in acked : a.alone => a.ord \in DOMAIN rows'[a.parent] /\ rows'[a.parent][a.ord] = a.item
  <2>1. CASE Writes(m)
    BY <1>2, <2>1, WriteKeepsOthers
  <2>2. CASE UNCHANGED rows
    <3>1. RowsOK'
      BY <2>2 DEF Lists, RowsOK
    <3>2. ASSUME NEW w \in Admins \ {m} PROVE PositionOK(w)'
      BY <1>2, <2>2 DEF Lists, OnlyMoves, Same, PositionOK, Position
    <3>3. ASSUME NEW w \in Admins \ {m} PROVE AloneOK(w)'
      <4>1. AloneOK(w) /\ Same(w)
        BY <1>2 DEF Lists, OnlyMoves
      <4>2. pc'[m] \notin Writing
        BY <1>2 DEF Writing
      <4>3. \A n \in Admins \ {m} : pc'[n] = pc[n] /\ call'[n] = call[n]
        BY <1>2 DEF OnlyMoves, Same
      <4> QED
        BY <2>2, <4>1, <4>2, <4>3 DEF Same, AloneOK
    <3>4. \A a \in acked : a.alone => a.ord \in DOMAIN rows'[a.parent] /\ rows'[a.parent][a.ord] = a.item
      BY <2>2 DEF Lists, AckedOK, AnsweredOK
    <3> QED
      BY <3>1, <3>2, <3>3, <3>4
  <2> QED
    BY <2>1, <2>2 DEF Finishes
<1>4. PositionOK(m)' /\ AloneOK(m)'
  BY <1>2 DEF PositionOK, AloneOK, Writing
<1>5. ASSUME NEW a \in acked, a.alone PROVE AnsweredOK(a)'
  <2>1. AnsweredOK(a)
    BY <1>5 DEF Lists, AckedOK
  <2> QED
    BY <1>2, <1>3, <1>5, <2>1 DEF OnlyMoves, Same, AnsweredOK, Writing
<1>6. ASSUME NEW a \in acked' \ acked, a.alone PROVE AnsweredOK(a)'
  <2>1. /\ a \in AckedRows(call[m], alone[m])
        /\ \/ pc[m] = "problem" /\ Writes(m)
           \/ pc[m] = "cases" /\ call[m].done = Len(call[m].items) /\ UNCHANGED rows
    BY <1>6 DEF Finishes
  <2>2. alone[m]
    <3>1. PICK i, ord, item : a = [parent |-> call[m].parent, ord |-> ord, item |-> item, alone |-> alone[m]]
      BY <2>1, Zenon DEF AckedRows
    <3>2. a.alone = alone[m]
      BY <3>1, Zenon
    <3> QED
      BY <1>6, <3>2, Zenon
  <2>3. /\ a.parent = call[m].parent /\ a.ord \in Nat
        /\ a.ord \in DOMAIN rows'[a.parent] /\ rows'[a.parent][a.ord] = a.item
    BY <2>1, <2>2, AnsweredIsWritten
  <2>4. a.parent \in Parents /\ pc[m] \in Writing
    BY <2>1, <2>3 DEF CallsInv, CallOK, Writing, Saving, Parents
  <2>5. \A w \in Admins : ~(pc'[w] \in Writing /\ call'[w].parent = a.parent)
    <3>1. AloneOK(m)
      BY DEF Lists
    <3> QED
      BY <1>2, <2>2, <2>3, <2>4, <3>1 DEF OnlyMoves, Same, AloneOK, Writing
  <2> QED
    BY <2>3, <2>4, <2>5 DEF AnsweredOK
<1>7. AckedOK'
  BY <1>5, <1>6 DEF AckedOK
<1> QED
  BY <1>1, <1>3, <1>4, <1>7 DEF Lists

LEMMA ListsStep ==
  ASSUME CallsInv, Lists, [Next]_vars
  PROVE  CallsTyped' /\ Lists'
  BY KindsOfSteps, OutsideKeepsLists, BeginKeepsLists, ReadKeepsLists, ContinueKeepsLists, FinishKeepsLists

-----------------------------------------------------------------------------
(* The editor.                                                             *)

\* What was entered is in the draft, and in the batch that is being saved;
\* what was entered during a save is in the draft as well.
KeptOK(m) ==
  \A c \in Cases :
    /\ fate[m][c] = "draft" =>
         /\ c \in ToSet(draft[m])
         /\ pc[m] \in Saving => [by |-> m, what |-> c] \in ToSet(call[m].items)
    /\ fate[m][c] = "late" => c \in ToSet(draft[m]) /\ pc[m] \in Saving

\* A step at which the editor of m does nothing.
EditorRests(m) == draft'[m] = draft[m] /\ fate'[m] = fate[m]

LEMMA RestKeeps ==
  ASSUME NEW m \in Admins, KeptOK(m), EditorRests(m),
         \/ pc'[m] = pc[m] /\ call'[m].items = call[m].items
         \/ pc[m] \in Saving /\ pc'[m] \in Saving /\ call'[m].items = call[m].items
         \/ pc[m] \notin Saving /\ pc'[m] \notin Saving
  PROVE  KeptOK(m)'
  BY DEF KeptOK, EditorRests

LEMMA ConcatHasBoth ==
  ASSUME NEW S, NEW s \in Seq(S), NEW t \in Seq(S)
  PROVE  s \o t \in Seq(S) /\ \A c \in ToSet(s) \cup ToSet(t) : c \in ToSet(s \o t)
<1>1. s \o t \in Seq(S) /\ DOMAIN (s \o t) = 1..(Len(s) + Len(t))
  OBVIOUS
<1>2. DOMAIN s = 1..Len(s) /\ DOMAIN t = 1..Len(t) /\ Len(s) \in Nat /\ Len(t) \in Nat
  OBVIOUS
<1>3. ASSUME NEW i \in 1..Len(s) PROVE s[i] \in ToSet(s \o t)
  <2>1. (s \o t)[i] = s[i] /\ i \in DOMAIN (s \o t)
    BY <1>1, <1>2
  <2> QED
    BY <2>1 DEF ToSet
<1>4. ASSUME NEW i \in 1..Len(t) PROVE t[i] \in ToSet(s \o t)
  <2>1. (s \o t)[Len(s) + i] = t[i] /\ Len(s) + i \in DOMAIN (s \o t)
    BY <1>1, <1>2
  <2> QED
    BY <2>1 DEF ToSet
<1> QED
  BY <1>1, <1>2, <1>3, <1>4 DEF ToSet

Fates == {"new", "draft", "late", "saved", "lost"}

\* Only the call of m, and only its editor, change in a step of m.
OnlyMine(m) ==
  \A w \in Admins \ {m} : EditorRests(w) /\ pc'[w] = pc[w] /\ call'[w] = call[w]

LEMMA OthersKeep ==
  ASSUME \A w \in Admins : KeptOK(w), NEW m \in Admins, OnlyMine(m)
  PROVE  \A w \in Admins \ {m} : KeptOK(w)'
<1> SUFFICES ASSUME NEW w \in Admins \ {m} PROVE KeptOK(w)'
  OBVIOUS
<1>1. EditorRests(w) /\ pc'[w] = pc[w] /\ call'[w].items = call[w].items
  BY DEF OnlyMine
<1> QED
  BY <1>1, RestKeeps

LEMMA SaveFailedKeeps ==
  ASSUME CallsInv, \A w \in Admins : KeptOK(w), NEW m \in Admins, SaveFailed(m), End(m)
  PROVE  EditorTyped' /\ \A w \in Admins : KeptOK(w)'
<1>1. /\ pc' = [pc EXCEPT ![m] = "idle"] /\ call' = [call EXCEPT ![m] = NoCall]
      /\ UNCHANGED <<draft, file>>
  BY DEF SaveFailed, AfterError, End
<1>2. PICK f : f = [c \in Cases |-> IF fate[m][c] = "late" THEN "draft" ELSE fate[m][c]]
  OBVIOUS
<1>3. fate' = [fate EXCEPT ![m] = f] /\ f \in [Cases -> Fates]
  BY <1>2 DEF SaveFailed, CallsInv, Typing, Fates
<1>4. EditorTyped'
  BY <1>1, <1>3 DEF EditorTyped, CallsInv, Typing, Fates
<1>5. fate'[m] = f /\ pc'[m] = "idle"
  BY <1>1, <1>3 DEF CallsInv, Typing
<1>6. KeptOK(m)'
  BY <1>1, <1>2, <1>5 DEF KeptOK, Saving
<1>7. OnlyMine(m)
  BY <1>1, <1>3 DEF OnlyMine, EditorRests, CallsInv, Typing
<1> QED
  BY <1>4, <1>6, <1>7, OthersKeep

LEMMA SaveSucceededKeeps ==
  ASSUME CallsInv, \A w \in Admins : KeptOK(w), NEW m \in Admins, pc[m] = "cases",
         SaveSucceeded(m), End(m)
  PROVE  EditorTyped' /\ \A w \in Admins : KeptOK(w)'
<1>1. /\ pc' = [pc EXCEPT ![m] = "idle"] /\ call' = [call EXCEPT ![m] = NoCall]
      /\ draft' = [draft EXCEPT ![m] = <<>>] /\ UNCHANGED file
  BY DEF SaveSucceeded, AfterSuccess, End
<1>2. PICK f : f = [c \in Cases |-> IF [by |-> m, what |-> c] \in ToSet(call[m].items) THEN "saved"
                                   ELSE IF fate[m][c] = "late" THEN "lost" ELSE fate[m][c]]
  OBVIOUS
<1>3. fate' = [fate EXCEPT ![m] = f] /\ f \in [Cases -> Fates]
  BY <1>2 DEF SaveSucceeded, CallsInv, Typing, Fates
<1>4. EditorTyped'
  <2>1. <<>> \in Seq(Cases)
    OBVIOUS
  <2> QED
    BY <1>1, <1>3, <2>1 DEF EditorTyped, CallsInv, Typing, Fates
<1>5. fate'[m] = f
  BY <1>1, <1>3 DEF CallsInv, Typing
<1>6. ASSUME NEW c \in Cases PROVE f[c] # "draft" /\ f[c] # "late"
  BY <1>2 DEF KeptOK, Saving
<1>7. KeptOK(m)'
  BY <1>5, <1>6 DEF KeptOK
<1>8. OnlyMine(m)
  BY <1>1, <1>3 DEF OnlyMine, EditorRests, CallsInv, Typing
<1> QED
  BY <1>4, <1>7, <1>8, OthersKeep

LEMMA EnteredKeeps ==
  ASSUME CallsInv, \A w \in Admins : KeptOK(w), NEW m \in Admins, NEW cases \in Seq(Cases),
         Entered(m, cases), UNCHANGED <<pc, call>>, file' \in [Admins -> Files \cup {Nil}]
  PROVE  EditorTyped' /\ \A w \in Admins : KeptOK(w)'
<1>1. draft[m] \in Seq(Cases)
  BY DEF CallsInv, Typing
<1>2. draft[m] \o cases \in Seq(Cases) /\ \A c \in ToSet(draft[m]) \cup ToSet(cases) : c \in ToSet(draft[m] \o cases)
  BY <1>1, ConcatHasBoth
<1>3. draft' = [draft EXCEPT ![m] = draft[m] \o cases]
  BY DEF Entered
<1>4. PICK f : f = [c \in Cases |-> IF c \notin ToSet(cases) THEN fate[m][c]
                                   ELSE IF pc[m] \in Saving THEN "late" ELSE "draft"]
  OBVIOUS
<1>5. fate' = [fate EXCEPT ![m] = f] /\ f \in [Cases -> Fates]
  BY <1>4 DEF Entered, CallsInv, Typing, Fates, Saving
<1>6. EditorTyped'
  BY <1>2, <1>3, <1>5 DEF EditorTyped, CallsInv, Typing, Fates
<1>7. fate'[m] = f /\ draft'[m] = draft[m] \o cases
  BY <1>3, <1>5 DEF CallsInv, Typing
<1>8. KeptOK(m)'
  <2> SUFFICES ASSUME NEW c \in Cases
               PROVE  /\ f[c] = "draft" =>
                           /\ c \in ToSet(draft[m] \o cases)
                           /\ pc[m] \in Saving => [by |-> m, what |-> c] \in ToSet(call[m].items)
                      /\ f[c] = "late" => c \in ToSet(draft[m] \o cases) /\ pc[m] \in Saving
    BY <1>7 DEF KeptOK
  <2>1. CASE c \in ToSet(cases)
    BY <1>2, <1>4, <2>1
  <2>2. CASE c \notin ToSet(cases)
    <3>1. f[c] = fate[m][c]
      BY <1>4, <2>2
    <3> QED
      BY <1>2, <3>1 DEF KeptOK
  <2> QED
    BY <2>1, <2>2
<1>9. OnlyMine(m)
  BY <1>3, <1>5 DEF OnlyMine, EditorRests, CallsInv, Typing
<1> QED
  BY <1>6, <1>8, <1>9, OthersKeep

\* Steps of calls that the editor has no part in.
CallAlone(m) ==
  /\ EditorRests(m) /\ OnlyMine(m)
  /\ \/ pc'[m] = pc[m] /\ call'[m].items = call[m].items
     \/ pc[m] \in Saving /\ pc'[m] \in Saving /\ call'[m].items = call[m].items
     \/ pc[m] \notin Saving /\ pc'[m] \notin Saving

LEMMA CallAloneKeeps ==
  ASSUME CallsInv, \A w \in Admins : KeptOK(w), NEW m \in Admins, CallAlone(m), UNCHANGED editorVars
  PROVE  EditorTyped' /\ \A w \in Admins : KeptOK(w)'
<1>1. EditorTyped'
  BY DEF editorVars, EditorTyped, CallsInv, Typing
<1>2. KeptOK(m)'
  BY RestKeeps DEF CallAlone
<1> QED
  BY <1>1, <1>2, OthersKeep DEF CallAlone

LEMMA SaveKeeps ==
  ASSUME CallsInv, \A w \in Admins : KeptOK(w), NEW m \in Admins, Save(m)
  PROVE  EditorTyped' /\ \A w \in Admins : KeptOK(w)'
<1>1. /\ pc[m] = "idle" /\ pc' = [pc EXCEPT ![m] = "next_case"]
      /\ call' = [call EXCEPT ![m] = [parent |-> EditorOf[m], items |-> SentItems(m), ord |-> 0, done |-> 0]]
      /\ UNCHANGED <<draft, file, fate>>
  BY DEF Save, Begin, SentItems, editorVars
<1>2. EditorTyped' /\ OnlyMine(m)
  BY <1>1 DEF EditorTyped, OnlyMine, EditorRests, CallsInv, Typing
<1>3. call'[m].items = SentItems(m)
  BY <1>1 DEF CallsInv, Typing
<1>4. ASSUME NEW c \in Cases
      PROVE  fate[m][c] # "late" /\ (fate[m][c] = "draft" => c \in ToSet(draft[m]))
  BY <1>1 DEF KeptOK, Saving
<1>5. \A c \in ToSet(draft[m]) : [by |-> m, what |-> c] \in ToSet(SentItems(m))
  BY SentTyped DEF CallsInv
<1>6. KeptOK(m)'
  BY <1>1, <1>3, <1>4, <1>5 DEF KeptOK
<1> QED
  BY <1>2, <1>6, OthersKeep

LEMMA KeptStep ==
  ASSUME CallsInv, \A w \in Admins : KeptOK(w), [Next]_vars
  PROVE  EditorTyped' /\ \A w \in Admins : KeptOK(w)'
<1>1. CASE UNCHANGED <<pc, call, draft, fate>> /\ file' \in [Admins -> Files \cup {Nil}]
  <2>1. EditorTyped'
    BY <1>1 DEF EditorTyped, CallsInv, Typing
  <2>2. \A w \in Admins : KeptOK(w)'
    BY <1>1 DEF KeptOK
  <2> QED
    BY <2>1, <2>2
<1>2. CASE UNCHANGED vars
  BY <1>1, <1>2 DEF vars, callVars, editorVars, CallsInv, Typing
<1>3. ASSUME NEW s \in Slugs, NEW c \in [starts: Instants, ends: Instants],
             CreateContest(s, c) \/ UpdateContest(s, c)
      PROVE  UNCHANGED <<pc, call, draft, fate, file>>
  BY <1>3 DEF CreateContest, UpdateContest, callVars, editorVars
<1>4. ASSUME NEW m \in Admins, NEW s \in Slugs, NEW statement \in Statements, StartProblem(m, s, statement)
      PROVE  CallAlone(m) /\ UNCHANGED editorVars
  BY <1>4 DEF StartProblem, Begin, editorVars, CallAlone, OnlyMine, EditorRests, Saving, CallsInv, Typing
<1>5. ASSUME NEW m \in Admins, NextProblemOrd(m) PROVE CallAlone(m) /\ UNCHANGED editorVars
  BY <1>5 DEF NextProblemOrd, ReadOrd, editorVars, CallAlone, OnlyMine, EditorRests, Saving, CallsInv, Typing
<1>6. ASSUME NEW m \in Admins, NextTestCaseOrd(m) PROVE CallAlone(m) /\ UNCHANGED editorVars
  <2>1. /\ pc[m] = "next_case" /\ pc' = [pc EXCEPT ![m] = "cases"] /\ UNCHANGED editorVars
        /\ \E ord : call' = [call EXCEPT ![m].ord = ord]
    BY <1>6 DEF NextTestCaseOrd, ReadOrd
  <2> QED
    BY <2>1 DEF editorVars, CallAlone, OnlyMine, EditorRests, Saving, CallsInv, Typing
<1>7. ASSUME NEW m \in Admins, CreateProblem(m) PROVE CallAlone(m) /\ UNCHANGED editorVars
  BY <1>7 DEF CreateProblem, End, editorVars, CallAlone, OnlyMine, EditorRests, Saving, CallsInv, Typing
<1>8. ASSUME NEW m \in Admins, CreateTestCase(m) PROVE CallAlone(m) /\ UNCHANGED editorVars
  <2>1. UNCHANGED <<pc, draft, fate>> /\ UNCHANGED editorVars /\ call' = [call EXCEPT ![m].done = call[m].done + 1]
    BY <1>8 DEF CreateTestCase, editorVars
  <2> QED
    BY <2>1 DEF CallAlone, OnlyMine, EditorRests, CallsInv, Typing
<1>9. ASSUME NEW m \in Admins, AnswerSave(m) PROVE EditorTyped' /\ \A w \in Admins : KeptOK(w)'
  BY <1>9, SaveFailedKeeps, SaveSucceededKeeps DEF AnswerSave
<1>10. ASSUME NEW m \in Admins, StatementFails(m) PROVE EditorTyped' /\ \A w \in Admins : KeptOK(w)'
  <2>1. CASE pc[m] \in Saving
    BY <1>10, <2>1, SaveFailedKeeps DEF StatementFails, Saving
  <2>2. CASE pc[m] \notin Saving
    <3>1. UNCHANGED editorVars /\ End(m)
      BY <1>10, <2>2 DEF StatementFails, Saving
    <3>2. CallAlone(m)
      BY <2>2, <3>1 DEF End, editorVars, CallAlone, OnlyMine, EditorRests, Saving, CallsInv, Typing
    <3> QED
      BY <3>1, <3>2, CallAloneKeeps
  <2> QED
    BY <2>1, <2>2
<1>11. ASSUME NEW m \in Admins, NEW c \in Typed, Type(m, c) PROVE EditorTyped' /\ \A w \in Admins : KeptOK(w)'
  <2>1. <<c>> \in Seq(Cases)
    BY Bounds
  <2>2. Entered(m, <<c>>) /\ UNCHANGED <<pc, call>> /\ file' \in [Admins -> Files \cup {Nil}]
    BY <1>11 DEF Type, callVars, CallsInv, Typing
  <2> QED
    BY <2>1, <2>2, EnteredKeeps
<1>12. ASSUME NEW m \in Admins, NEW f \in Files, ImportFile(m, f)
       PROVE  UNCHANGED <<pc, call, draft, fate>> /\ file' \in [Admins -> Files \cup {Nil}]
  BY <1>12 DEF ImportFile, callVars, CallsInv, Typing
<1>13. ASSUME NEW m \in Admins, Imported(m) PROVE EditorTyped' /\ \A w \in Admins : KeptOK(w)'
  <2>1. UNCHANGED <<pc, call>> /\ file' \in [Admins -> Files \cup {Nil}]
    BY <1>13 DEF Imported, callVars, CallsInv, Typing
  <2>2. CASE ParseUpload(file[m]) = Failed
    BY <1>1, <1>13, <2>1, <2>2 DEF Imported
  <2>3. CASE ParseUpload(file[m]) # Failed
    <3>1. file[m] \in Files
      BY <1>13 DEF Imported, CallsInv, Typing
    <3>2. ParseUpload(file[m]) \in Seq(Cases)
      BY <2>3, <3>1, Bounds
    <3>3. Entered(m, ParseUpload(file[m]))
      BY <1>13, <2>3 DEF Imported
    <3> QED
      BY <2>1, <3>2, <3>3, EnteredKeeps
  <2> QED
    BY <2>2, <2>3
<1>14. ASSUME NEW m \in Admins, ImportFails(m)
       PROVE  UNCHANGED <<pc, call, draft, fate>> /\ file' \in [Admins -> Files \cup {Nil}]
  BY <1>14 DEF ImportFails, callVars, CallsInv, Typing
<1>15. CASE UNCHANGED <<pc, call, draft, fate, file>>
  BY <1>1, <1>15 DEF CallsInv, Typing
<1> QED
  BY <1>1, <1>2, <1>3, <1>4, <1>5, <1>6, <1>7, <1>8, <1>9, <1>10, <1>11, <1>12, <1>13, <1>14, <1>15,
     CallAloneKeeps, SaveKeeps DEF Next

-----------------------------------------------------------------------------
(* A test case is stored once.                                             *)

\* What one file holds, it holds once.
NoTwins == \A f \in Files : ParseUpload(f) # Failed => IsInjective(ParseUpload(f))

ItemOf(m, c) == [by |-> m, what |-> c]

\* The draft holds nothing twice, and nothing that was saved.
DraftOnce(m) ==
  /\ IsInjective(draft[m])
  /\ \A c \in ToSet(draft[m]) : fate[m][c] \in {"draft", "late"}

\* A batch of test cases is of the draft, and every item is in it once.
BatchOnce(m) ==
  pc[m] \in Saving =>
    /\ call[m].parent = EditorOf[m]
    /\ IsInjective(call[m].items)
    /\ \A i \in DOMAIN call[m].items :
         \E c \in Cases : call[m].items[i] = ItemOf(m, c) /\ fate[m][c] = "draft"

\* The batch that is being written has put c at position o.
PutThere(m, c, o) ==
  /\ pc[m] = "cases"
  /\ \E i \in 1..call[m].done :
       call[m].items[i] = ItemOf(m, c) /\ o = call[m].ord + i - 1

\* A stored row is of a batch that was saved, or of the one being written.
RowsOnce(m) ==
  \A c \in Cases, o \in DOMAIN rows[EditorOf[m]] :
    rows[EditorOf[m]][o] = ItemOf(m, c) =>
      /\ fate[m][c] = "saved" \/ PutThere(m, c, o)
      /\ \A q \in DOMAIN rows[EditorOf[m]] : rows[EditorOf[m]][q] = ItemOf(m, c) => q = o

OnceOK(m) == DraftOnce(m) /\ BatchOnce(m) /\ RowsOnce(m)

OnceInv ==
  /\ faults \in Nat /\ faults <= MaxFaults
  /\ faults = MaxFaults => \A m \in Admins : OnceOK(m)

\* No new row holds a test case of m.
RowsSpared(m) ==
  \A c \in Cases, o \in DOMAIN rows'[EditorOf[m]] :
    rows'[EditorOf[m]][o] = ItemOf(m, c) =>
      o \in DOMAIN rows[EditorOf[m]] /\ rows[EditorOf[m]][o] = ItemOf(m, c)

LEMMA SparedKeepsOnce ==
  ASSUME NEW m \in Admins, OnceOK(m), EditorRests(m), RowsSpared(m), BatchOnce(m)',
         \A c \in Cases, o \in DOMAIN rows[EditorOf[m]] : PutThere(m, c, o) => PutThere(m, c, o)'
  PROVE  OnceOK(m)'
<1>1. DraftOnce(m)'
  BY DEF OnceOK, DraftOnce, EditorRests
<1>2. RowsOnce(m)'
  <2> SUFFICES ASSUME NEW c \in Cases, NEW o \in DOMAIN rows'[EditorOf[m]],
                      rows'[EditorOf[m]][o] = ItemOf(m, c)
               PROVE  /\ fate'[m][c] = "saved" \/ PutThere(m, c, o)'
                      /\ \A q \in DOMAIN rows'[EditorOf[m]] :
                           rows'[EditorOf[m]][q] = ItemOf(m, c) => q = o
    BY DEF RowsOnce, ItemOf
  <2>1. o \in DOMAIN rows[EditorOf[m]] /\ rows[EditorOf[m]][o] = ItemOf(m, c)
    BY DEF RowsSpared
  <2>2. /\ fate[m][c] = "saved" \/ PutThere(m, c, o)
        /\ \A q \in DOMAIN rows[EditorOf[m]] : rows[EditorOf[m]][q] = ItemOf(m, c) => q = o
    BY <2>1 DEF OnceOK, RowsOnce
  <2>3. \A q \in DOMAIN rows'[EditorOf[m]] : rows'[EditorOf[m]][q] = ItemOf(m, c) => q = o
    BY <2>2 DEF RowsSpared
  <2> QED
    BY <2>1, <2>2, <2>3 DEF EditorRests
<1> QED
  BY <1>1, <1>2 DEF OnceOK

LEMMA OthersOnce ==
  ASSUME NEW m \in Admins, OnceOK(m), EditorRests(m), pc'[m] = pc[m], call'[m] = call[m],
         RowsSpared(m)
  PROVE  OnceOK(m)'
<1>1. BatchOnce(m)'
  BY DEF OnceOK, BatchOnce, EditorRests, ItemOf
<1>2. \A c \in Cases, o \in DOMAIN rows[EditorOf[m]] : PutThere(m, c, o) => PutThere(m, c, o)'
  BY DEF PutThere, ItemOf
<1> QED
  BY <1>1, <1>2, SparedKeepsOnce

LEMMA UnwrittenSpares == ASSUME NEW m \in Admins, UNCHANGED rows PROVE RowsSpared(m)
  BY DEF RowsSpared, ItemOf

\* A row that w writes holds no test case of another one, and none at all if
\* w creates a problem.
LEMMA WriteSpares ==
  ASSUME CallsInv, Lists, NEW w \in Admins, BatchOnce(w), Writes(w), NEW m \in Admins,
         m # w \/ pc[w] = "problem"
  PROVE  RowsSpared(m)
<1>1. PICK p, k, item : p = call[w].parent /\ k = Position(call[w]) /\ item = call[w].items[call[w].done + 1]
  OBVIOUS
<1>2. /\ \A q \in Parents \ {p} : rows'[q] = rows[q]
      /\ DOMAIN rows'[p] = DOMAIN rows[p] \cup {k} /\ rows'[p][k] = item
      /\ \A o \in DOMAIN rows[p] \ {k} : rows'[p][o] = rows[p][o]
  BY <1>1, UpsertKeepsRows DEF Writes, Lists
<1>3. EditorOf[m] \in ProblemIds /\ EditorOf[m] \in Parents
  BY Bounds DEF Parents
<1>4. CASE EditorOf[m] # p
  BY <1>2, <1>3, <1>4 DEF RowsSpared
<1>5. CASE EditorOf[m] = p
  <2>1. pc[w] = "cases"
    <3>1. pc[w] = "problem" => p \in Slugs
      BY <1>1 DEF CallsInv, CallOK
    <3> QED
      BY <1>3, <1>5, <3>1, Bounds DEF Writes, Writing
  <2>2. call[w].done + 1 \in DOMAIN call[w].items
    BY CallTyped DEF CallsInv, Writes
  <2>3. PICK d \in Cases : item = ItemOf(w, d)
    BY <1>1, <2>1, <2>2 DEF BatchOnce, Saving
  <2>4. \A c \in Cases : item # ItemOf(m, c)
    BY <2>1, <2>3 DEF ItemOf
  <2> QED
    BY <1>2, <1>5, <2>4 DEF RowsSpared
<1> QED
  BY <1>4, <1>5

LEMMA ContinueKeepsOnce ==
  ASSUME CallsInv, Lists, NEW m \in Admins, OnceOK(m), Continues(m), EditorRests(m)
  PROVE  OnceOK(m)'
<1>1. PICK p, k, ord, done, items :
        /\ p = call[m].parent /\ k = Position(call[m]) /\ ord = call[m].ord
        /\ done = call[m].done /\ items = call[m].items
  OBVIOUS
<1>2. /\ ord \in Nat /\ done \in Nat /\ k = ord + done /\ done + 1 \in DOMAIN items
      /\ DOMAIN items = 1..Len(items) /\ Len(items) \in Nat
  BY <1>1, CallTyped DEF CallsInv, Position, Continues, Writes
<1>3. Moved(m, "cases", [call[m] EXCEPT !.done = call[m].done + 1]) /\ pc[m] = "cases"
  BY ContinueTyped DEF Continues
<1>4. /\ call'[m].parent = p /\ call'[m].ord = ord /\ call'[m].done = done + 1
      /\ call'[m].items = items /\ pc'[m] = "cases"
  <2>1. call[m] \in [parent: Parents \cup {Nil}, items: Seq(Items), ord: Nat, done: Nat]
    BY CallTyped DEF CallsInv
  <2>2. pc'[m] = "cases" /\ call'[m] = [call[m] EXCEPT !.done = call[m].done + 1]
    BY <1>3 DEF Moved, CallsInv, Typing
  <2> QED
    BY <1>1, <2>1, <2>2
<1>5. EditorOf[m] = p /\ IsInjective(items)
      /\ \A i \in DOMAIN items : \E c \in Cases : items[i] = ItemOf(m, c) /\ fate[m][c] = "draft"
  BY <1>1, <1>3 DEF OnceOK, BatchOnce, Saving
<1>6. /\ DOMAIN rows'[p] = DOMAIN rows[p] \cup {k} /\ rows'[p][k] = items[done + 1]
      /\ \A o \in DOMAIN rows[p] \ {k} : rows'[p][o] = rows[p][o]
  BY <1>1, UpsertKeepsRows DEF Continues, Writes, Lists
<1>7. DraftOnce(m)' /\ BatchOnce(m)'
  BY <1>4, <1>5 DEF OnceOK, DraftOnce, BatchOnce, EditorRests, ItemOf
<1>8. ASSUME NEW c \in Cases, NEW o \in DOMAIN rows[p], rows[p][o] = ItemOf(m, c)
      PROVE  /\ items[done + 1] # ItemOf(m, c)
             /\ \/ fate[m][c] = "saved"
                \/ \E i \in 1..done : items[i] = ItemOf(m, c) /\ o = ord + i - 1
             /\ \A q \in DOMAIN rows[p] : rows[p][q] = ItemOf(m, c) => q = o
  <2>1. /\ fate[m][c] = "saved" \/ PutThere(m, c, o)
        /\ \A q \in DOMAIN rows[p] : rows[p][q] = ItemOf(m, c) => q = o
    BY <1>5, <1>8 DEF OnceOK, RowsOnce
  <2>2. \/ fate[m][c] = "saved"
        \/ \E i \in 1..done : items[i] = ItemOf(m, c) /\ o = ord + i - 1
    BY <1>1, <2>1 DEF PutThere
  <2>3. ASSUME items[done + 1] = ItemOf(m, c) PROVE FALSE
    <3>1. fate[m][c] = "draft"
      BY <1>2, <1>5, <2>3 DEF ItemOf
    <3>2. PICK i \in 1..done : items[i] = ItemOf(m, c)
      BY <2>2, <3>1
    <3>3. i \in DOMAIN items /\ i # done + 1
      BY <1>2, <3>2
    <3> QED
      BY <1>2, <1>5, <2>3, <3>2, <3>3 DEF IsInjective
  <2> QED
    BY <2>1, <2>2, <2>3
<1>9. ASSUME NEW c \in Cases, NEW o \in DOMAIN rows'[p], rows'[p][o] = ItemOf(m, c)
      PROVE  /\ fate'[m][c] = "saved" \/ PutThere(m, c, o)'
             /\ \A q \in DOMAIN rows'[p] : rows'[p][q] = ItemOf(m, c) => q = o
  <2>0. fate'[m] = fate[m]
    BY DEF EditorRests
  <2>1. CASE o = k
    <3>1. items[done + 1] = ItemOf(m, c) /\ done + 1 \in 1..(done + 1) /\ o = ord + (done + 1) - 1
      BY <1>2, <1>6, <1>9, <2>1
    <3>2. PutThere(m, c, o)'
      BY <1>4, <3>1 DEF PutThere, ItemOf
    <3>3. \A q \in DOMAIN rows'[p] : rows'[p][q] = ItemOf(m, c) => q = o
      BY <1>6, <1>8, <2>1, <3>1
    <3> QED
      BY <3>2, <3>3
  <2>2. CASE o # k
    <3>1. o \in DOMAIN rows[p] /\ rows[p][o] = ItemOf(m, c)
      BY <1>6, <1>9, <2>2
    <3>2. \A q \in DOMAIN rows'[p] : rows'[p][q] = ItemOf(m, c) => q = o
      BY <1>6, <1>8, <3>1
    <3>3. CASE \E i \in 1..done : items[i] = ItemOf(m, c) /\ o = ord + i - 1
      <4>1. PICK i \in 1..done : items[i] = ItemOf(m, c) /\ o = ord + i - 1
        BY <3>3
      <4>2. i \in 1..(done + 1)
        BY <1>2
      <4>3. PutThere(m, c, o)'
        BY <1>4, <4>1, <4>2 DEF PutThere, ItemOf
      <4> QED
        BY <3>2, <4>3
    <3> QED
      BY <1>8, <2>0, <3>1, <3>2, <3>3
  <2> QED
    BY <2>1, <2>2
<1>10. RowsOnce(m)'
  BY <1>5, <1>9 DEF RowsOnce, ItemOf
<1> QED
  BY <1>7, <1>10 DEF OnceOK

\* The answer to a save: the whole batch is saved, the draft is empty.
LEMMA SuccessKeepsOnce ==
  ASSUME CallsInv, NEW m \in Admins, OnceOK(m), pc[m] = "cases",
         call[m].done = Len(call[m].items), UNCHANGED rows, SaveSucceeded(m), End(m)
  PROVE  OnceOK(m)'
<1>1. pc'[m] = "idle" /\ draft'[m] = <<>>
  BY DEF End, SaveSucceeded, AfterSuccess, CallsInv, Typing
<1>2. PICK f : f = [c \in Cases |-> IF [by |-> m, what |-> c] \in ToSet(call[m].items) THEN "saved"
                                   ELSE IF fate[m][c] = "late" THEN "lost" ELSE fate[m][c]]
  OBVIOUS
<1>3. fate'[m] = f
  BY <1>2 DEF SaveSucceeded, CallsInv, Typing
<1>4. DraftOnce(m)' /\ BatchOnce(m)'
  BY <1>1 DEF DraftOnce, BatchOnce, IsInjective, ToSet, Saving
<1>5. ASSUME NEW c \in Cases, fate[m][c] = "saved" \/ \E o : PutThere(m, c, o) PROVE f[c] = "saved"
  <2>1. CASE fate[m][c] = "saved"
    BY <1>2, <2>1
  <2>2. CASE \E o : PutThere(m, c, o)
    <3>1. PICK i \in 1..call[m].done : call[m].items[i] = ItemOf(m, c)
      BY <2>2 DEF PutThere
    <3>2. i \in DOMAIN call[m].items
      BY CallTyped DEF CallsInv
    <3>3. [by |-> m, what |-> c] \in ToSet(call[m].items)
      BY <3>1, <3>2 DEF ToSet, ItemOf
    <3> QED
      BY <1>2, <3>3
  <2> QED
    BY <1>5, <2>1, <2>2
<1>6. RowsOnce(m)'
  <2> SUFFICES ASSUME NEW c \in Cases, NEW o \in DOMAIN rows[EditorOf[m]],
                      rows[EditorOf[m]][o] = ItemOf(m, c)
               PROVE  /\ f[c] = "saved"
                      /\ \A q \in DOMAIN rows[EditorOf[m]] :
                           rows[EditorOf[m]][q] = ItemOf(m, c) => q = o
    BY <1>3 DEF RowsOnce, ItemOf
  <2> QED
    BY <1>5 DEF OnceOK, RowsOnce
<1> QED
  BY <1>4, <1>6 DEF OnceOK

LEMMA EnteredKeepsOnce ==
  ASSUME CallsInv, NEW m \in Admins, OnceOK(m), NEW cases \in Seq(Cases), IsInjective(cases),
         Entered(m, cases), UNCHANGED <<rows, pc, call>>
  PROVE  OnceOK(m)'
<1>1. draft[m] \in Seq(Cases) /\ \A c \in ToSet(cases) : fate[m][c] = "new"
  BY DEF CallsInv, Typing, Entered
<1>2. PICK s \in Seq(Cases) : s = draft[m]
  BY <1>1
<1>3. draft'[m] = s \o cases
  BY <1>2 DEF Entered, CallsInv, Typing
<1>4. PICK f : f = [c \in Cases |-> IF c \notin ToSet(cases) THEN fate[m][c]
                                   ELSE IF pc[m] \in Saving THEN "late" ELSE "draft"]
  OBVIOUS
<1>5. fate'[m] = f
  BY <1>4 DEF Entered, CallsInv, Typing, Saving
<1>6. \A c \in ToSet(s) : c \notin ToSet(cases) /\ fate[m][c] \in {"draft", "late"}
  BY <1>1, <1>2 DEF OnceOK, DraftOnce
<1>7. /\ DOMAIN s = 1..Len(s) /\ DOMAIN cases = 1..Len(cases) /\ Len(s) \in Nat /\ Len(cases) \in Nat
      /\ DOMAIN (s \o cases) = 1..(Len(s) + Len(cases))
      /\ \A i \in 1..(Len(s) + Len(cases)) :
           (s \o cases)[i] = IF i <= Len(s) THEN s[i] ELSE cases[i - Len(s)]
  OBVIOUS
<1>8. ASSUME NEW i \in DOMAIN (s \o cases)
      PROVE  \/ i \in DOMAIN s /\ (s \o cases)[i] = s[i] /\ s[i] \in ToSet(s)
             \/ /\ i - Len(s) \in DOMAIN cases /\ (s \o cases)[i] = cases[i - Len(s)]
                /\ cases[i - Len(s)] \in ToSet(cases)
  BY <1>7 DEF ToSet
<1>9. IsInjective(s \o cases)
  <2> SUFFICES ASSUME NEW i \in DOMAIN (s \o cases), NEW j \in DOMAIN (s \o cases),
                      (s \o cases)[i] = (s \o cases)[j]
               PROVE  i = j
    BY DEF IsInjective
  <2>1. IsInjective(s)
    BY <1>2 DEF OnceOK, DraftOnce
  <2>2. i \in Nat /\ j \in Nat
    BY <1>7
  <2>3. CASE i \in DOMAIN s /\ (s \o cases)[i] = s[i] /\ s[i] \in ToSet(s)
    <3>1. j \in DOMAIN s /\ (s \o cases)[j] = s[j]
      BY <1>6, <1>8, <2>3
    <3> QED
      BY <2>1, <2>3, <3>1 DEF IsInjective
  <2>4. CASE /\ i - Len(s) \in DOMAIN cases /\ (s \o cases)[i] = cases[i - Len(s)]
             /\ cases[i - Len(s)] \in ToSet(cases)
    <3>1. j - Len(s) \in DOMAIN cases /\ (s \o cases)[j] = cases[j - Len(s)]
      BY <1>6, <1>8, <2>4
    <3>2. i - Len(s) = j - Len(s)
      BY <2>4, <3>1 DEF IsInjective
    <3> QED
      BY <1>7, <2>2, <3>2
  <2> QED
    BY <1>8, <2>3, <2>4
<1>10. ASSUME NEW c \in ToSet(s \o cases) PROVE f[c] \in {"draft", "late"}
  <2>1. c \in ToSet(s) \/ c \in ToSet(cases)
    BY <1>8 DEF ToSet
  <2>2. c \in Cases
    <3>1. s \o cases \in Seq(Cases)
      OBVIOUS
    <3> QED
      BY <3>1 DEF ToSet
  <2> QED
    BY <1>4, <1>6, <2>1, <2>2
<1>11. DraftOnce(m)'
  BY <1>3, <1>5, <1>9, <1>10 DEF DraftOnce
<1>12. ASSUME NEW c \in Cases, fate[m][c] \in {"draft", "saved"} PROVE f[c] = fate[m][c]
  BY <1>1, <1>4, <1>12
<1>13. BatchOnce(m)'
  <2> SUFFICES ASSUME pc[m] \in Saving
               PROVE  /\ call[m].parent = EditorOf[m]
                      /\ IsInjective(call[m].items)
                      /\ \A i \in DOMAIN call[m].items :
                           \E c \in Cases : call[m].items[i] = ItemOf(m, c) /\ f[c] = "draft"
    BY <1>5 DEF BatchOnce, ItemOf
  <2> QED
    BY <1>12 DEF OnceOK, BatchOnce
<1>14. RowsOnce(m)'
  <2> SUFFICES ASSUME NEW c \in Cases, NEW o \in DOMAIN rows[EditorOf[m]],
                      rows[EditorOf[m]][o] = ItemOf(m, c)
               PROVE  /\ f[c] = "saved" \/ PutThere(m, c, o)
                      /\ \A q \in DOMAIN rows[EditorOf[m]] :
                           rows[EditorOf[m]][q] = ItemOf(m, c) => q = o
    BY <1>5 DEF RowsOnce, ItemOf, PutThere
  <2> QED
    BY <1>12 DEF OnceOK, RowsOnce
<1> QED
  BY <1>11, <1>13, <1>14 DEF OnceOK

\* The batch of a save is the draft, of which nothing was entered late.
LEMMA SaveKeepsOnce ==
  ASSUME CallsInv, NEW m \in Admins, OnceOK(m), KeptOK(m), Save(m)
  PROVE  OnceOK(m)'
<1>1. /\ pc[m] = "idle" /\ pc' = [pc EXCEPT ![m] = "next_case"]
      /\ call' = [call EXCEPT ![m] = [parent |-> EditorOf[m], items |-> SentItems(m), ord |-> 0, done |-> 0]]
      /\ UNCHANGED <<draft, fate, rows>>
  BY DEF Save, Begin, SentItems, editorVars
<1>2. pc'[m] = "next_case" /\ call'[m].items = SentItems(m) /\ call'[m].parent = EditorOf[m]
  BY <1>1 DEF CallsInv, Typing
<1>3. draft[m] \in Seq(Cases)
  BY DEF CallsInv, Typing
<1>4. ASSUME NEW i \in DOMAIN draft[m]
      PROVE  /\ draft[m][i] \in Cases /\ SentItems(m)[i] = ItemOf(m, draft[m][i])
             /\ fate[m][draft[m][i]] = "draft"
  <2>1. draft[m][i] \in Cases /\ draft[m][i] \in ToSet(draft[m])
    BY <1>3 DEF ToSet
  <2>2. fate[m][draft[m][i]] # "late"
    BY <1>1, <2>1 DEF KeptOK, Saving
  <2> QED
    BY <2>1, <2>2 DEF OnceOK, DraftOnce, SentItems, ItemOf
<1>5. IsInjective(SentItems(m))
  <2>1. DOMAIN SentItems(m) = DOMAIN draft[m] /\ IsInjective(draft[m])
    BY DEF SentItems, OnceOK, DraftOnce
  <2>2. ASSUME NEW i \in DOMAIN draft[m], NEW j \in DOMAIN draft[m], SentItems(m)[i] = SentItems(m)[j]
        PROVE  draft[m][i] = draft[m][j]
    <3>1. ItemOf(m, draft[m][i]) = ItemOf(m, draft[m][j])
      BY <1>4, <2>2
    <3>2. \A c, d : ItemOf(m, c) = ItemOf(m, d) => c = d
      BY DEF ItemOf
    <3> QED
      BY <3>1, <3>2
  <2> QED
    BY <2>1, <2>2 DEF IsInjective
<1>6. BatchOnce(m)'
  <2>1. DOMAIN SentItems(m) = DOMAIN draft[m]
    BY DEF SentItems
  <2>2. \A i \in DOMAIN SentItems(m) :
          \E c \in Cases : SentItems(m)[i] = ItemOf(m, c) /\ fate[m][c] = "draft"
    BY <1>4, <2>1
  <2> QED
    BY <1>1, <1>2, <1>5, <2>2 DEF BatchOnce, ItemOf
<1>7. EditorRests(m) /\ RowsSpared(m)
  BY <1>1, UnwrittenSpares DEF EditorRests
<1>8. \A c \in Cases, o \in DOMAIN rows[EditorOf[m]] : ~PutThere(m, c, o)
  BY <1>1 DEF PutThere
<1> QED
  BY <1>6, <1>7, <1>8, SparedKeepsOnce

\* The other steps of m in which its editor has no part.
LEMMA RestKeepsOnce ==
  ASSUME CallsInv, Lists, NEW m \in Admins, OnceOK(m), EditorRests(m), RowsSpared(m),
         \/ Reads(m)
         \/ pc[m] \notin Saving /\ pc'[m] \notin Saving
  PROVE  OnceOK(m)'
<1>1. CASE pc[m] \notin Saving /\ pc'[m] \notin Saving
  <2>1. BatchOnce(m)' /\ \A c \in Cases, o \in DOMAIN rows[EditorOf[m]] : ~PutThere(m, c, o)
    BY <1>1 DEF BatchOnce, PutThere, Saving
  <2> QED
    BY <2>1, SparedKeepsOnce
<1>2. CASE Reads(m)
  <2>1. /\ Moved(m, IF pc[m] = "next_problem" THEN "problem" ELSE "cases",
                 [call[m] EXCEPT !.ord = NextOrd(rows[call[m].parent])])
        /\ pc[m] \in {"next_problem", "next_case"}
    BY <1>2, ReadTyped DEF Lists
  <2>2. PICK ord : ord = NextOrd(rows[call[m].parent])
    OBVIOUS
  <2>3. call[m] \in [parent: Parents \cup {Nil}, items: Seq(Items), ord: Nat, done: Nat]
    BY CallTyped DEF CallsInv
  <2>4. /\ call'[m] = [call[m] EXCEPT !.ord = ord]
        /\ pc'[m] = IF pc[m] = "next_problem" THEN "problem" ELSE "cases"
    BY <2>1, <2>2 DEF Moved, CallsInv, Typing
  <2>5. call'[m].parent = call[m].parent /\ call'[m].items = call[m].items
    BY <2>3, <2>4
  <2>6. pc'[m] \in Saving => pc[m] \in Saving
    BY <2>1, <2>4 DEF Saving
  <2>7. BatchOnce(m)'
    BY <2>5, <2>6 DEF OnceOK, BatchOnce, EditorRests, ItemOf
  <2>8. \A c \in Cases, o \in DOMAIN rows[EditorOf[m]] : ~PutThere(m, c, o)
    BY <2>1 DEF PutThere
  <2> QED
    BY <2>7, <2>8, SparedKeepsOnce
<1> QED
  BY <1>1, <1>2

\* What a step of w does to the others.
LEMMA OthersOnceAll ==
  ASSUME \A m \in Admins : OnceOK(m), NEW w \in Admins, OnlyMine(w),
         \A m \in Admins \ {w} : RowsSpared(m), OnceOK(w)'
  PROVE  \A m \in Admins : OnceOK(m)'
  BY OthersOnce DEF OnlyMine

LEMMA OnceStep ==
  ASSUME NoTwins, CallsInv, Lists, \A m \in Admins : KeptOK(m), [Next]_vars, OnceInv
  PROVE  OnceInv'
<1>1. faults' \in Nat /\ faults' <= MaxFaults /\ (faults' = MaxFaults => faults = MaxFaults)
  <2>1. faults' = faults \/ (faults > 0 /\ faults' = faults - 1)
    <3>1. ASSUME NEW s \in Slugs, NEW c, CreateContest(s, c) \/ UpdateContest(s, c)
          PROVE  faults' = faults
      BY <3>1 DEF CreateContest, UpdateContest
    <3>2. ASSUME NEW m \in Admins,
                 \/ \E s \in Slugs, statement \in Statements : StartProblem(m, s, statement)
                 \/ NextProblemOrd(m) \/ CreateProblem(m) \/ Save(m)
                 \/ NextTestCaseOrd(m) \/ CreateTestCase(m)
          PROVE  faults' = faults
      BY <3>2 DEF StartProblem, NextProblemOrd, CreateProblem, Save, NextTestCaseOrd,
         CreateTestCase, Begin, ReadOrd
    <3>3. ASSUME NEW m \in Admins, AnswerSave(m) \/ StatementFails(m) \/ ImportFails(m)
          PROVE  faults' = faults \/ (faults > 0 /\ faults' = faults - 1)
      BY <3>3 DEF AnswerSave, StatementFails, ImportFails
    <3>4. ASSUME NEW m \in Admins,
                 \/ \E c \in Typed : Type(m, c)
                 \/ \E f \in Files : ImportFile(m, f)
                 \/ Imported(m)
          PROVE  faults' = faults
      BY <3>4 DEF Type, ImportFile, Imported
    <3>5. ASSUME UNCHANGED vars PROVE faults' = faults
      BY <3>5 DEF vars
    <3> QED
      BY <3>1, <3>2, <3>3, <3>4, <3>5, Zenon DEF Next
  <2>2. MaxFaults \in Nat
    BY AuthoringConstants DEF AuthoringConstants
  <2> QED
    BY <2>1, <2>2 DEF OnceInv
<1> SUFFICES ASSUME faults' = MaxFaults, faults = MaxFaults, \A m \in Admins : OnceOK(m)
             PROVE  \A m \in Admins : OnceOK(m)'
  BY <1>1 DEF OnceInv
<1>f. faults' = faults /\ faults \in Nat /\ faults' # faults - 1
  BY <1>1
<1>2. ASSUME UNCHANGED <<rows, pc, call, draft, fate>> PROVE \A m \in Admins : OnceOK(m)'
  <2>1. \A m \in Admins : EditorRests(m) /\ RowsSpared(m) /\ pc'[m] = pc[m] /\ call'[m] = call[m]
    BY <1>2, UnwrittenSpares DEF EditorRests
  <2> QED
    BY <2>1, OthersOnce
<1>3. ASSUME NEW w \in Admins,
             (\E s \in Slugs, statement \in Statements : StartProblem(w, s, statement))
               \/ NextProblemOrd(w) \/ NextTestCaseOrd(w)
      PROVE  \A m \in Admins : OnceOK(m)'
  <2>1. OnlyMine(w) /\ EditorRests(w) /\ UNCHANGED rows
    <3>1. UNCHANGED <<rows, draft, fate>> /\ \E place, record : Moved(w, place, record)
      <4>1. ASSUME NEW s \in Slugs, NEW statement \in Statements, StartProblem(w, s, statement)
            PROVE  UNCHANGED <<rows, draft, fate>> /\ \E place, record : Moved(w, place, record)
        BY <4>1 DEF StartProblem, Begin, Moved, editorVars
      <4>2. ASSUME Reads(w)
            PROVE  UNCHANGED <<rows, draft, fate>> /\ \E place, record : Moved(w, place, record)
        <5>1. \E place, record : Moved(w, place, record)
          BY <4>2, ReadTyped DEF Lists
        <5> QED
          BY <4>2, <5>1 DEF Reads, ReadOrd, editorVars
      <4> QED
        BY <1>3, <4>1, <4>2 DEF NextProblemOrd, NextTestCaseOrd, Reads
    <3> QED
      BY <3>1 DEF Moved, OnlyMine, EditorRests, CallsInv, Typing
  <2>2. Reads(w) \/ (pc[w] \notin Saving /\ pc'[w] \notin Saving)
    <3>1. ASSUME NEW s \in Slugs, NEW statement \in Statements, StartProblem(w, s, statement)
          PROVE  pc[w] \notin Saving /\ pc'[w] \notin Saving
      <4>1. pc[w] = "idle" /\ pc' = [pc EXCEPT ![w] = "next_problem"]
        BY <3>1 DEF StartProblem, Begin
      <4> QED
        BY <4>1 DEF Saving, CallsInv, Typing
    <3> QED
      BY <1>3, <3>1 DEF NextProblemOrd, NextTestCaseOrd, Reads
  <2> QED
    BY <2>1, <2>2, UnwrittenSpares, RestKeepsOnce, OthersOnceAll
<1>4. ASSUME NEW w \in Admins, CreateProblem(w) PROVE \A m \in Admins : OnceOK(m)'
  <2>1. OnlyMine(w) /\ EditorRests(w) /\ pc[w] \notin Saving /\ pc'[w] \notin Saving
    BY <1>4 DEF CreateProblem, End, editorVars, OnlyMine, EditorRests, Saving, CallsInv, Typing
  <2>2. Writes(w) /\ pc[w] = "problem"
    <3>1. pc[w] = "problem" /\ rows' = Upserted(call[w])
      BY <1>4 DEF CreateProblem
    <3>2. call[w].done = 0 /\ Len(call[w].items) = 1
      BY <3>1 DEF CallsInv, CallOK
    <3> QED
      BY <3>1, <3>2 DEF Writes, Writing
  <2>3. \A m \in Admins : RowsSpared(m)
    BY <2>2, WriteSpares DEF OnceOK
  <2> QED
    BY <2>1, <2>3, RestKeepsOnce, OthersOnceAll
<1>5. ASSUME NEW w \in Admins, Save(w) PROVE \A m \in Admins : OnceOK(m)'
  <2>1. UNCHANGED <<rows, draft, fate>> /\ \E place, record : Moved(w, place, record)
    BY <1>5 DEF Save, Begin, Moved, editorVars
  <2>2. OnlyMine(w)
    BY <2>1 DEF Moved, OnlyMine, EditorRests, CallsInv, Typing
  <2> QED
    BY <1>5, <2>1, <2>2, SaveKeepsOnce, UnwrittenSpares, OthersOnceAll
<1>6. ASSUME NEW w \in Admins, CreateTestCase(w) PROVE \A m \in Admins : OnceOK(m)'
  <2>1. Continues(w) /\ UNCHANGED <<draft, fate>>
    BY <1>6 DEF CreateTestCase, Continues, Writes, Writing, editorVars
  <2>2. OnlyMine(w) /\ EditorRests(w)
    BY <2>1, ContinueTyped DEF Moved, OnlyMine, EditorRests, CallsInv, Typing
  <2>3. \A m \in Admins \ {w} : RowsSpared(m)
    BY <2>1, WriteSpares DEF OnceOK, Continues
  <2> QED
    BY <2>1, <2>2, <2>3, ContinueKeepsOnce, OthersOnceAll
<1>7. ASSUME NEW w \in Admins, AnswerSave(w) PROVE \A m \in Admins : OnceOK(m)'
  <2>1. /\ pc[w] = "cases" /\ call[w].done = Len(call[w].items) /\ UNCHANGED rows
        /\ SaveSucceeded(w) /\ End(w)
    BY <1>7, <1>f DEF AnswerSave
  <2>2. OnlyMine(w)
    BY <2>1 DEF SaveSucceeded, AfterSuccess, End, OnlyMine, EditorRests, CallsInv, Typing
  <2> QED
    BY <2>1, <2>2, SuccessKeepsOnce, UnwrittenSpares, OthersOnceAll
<1>8. ASSUME NEW w \in Admins, StatementFails(w) \/ ImportFails(w) PROVE FALSE
  BY <1>8, <1>f DEF StatementFails, ImportFails
<1>9. ASSUME NEW w \in Admins, NEW cases \in Seq(Cases), IsInjective(cases), Entered(w, cases),
             UNCHANGED <<rows, pc, call>>
      PROVE  \A m \in Admins : OnceOK(m)'
  <2>1. OnlyMine(w)
    BY <1>9 DEF Entered, OnlyMine, EditorRests, CallsInv, Typing
  <2> QED
    BY <1>9, <2>1, EnteredKeepsOnce, UnwrittenSpares, OthersOnceAll
<1>10. ASSUME NEW w \in Admins, NEW c \in Typed, Type(w, c) PROVE \A m \in Admins : OnceOK(m)'
  <2>1. <<c>> \in Seq(Cases) /\ IsInjective(<<c>>)
    BY Bounds DEF IsInjective
  <2>2. Entered(w, <<c>>) /\ UNCHANGED <<rows, pc, call>>
    BY <1>10 DEF Type, callVars
  <2> QED
    BY <1>9, <2>1, <2>2
<1>11. ASSUME NEW w \in Admins, Imported(w) PROVE \A m \in Admins : OnceOK(m)'
  <2>1. UNCHANGED <<rows, pc, call>>
    BY <1>11 DEF Imported, callVars
  <2>2. CASE ParseUpload(file[w]) = Failed
    BY <1>2, <1>11, <2>1, <2>2 DEF Imported
  <2>3. CASE ParseUpload(file[w]) # Failed
    <3>1. file[w] \in Files
      BY <1>11 DEF Imported, CallsInv, Typing
    <3>2. ParseUpload(file[w]) \in Seq(Cases) /\ IsInjective(ParseUpload(file[w]))
      BY <2>3, <3>1, Bounds DEF NoTwins
    <3>3. Entered(w, ParseUpload(file[w]))
      BY <1>11, <2>3 DEF Imported
    <3> QED
      BY <1>9, <2>1, <3>2, <3>3
  <2> QED
    BY <2>2, <2>3
<1>12. ASSUME \/ UNCHANGED vars
              \/ \E s \in Slugs, c \in [starts: Instants, ends: Instants] :
                   CreateContest(s, c) \/ UpdateContest(s, c)
              \/ \E w \in Admins, f \in Files : ImportFile(w, f)
       PROVE  UNCHANGED <<rows, pc, call, draft, fate>>
  BY <1>12 DEF vars, CreateContest, UpdateContest, ImportFile, callVars, editorVars
<1> QED
  BY <1>2, <1>3, <1>4, <1>5, <1>6, <1>7, <1>8, <1>10, <1>11, <1>12 DEF Next

LEMMA OnceInit == Init => OnceInv
<1> SUFFICES ASSUME Init PROVE OnceInv
  OBVIOUS
<1>1. faults = MaxFaults /\ MaxFaults \in Nat
  BY AuthoringConstants DEF Init, AuthoringConstants
<1>2. ASSUME NEW m \in Admins PROVE OnceOK(m)
  <2>1. draft[m] = <<>> /\ pc[m] = "idle"
    BY DEF Init
  <2>2. rows[EditorOf[m]] = <<>>
    BY Bounds DEF Init, Parents
  <2> QED
    BY <2>1, <2>2 DEF OnceOK, DraftOnce, BatchOnce, RowsOnce, IsInjective, ToSet, Saving
<1> QED
  BY <1>1, <1>2 DEF OnceInv

LEMMA OnceMeansOne ==
  ASSUME OnceInv
  PROVE  StoredOnce
<1> SUFFICES ASSUME faults = MaxFaults, NEW m \in Admins, NEW c \in Cases
             PROVE  Cardinality({o \in DOMAIN rows[EditorOf[m]] :
                                   rows[EditorOf[m]][o] = [by |-> m, what |-> c]}) <= 1
  BY DEF StoredOnce
<1> DEFINE S == {o \in DOMAIN rows[EditorOf[m]] : rows[EditorOf[m]][o] = [by |-> m, what |-> c]}
<1>1. \A o, q \in S : q = o
  BY DEF OnceInv, OnceOK, RowsOnce, ItemOf
<1>2. ASSUME S = {} PROVE Cardinality(S) <= 1
  <2> HIDE DEF S
  <2> QED
    BY <1>2, FS_EmptySet
<1>3. ASSUME S # {} PROVE Cardinality(S) <= 1
  <2>1. PICK o : o \in S
    BY <1>3
  <2> HIDE DEF S
  <2>2. S = {o}
    BY <1>1, <2>1
  <2>3. Cardinality(S) = 1
    BY <2>2, FS_Singleton
  <2> QED
    BY <2>3
<1> QED
  BY <1>2, <1>3

-----------------------------------------------------------------------------
(* Theorems.                                                               *)

Inv == CallsInv /\ Lists /\ \A m \in Admins : KeptOK(m)

LEMMA InvInit == Init => Inv
<1> SUFFICES ASSUME Init PROVE Inv
  OBVIOUS
<1>1. Typing
  <2>1. <<>> \in Seq(Cases)
    OBVIOUS
  <2>2. /\ pc \in [Admins -> {"idle", "next_problem", "problem", "next_case", "cases"}]
        /\ draft \in [Admins -> Seq(Cases)] /\ file \in [Admins -> Files \cup {Nil}]
        /\ fate \in [Admins -> [Cases -> {"new", "draft", "late", "saved", "lost"}]]
    BY <2>1 DEF Init
  <2>3. call \in [Admins -> [parent: Parents \cup {Nil}, items: Seq(Items), ord: Nat, done: Nat]]
    BY NoCallTyped DEF Init
  <2>4. alone \in [Admins -> BOOLEAN]
    BY DEF Init
  <2> QED
    BY <2>2, <2>3, <2>4 DEF Typing
<1>2. \A m \in Admins : pc[m] = "idle" /\ call[m] = NoCall
  BY DEF Init
<1>3. \A m \in Admins : CallOK(m)
  BY <1>2, NoCallTyped DEF CallOK, Saving
<1>4. RowsOK
  <2>1. rows = [p \in Parents |-> <<>>] /\ DOMAIN <<>> = 1..0
    BY DEF Init
  <2>2. \A p \in Parents : DOMAIN rows[p] = 1..0
    BY <2>1
  <2> QED
    BY <2>1, <2>2 DEF RowsOK
<1>5. \A m \in Admins : PositionOK(m) /\ AloneOK(m)
  BY <1>2 DEF PositionOK, AloneOK, Writing
<1>6. AckedOK
  BY DEF Init, AckedOK
<1>7. \A m \in Admins : KeptOK(m)
  BY DEF Init, KeptOK
<1> QED
  BY <1>1, <1>3, <1>4, <1>5, <1>6, <1>7 DEF Inv, CallsInv, Lists

LEMMA InvHolds == Spec => []Inv
<1>1. Inv /\ [Next]_vars => Inv'
  <2> SUFFICES ASSUME CallsInv, Lists, \A m \in Admins : KeptOK(m), [Next]_vars PROVE Inv'
    BY DEF Inv
  <2>1. CallsTyped' /\ Lists'
    BY ListsStep
  <2>2. EditorTyped' /\ \A m \in Admins : KeptOK(m)'
    BY KeptStep
  <2>3. CallsInv'
    BY <2>1, <2>2 DEF CallsInv, Typing, CallsTyped, EditorTyped
  <2> QED
    BY <2>1, <2>2, <2>3 DEF Inv
<1> QED
  BY <1>1, InvInit, PTL DEF Spec

\* However many admins write a list and whatever fails, its positions are
\* 1 to their number: a stale position overwrites a row and leaves no gap.
THEOREM PositionsHaveNoGaps == Spec => []OrdsAreContiguous
<1>1. Inv => OrdsAreContiguous
  <2> SUFFICES ASSUME Inv, NEW p \in Parents
               PROVE  DOMAIN rows[p] = 1..Cardinality(DOMAIN rows[p])
    BY DEF OrdsAreContiguous
  <2>1. PICK n \in Nat : DOMAIN rows[p] = 1..n
    BY DEF Inv, Lists, RowsOK
  <2>2. Cardinality(1..n) = n
    <3>1. Cardinality(1..n) = IF 1 > n THEN 0 ELSE n - 1 + 1
      BY FS_Interval
    <3> QED
      BY <3>1
  <2> QED
    BY <2>1, <2>2
<1> QED
  BY <1>1, InvHolds, PTL

\* What a call without a competitor was answered is never overwritten later,
\* by calls that are interleaved with each other or fail half way.
THEOREM AloneMeansStored == Spec => []WrittenAloneIsStored
<1>1. Inv => WrittenAloneIsStored
  BY DEF Inv, Lists, AckedOK, AnsweredOK, AloneOK, Writing, WrittenAloneIsStored
<1> QED
  BY <1>1, InvHolds, PTL

\* No error, and no interleaving of typing, imports and saves, takes what was
\* entered out of the draft before it is saved, except entries made during a
\* save that succeeds.
THEOREM DraftsAreKept == Spec => []EntriesAreKept
<1>1. Inv => EntriesAreKept
  BY DEF Inv, KeptOK, EntriesAreKept
<1> QED
  BY <1>1, InvHolds, PTL
\* The editor and the database agree, for every draft and every way of
\* interleaving typing, imports and saves of several admins at one problem:
\* nothing entered is lost to an error, and unless a statement or an answer
\* fails, a test case is stored once.  A file that holds a case twice stores it
\* twice, so the files hold none twice.
THEOREM EditorAgrees ==
  ASSUME NoTwins
  PROVE  Spec => []EditorIsHonest
<1>1. Inv /\ OnceInv /\ [Next]_vars => OnceInv'
  BY OnceStep DEF Inv
<1>2. Inv /\ OnceInv => EditorIsHonest
  BY OnceMeansOne DEF Inv, KeptOK, EntriesAreKept, EditorIsHonest
<1> QED
  BY <1>1, <1>2, OnceInit, InvHolds, PTL DEF Spec
=============================================================================
