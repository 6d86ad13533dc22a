----------------------------- MODULE MCExecutor -----------------------------
(***************************************************************************)
(* A small instance of Executor: the judge waits perCaseOverhead longer    *)
(* than the limit it asks for.  Programs print the answer with blanks at   *)
(* the end, the answer and then too much, without its empty line, with a   *)
(* blank before it, or nothing.                                            *)
(***************************************************************************)
EXTENDS Executor

CONSTANTS x1, r1, r2, nl, sp, a, b

Budgets == [limit \in TimeLimits |-> Lesser(limit, RunTimeoutMax) + 1]

Blanks == {sp}
TheAnswer == <<a, nl, nl, b>>
Printed == { << <<a, sp, nl>>, <<nl, b, nl>> >>,
             << <<a, nl>>, <<nl, b, nl, nl, nl, a>> >>,
             << <<a, nl, b>> >>,
             << <<sp, a, nl, nl, b>> >>,
             <<>> }

\* The hypothesis of the theorem about verdicts, on these outputs.
ASSUME PrintedCompareExactly == ComparisonIsExact
=============================================================================
