------------------------------- MODULE MCJudge ------------------------------
(***************************************************************************)
(* Small instances of JudgeService: submissions a and b belong to one user *)
(* and one problem, and two worker processes each run one consumer and one *)
(* reclaim goroutine (or one process runs both, in the larger runs).       *)
(***************************************************************************)
EXTENDS JudgeGuarantees

CONSTANTS a, b, pair, w1, w2, c1, c2, r1, r2

MCSubs == {a, b}
OneSub == {a}
MCPairs == {pair}
MCPairOf == [s \in Subs |-> pair]
MCVerdicts == {"accepted", "wrong_answer", "internal_error"}

\* a is always accepted; the verdict of b depends on the load of the machine.
MCOutcomes == [s \in Subs |-> IF s = a THEN {"accepted"} ELSE {"accepted", "wrong_answer"}]

OnlyB == {b}

OneProc == {w1}
TwoProcs == {w1, w2}
OneConsumer == {c1}
OneReclaimer == {r2}
TwoConsumers == {c1, c2}
TwoReclaimers == {r1, r2}

\* Goroutines c1 and r1 live in w1, c2 and r2 in w2, if there is a w2.
MCHome == [t \in Threads |-> IF t \in {c2, r2} /\ w2 \in Procs THEN w2 ELSE w1]
=============================================================================
