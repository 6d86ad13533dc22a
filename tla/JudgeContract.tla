---------------------------- MODULE JudgeContract ---------------------------
(***************************************************************************)
(* What judging promises, with no queue, no worker and no failure in it:   *)
(* a stored submission may be judged, possibly more than once; an accepted *)
(* verdict earns its (user, problem) pair one credit, once; a submission   *)
(* whose POST was answered with 202 is eventually judged (ADR-0011).       *)
(***************************************************************************)
EXTENDS Naturals

CONSTANTS Subs, Pairs, PairOf, Verdicts

VARIABLES
  stored,    \* submissions with a row
  promised,  \* submissions answered with 202
  judged,    \* the verdicts each submission has had
  credits    \* how often each pair counts in the standings

cvars == <<stored, promised, judged, credits>>

Init ==
  /\ stored = {}
  /\ promised = {}
  /\ judged = [s \in Subs |-> {}]
  /\ credits = [p \in Pairs |-> 0]

Store(s) ==
  /\ stored' = stored \cup {s}
  /\ UNCHANGED <<promised, judged, credits>>

Promise(s) ==
  /\ s \in stored
  /\ promised' = promised \cup {s}
  /\ UNCHANGED <<stored, judged, credits>>

Judge(s, v) ==
  /\ s \in stored
  /\ judged' = [judged EXCEPT ![s] = @ \cup {v}]
  /\ UNCHANGED <<stored, promised, credits>>

Credit(s) ==
  /\ "accepted" \in judged[s]
  /\ credits[PairOf[s]] = 0
  /\ credits' = [credits EXCEPT ![PairOf[s]] = 1]
  /\ UNCHANGED <<stored, promised, judged>>

Next == \E s \in Subs :
  \/ Store(s)
  \/ Promise(s)
  \/ \E v \in Verdicts : Judge(s, v)
  \/ Credit(s)

Spec == Init /\ [][Next]_cvars

\* The promise of the 202.
Kept(s) == s \in promised ~> judged[s] # {}
=============================================================================
