--------------------------- MODULE JudgeGuarantees --------------------------
(***************************************************************************)
(* What JudgeService guarantees, and under which faults.  The runs name    *)
(* the faults; JudgeProofs proves the first group for every instance.      *)
(***************************************************************************)
EXTENDS JudgeService

\* A pair counts at most once in the standings and only when one of its
\* submissions was judged accepted, however often messages are redelivered,
\* judged twice at a time or lost (ApplyAccepted, FinishSubmission).
CreditsAreEarned ==
  \A p \in Pairs :
    /\ credits[p] <= 1
    /\ credits[p] > 0 => \E s \in Subs : PairOf[s] = p /\ "accepted" \in judged[s]

\* A submission answered with 202 whose row is not done can still be handed
\* out: no crash, lost reply, failed ack or executor outage loses it.
\* Assumes that no live goroutine sits on a message for ClaimMinIdle, that
\* Redis keeps its data and that PostgreSQL answers (handle, ClaimStaleJudge,
\* AckJudge).
NoLostWork ==
  \A s \in Subs :
    req[s] = "accepted" /\ status[s] # "done" => Dispatched(s)

\* Under the same assumption a message is in the hands of one goroutine,
\* although several reclaim loops may have listed it in XPENDING and claim it
\* at any later time, after another one has claimed, judged or dropped it:
\* only the MinIdle of each XCLAIM keeps them apart (ClaimStaleJudge).
ExclusiveHandling ==
  \A t, u \in Threads :
    t # u => /\ item[t] # 0 => item[t] \notin {item[u]} \cup poison[u] \cup claimed[u]
             /\ (poison[t] \cup claimed[t]) \cap (poison[u] \cup claimed[u]) = {}

\* Only a submission with no test cases, one on which the executor itself
\* answers internal_error, or one whose message was delivered more than
\* MaxDeliveries times and then claimed as poison, is given internal_error; a
\* crash or an unreachable executor never burns a verdict by itself (process,
\* ClaimStaleJudge, deadLetter).
OnlyPoisonIsDeadLettered ==
  [][\A s \in Subs :
       "internal_error" \in judged'[s] \ judged[s] =>
         \/ s \in NoTestCases
         \/ "internal_error" \in Outcomes[s]
         \/ \E m \in Ids : body[m] = s /\ pending[m] > MaxDeliveries + 1]_vars

\* An entry leaves the stream only when its submission has had a verdict
\* (handle acks a terminal outcome only), also when slow workers and
\* reclaimers handle the same message.
RemovedOnlyWhenJudged ==
  [][\A m \in entries \ entries' : judged[body[m]] # {}]_vars

\* Every submission answered with 202 is eventually judged.
AcceptedIsJudged ==
  \A s \in Subs : req[s] = "accepted" ~> judged[s] # {}

\* Every delivered message is eventually acked, by its consumer, by a
\* reclaim goroutine that judges it again, or by the dead letter.
EveryDeliveryIsAcked ==
  \A m \in Ids : pending[m] > 0 ~> pending[m] = 0

-----------------------------------------------------------------------------
(* What the comments and ADR-0011 say and the code does not do.            *)

\* "finish persists the verdict, applies scoring on accepts, and broadcasts":
\* an accepted submission is credited, unless its scoring is under way.  The
\* verdict and the credit are two transactions (finish, score).
AcceptedIsCredited ==
  \A s \in Subs :
    status[s] = "done" /\ verdict[s] = "accepted" =>
      \/ credits[PairOf[s]] > 0
      \/ \E t \in Threads : pc[t] = "score" /\ Sub(t) = s

-----------------------------------------------------------------------------
(* JudgeService implements JudgeContract.                                  *)

Contract == INSTANCE JudgeContract WITH
  stored   <- {s \in Subs : status[s] # "absent"},
  promised <- {s \in Subs : req[s] = "accepted"}

\* Every step of the service is a step of the contract or leaves what the
\* contract sees unchanged, under every fault.
ImplementsContract == Contract!Spec
=============================================================================
