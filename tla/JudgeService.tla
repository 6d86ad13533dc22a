---------------------------- MODULE JudgeService ----------------------------
(***************************************************************************)
(* Judging a submission, from the HTTP handler that stores it to the ack   *)
(* that removes it from the queue (internal/judge/judge.go,                *)
(* api/handlers_submissions.go, db/submissions.go, db/leaderboard.go).     *)
(*                                                                         *)
(* Processes: one request per submission on the web tier; worker processes *)
(* that boot (ensure the group, reconcile), then run consumer goroutines   *)
(* and one reclaim goroutine each.  PostgreSQL keeps the submission rows   *)
(* and the standings, Redis the stream of JudgeQueue.  Every statement or  *)
(* command that reaches PostgreSQL, Redis or the executor is a step, so a  *)
(* crash or another goroutine may come between any two of them.            *)
(*                                                                         *)
(* What may go wrong is chosen by FaultKinds and bounded by MaxFaults.     *)
(***************************************************************************)
EXTENDS JudgeQueue

CONSTANTS
  Pairs,        \* (user, problem) pairs: the key of problem_solves
  PairOf,       \* the pair of a submission
  Verdicts,     \* what submissions.verdict may hold
  Outcomes,     \* verdicts the executor may reach on a submission
  NoTestCases,  \* submissions to a problem that has no test cases
  Procs,        \* worker processes
  Consumers,    \* consumeLoop goroutines
  Reclaimers,   \* reclaimLoop goroutines, one per process
  Home,         \* the process a goroutine lives in
  DepthLimit,   \* Config.QueueDepthLimit, 0 disables it
  SlowWorkers,  \* may a live worker hold a message longer than ClaimMinIdle
  FaultKinds,   \* faults that may happen
  MaxFaults     \* bound: faults in one behaviour

Threads == Consumers \cup Reclaimers

ASSUME ServiceConstants ==
  /\ PairOf \in [Subs -> Pairs]
  /\ {"accepted", "internal_error"} \subseteq Verdicts
  /\ "none" \notin Verdicts
  /\ Outcomes \in [Subs -> SUBSET Verdicts]
  /\ NoTestCases \subseteq Subs
  /\ Consumers \cap Reclaimers = {}
  /\ Home \in [Threads -> Procs]
  /\ DepthLimit \in Nat
  /\ SlowWorkers \in BOOLEAN
  /\ FaultKinds \subseteq {"crash", "redis", "flush", "executor", "db"}
  /\ MaxFaults \in Nat

VARIABLES
  req,      \* where the POST of each submission is
  status,   \* submissions.status, "absent" before the INSERT
  verdict,  \* submissions.verdict, "none" for NULL
  credits,  \* how often each pair was added to leaderboard_entries
  solves,   \* rows of problem_solves
  boot,     \* where each worker process is in StartConsumers
  requeue,  \* reconcile's list of IDs still to re-enqueue
  pc,       \* where each goroutine is
  item,     \* the message it handles, 0 for none
  result,   \* the verdict it is about to persist
  poisonIDs, \* poison that ClaimStaleJudge listed and has yet to claim
  claimIDs, \* the other messages it listed and has yet to claim
  poison,   \* claimed messages a reclaim goroutine has yet to dead-letter
  claimed,  \* claimed messages it has yet to judge
  faults,   \* faults left
  judged    \* history: verdicts FinishSubmission ever persisted

rowVars == <<status, verdict, credits, solves, judged>>
procVars == <<boot, requeue>>
threadVars == <<pc, item, result, poisonIDs, claimIDs, poison, claimed>>
vars == <<queueVars, req, rowVars, procVars, threadVars, faults>>

ReqStates == {"new", "stored", "admitted", "accepted", "busy", "died"}
Statuses == {"absent", "queued", "running", "done"}
BootStates == {"down", "depth", "list", "requeue", "up"}
PcStates == {"idle", "load", "mark", "run", "finish", "score", "ack", "del", "dead"}

TypeOK ==
  /\ QueueTypeOK
  /\ req \in [Subs -> ReqStates]
  /\ status \in [Subs -> Statuses]
  /\ verdict \in [Subs -> Verdicts \cup {"none"}]
  /\ credits \in [Pairs -> Nat]
  /\ solves \in SUBSET Pairs
  /\ boot \in [Procs -> BootStates]
  /\ requeue \in [Procs -> SUBSET Subs]
  /\ pc \in [Threads -> PcStates]
  /\ item \in [Threads -> Ids \cup {0}]
  /\ result \in [Threads -> Verdicts \cup {"none"}]
  /\ poisonIDs \in [Threads -> SUBSET Ids]
  /\ claimIDs \in [Threads -> SUBSET Ids]
  /\ poison \in [Threads -> SUBSET Ids]
  /\ claimed \in [Threads -> SUBSET Ids]
  /\ faults \in 0..MaxFaults
  /\ judged \in [Subs -> SUBSET Verdicts]

Init ==
  /\ QueueInit
  /\ req = [s \in Subs |-> "new"]
  /\ status = [s \in Subs |-> "absent"]
  /\ verdict = [s \in Subs |-> "none"]
  /\ credits = [p \in Pairs |-> 0]
  /\ solves = {}
  /\ boot = [p \in Procs |-> "down"]
  /\ requeue = [p \in Procs |-> {}]
  /\ pc = [t \in Threads |-> "idle"]
  /\ item = [t \in Threads |-> 0]
  /\ result = [t \in Threads |-> "none"]
  /\ poisonIDs = [t \in Threads |-> {}]
  /\ claimIDs = [t \in Threads |-> {}]
  /\ poison = [t \in Threads |-> {}]
  /\ claimed = [t \in Threads |-> {}]
  /\ faults = MaxFaults
  /\ judged = [s \in Subs |-> {}]

Fault(kind) ==
  /\ kind \in FaultKinds
  /\ faults > 0
  /\ faults' = faults - 1

-----------------------------------------------------------------------------
(* The web tier: createSubmission and Enqueue.                             *)

\* INSERT INTO submissions: the row starts as queued.
CreateSubmission(s) ==
  /\ req[s] = "new"
  /\ req' = [req EXCEPT ![s] = "stored"]
  /\ status' = [status EXCEPT ![s] = "queued"]
  /\ UNCHANGED <<queueVars, verdict, credits, solves, judged, procVars, threadVars, faults>>

\* Enqueue's depth check.  A depth that cannot be read admits the submission.
CheckDepth(s) ==
  /\ req[s] = "stored"
  /\ \/ /\ IF DepthLimit > 0 /\ QueueDepth >= DepthLimit
           THEN req' = [req EXCEPT ![s] = "busy"]
           ELSE req' = [req EXCEPT ![s] = "admitted"]
        /\ UNCHANGED faults
     \/ /\ Fault("redis")
        /\ req' = [req EXCEPT ![s] = "admitted"]
  /\ UNCHANGED <<queueVars, rowVars, procVars, threadVars>>

\* XADD and the 202 answer.
EnqueueJudge(s) ==
  /\ req[s] = "admitted"
  /\ XAdd(s)
  /\ req' = [req EXCEPT ![s] = "accepted"]
  /\ UNCHANGED <<rowVars, procVars, threadVars, faults>>

\* XADD fails, before or after Redis applied it: the client gets a 503.
EnqueueJudgeFails(s) ==
  /\ req[s] = "admitted"
  /\ Fault("redis")
  /\ XAdd(s) \/ UNCHANGED queueVars
  /\ req' = [req EXCEPT ![s] = "busy"]
  /\ UNCHANGED <<rowVars, procVars, threadVars>>

\* The web process dies, or the client's context ends, before the XADD.
HandlerDies(s) ==
  /\ req[s] \in {"stored", "admitted"}
  /\ Fault("crash")
  /\ req' = [req EXCEPT ![s] = "died"]
  /\ UNCHANGED <<queueVars, rowVars, procVars, threadVars>>

-----------------------------------------------------------------------------
(* A worker process boots: EnsureJudgeGroup, then reconcile.               *)

EnsureJudgeGroup(p) ==
  /\ boot[p] = "down"
  /\ XGroupCreate
  /\ boot' = [boot EXCEPT ![p] = "depth"]
  /\ UNCHANGED <<req, rowVars, requeue, threadVars, faults>>

\* reconcile is skipped unless the stream is empty.
ReconcileDepth(p) ==
  /\ boot[p] = "depth"
  /\ boot' = [boot EXCEPT ![p] = IF QueueDepth > 0 THEN "up" ELSE "list"]
  /\ UNCHANGED <<queueVars, req, rowVars, requeue, threadVars, faults>>

Unfinished == {s \in Subs : status[s] \in {"queued", "running"}}

ListPendingSubmissionIDs(p) ==
  /\ boot[p] = "list"
  /\ requeue' = [requeue EXCEPT ![p] = Unfinished]
  /\ boot' = [boot EXCEPT ![p] = IF Unfinished = {} THEN "up" ELSE "requeue"]
  /\ UNCHANGED <<queueVars, req, rowVars, threadVars, faults>>

\* One XADD of the loop.  The list is ordered by submitted_at; no property
\* depends on the order.
ReconcileEnqueue(p, s) ==
  /\ boot[p] = "requeue"
  /\ s \in requeue[p]
  /\ XAdd(s)
  /\ requeue' = [requeue EXCEPT ![p] = @ \ {s}]
  /\ boot' = [boot EXCEPT ![p] = IF requeue[p] = {s} THEN "up" ELSE "requeue"]
  /\ UNCHANGED <<req, rowVars, threadVars, faults>>

\* An error anywhere in reconcile, also of an XADD that Redis did apply, is
\* logged and the consumers start anyway.
ReconcileFails(p) ==
  /\ boot[p] \in {"depth", "list", "requeue"}
  /\ Fault(IF boot[p] = "list" THEN "db" ELSE "redis")
  /\ (\E s \in requeue[p] : XAdd(s)) \/ UNCHANGED queueVars
  /\ boot' = [boot EXCEPT ![p] = "up"]
  /\ requeue' = [requeue EXCEPT ![p] = {}]
  /\ UNCHANGED <<req, rowVars, threadVars>>

-----------------------------------------------------------------------------
(* The goroutines of a worker process that is up.                          *)

Running(t) == boot[Home[t]] = "up"

Sub(t) == body[item[t]]

\* The goroutine returns to its loop; an un-acked message stays pending.
Release(t) ==
  /\ pc' = [pc EXCEPT ![t] = "idle"]
  /\ item' = [item EXCEPT ![t] = 0]
  /\ result' = [result EXCEPT ![t] = "none"]
  /\ UNCHANGED <<poisonIDs, claimIDs, poison, claimed>>

\* Go on to step next, with the same message.
Goto(t, next) ==
  /\ pc' = [pc EXCEPT ![t] = next]
  /\ UNCHANGED <<item, result, poisonIDs, claimIDs, poison, claimed>>

\* Deviation: handle acks whatever process returned.
AckAnyway(t) == Goto(t, "ack")

\* process returned retry: the message is left un-acked for a reclaim.
RetryLater(t) == Release(t)

\* Go on to finish with verdict v.
Conclude(t, v) ==
  /\ pc' = [pc EXCEPT ![t] = "finish"]
  /\ result' = [result EXCEPT ![t] = v]
  /\ UNCHANGED <<item, poisonIDs, claimIDs, poison, claimed>>

\* consumeLoop: one new message per read.
ReadJudge(t) ==
  /\ t \in Consumers
  /\ Running(t)
  /\ pc[t] = "idle"
  /\ \E m \in Ids :
       /\ XReadGroup(m)
       /\ item' = [item EXCEPT ![t] = m]
  /\ pc' = [pc EXCEPT ![t] = "load"]
  /\ UNCHANGED <<req, rowVars, procVars, result, poisonIDs, claimIDs, poison, claimed, faults>>

\* Redis delivers but the reply is lost: pending, and nobody judges it.
ReadJudgeFails(t) ==
  /\ t \in Consumers
  /\ Running(t)
  /\ pc[t] = "idle"
  /\ Fault("redis")
  /\ \E m \in Ids : XReadGroup(m)
  /\ UNCHANGED <<req, rowVars, procVars, threadVars>>

Held(m) == \E t \in Threads : item[t] = m \/ m \in poison[t] \cup claimed[t]

\* Time passes over a message that nobody acks: its consumer died or gave
\* up, or, with SlowWorkers, is just slow.
GoesStale(m) ==
  /\ SlowWorkers \/ ~Held(m)
  /\ StaysIdle(m)
  /\ UNCHANGED <<req, rowVars, procVars, threadVars, faults>>

(* ClaimStaleJudge: XPENDING, XCLAIM of the poison, XCLAIM of the others.  *)

Listed(t) == poisonIDs[t] \cup claimIDs[t]

\* Deviation: leave out the messages that used up their deliveries.
NoExhausted(S) == {}
Exhausted(S) == {m \in S : IsPoison(m)}

\* reclaimLoop asks for stale messages when the last batch is handled.  An
\* empty reply, an error and a missing group all leave it waiting.
ScanPending(t) ==
  /\ t \in Reclaimers
  /\ Running(t)
  /\ pc[t] = "idle"
  /\ Listed(t) \cup poison[t] \cup claimed[t] = {}
  /\ stale # {}
  /\ poisonIDs' = [poisonIDs EXCEPT ![t] = Exhausted(XPending)]
  /\ claimIDs' = [claimIDs EXCEPT ![t] = {m \in XPending : ~IsPoison(m)}]
  /\ UNCHANGED <<queueVars, req, rowVars, procVars, pc, item, result, poison, claimed, faults>>

ClaimPoison(t) ==
  /\ poisonIDs[t] # {}
  /\ XClaim(poisonIDs[t])
  /\ poison' = [poison EXCEPT ![t] = StillIdle(poisonIDs[t])]
  /\ poisonIDs' = [poisonIDs EXCEPT ![t] = {}]
  /\ UNCHANGED <<req, rowVars, procVars, pc, item, result, claimIDs, claimed, faults>>

ClaimStale(t) ==
  /\ poisonIDs[t] = {}
  /\ claimIDs[t] # {}
  /\ XClaim(claimIDs[t])
  /\ claimed' = [claimed EXCEPT ![t] = StillIdle(claimIDs[t])]
  /\ claimIDs' = [claimIDs EXCEPT ![t] = {}]
  /\ UNCHANGED <<req, rowVars, procVars, pc, item, result, poisonIDs, poison, faults>>

\* ClaimStaleJudge returns an error and no messages: also the poison that the
\* first XCLAIM obtained is counted as delivered and not handled.
ClaimReturnsError(t) ==
  /\ Listed(t) # {}
  /\ poisonIDs' = [poisonIDs EXCEPT ![t] = {}]
  /\ claimIDs' = [claimIDs EXCEPT ![t] = {}]
  /\ poison' = [poison EXCEPT ![t] = {}]
  /\ UNCHANGED <<req, rowVars, procVars, pc, item, result, claimed>>

\* A flush took the group away between XPENDING and XCLAIM.
ClaimFindsNoGroup(t) ==
  /\ ~group
  /\ ClaimReturnsError(t)
  /\ UNCHANGED <<queueVars, faults>>

\* XCLAIM fails, before or after Redis applied it.
ClaimStaleJudgeFails(t) ==
  /\ ClaimReturnsError(t)
  /\ Fault("redis")
  /\ \/ XClaim(IF poisonIDs[t] # {} THEN poisonIDs[t] ELSE claimIDs[t])
     \/ UNCHANGED queueVars

IsOldest(m, S) == m \in S /\ \A n \in S : m <= n

\* The batch is handled one by one: all poison messages, then the others.
TakeNext(t) ==
  /\ Running(t)
  /\ pc[t] = "idle"
  /\ Listed(t) = {}
  /\ \E m \in Ids :
       /\ item' = [item EXCEPT ![t] = m]
       /\ \/ /\ IsOldest(m, poison[t])
             /\ poison' = [poison EXCEPT ![t] = @ \ {m}]
             /\ pc' = [pc EXCEPT ![t] = "dead"]
             /\ UNCHANGED claimed
          \/ /\ poison[t] = {}
             /\ IsOldest(m, claimed[t])
             /\ claimed' = [claimed EXCEPT ![t] = @ \ {m}]
             /\ pc' = [pc EXCEPT ![t] = "load"]
             /\ UNCHANGED poison
  /\ UNCHANGED <<queueVars, req, rowVars, procVars, result, poisonIDs, claimIDs, faults>>

-----------------------------------------------------------------------------
(* process: load, mark running, run the cases.                             *)

\* GetSubmission, then GetUserByID and loadProblem.  Only the first reads
\* anything that changes here, so the three are one step.
ProcessLoad(t) ==
  /\ pc[t] = "load"
  /\ IF status[Sub(t)] = "done"
     THEN Goto(t, "ack")
     ELSE IF Sub(t) \in NoTestCases
          THEN Conclude(t, "internal_error")
          ELSE Goto(t, "mark")
  /\ UNCHANGED <<queueVars, req, rowVars, procVars, faults>>

\* GetSubmission fails: retry later.  GetUserByID or loadProblem fails:
\* internal_error, whatever the cause.
ProcessLoadFails(t) ==
  /\ pc[t] = "load"
  /\ Fault("db")
  /\ \/ RetryLater(t)
     \/ status[Sub(t)] # "done" /\ Conclude(t, "internal_error")
  /\ UNCHANGED <<queueVars, req, rowVars, procVars>>

\* The UPDATE has no condition on the old status.
MarkSubmissionRunning(t) ==
  /\ pc[t] = "mark"
  /\ status' = [status EXCEPT ![Sub(t)] = "running"]
  /\ Goto(t, "run")
  /\ UNCHANGED <<queueVars, req, verdict, credits, solves, judged, procVars, faults>>

\* The error is logged and judging goes on.
MarkSubmissionRunningFails(t) ==
  /\ pc[t] = "mark"
  /\ Fault("db")
  /\ Goto(t, "run")
  /\ UNCHANGED <<queueVars, req, rowVars, procVars>>

\* runCases reaches a verdict: the first that is not accepted, or accepted.
RunCases(t) ==
  /\ pc[t] = "run"
  /\ \E v \in Outcomes[Sub(t)] : Conclude(t, v)
  /\ UNCHANGED <<queueVars, req, rowVars, procVars, faults>>

\* The executor is unreachable or out of time: retry later.
RunCasesFails(t) ==
  /\ pc[t] = "run"
  /\ Fault("executor")
  /\ RetryLater(t)
  /\ UNCHANGED <<queueVars, req, rowVars, procVars>>

\* deadLetter reads the row; anything but a row that is not done skips finish.
DeadLetterLoad(t) ==
  /\ pc[t] = "dead"
  /\ IF status[Sub(t)] = "done"
     THEN Goto(t, "ack")
     ELSE Conclude(t, "internal_error")
  /\ UNCHANGED <<queueVars, req, rowVars, procVars, faults>>

DeadLetterLoadFails(t) ==
  /\ pc[t] = "dead"
  /\ Fault("db")
  /\ Goto(t, "ack")
  /\ UNCHANGED <<queueVars, req, rowVars, procVars>>

-----------------------------------------------------------------------------
(* finish, score and ack.                                                  *)

Persist(s, v) ==
  /\ status' = [status EXCEPT ![s] = "done"]
  /\ verdict' = [verdict EXCEPT ![s] = v]
  /\ judged' = [judged EXCEPT ![s] = @ \cup {v}]

\* Deviation: score every verdict.
ScoreAny(v) == "score"
AfterFinish(v) == IF v = "accepted" THEN "score" ELSE "ack"

FinishSubmission(t) ==
  /\ pc[t] = "finish"
  /\ Persist(Sub(t), result[t])
  /\ Goto(t, AfterFinish(result[t]))
  /\ UNCHANGED <<queueVars, req, credits, solves, procVars, faults>>

\* An error, before or after PostgreSQL applied the UPDATE, ends finish, and
\* its caller acks all the same.
FinishSubmissionFails(t) ==
  /\ pc[t] = "finish"
  /\ Fault("db")
  /\ Persist(Sub(t), result[t]) \/ UNCHANGED <<status, verdict, judged>>
  /\ Goto(t, "ack")
  /\ UNCHANGED <<queueVars, req, credits, solves, procVars>>

\* Deviation: ignore the conflict.
ConflictIgnored(p) == FALSE
AlreadySolved(p) == p \in solves

\* The scoring transaction: INSERT INTO problem_solves ON CONFLICT DO NOTHING,
\* and the leaderboard upsert only when that inserted a row.
ApplyAccepted(t) ==
  /\ pc[t] = "score"
  /\ LET p == PairOf[Sub(t)] IN
       IF AlreadySolved(p)
       THEN UNCHANGED <<solves, credits>>
       ELSE /\ solves' = solves \cup {p}
            /\ credits' = [credits EXCEPT ![p] = @ + 1]
  /\ Goto(t, "ack")
  /\ UNCHANGED <<queueVars, req, status, verdict, judged, procVars, faults>>

\* The transaction is rolled back; score only logs the error.
ApplyAcceptedFails(t) ==
  /\ pc[t] = "score"
  /\ Fault("db")
  /\ Goto(t, "ack")
  /\ UNCHANGED <<queueVars, req, rowVars, procVars>>

\* AckJudge is XACK, then XDEL.
AckJudge(t) ==
  /\ pc[t] = "ack"
  /\ XAck(item[t])
  /\ Goto(t, "del")
  /\ UNCHANGED <<req, rowVars, procVars, faults>>

\* XACK fails, before or after Redis applied it: no XDEL.
AckJudgeFails(t) ==
  /\ pc[t] = "ack"
  /\ Fault("redis")
  /\ XAck(item[t]) \/ UNCHANGED queueVars
  /\ Release(t)
  /\ UNCHANGED <<req, rowVars, procVars>>

DeleteJudge(t) ==
  /\ pc[t] = "del"
  /\ XDel(item[t])
  /\ Release(t)
  /\ UNCHANGED <<req, rowVars, procVars, faults>>

DeleteJudgeFails(t) ==
  /\ pc[t] = "del"
  /\ Fault("redis")
  /\ Release(t)
  /\ UNCHANGED <<queueVars, req, rowVars, procVars>>

-----------------------------------------------------------------------------
\* A worker process dies, or is told to stop: the cancelled context makes
\* every further call fail, so nothing after the current call is done.
Crash(p) ==
  /\ boot[p] # "down"
  /\ Fault("crash")
  /\ boot' = [boot EXCEPT ![p] = "down"]
  /\ requeue' = [requeue EXCEPT ![p] = {}]
  /\ pc' = [t \in Threads |-> IF Home[t] = p THEN "idle" ELSE pc[t]]
  /\ item' = [t \in Threads |-> IF Home[t] = p THEN 0 ELSE item[t]]
  /\ result' = [t \in Threads |-> IF Home[t] = p THEN "none" ELSE result[t]]
  /\ poisonIDs' = [t \in Threads |-> IF Home[t] = p THEN {} ELSE poisonIDs[t]]
  /\ claimIDs' = [t \in Threads |-> IF Home[t] = p THEN {} ELSE claimIDs[t]]
  /\ poison' = [t \in Threads |-> IF Home[t] = p THEN {} ELSE poison[t]]
  /\ claimed' = [t \in Threads |-> IF Home[t] = p THEN {} ELSE claimed[t]]
  /\ UNCHANGED <<queueVars, req, rowVars>>

Flush ==
  /\ Fault("flush")
  /\ RedisLosesEverything
  /\ UNCHANGED <<req, rowVars, procVars, threadVars>>

-----------------------------------------------------------------------------
WebStep(s) == CheckDepth(s) \/ EnqueueJudge(s)

BootStep(p) ==
  \/ EnsureJudgeGroup(p)
  \/ ReconcileDepth(p)
  \/ ListPendingSubmissionIDs(p)
  \/ \E s \in Subs : ReconcileEnqueue(p, s)

\* What a goroutine does by itself when no call fails.
ThreadStep(t) ==
  \/ ReadJudge(t)
  \/ ScanPending(t)
  \/ ClaimPoison(t)
  \/ ClaimStale(t)
  \/ ClaimFindsNoGroup(t)
  \/ TakeNext(t)
  \/ ProcessLoad(t)
  \/ MarkSubmissionRunning(t)
  \/ RunCases(t)
  \/ DeadLetterLoad(t)
  \/ FinishSubmission(t)
  \/ ApplyAccepted(t)
  \/ AckJudge(t)
  \/ DeleteJudge(t)

ThreadFails(t) ==
  \/ ReadJudgeFails(t)
  \/ ClaimStaleJudgeFails(t)
  \/ ProcessLoadFails(t)
  \/ MarkSubmissionRunningFails(t)
  \/ RunCasesFails(t)
  \/ DeadLetterLoadFails(t)
  \/ FinishSubmissionFails(t)
  \/ ApplyAcceptedFails(t)
  \/ AckJudgeFails(t)
  \/ DeleteJudgeFails(t)

Next ==
  \/ \E s \in Subs : \/ CreateSubmission(s)
                     \/ WebStep(s)
                     \/ EnqueueJudgeFails(s)
                     \/ HandlerDies(s)
  \/ \E p \in Procs : BootStep(p) \/ ReconcileFails(p) \/ Crash(p)
  \/ \E t \in Threads : ThreadStep(t) \/ ThreadFails(t)
  \/ \E m \in Ids : GoesStale(m)
  \/ Flush

Spec == Init /\ [][Next]_vars

\* A handler and a goroutine keep going while the program runs them (every
\* call they make has a deadline, and the reclaim loop probes every
\* ClaimMinIdle / 2), the orchestrator restarts a dead worker, and time goes
\* by for a message that nobody has.  Nothing obliges a client to submit or a
\* worker to be slow, and no failure ever has to happen.
Fairness ==
  /\ \A s \in Subs : WF_vars(WebStep(s))
  /\ \A p \in Procs : WF_vars(BootStep(p))
  /\ \A t \in Threads : WF_vars(ThreadStep(t))
  /\ \A m \in Ids : WF_vars(~Held(m) /\ GoesStale(m))

FairSpec == Spec /\ Fairness
=============================================================================
