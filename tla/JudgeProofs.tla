----------------------------- MODULE JudgeProofs ----------------------------
(***************************************************************************)
(* Theorems about JudgeService for every number of submissions, workers,   *)
(* goroutines, deliveries and faults.                                      *)
(***************************************************************************)
EXTENDS JudgeGuarantees, TLAPS

-----------------------------------------------------------------------------
(* The stream by itself.                                                   *)

\* IDs are used in order, only used IDs are in the stream or pending, only
\* pending ones are stale, and without a group nothing is delivered.
QueueInv ==
  /\ QueueTypeOK
  /\ \A m \in Ids : m <= added => body[m] \in Subs
  /\ \A m \in entries : m <= added
  /\ lastDelivered <= added
  /\ \A m \in Ids : pending[m] > 0 => m <= lastDelivered
  /\ \A m \in stale : pending[m] > 0
  /\ ~group => lastDelivered = 0 /\ \A m \in Ids : pending[m] = 0

\* Used IDs keep their submission.
BodyKept ==
  /\ added <= added'
  /\ \A m \in Ids : m <= added => body'[m] = body[m]

QueueNext ==
  \/ \E s \in Subs : XAdd(s)
  \/ XGroupCreate
  \/ \E m \in Ids : XReadGroup(m) \/ StaysIdle(m) \/ XAck(m) \/ XDel(m)
  \/ \E S \in SUBSET Ids : XClaim(S)
  \/ RedisLosesEverything

LEMMA QueueInitInv == QueueInit => QueueInv
<1> SUFFICES ASSUME QueueInit PROVE QueueInv
  OBVIOUS
<1>1. group \in BOOLEAN
  BY DEF QueueInit
<1> QED
  BY <1>1, QueueConstants DEF QueueConstants, QueueInit, QueueInv, QueueTypeOK, Ids, Counts

\* Every Redis command of queue.go keeps the stream well formed.
LEMMA QueueStep == QueueInv /\ (QueueNext \/ UNCHANGED queueVars) => QueueInv' /\ BodyKept
<1> SUFFICES ASSUME QueueInv, QueueNext \/ UNCHANGED queueVars
             PROVE  QueueInv' /\ BodyKept
  OBVIOUS
<1> USE QueueConstants DEF QueueConstants, QueueInv, BodyKept, QueueTypeOK, Ids, Counts
<1>1. ASSUME NEW s \in Subs, XAdd(s) PROVE QueueInv' /\ BodyKept
  <2>1. added + 1 \in Ids /\ added' = added + 1
    BY <1>1 DEF XAdd
  <2>2. body' = [body EXCEPT ![added + 1] = s] /\ entries' = entries \cup {added + 1}
    BY <1>1 DEF XAdd
  <2>3. QueueTypeOK'
    BY <1>1, <2>1, <2>2 DEF XAdd
  <2>4. BodyKept
    BY <2>1, <2>2
  <2> QED
    BY <1>1, <2>1, <2>2, <2>3, <2>4 DEF XAdd
<1>2. CASE XGroupCreate
  BY <1>2 DEF XGroupCreate, GroupStart
<1>3. ASSUME NEW m \in Ids, XReadGroup(m) PROVE QueueInv' /\ BodyKept
  BY <1>3 DEF XReadGroup, NewEntries
<1>4. ASSUME NEW m \in Ids, XAck(m) PROVE QueueInv' /\ BodyKept
  BY <1>4 DEF XAck
<1>5. ASSUME NEW m \in Ids, XDel(m) PROVE QueueInv' /\ BodyKept
  BY <1>5 DEF XDel
<1>6. ASSUME NEW S \in SUBSET Ids, XClaim(S) PROVE QueueInv' /\ BodyKept
  BY <1>6 DEF XClaim, StillIdle, Redelivered
<1>7. CASE RedisLosesEverything
  <2>1. group' \in BOOLEAN
    BY <1>7 DEF RedisLosesEverything
  <2> QED
    BY <1>7, <2>1 DEF RedisLosesEverything
<1>8. ASSUME NEW m \in Ids, StaysIdle(m) PROVE QueueInv' /\ BodyKept
  BY <1>8 DEF StaysIdle
<1>9. CASE UNCHANGED queueVars
  BY <1>9 DEF queueVars
<1> HIDE DEF QueueInv, BodyKept, QueueTypeOK, Ids, Counts
<1> QED
  BY <1>1, <1>2, <1>3, <1>4, <1>5, <1>6, <1>7, <1>8, <1>9 DEF QueueNext
-----------------------------------------------------------------------------
(* Type correctness.  TypeOK is not inductive: a goroutine that is past    *)
(* reading a message must hold a used ID, for its submission to be one,    *)
(* and must have a verdict when it comes to finish.                        *)

WebInv == req \in [Subs -> ReqStates] /\ faults \in 0..MaxFaults

ProcInv ==
  /\ boot \in [Procs -> BootStates]
  /\ requeue \in [Procs -> SUBSET Subs]

ThreadInv ==
  /\ pc \in [Threads -> PcStates]
  /\ item \in [Threads -> Ids \cup {0}]
  /\ result \in [Threads -> Verdicts \cup {"none"}]
  /\ poisonIDs \in [Threads -> SUBSET Ids]
  /\ claimIDs \in [Threads -> SUBSET Ids]
  /\ poison \in [Threads -> SUBSET Ids]
  /\ claimed \in [Threads -> SUBSET Ids]
  /\ \A t \in Threads : item[t] <= added
  /\ \A t \in Threads : \A m \in poison[t] \cup claimed[t] : m <= added
  /\ \A t \in Threads : pc[t] # "idle" => item[t] # 0
  /\ \A t \in Threads : pc[t] = "finish" => result[t] \in Verdicts

RowInv ==
  /\ status \in [Subs -> Statuses]
  /\ verdict \in [Subs -> Verdicts \cup {"none"}]
  /\ credits \in [Pairs -> Nat]
  /\ solves \in SUBSET Pairs
  /\ judged \in [Subs -> SUBSET Verdicts]

Shape == QueueInv /\ WebInv /\ ProcInv /\ ThreadInv /\ RowInv

LEMMA ShapeType == Shape => TypeOK
  BY DEF Shape, QueueInv, WebInv, ProcInv, ThreadInv, RowInv, TypeOK

LEMMA ShapeInit == Init => Shape
<1> SUFFICES ASSUME Init PROVE Shape
  OBVIOUS
<1>1. QueueInv
  BY QueueInitInv DEF Init
<1>2. WebInv /\ ProcInv
  BY ServiceConstants DEF ServiceConstants, Init, WebInv, ProcInv, ReqStates, BootStates
<1>3. ThreadInv
  BY <1>1 DEF Init, QueueInit, ThreadInv, PcStates
<1>4. RowInv
  BY DEF Init, RowInv, Statuses
<1> QED
  BY <1>1, <1>2, <1>3, <1>4 DEF Shape

\* The message of a busy goroutine carries a submission.
LEMMA HeldSub ==
  ASSUME QueueInv, ThreadInv, NEW t \in Threads, pc[t] # "idle"
  PROVE  item[t] \in Ids /\ Sub(t) \in Subs
  BY DEF QueueInv, QueueTypeOK, ThreadInv, Sub

\* A goroutine that moves on, gives up or reaches a verdict stays well formed.
LEMMA ThreadMoves ==
  ASSUME QueueInv, ThreadInv, BodyKept, NEW t \in Threads, added' \in Nat,
         \/ UNCHANGED threadVars
         \/ Release(t)
         \/ pc[t] # "idle" /\ \E next \in PcStates \ {"finish"} : Goto(t, next)
         \/ pc[t] # "idle" /\ \E v \in Verdicts : Conclude(t, v)
  PROVE  ThreadInv'
<1> USE DEF ThreadInv, BodyKept, Ids, PcStates, QueueInv, QueueTypeOK
<1>0. added \in Nat /\ added <= added' /\ added' \in Nat
  OBVIOUS
<1>1. CASE UNCHANGED threadVars
  BY <1>0, <1>1 DEF threadVars
<1>2. CASE Release(t)
  BY <1>0, <1>2 DEF Release
<1>3. ASSUME pc[t] # "idle", NEW next \in PcStates \ {"finish"}, Goto(t, next)
      PROVE ThreadInv'
  BY <1>0, <1>3 DEF Goto
<1>4. ASSUME pc[t] # "idle", NEW v \in Verdicts, Conclude(t, v)
      PROVE ThreadInv'
  BY <1>0, <1>4 DEF Conclude
<1> HIDE DEF ThreadInv
<1> QED
  BY <1>1, <1>2, <1>3, <1>4

\* What a step leaves alone stays well formed.
LEMMA Frame ==
  ASSUME Shape
  PROVE  /\ UNCHANGED rowVars => RowInv'
         /\ UNCHANGED procVars => ProcInv'
         /\ UNCHANGED <<req, faults>> => WebInv'
         /\ BodyKept /\ QueueInv' /\ UNCHANGED threadVars => ThreadInv'
<1>1. UNCHANGED rowVars => RowInv'
  BY DEF Shape, RowInv, rowVars
<1>2. UNCHANGED procVars => ProcInv'
  BY DEF Shape, ProcInv, procVars
<1>3. UNCHANGED <<req, faults>> => WebInv'
  BY DEF Shape, WebInv
<1>4. BodyKept /\ QueueInv' /\ UNCHANGED threadVars => ThreadInv'
  <2> SUFFICES ASSUME BodyKept, QueueInv', UNCHANGED threadVars PROVE ThreadInv'
    OBVIOUS
  <2>1. added \in Nat /\ added' \in Nat /\ added <= added'
    BY DEF Shape, QueueInv, QueueTypeOK, BodyKept
  <2> QED
    BY <2>1 DEF Shape, ThreadInv, threadVars, Ids, QueueInv, QueueTypeOK
<1> QED
  BY <1>1, <1>2, <1>3, <1>4

LEMMA FaultLeft == WebInv /\ (\E k \in {"crash", "redis", "flush", "executor", "db"} : Fault(k))
                   => faults' \in 0..MaxFaults
  BY ServiceConstants DEF ServiceConstants, WebInv, Fault

LEMMA WebShape ==
  ASSUME Shape, NEW s \in Subs,
         CreateSubmission(s) \/ WebStep(s) \/ EnqueueJudgeFails(s) \/ HandlerDies(s)
  PROVE  Shape'
<1>1. QueueInv' /\ BodyKept
  <2>1. QueueNext \/ UNCHANGED queueVars
    BY DEF CreateSubmission, WebStep, CheckDepth, EnqueueJudge, EnqueueJudgeFails, HandlerDies, QueueNext
  <2> QED
    BY <2>1, QueueStep DEF Shape
<1>2. WebInv'
  <2>1. faults' \in 0..MaxFaults
    BY FaultLeft DEF Shape, WebInv, CreateSubmission, WebStep, CheckDepth, EnqueueJudge, EnqueueJudgeFails, HandlerDies
  <2>2. req' \in [Subs -> ReqStates]
    BY DEF Shape, WebInv, ReqStates, CreateSubmission, WebStep, CheckDepth, EnqueueJudge, EnqueueJudgeFails, HandlerDies
  <2> QED
    BY <2>1, <2>2 DEF WebInv
<1>3. ProcInv' /\ ThreadInv'
  <2>1. UNCHANGED <<procVars, threadVars>>
    BY DEF CreateSubmission, WebStep, CheckDepth, EnqueueJudge, EnqueueJudgeFails, HandlerDies
  <2> QED
    BY <1>1, <2>1, Frame
<1>4. RowInv'
  <2>1. CASE CreateSubmission(s)
    BY <2>1 DEF CreateSubmission, Shape, RowInv, Statuses
  <2>2. CASE UNCHANGED rowVars
    BY <2>2, Frame
  <2> QED
    BY <2>1, <2>2 DEF WebStep, CheckDepth, EnqueueJudge, EnqueueJudgeFails, HandlerDies
<1> QED
  BY <1>1, <1>2, <1>3, <1>4 DEF Shape

LEMMA BootShape ==
  ASSUME Shape, NEW p \in Procs, BootStep(p) \/ ReconcileFails(p)
  PROVE  Shape'
<1> USE DEF BootStep, EnsureJudgeGroup, ReconcileDepth, ListPendingSubmissionIDs,
            ReconcileEnqueue, ReconcileFails
<1>1. QueueInv' /\ BodyKept
  <2>1. requeue[p] \subseteq Subs
    BY DEF Shape, ProcInv
  <2>2. QueueNext \/ UNCHANGED queueVars
    BY <2>1 DEF QueueNext
  <2> QED
    BY <2>2, QueueStep DEF Shape
<1>2. UNCHANGED <<req, rowVars, threadVars>>
  OBVIOUS
<1>3. faults' \in 0..MaxFaults
  BY FaultLeft DEF Shape, WebInv
<1>4. ProcInv'
  BY DEF Shape, ProcInv, BootStates, Unfinished
<1> QED
  BY <1>1, <1>2, <1>3, <1>4, Frame DEF Shape, WebInv

LEMMA CrashShape == ASSUME Shape, NEW p \in Procs, Crash(p) PROVE Shape'
<1>1. QueueInv' /\ BodyKept /\ added' = added
  BY QueueStep DEF Shape, Crash, queueVars
<1>2. WebInv'
  BY FaultLeft DEF Shape, WebInv, Crash
<1>3. ProcInv'
  BY DEF Shape, ProcInv, Crash, BootStates
<1>4. ThreadInv'
  BY <1>1 DEF Shape, ThreadInv, Crash, PcStates, QueueInv, QueueTypeOK
<1>5. RowInv'
  BY Frame DEF Crash
<1> QED
  BY <1>1, <1>2, <1>3, <1>4, <1>5 DEF Shape

LEMMA FlushShape == ASSUME Shape, Flush PROVE Shape'
<1>1. QueueInv' /\ BodyKept
  BY QueueStep DEF Shape, Flush, QueueNext
<1>2. WebInv'
  BY FaultLeft DEF Shape, WebInv, Flush
<1> QED
  BY <1>1, <1>2, Frame DEF Shape, Flush

\* A goroutine takes a message that it read or claimed.
LEMMA ReadShape ==
  ASSUME Shape, NEW t \in Threads, ReadJudge(t) \/ ReadJudgeFails(t)
  PROVE  Shape'
<1> PICK m \in Ids : XReadGroup(m) /\ (ReadJudge(t) => item' = [item EXCEPT ![t] = m])
  BY DEF ReadJudge, ReadJudgeFails
<1>1. QueueInv' /\ BodyKept
  BY QueueStep DEF Shape, QueueNext
<1>2. m <= added /\ added' = added
  BY DEF Shape, QueueInv, XReadGroup, NewEntries
<1>3. WebInv'
  BY FaultLeft DEF Shape, WebInv, ReadJudge, ReadJudgeFails
<1>4. ThreadInv'
  <2>1. CASE ReadJudge(t)
    <3>1. /\ pc' = [pc EXCEPT ![t] = "load"]
          /\ item' = [item EXCEPT ![t] = m]
          /\ UNCHANGED <<result, poisonIDs, claimIDs, poison, claimed>>
      BY <2>1 DEF ReadJudge
    <3>2. m # 0
      BY QueueConstants DEF QueueConstants, Ids
    <3> QED
      BY <1>2, <3>1, <3>2 DEF Shape, ThreadInv, PcStates
  <2>2. CASE ReadJudgeFails(t)
    BY <1>1, <2>2, Frame DEF ReadJudgeFails
  <2> QED
    BY <2>1, <2>2
<1> QED
  BY <1>1, <1>3, <1>4, Frame DEF Shape, ReadJudge, ReadJudgeFails

\* The steps of ClaimStaleJudge.
Claims(t) ==
  \/ ScanPending(t)
  \/ ClaimPoison(t)
  \/ ClaimStale(t)
  \/ ClaimFindsNoGroup(t)
  \/ ClaimStaleJudgeFails(t)

\* What they leave alone, and the one command each of them gives.  A batch
\* grows by the messages of that command that are still stale.
LEMMA ClaimSteps ==
  ASSUME Shape, NEW t \in Threads, Claims(t)
  PROVE  /\ UNCHANGED <<req, rowVars, procVars, pc, item, result>>
         /\ UNCHANGED queueVars \/ \E S \in SUBSET Ids : XClaim(S)
         /\ faults' \in 0..MaxFaults
         /\ poisonIDs' \in [Threads -> SUBSET Ids]
         /\ claimIDs' \in [Threads -> SUBSET Ids]
         /\ \/ UNCHANGED <<poison, claimed>>
            \/ poison' = [poison EXCEPT ![t] = {}] /\ claimed' = claimed
            \/ /\ XClaim(poisonIDs[t]) /\ claimed' = claimed
               /\ poison' = [poison EXCEPT ![t] = StillIdle(poisonIDs[t])]
            \/ /\ XClaim(claimIDs[t]) /\ poison' = poison
               /\ claimed' = [claimed EXCEPT ![t] = StillIdle(claimIDs[t])]
<1>1. /\ poisonIDs \in [Threads -> SUBSET Ids] /\ claimIDs \in [Threads -> SUBSET Ids]
      /\ stale \in SUBSET Ids /\ faults \in 0..MaxFaults
  BY DEF Shape, ThreadInv, WebInv, QueueInv, QueueTypeOK
<1>2. CASE ScanPending(t)
  BY <1>1, <1>2 DEF ScanPending, Exhausted, XPending
<1>3. CASE ClaimPoison(t)
  BY <1>1, <1>3 DEF ClaimPoison
<1>4. CASE ClaimStale(t)
  BY <1>1, <1>4 DEF ClaimStale
<1>5. CASE ClaimFindsNoGroup(t)
  BY <1>1, <1>5 DEF ClaimFindsNoGroup, ClaimReturnsError
<1>6. CASE ClaimStaleJudgeFails(t)
  <2>1. faults' \in 0..MaxFaults
    BY <1>6, FaultLeft DEF ClaimStaleJudgeFails, Shape
  <2> QED
    BY <1>1, <1>6, <2>1 DEF ClaimStaleJudgeFails, ClaimReturnsError
<1> QED
  BY <1>2, <1>3, <1>4, <1>5, <1>6 DEF Claims

LEMMA ClaimShape == ASSUME Shape, NEW t \in Threads, Claims(t) PROVE Shape'
<1>1. QueueInv' /\ BodyKept
  BY ClaimSteps, QueueStep DEF Shape, QueueNext
<1>2. WebInv'
  BY ClaimSteps DEF Shape, WebInv
<1>3. added' = added
  BY ClaimSteps DEF XClaim, queueVars
<1>4. \A S \in SUBSET Ids : \A m \in StillIdle(S) : m \in Ids /\ m <= added
  BY DEF StillIdle, Shape, QueueInv, QueueTypeOK, Ids
<1>5. \A u \in Threads : \A m \in poison'[u] \cup claimed'[u] : m \in Ids /\ m <= added
  BY <1>4, ClaimSteps DEF Shape, ThreadInv
<1>6. poison' \in [Threads -> SUBSET Ids] /\ claimed' \in [Threads -> SUBSET Ids]
  BY <1>4, ClaimSteps DEF Shape, ThreadInv
<1>7. ThreadInv'
  BY <1>3, <1>5, <1>6, ClaimSteps DEF Shape, ThreadInv
<1> QED
  BY <1>1, <1>2, <1>7, ClaimSteps, Frame DEF Shape

\* Time passes.
LEMMA StaleShape == ASSUME Shape, NEW m \in Ids, GoesStale(m) PROVE Shape'
<1>1. QueueInv' /\ BodyKept
  BY QueueStep DEF Shape, GoesStale, QueueNext
<1> QED
  BY <1>1, Frame DEF Shape, GoesStale

LEMMA TakeShape == ASSUME Shape, NEW t \in Threads, TakeNext(t) PROVE Shape'
<1>1. QueueInv' /\ BodyKept /\ added' = added
  BY QueueStep DEF Shape, TakeNext, queueVars
<1>2. ThreadInv'
  BY <1>1 DEF TakeNext, IsOldest, Shape, ThreadInv, PcStates, Ids
<1> QED
  BY <1>1, <1>2, Frame DEF Shape, TakeNext

\* process, runCases, deadLetter, finish, score and ack, with their failures.
LEMMA WorkShape ==
  ASSUME Shape, NEW t \in Threads,
         \/ ProcessLoad(t) \/ ProcessLoadFails(t)
         \/ MarkSubmissionRunning(t) \/ MarkSubmissionRunningFails(t)
         \/ RunCases(t) \/ RunCasesFails(t)
         \/ DeadLetterLoad(t) \/ DeadLetterLoadFails(t)
         \/ FinishSubmission(t) \/ FinishSubmissionFails(t)
         \/ ApplyAccepted(t) \/ ApplyAcceptedFails(t)
         \/ AckJudge(t) \/ AckJudgeFails(t)
         \/ DeleteJudge(t) \/ DeleteJudgeFails(t)
  PROVE  Shape'
<1> USE DEF ProcessLoad, ProcessLoadFails, MarkSubmissionRunning, MarkSubmissionRunningFails,
            RunCases, RunCasesFails, DeadLetterLoad, DeadLetterLoadFails, FinishSubmission,
            FinishSubmissionFails, ApplyAccepted, ApplyAcceptedFails, AckJudge, AckJudgeFails,
            DeleteJudge, DeleteJudgeFails
<1>1. pc[t] # "idle" /\ item[t] \in Ids /\ Sub(t) \in Subs
  BY HeldSub DEF Shape
<1>2. QueueInv' /\ BodyKept /\ added' \in Nat
  <2>1. QueueNext \/ UNCHANGED queueVars
    BY <1>1 DEF QueueNext
  <2> QED
    BY <2>1, QueueStep DEF Shape, QueueInv, QueueTypeOK
<1>3. WebInv'
  BY FaultLeft DEF Shape, WebInv
<1>4. ProcInv'
  BY Frame
<1>5. ThreadInv'
  <2>1. \/ Release(t)
        \/ \E next \in PcStates \ {"finish"} : Goto(t, next)
        \/ \E v \in Verdicts : Conclude(t, v)
    BY <1>1, ServiceConstants DEF ServiceConstants, PcStates, RetryLater, AfterFinish
  <2> QED
    BY <1>1, <1>2, <2>1, ThreadMoves DEF Shape
<1>6. RowInv'
  <2>1. CASE MarkSubmissionRunning(t)
    BY <1>1, <2>1 DEF Shape, RowInv, Statuses
  <2>2. CASE FinishSubmission(t) \/ FinishSubmissionFails(t)
    <3>1. result[t] \in Verdicts
      BY <2>2 DEF Shape, ThreadInv
    <3> QED
      BY <1>1, <2>2, <3>1 DEF Shape, RowInv, Statuses, Persist
  <2>3. CASE ApplyAccepted(t)
    BY <1>1, <2>3, ServiceConstants DEF ServiceConstants, Shape, RowInv, AlreadySolved
  <2>4. CASE UNCHANGED rowVars
    BY <2>4, Frame
  <2> QED
    BY <2>1, <2>2, <2>3, <2>4
<1> QED
  BY <1>2, <1>3, <1>4, <1>5, <1>6 DEF Shape

LEMMA ShapeStep == Shape /\ [Next]_vars => Shape'
<1> SUFFICES ASSUME Shape, [Next]_vars PROVE Shape'
  OBVIOUS
<1>1. CASE \E s \in Subs : \/ CreateSubmission(s) \/ WebStep(s)
                           \/ EnqueueJudgeFails(s) \/ HandlerDies(s)
  BY <1>1, WebShape
<1>2. CASE \E p \in Procs : BootStep(p) \/ ReconcileFails(p) \/ Crash(p)
  BY <1>2, BootShape, CrashShape
<1>3. CASE \E t \in Threads : ThreadStep(t) \/ ThreadFails(t)
  BY <1>3, ReadShape, ClaimShape, TakeShape, WorkShape DEF ThreadStep, ThreadFails, Claims
<1>4. CASE \E m \in Ids : GoesStale(m)
  BY <1>4, StaleShape
<1>5. CASE Flush
  BY <1>5, FlushShape
<1>6. CASE UNCHANGED vars
  <2>1. QueueInv' /\ BodyKept
    BY <1>6, QueueStep DEF vars, Shape
  <2> QED
    BY <1>6, <2>1, Frame DEF vars, Shape
<1> QED
  BY <1>1, <1>2, <1>3, <1>4, <1>5, <1>6 DEF Next

\* Every variable always has its type, under every fault.
THEOREM TypeCorrect == Spec => []TypeOK
<1>1. Spec => []Shape
  BY ShapeInit, ShapeStep, PTL DEF Spec
<1> QED
  BY <1>1, ShapeType, PTL

-----------------------------------------------------------------------------
(* Credits.  Between FinishSubmission and ApplyAccepted a goroutine relies *)
(* on a verdict it persisted earlier; verdicts are never forgotten.        *)

CreditInv ==
  /\ \A p \in Pairs : credits[p] = IF p \in solves THEN 1 ELSE 0
  /\ \A p \in solves : \E s \in Subs : PairOf[s] = p /\ "accepted" \in judged[s]
  /\ \A t \in Threads : pc[t] = "score" => "accepted" \in judged[Sub(t)]

\* Each step keeps the verdicts of the past, and only ApplyAccepted credits
\* and only FinishSubmission sends a goroutine there.
LEMMA CreditSteps ==
  ASSUME Shape, [Next]_vars
  PROVE  /\ BodyKept
         /\ \A s \in Subs : judged[s] \subseteq judged'[s]
         /\ UNCHANGED <<credits, solves>> \/ \E t \in Threads : ApplyAccepted(t)
         /\ \A t \in Threads : pc'[t] = "score" =>
              (pc[t] = "score" /\ item'[t] = item[t]) \/ FinishSubmission(t)
<1> DEFINE Goal == /\ \A s \in Subs : judged[s] \subseteq judged'[s]
                   /\ UNCHANGED <<credits, solves>> \/ \E t \in Threads : ApplyAccepted(t)
                   /\ \A t \in Threads : pc'[t] = "score" =>
                        (pc[t] = "score" /\ item'[t] = item[t]) \/ FinishSubmission(t)
<1>0. BodyKept
  <2>1. QueueNext \/ UNCHANGED queueVars
    <3>1. CASE \E t \in Threads : ThreadStep(t) \/ ThreadFails(t)
      <4> PICK t \in Threads : ThreadStep(t) \/ ThreadFails(t)
        BY <3>1
      <4>1. pc[t] # "idle" => item[t] \in Ids
        BY HeldSub DEF Shape
      <4>2. CASE Claims(t)
        BY <4>2, ClaimSteps DEF QueueNext
      <4> QED
        BY <4>1, <4>2 DEF Claims, QueueNext, ThreadStep, ThreadFails, ReadJudge, ReadJudgeFails, TakeNext,
            ProcessLoad, ProcessLoadFails, MarkSubmissionRunning, MarkSubmissionRunningFails,
            RunCases, RunCasesFails, DeadLetterLoad, DeadLetterLoadFails, FinishSubmission,
            FinishSubmissionFails, ApplyAccepted, ApplyAcceptedFails, AckJudge, AckJudgeFails,
            DeleteJudge, DeleteJudgeFails
    <3>2. CASE ~\E t \in Threads : ThreadStep(t) \/ ThreadFails(t)
      <4>1. \A p \in Procs : requeue[p] \subseteq Subs
        BY DEF Shape, ProcInv
      <4> QED
        BY <3>2, <4>1 DEF Next, vars, QueueNext, CreateSubmission, WebStep, CheckDepth, EnqueueJudge,
            EnqueueJudgeFails, HandlerDies, BootStep, EnsureJudgeGroup, ReconcileDepth,
            ListPendingSubmissionIDs, ReconcileEnqueue, ReconcileFails, Crash, Flush, GoesStale
    <3> QED
      BY <3>1, <3>2
  <2> QED
    BY <2>1, QueueStep DEF Shape
<1>1. ASSUME NEW u \in Threads, ThreadStep(u) \/ ThreadFails(u) PROVE Goal
  <2>1. CASE FinishSubmission(u) \/ FinishSubmissionFails(u)
    BY <2>1 DEF FinishSubmission, FinishSubmissionFails, Persist, Goto, Shape, RowInv, ThreadInv
  <2>2. CASE ApplyAccepted(u)
    BY <2>2 DEF ApplyAccepted, Goto, Shape, ThreadInv
  <2>3. CASE Claims(u)
    BY <2>3, ClaimSteps DEF rowVars
  <2>4. CASE ~(Claims(u) \/ FinishSubmission(u) \/ FinishSubmissionFails(u) \/ ApplyAccepted(u))
    <3>1. UNCHANGED <<credits, solves, judged>>
      BY <1>1, <2>4 DEF Claims, ThreadStep, ThreadFails, rowVars, ReadJudge, ReadJudgeFails, TakeNext,
            ProcessLoad, ProcessLoadFails, MarkSubmissionRunning, MarkSubmissionRunningFails,
            RunCases, RunCasesFails, DeadLetterLoad, DeadLetterLoadFails,
            ApplyAcceptedFails, AckJudge, AckJudgeFails, DeleteJudge, DeleteJudgeFails
    <3>2. \A t \in Threads : pc'[t] = "score" => pc[t] = "score" /\ item'[t] = item[t]
      BY <1>1, <2>4 DEF Claims, ThreadStep, ThreadFails, threadVars, ReadJudge, ReadJudgeFails, TakeNext,
            ProcessLoad, ProcessLoadFails, MarkSubmissionRunning, MarkSubmissionRunningFails,
            RunCases, RunCasesFails, DeadLetterLoad, DeadLetterLoadFails,
            ApplyAcceptedFails, AckJudge, AckJudgeFails, DeleteJudge, DeleteJudgeFails,
            Goto, Release, RetryLater, Conclude, Shape, ThreadInv
    <3> QED
      BY <3>1, <3>2
  <2> QED
    BY <2>1, <2>2, <2>3, <2>4
<1>2. ASSUME ~\E u \in Threads : ThreadStep(u) \/ ThreadFails(u) PROVE Goal
  <2>1. UNCHANGED <<credits, solves, judged>>
    BY <1>2 DEF Next, vars, rowVars, CreateSubmission, WebStep, CheckDepth, EnqueueJudge,
          EnqueueJudgeFails, HandlerDies, BootStep, EnsureJudgeGroup, ReconcileDepth,
          ListPendingSubmissionIDs, ReconcileEnqueue, ReconcileFails, Crash, Flush, GoesStale
  <2>2. \A t \in Threads : pc'[t] = "score" => pc[t] = "score" /\ item'[t] = item[t]
    BY <1>2 DEF Next, vars, threadVars, CreateSubmission, WebStep, CheckDepth, EnqueueJudge,
          EnqueueJudgeFails, HandlerDies, BootStep, EnsureJudgeGroup, ReconcileDepth,
          ListPendingSubmissionIDs, ReconcileEnqueue, ReconcileFails, Crash, Flush, GoesStale, Shape, ThreadInv
  <2> QED
    BY <2>1, <2>2
<1> QED
  BY <1>0, <1>1, <1>2

LEMMA CreditInit == Init => CreditInv
  BY DEF Init, CreditInv

LEMMA CreditStep == Shape /\ CreditInv /\ [Next]_vars => CreditInv'
<1> SUFFICES ASSUME Shape, CreditInv, [Next]_vars PROVE CreditInv'
  OBVIOUS
<1>1. \A s \in Subs : "accepted" \in judged[s] => "accepted" \in judged'[s]
  BY CreditSteps
<1>2. \A t \in Threads : pc[t] # "idle" => Sub(t) \in Subs /\ body'[item[t]] = Sub(t)
  BY HeldSub, CreditSteps DEF Shape, ThreadInv, BodyKept, Sub
<1>3. ASSUME NEW t \in Threads, pc'[t] = "score" PROVE "accepted" \in judged'[Sub(t)']
  <2>1. CASE pc[t] = "score" /\ item'[t] = item[t]
    BY <1>1, <1>2, <2>1 DEF CreditInv, Sub
  <2>2. CASE FinishSubmission(t)
    <3>1. result[t] = "accepted" /\ Sub(t)' = Sub(t) /\ Sub(t) \in Subs
      BY <1>2, <1>3, <2>2 DEF FinishSubmission, Goto, AfterFinish, Shape, ThreadInv, Sub, queueVars
    <3> QED
      BY <2>2, <3>1 DEF FinishSubmission, Persist, Shape, RowInv
  <2> QED
    BY <1>3, <2>1, <2>2, CreditSteps
<1>4. ASSUME NEW t \in Threads, ApplyAccepted(t) PROVE CreditInv'
  <2>1. Sub(t) \in Subs /\ PairOf[Sub(t)] \in Pairs /\ "accepted" \in judged[Sub(t)]
    BY <1>2, <1>4, ServiceConstants DEF ServiceConstants, ApplyAccepted, CreditInv
  <2>2. judged' = judged
    BY <1>4 DEF ApplyAccepted
  <2> QED
    BY <1>3, <1>4, <2>1, <2>2 DEF ApplyAccepted, AlreadySolved, CreditInv, Shape, RowInv
<1>5. CASE UNCHANGED <<credits, solves>>
  BY <1>1, <1>3, <1>5 DEF CreditInv
<1> QED
  BY <1>4, <1>5, CreditSteps

\* The standings count a pair at most once and only after an accepted
\* verdict on one of its submissions, under every fault, however often a
\* message is delivered, claimed or judged.
THEOREM CreditsEarned == Spec => []CreditsAreEarned
<1>1. Spec => [](Shape /\ CreditInv)
  BY ShapeInit, ShapeStep, CreditInit, CreditStep, PTL DEF Spec
<1>2. Shape /\ CreditInv => CreditsAreEarned
  BY DEF CreditInv, CreditsAreEarned, Shape, RowInv
<1> QED
  BY <1>1, <1>2, PTL

-----------------------------------------------------------------------------
(* The service implements JudgeContract, under every fault.                *)

\* Whatever was answered, enqueued or listed by reconcile has a row.
StoredInv ==
  /\ \A s \in Subs : req[s] # "new" => status[s] # "absent"
  /\ \A m \in Ids : m <= added => status[body[m]] # "absent"
  /\ \A p \in Procs : \A s \in requeue[p] : status[s] # "absent"

\* The steps that the contract sees.
Visible ==
  \/ \E s \in Subs : CreateSubmission(s) \/ EnqueueJudge(s)
  \/ \E t \in Threads : \/ MarkSubmissionRunning(t) \/ ApplyAccepted(t)
                        \/ FinishSubmission(t) \/ FinishSubmissionFails(t)

\* No other step touches a row, answers a 202 or adds a message without one.
LEMMA InvisibleSteps ==
  ASSUME Shape, [Next]_vars, ~Visible
  PROVE  /\ UNCHANGED rowVars
         /\ \A s \in Subs : /\ req'[s] = "accepted" <=> req[s] = "accepted"
                            /\ req'[s] # "new" => req[s] # "new"
         /\ \/ UNCHANGED <<added, body>>
            \/ \E s \in Subs : XAdd(s) /\ (req[s] # "new" \/ \E p \in Procs : s \in requeue[p])
         /\ \A p \in Procs : requeue'[p] \subseteq requeue[p] \cup Unfinished
<1> DEFINE Rows == UNCHANGED rowVars
           Requests == \A s \in Subs : /\ req'[s] = "accepted" <=> req[s] = "accepted"
                                       /\ req'[s] # "new" => req[s] # "new"
           Messages == \/ UNCHANGED <<added, body>>
                       \/ \E s \in Subs : /\ XAdd(s)
                                          /\ req[s] # "new" \/ \E p \in Procs : s \in requeue[p]
           Lists == \A p \in Procs : requeue'[p] \subseteq requeue[p] \cup Unfinished
<1>1. ASSUME NEW s \in Subs, CheckDepth(s) \/ EnqueueJudgeFails(s) \/ HandlerDies(s)
      PROVE  Rows /\ Requests /\ Messages /\ Lists
  BY <1>1 DEF CheckDepth, EnqueueJudgeFails, HandlerDies, queueVars, procVars, Shape, WebInv
<1>2. ASSUME NEW p \in Procs, BootStep(p) \/ ReconcileFails(p)
      PROVE  Rows /\ Requests /\ Messages /\ Lists
  <2>1. requeue \in [Procs -> SUBSET Subs]
    BY DEF Shape, ProcInv
  <2> QED
    BY <1>2, <2>1 DEF BootStep, EnsureJudgeGroup, XGroupCreate, ReconcileDepth,
       ListPendingSubmissionIDs, ReconcileEnqueue, ReconcileFails, queueVars
<1>3. ASSUME NEW p \in Procs, Crash(p)
      PROVE  Rows /\ Requests /\ Messages /\ Lists
  BY <1>3 DEF Crash, queueVars, Shape, ProcInv
<1>4. ASSUME NEW t \in Threads, ThreadStep(t) \/ ThreadFails(t)
      PROVE  Rows /\ Requests /\ Messages /\ Lists
  <2>1. CASE Claims(t)
    BY <2>1, ClaimSteps DEF procVars, queueVars, XClaim
  <2>2. CASE ~Claims(t)
    <3>1. UNCHANGED <<rowVars, req, requeue>>
      BY <1>4, <2>2 DEF Claims, Visible, ThreadStep, ThreadFails, ReadJudge, ReadJudgeFails,
         TakeNext, ProcessLoad, ProcessLoadFails, MarkSubmissionRunningFails, RunCases,
         RunCasesFails, DeadLetterLoad, DeadLetterLoadFails, ApplyAcceptedFails, AckJudge,
         AckJudgeFails, DeleteJudge, DeleteJudgeFails, procVars
    <3>2. UNCHANGED <<added, body>>
      BY <1>4, <2>2 DEF Claims, Visible, ThreadStep, ThreadFails, ReadJudge, ReadJudgeFails,
         TakeNext, ProcessLoad, ProcessLoadFails, MarkSubmissionRunningFails, RunCases,
         RunCasesFails, DeadLetterLoad, DeadLetterLoadFails, ApplyAcceptedFails, AckJudge,
         AckJudgeFails, DeleteJudge, DeleteJudgeFails, XReadGroup, XAck, XDel, queueVars
    <3> QED
      BY <3>1, <3>2
  <2> QED
    BY <2>1, <2>2
<1>5. ASSUME NEW m \in Ids, GoesStale(m)
      PROVE  Rows /\ Requests /\ Messages /\ Lists
  BY <1>5 DEF GoesStale, StaysIdle, procVars
<1>6. CASE Flush \/ UNCHANGED vars
  BY <1>6 DEF Flush, RedisLosesEverything, vars, procVars, queueVars
<1> QED
  BY <1>1, <1>2, <1>3, <1>4, <1>5, <1>6 DEF Next, Visible, WebStep

LEMMA StoredInit == Init => StoredInv
  BY QueueConstants DEF QueueConstants, Init, QueueInit, StoredInv, Ids

\* A row is never removed.
LEMMA RowsStay ==
  ASSUME Shape, [Next]_vars
  PROVE  \A s \in Subs : status[s] # "absent" => status'[s] # "absent"
<1>1. CASE Visible
  BY <1>1 DEF Visible, CreateSubmission, EnqueueJudge, MarkSubmissionRunning, ApplyAccepted,
     FinishSubmission, FinishSubmissionFails, Persist, rowVars, Shape, RowInv
<1>2. CASE ~Visible
  BY <1>2, InvisibleSteps DEF rowVars
<1> QED
  BY <1>1, <1>2

LEMMA StoredStep == Shape /\ StoredInv /\ [Next]_vars => StoredInv'
<1> SUFFICES ASSUME Shape, StoredInv, [Next]_vars PROVE StoredInv'
  OBVIOUS
<1>0. /\ added \in 0..MaxId /\ body \in [Ids -> Subs \cup {NoSub}]
      /\ \A m \in Ids : m <= added => body[m] \in Subs
      /\ requeue \in [Procs -> SUBSET Subs] /\ req \in [Subs -> ReqStates]
  BY DEF Shape, QueueInv, QueueTypeOK, ProcInv, WebInv
<1>1. ASSUME NEW s \in Subs, req'[s] # "new" PROVE status'[s] # "absent"
  <2>1. CASE CreateSubmission(s)
    BY <2>1 DEF CreateSubmission, Shape, RowInv
  <2>2. CASE req[s] # "new"
    BY <2>2, RowsStay DEF StoredInv
  <2>3. req[s] # "new" \/ CreateSubmission(s)
    <3>1. CASE Visible
      BY <1>0, <1>1, <3>1 DEF Visible, CreateSubmission, EnqueueJudge, MarkSubmissionRunning,
         ApplyAccepted, FinishSubmission, FinishSubmissionFails
    <3>2. CASE ~Visible
      BY <1>1, <3>2, InvisibleSteps
    <3> QED
      BY <3>1, <3>2
  <2> QED
    BY <2>1, <2>2, <2>3
<1>2. ASSUME NEW s \in Subs, XAdd(s), status'[s] # "absent", NEW m \in Ids, m <= added'
      PROVE  status'[body'[m]] # "absent"
  <2>1. CASE m = added + 1
    BY <1>0, <1>2, <2>1 DEF XAdd
  <2>2. CASE m # added + 1
    <3>1. m <= added /\ body'[m] = body[m]
      BY <1>0, <1>2, <2>2 DEF XAdd, Ids
    <3> QED
      BY <1>0, <3>1, RowsStay DEF StoredInv
  <2> QED
    BY <2>1, <2>2
<1>3. ASSUME UNCHANGED <<added, body>>, NEW m \in Ids, m <= added'
      PROVE  status'[body'[m]] # "absent"
  BY <1>0, <1>3, RowsStay DEF StoredInv
<1>4. ASSUME NEW m \in Ids, m <= added' PROVE status'[body'[m]] # "absent"
  <2>1. CASE Visible
    <3>1. UNCHANGED <<added, body>> \/ \E s \in Subs : XAdd(s) /\ req[s] # "new"
      BY <2>1 DEF Visible, CreateSubmission, EnqueueJudge, MarkSubmissionRunning,
         ApplyAccepted, FinishSubmission, FinishSubmissionFails, queueVars
    <3> QED
      BY <1>2, <1>3, <1>4, <3>1, RowsStay DEF StoredInv
  <2>2. CASE ~Visible
    <3>1. \/ UNCHANGED <<added, body>>
          \/ \E s \in Subs : XAdd(s) /\ status'[s] # "absent"
      BY <1>0, <2>2, InvisibleSteps, RowsStay DEF StoredInv
    <3> QED
      BY <1>2, <1>3, <1>4, <3>1
  <2> QED
    BY <2>1, <2>2
<1>5. ASSUME NEW p \in Procs, NEW s \in requeue'[p] PROVE status'[s] # "absent"
  <2>1. CASE Visible
    <3>1. requeue' = requeue
      BY <2>1 DEF Visible, CreateSubmission, EnqueueJudge, MarkSubmissionRunning,
         ApplyAccepted, FinishSubmission, FinishSubmissionFails, procVars
    <3> QED
      BY <1>0, <1>5, <3>1, RowsStay DEF StoredInv
  <2>2. CASE ~Visible
    <3>1. s \in Subs /\ status[s] # "absent"
      BY <1>0, <1>5, <2>2, InvisibleSteps DEF StoredInv, Unfinished
    <3> QED
      BY <3>1, RowsStay
  <2> QED
    BY <2>1, <2>2
<1> QED
  BY <1>1, <1>4, <1>5 DEF StoredInv

\* A submission that a goroutine is about to mark, judge or score has a row.
LEMMA HeldIsStored ==
  ASSUME Shape, StoredInv, NEW t \in Threads, pc[t] # "idle"
  PROVE  Sub(t) \in Subs /\ status[Sub(t)] # "absent"
  BY HeldSub DEF Shape, ThreadInv, StoredInv, Sub

\* Each visible step is one step of the contract or, when it says again what
\* the contract knows, none.
LEMMA VisibleContract ==
  ASSUME Shape, CreditInv, StoredInv, Visible
  PROVE  [Contract!Next]_(Contract!cvars)
<1> USE DEF Contract!Next, Contract!cvars
<1>0. /\ req \in [Subs -> ReqStates] /\ status \in [Subs -> Statuses]
      /\ judged \in [Subs -> SUBSET Verdicts] /\ credits \in [Pairs -> Nat]
  BY DEF Shape, WebInv, RowInv
<1>1. ASSUME NEW s \in Subs, CreateSubmission(s) PROVE Contract!Store(s)
  <2>1. {r \in Subs : status'[r] # "absent"} = {r \in Subs : status[r] # "absent"} \cup {s}
    BY <1>0, <1>1 DEF CreateSubmission
  <2>2. {r \in Subs : req'[r] = "accepted"} = {r \in Subs : req[r] = "accepted"}
    BY <1>0, <1>1 DEF CreateSubmission
  <2> QED
    BY <1>1, <2>1, <2>2 DEF CreateSubmission, Contract!Store
<1>2. ASSUME NEW s \in Subs, EnqueueJudge(s) PROVE Contract!Promise(s)
  <2>1. {r \in Subs : req'[r] = "accepted"} = {r \in Subs : req[r] = "accepted"} \cup {s}
    BY <1>0, <1>2 DEF EnqueueJudge
  <2>2. status[s] # "absent"
    BY <1>2 DEF EnqueueJudge, StoredInv
  <2> QED
    BY <1>2, <2>1, <2>2 DEF EnqueueJudge, rowVars, Contract!Promise
<1>3. ASSUME NEW t \in Threads, MarkSubmissionRunning(t) PROVE UNCHANGED Contract!cvars
  <2>1. Sub(t) \in Subs /\ status[Sub(t)] # "absent"
    BY <1>3, HeldIsStored DEF MarkSubmissionRunning
  <2>2. {r \in Subs : status'[r] # "absent"} = {r \in Subs : status[r] # "absent"}
    BY <1>0, <1>3, <2>1 DEF MarkSubmissionRunning
  <2> QED
    BY <1>3, <2>2 DEF MarkSubmissionRunning
<1>4. ASSUME NEW t \in Threads, pc[t] = "finish", Persist(Sub(t), result[t]),
             UNCHANGED <<req, credits>>
      PROVE  Contract!Judge(Sub(t), result[t]) /\ Sub(t) \in Subs /\ result[t] \in Verdicts
  <2>1. Sub(t) \in Subs /\ status[Sub(t)] # "absent" /\ result[t] \in Verdicts
    BY <1>4, HeldIsStored DEF Shape, ThreadInv
  <2>2. {r \in Subs : status'[r] # "absent"} = {r \in Subs : status[r] # "absent"}
    BY <1>0, <1>4, <2>1 DEF Persist
  <2> QED
    BY <1>4, <2>1, <2>2 DEF Persist, Contract!Judge
<1>5. ASSUME NEW t \in Threads, FinishSubmission(t) \/ FinishSubmissionFails(t)
      PROVE  [Contract!Next]_(Contract!cvars)
  BY <1>4, <1>5 DEF FinishSubmission, FinishSubmissionFails
<1>6. ASSUME NEW t \in Threads, ApplyAccepted(t)
      PROVE  UNCHANGED Contract!cvars \/ (Contract!Credit(Sub(t)) /\ Sub(t) \in Subs)
  <2>1. /\ Sub(t) \in Subs /\ PairOf[Sub(t)] \in Pairs
        /\ "accepted" \in judged[Sub(t)]
    BY <1>6, HeldIsStored, ServiceConstants DEF ServiceConstants, ApplyAccepted, CreditInv
  <2>2. CASE PairOf[Sub(t)] \in solves
    BY <1>6, <2>2 DEF ApplyAccepted, AlreadySolved
  <2>3. CASE PairOf[Sub(t)] \notin solves
    <3>1. credits[PairOf[Sub(t)]] = 0
      BY <2>1, <2>3 DEF CreditInv
    <3>2. credits' = [credits EXCEPT ![PairOf[Sub(t)]] = 1]
      BY <1>0, <1>6, <2>1, <2>3, <3>1 DEF ApplyAccepted, AlreadySolved
    <3> QED
      BY <1>6, <2>1, <3>1, <3>2 DEF ApplyAccepted, Contract!Credit
  <2> QED
    BY <2>2, <2>3
<1> QED
  BY <1>1, <1>2, <1>3, <1>5, <1>6 DEF Visible

LEMMA ContractStep ==
  Shape /\ CreditInv /\ StoredInv /\ [Next]_vars => [Contract!Next]_(Contract!cvars)
<1> SUFFICES ASSUME Shape, CreditInv, StoredInv, [Next]_vars
             PROVE  [Contract!Next]_(Contract!cvars)
  OBVIOUS
<1>1. CASE Visible
  BY <1>1, VisibleContract
<1>2. CASE ~Visible
  BY <1>2, InvisibleSteps DEF rowVars, Contract!cvars
<1> QED
  BY <1>1, <1>2

\* The service implements the contract under every fault: rows are promised
\* only once stored, verdicts are reached only on rows, and each credit is
\* earned by an accepted verdict and given once.  No step shows the contract
\* anything but what one of its own steps does.
THEOREM ServiceImplementsContract == Spec => ImplementsContract
<1>1. Init => Contract!Init
  BY DEF Init, Contract!Init
<1>2. Spec => [](Shape /\ CreditInv /\ StoredInv)
  BY ShapeInit, ShapeStep, CreditInit, CreditStep, StoredInit, StoredStep, PTL DEF Spec
<1> QED
  BY <1>1, <1>2, ContractStep, PTL DEF Spec, ImplementsContract, Contract!Spec
=============================================================================
