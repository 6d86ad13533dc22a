--------------------------- MODULE JudgeLossProofs --------------------------
(***************************************************************************)
(* No accepted submission is lost, for every instance in which messages of *)
(* live workers do not go stale, Redis keeps its data and PostgreSQL       *)
(* answers; crashes, lost replies and executor outages may happen freely.  *)
(***************************************************************************)
EXTENDS JudgeProofs

Reliable == SlowWorkers = FALSE /\ "db" \notin FaultKinds /\ "flush" \notin FaultKinds

-----------------------------------------------------------------------------
(* Custody: each delivered message is with one goroutine or with nobody.   *)

\* What a goroutine works on is past the cursor and stays pending until it
\* acks; what is pending is in the stream.
HeldInv ==
  /\ \A t \in Threads : pc[t] = "idle" => item[t] = 0
  /\ \A t \in Threads : item[t] <= lastDelivered
  /\ \A m \in Ids : pending[m] > 0 => m \in entries
  /\ \A t \in Threads : pc[t] \notin {"idle", "del"} => pending[item[t]] > 0
  /\ \A t \in Threads : pc[t] = "del" => pending[item[t]] = 0
  /\ \A t \in Threads : \A m \in poison[t] \cup claimed[t] : pending[m] > 0

OneHolder ==
  /\ \A t, u \in Threads : t # u /\ item[t] # 0 => item[t] # item[u]
  /\ \A t, u \in Threads : item[t] \notin poison[u] \cup claimed[u]
  /\ \A t \in Threads : poison[t] \cap claimed[t] = {}
  /\ \A t, u \in Threads :
       t # u => (poison[t] \cup claimed[t]) \cap (poison[u] \cup claimed[u]) = {}

\* Without slow workers a message goes stale only in nobody's hands, and a
\* claim makes it fresh again.
StaleIsFree ==
  \A m \in stale : \A t \in Threads : item[t] # m /\ m \notin poison[t] \cup claimed[t]

Custody == HeldInv /\ OneHolder /\ StaleIsFree

\* An accepted submission whose row is not done has a message that can still
\* be handed out and that no goroutine is about to ack.  The latter matters:
\* a duplicate may have set the row back to running after the verdict that
\* entitles the goroutine to its ack.
Carrier(m, s) ==
  /\ body[m] = s
  /\ Recoverable(m)
  /\ \A t \in Threads : item[t] = m => pc[t] \notin {"score", "ack", "del"}

Covered ==
  \A s \in Subs : req[s] = "accepted" /\ status[s] # "done" =>
    \E m \in Ids : Carrier(m, s)

-----------------------------------------------------------------------------
LEMMA CustodyInit == Init => Custody
  BY DEF Init, QueueInit, Custody, HeldInv, OneHolder, StaleIsFree

\* The stream may grow and the group be created under the goroutines.
LEMMA CustodyWeb ==
  ASSUME Shape, Custody, UNCHANGED threadVars,
         (\E s \in Subs : XAdd(s)) \/ XGroupCreate \/ UNCHANGED queueVars
  PROVE  Custody'
<1>1. /\ pending' = pending /\ entries \subseteq entries'
      /\ lastDelivered' = lastDelivered /\ stale' = stale
  BY DEF XAdd, XGroupCreate, GroupStart, queueVars, Shape, QueueInv
<1>2. HeldInv'
  BY <1>1 DEF Custody, HeldInv, threadVars
<1>3. OneHolder'
  BY DEF Custody, OneHolder, threadVars
<1>4. StaleIsFree'
  BY <1>1 DEF Custody, StaleIsFree, threadVars
<1> QED
  BY <1>2, <1>3, <1>4 DEF Custody

\* A new message is ahead of everything anybody holds.
LEMMA CustodyRead ==
  ASSUME Shape, Custody, NEW t \in Threads, ReadJudge(t) \/ ReadJudgeFails(t)
  PROVE  Custody'
<1> PICK m \in Ids : XReadGroup(m) /\ (ReadJudge(t) => item' = [item EXCEPT ![t] = m])
  BY DEF ReadJudge, ReadJudgeFails
<1>1. /\ m \in entries /\ m > lastDelivered /\ lastDelivered' = m
      /\ pending' = [pending EXCEPT ![m] = 1] /\ entries' = entries
      /\ stale' = stale \ {m}
  BY DEF XReadGroup, NewEntries
<1>2. /\ lastDelivered \in Nat /\ m \in Nat /\ pending \in [Ids -> Nat]
      /\ \A u \in Threads : item[u] \in Nat
      /\ \A n \in Ids : pending[n] > 0 => n <= lastDelivered
  BY QueueConstants DEF QueueConstants, Shape, QueueInv, QueueTypeOK, ThreadInv, Ids, Counts
<1>3. \A u \in Threads : item[u] # m /\ m \notin poison[u] \cup claimed[u]
  BY <1>1, <1>2 DEF Custody, HeldInv, Shape, ThreadInv
<1>4. UNCHANGED <<poison, claimed>>
  BY DEF ReadJudge, ReadJudgeFails, threadVars
<1>5. CASE ReadJudge(t)
  <2>1. item' = [item EXCEPT ![t] = m] /\ pc' = [pc EXCEPT ![t] = "load"]
    BY <1>5 DEF ReadJudge
  <2>2. HeldInv'
    BY <1>1, <1>2, <1>3, <1>4, <2>1 DEF Custody, HeldInv, Shape, ThreadInv
  <2>3. OneHolder'
    BY <1>3, <1>4, <2>1 DEF Custody, OneHolder, Shape, ThreadInv
  <2>4. StaleIsFree'
    BY <1>1, <1>4, <2>1 DEF Custody, StaleIsFree, Shape, ThreadInv
  <2> QED
    BY <2>2, <2>3, <2>4 DEF Custody
<1>6. CASE ReadJudgeFails(t)
  <2>1. UNCHANGED threadVars
    BY <1>6 DEF ReadJudgeFails
  <2>2. HeldInv'
    BY <1>1, <1>2, <1>3, <2>1 DEF Custody, HeldInv, threadVars, Shape, ThreadInv
  <2>3. OneHolder'
    BY <2>1 DEF Custody, OneHolder, threadVars
  <2>4. StaleIsFree'
    BY <1>1, <2>1 DEF Custody, StaleIsFree, threadVars
  <2> QED
    BY <2>2, <2>3, <2>4 DEF Custody
<1> QED
  BY <1>5, <1>6

\* XCLAIM counts deliveries up and makes what it transfers fresh.
LEMMA XClaimed ==
  ASSUME Shape, NEW S \in SUBSET Ids, XClaim(S)
  PROVE  /\ entries' = entries /\ lastDelivered' = lastDelivered /\ body' = body
         /\ stale' = stale \ StillIdle(S)
         /\ \A m \in Ids : pending'[m] >= pending[m] /\ (pending'[m] = 0 <=> pending[m] = 0)
         /\ \A m \in StillIdle(S) :
              m \in Ids /\ pending[m] > 0 /\ pending'[m] = Redelivered(pending[m])
<1>1. pending \in [Ids -> Counts] /\ stale \in SUBSET Ids /\ \A m \in stale : pending[m] > 0
  BY DEF Shape, QueueInv, QueueTypeOK
<1>2. \A n \in Counts : n \in Nat /\ (n = 0 \/ Redelivered(n) > 0) /\ Redelivered(n) >= n
  BY QueueConstants DEF QueueConstants, Counts, Redelivered
<1>3. \A m \in StillIdle(S) : m \in Ids /\ pending[m] > 0
  BY <1>1 DEF StillIdle
<1>4. pending' = [m \in Ids |->
                    IF m \in StillIdle(S) THEN Redelivered(pending[m]) ELSE pending[m]]
  BY DEF XClaim
<1>5. \A m \in Ids : pending'[m] >= pending[m] /\ (pending'[m] = 0 <=> pending[m] = 0)
  BY <1>1, <1>2, <1>3, <1>4
<1> QED
  BY <1>3, <1>4, <1>5 DEF XClaim

\* Two reclaim loops may have listed the same message, and one may claim it
\* long after XPENDING; what XCLAIM still finds stale is in nobody's hands.
LEMMA CustodyClaim ==
  ASSUME Shape, Custody, NEW t \in Threads, Claims(t)
  PROVE  Custody'
<1>1. /\ UNCHANGED <<pc, item>>
      /\ poison \in [Threads -> SUBSET Ids] /\ claimed \in [Threads -> SUBSET Ids]
      /\ poisonIDs[t] \in SUBSET Ids /\ claimIDs[t] \in SUBSET Ids
  BY ClaimSteps DEF Shape, ThreadInv
<1>2. /\ entries' = entries /\ lastDelivered' = lastDelivered /\ stale' \subseteq stale
      /\ \A m \in Ids : (pending'[m] > 0 <=> pending[m] > 0) /\ (pending'[m] = 0 <=> pending[m] = 0)
  <2>1. CASE UNCHANGED queueVars
    BY <2>1 DEF queueVars
  <2>2. ASSUME NEW S \in SUBSET Ids, XClaim(S) PROVE <1>2
    <3>1. QueueInv'
      BY <2>2, QueueStep DEF Shape, QueueNext
    <3>2. \A m \in Ids : pending[m] \in Nat /\ pending'[m] \in Nat
      BY <3>1, QueueConstants DEF QueueConstants, Shape, QueueInv, QueueTypeOK, Counts
    <3> QED
      BY <2>2, <3>2, XClaimed
  <2> QED
    BY <2>1, <2>2, ClaimSteps
<1>3. ASSUME NEW P \in [Threads -> SUBSET Ids], NEW C \in [Threads -> SUBSET Ids],
             poison' = P, claimed' = C,
             \A u \in Threads \ {t} : P[u] = poison[u] /\ C[u] = claimed[u],
             \A m \in P[t] : m \in poison[t] \/ (m \in stale /\ m \notin stale' /\ m \notin C[t]),
             \A m \in C[t] : m \in claimed[t] \/ (m \in stale /\ m \notin stale' /\ m \notin P[t])
      PROVE  Custody'
  <2>1. \A m \in stale : m \in Ids /\ pending[m] > 0 /\ m # 0
    BY QueueConstants DEF QueueConstants, Shape, QueueInv, QueueTypeOK, Ids
  <2>2. HeldInv'
    BY <1>1, <1>2, <1>3, <2>1 DEF Custody, HeldInv, Shape, ThreadInv
  <2>3. OneHolder'
    BY <1>1, <1>3, <2>1 DEF Custody, OneHolder, StaleIsFree
  <2>4. StaleIsFree'
    BY <1>1, <1>2, <1>3 DEF Custody, StaleIsFree
  <2> QED
    BY <2>2, <2>3, <2>4 DEF Custody
<1>4. CASE UNCHANGED <<poison, claimed>>
  BY <1>1, <1>3, <1>4
<1>5. CASE poison' = [poison EXCEPT ![t] = {}] /\ claimed' = claimed
  BY <1>1, <1>3, <1>5
<1>6. CASE /\ XClaim(poisonIDs[t]) /\ claimed' = claimed
           /\ poison' = [poison EXCEPT ![t] = StillIdle(poisonIDs[t])]
  <2>1. \A m \in StillIdle(poisonIDs[t]) : m \in Ids /\ m \in stale /\ m \notin stale' /\ m \notin claimed[t]
    BY <1>1, <1>6 DEF StillIdle, XClaim, Custody, StaleIsFree
  <2> QED
    BY <1>1, <1>3, <1>6, <2>1
<1>7. CASE /\ XClaim(claimIDs[t]) /\ poison' = poison
           /\ claimed' = [claimed EXCEPT ![t] = StillIdle(claimIDs[t])]
  <2>1. \A m \in StillIdle(claimIDs[t]) : m \in Ids /\ m \in stale /\ m \notin stale' /\ m \notin poison[t]
    BY <1>1, <1>7 DEF StillIdle, XClaim, Custody, StaleIsFree
  <2> QED
    BY <1>1, <1>3, <1>7, <2>1
<1> QED
  BY <1>4, <1>5, <1>6, <1>7, ClaimSteps

\* Without slow workers time makes only messages stale that nobody has.
LEMMA CustodyStale ==
  ASSUME Shape, Custody, Reliable, NEW m \in Ids, GoesStale(m)
  PROVE  Custody'
<1>1. /\ ~Held(m) /\ stale' = stale \cup {m}
      /\ UNCHANGED <<threadVars, entries, lastDelivered, pending>>
  BY DEF GoesStale, StaysIdle, Reliable
<1>2. HeldInv' /\ OneHolder'
  BY <1>1 DEF Custody, HeldInv, OneHolder, threadVars
<1>3. StaleIsFree'
  BY <1>1 DEF Held, Custody, StaleIsFree, threadVars
<1> QED
  BY <1>2, <1>3 DEF Custody

LEMMA CustodyTake ==
  ASSUME Shape, Custody, NEW t \in Threads, TakeNext(t)
  PROVE  Custody'
<1>1. UNCHANGED <<entries, lastDelivered, pending, stale>>
  BY DEF TakeNext, queueVars
<1>2. \A m \in Ids : pending[m] > 0 => m <= lastDelivered
  BY DEF Shape, QueueInv
<1>3. HeldInv'
  BY <1>1, <1>2 DEF TakeNext, IsOldest, Custody, HeldInv, Shape, ThreadInv
<1>4. OneHolder'
  BY DEF TakeNext, IsOldest, Custody, OneHolder, Shape, ThreadInv
<1>5. StaleIsFree'
  BY <1>1 DEF TakeNext, IsOldest, Custody, StaleIsFree, Shape, ThreadInv
<1> QED
  BY <1>3, <1>4, <1>5 DEF Custody

\* A goroutine that gives up, or moves on without touching the stream.
LEMMA CustodyMove ==
  ASSUME Shape, Custody, NEW t \in Threads, pc[t] # "idle", UNCHANGED queueVars,
         \/ Release(t)
         \/ pc[t] # "del" /\ \E next \in PcStates \ {"idle", "del"} : Goto(t, next)
         \/ pc[t] # "del" /\ \E v \in Verdicts : Conclude(t, v)
  PROVE  Custody'
<1>1. \A m \in Ids : pending[m] > 0 => m <= lastDelivered
  BY DEF Shape, QueueInv
<1>2. UNCHANGED <<entries, lastDelivered, pending, stale, poison, claimed>>
  BY DEF queueVars, Release, Goto, Conclude
<1>3. /\ lastDelivered \in Nat /\ 0 \notin stale
      /\ \A u \in Threads : \A m \in poison[u] \cup claimed[u] : m # 0
  BY DEF Shape, QueueInv, QueueTypeOK, ThreadInv, Ids
<1>4. HeldInv'
  <2>1. CASE Release(t)
    BY <1>2, <1>3, <2>1 DEF Release, Custody, HeldInv, Shape, ThreadInv
  <2>2. ASSUME pc[t] # "del", NEW next \in PcStates \ {"idle", "del"},
               item' = item, pc' = [pc EXCEPT ![t] = next]
        PROVE  HeldInv'
    BY <1>2, <2>2 DEF Custody, HeldInv, Shape, ThreadInv
  <2> QED
    BY <2>1, <2>2 DEF Goto, Conclude, PcStates
<1>5. OneHolder'
  <2>1. CASE Release(t)
    BY <1>2, <1>3, <2>1 DEF Release, Custody, OneHolder, Shape, ThreadInv
  <2>2. CASE item' = item
    BY <1>2, <2>2 DEF Custody, OneHolder
  <2> QED
    BY <2>1, <2>2 DEF Goto, Conclude
<1>6. StaleIsFree'
  BY <1>2, <1>3 DEF Release, Goto, Conclude, Custody, StaleIsFree, Shape, ThreadInv
<1> QED
  BY <1>4, <1>5, <1>6 DEF Custody

\* Nobody else holds the message that a goroutine acks and deletes.
LEMMA CustodyAck ==
  ASSUME Shape, Custody, NEW t \in Threads,
         AckJudge(t) \/ AckJudgeFails(t) \/ DeleteJudge(t) \/ DeleteJudgeFails(t)
  PROVE  Custody'
<1>1. pc[t] \in {"ack", "del"} /\ item[t] \in Ids /\ item[t] # 0
  BY HeldSub DEF Shape, ThreadInv, AckJudge, AckJudgeFails, DeleteJudge, DeleteJudgeFails
<1>2. \A u \in Threads : (u # t => item[u] # item[t]) /\ item[t] \notin poison[u] \cup claimed[u]
  BY <1>1 DEF Custody, OneHolder
<1>3. /\ lastDelivered \in Nat /\ 0 \notin stale
      /\ \A u \in Threads : \A m \in poison[u] \cup claimed[u] : m # 0
  BY DEF Shape, QueueInv, QueueTypeOK, ThreadInv, Ids
<1>4. UNCHANGED <<poison, claimed>>
  BY DEF AckJudge, AckJudgeFails, DeleteJudge, DeleteJudgeFails, Goto, Release
<1>5. StaleIsFree'
  <2>1. stale' \subseteq stale
    BY DEF AckJudge, AckJudgeFails, DeleteJudge, DeleteJudgeFails, XAck, XDel, queueVars
  <2> QED
    BY <1>3, <1>4, <2>1 DEF AckJudge, AckJudgeFails, DeleteJudge, DeleteJudgeFails, Goto, Release,
       Custody, StaleIsFree, Shape, ThreadInv
<1>6. CASE AckJudge(t)
  <2>1. /\ pending' = [pending EXCEPT ![item[t]] = 0] /\ item' = item
        /\ pc' = [pc EXCEPT ![t] = "del"] /\ UNCHANGED <<entries, lastDelivered>>
    BY <1>6 DEF AckJudge, XAck, Goto
  <2>2. HeldInv'
    BY <1>1, <1>2, <1>4, <2>1 DEF Custody, HeldInv, Shape, ThreadInv, QueueInv, QueueTypeOK
  <2>3. OneHolder'
    BY <1>4, <2>1 DEF Custody, OneHolder
  <2> QED
    BY <1>5, <2>2, <2>3 DEF Custody
<1>7. CASE Release(t)
  <2>1. /\ item' = [item EXCEPT ![t] = 0] /\ pc' = [pc EXCEPT ![t] = "idle"]
    BY <1>7 DEF Release
  <2>2. OneHolder'
    BY <1>3, <1>4, <2>1 DEF Custody, OneHolder, Shape, ThreadInv
  <2>3. CASE AckJudgeFails(t) /\ XAck(item[t])
    <3>1. pending' = [pending EXCEPT ![item[t]] = 0] /\ UNCHANGED <<entries, lastDelivered>>
      BY <2>3 DEF XAck
    <3> QED
      BY <1>1, <1>2, <1>3, <1>4, <1>5, <2>1, <2>2, <3>1
         DEF Custody, HeldInv, Shape, ThreadInv, QueueInv, QueueTypeOK
  <2>4. CASE DeleteJudge(t)
    <3>1. entries' = entries \ {item[t]} /\ UNCHANGED <<pending, lastDelivered>>
      BY <2>4 DEF DeleteJudge, XDel
    <3>2. pending[item[t]] = 0
      BY <2>4 DEF DeleteJudge, Custody, HeldInv
    <3> QED
      BY <1>1, <1>2, <1>3, <1>4, <1>5, <2>1, <2>2, <3>1, <3>2
         DEF Custody, HeldInv, Shape, ThreadInv, QueueInv, QueueTypeOK
  <2>5. CASE UNCHANGED queueVars
    BY <1>1, <1>7, <2>5, CustodyMove
  <2> QED
    BY <1>6, <2>3, <2>4, <2>5 DEF AckJudge, AckJudgeFails, DeleteJudge, DeleteJudgeFails
<1> QED
  BY <1>6, <1>7 DEF AckJudge, AckJudgeFails, DeleteJudge, DeleteJudgeFails

LEMMA CustodyWork ==
  ASSUME Shape, Custody, Reliable, NEW t \in Threads, ThreadStep(t) \/ ThreadFails(t)
  PROVE  Custody'
<1>1. CASE ReadJudge(t) \/ ReadJudgeFails(t)
  BY <1>1, CustodyRead
<1>2. CASE TakeNext(t)
  BY <1>2, CustodyTake
<1>3. CASE AckJudge(t) \/ AckJudgeFails(t) \/ DeleteJudge(t) \/ DeleteJudgeFails(t)
  BY <1>3, CustodyAck
<1>4. CASE \/ ProcessLoad(t) \/ MarkSubmissionRunning(t) \/ RunCases(t) \/ RunCasesFails(t)
           \/ DeadLetterLoad(t) \/ FinishSubmission(t) \/ ApplyAccepted(t)
  <2>1. pc[t] \notin {"idle", "del"} /\ Sub(t) \in Subs
    BY <1>4, HeldSub DEF Shape, ProcessLoad, MarkSubmissionRunning, RunCases, RunCasesFails,
       DeadLetterLoad, FinishSubmission, ApplyAccepted
  <2>2. UNCHANGED queueVars
    BY <1>4 DEF ProcessLoad, MarkSubmissionRunning, RunCases, RunCasesFails,
       DeadLetterLoad, FinishSubmission, ApplyAccepted
  <2>3. \/ Release(t)
        \/ \E next \in PcStates \ {"idle", "del"} : Goto(t, next)
        \/ \E v \in Verdicts : Conclude(t, v)
    BY <1>4, <2>1, ServiceConstants
       DEF ServiceConstants, PcStates, RetryLater, AfterFinish, ProcessLoad,
       MarkSubmissionRunning, RunCases, RunCasesFails, DeadLetterLoad, FinishSubmission,
       ApplyAccepted
  <2> QED
    BY <2>1, <2>2, <2>3, CustodyMove
<1>5. CASE Claims(t)
  BY <1>5, CustodyClaim
<1> QED
  BY <1>1, <1>2, <1>3, <1>4, <1>5 DEF Claims, ThreadStep, ThreadFails, Reliable, Fault, ProcessLoadFails,
     MarkSubmissionRunningFails, DeadLetterLoadFails, FinishSubmissionFails, ApplyAcceptedFails

\* The goroutines of a crashed process drop what they hold; it stays pending.
LEMMA CustodyCrash == ASSUME Shape, Custody, NEW p \in Procs, Crash(p) PROVE Custody'
<1>1. UNCHANGED <<entries, lastDelivered, pending, stale>> /\ lastDelivered \in Nat /\ 0 \notin stale
  BY DEF Ids, Crash, queueVars, Shape, QueueInv, QueueTypeOK
<1>2. \A u \in Threads : \A m \in poison[u] \cup claimed[u] : m # 0
  BY DEF Shape, ThreadInv, Ids
<1>3. HeldInv'
  BY <1>1 DEF Crash, Custody, HeldInv, Shape, ThreadInv
<1>4. OneHolder'
  BY <1>2 DEF Crash, Custody, OneHolder, Shape, ThreadInv
<1>5. StaleIsFree'
  BY <1>1 DEF Crash, Custody, StaleIsFree, Shape, ThreadInv
<1> QED
  BY <1>3, <1>4, <1>5 DEF Custody

LEMMA CustodyStep == Reliable /\ Shape /\ Custody /\ [Next]_vars => Custody'
<1> SUFFICES ASSUME Reliable, Shape, Custody, [Next]_vars PROVE Custody'
  OBVIOUS
<1>1. CASE \E s \in Subs : \/ CreateSubmission(s) \/ WebStep(s)
                           \/ EnqueueJudgeFails(s) \/ HandlerDies(s)
  BY <1>1, CustodyWeb DEF CreateSubmission, WebStep, CheckDepth, EnqueueJudge,
     EnqueueJudgeFails, HandlerDies
<1>2. CASE \E p \in Procs : BootStep(p) \/ ReconcileFails(p)
  <2>1. \A p \in Procs : requeue[p] \subseteq Subs
    BY DEF Shape, ProcInv
  <2> QED
    BY <1>2, <2>1, CustodyWeb DEF BootStep, EnsureJudgeGroup, ReconcileDepth,
       ListPendingSubmissionIDs, ReconcileEnqueue, ReconcileFails
<1>3. CASE \E p \in Procs : Crash(p)
  BY <1>3, CustodyCrash
<1>4. CASE \E t \in Threads : ThreadStep(t) \/ ThreadFails(t)
  BY <1>4, CustodyWork
<1>5. CASE \E m \in Ids : GoesStale(m)
  BY <1>5, CustodyStale
<1>6. CASE Flush
  BY <1>6 DEF Flush, Fault, Reliable
<1>7. CASE UNCHANGED vars
  BY <1>7, CustodyWeb DEF vars
<1> QED
  BY <1>1, <1>2, <1>3, <1>4, <1>5, <1>6, <1>7 DEF Next

-----------------------------------------------------------------------------
(* Coverage: every step leaves each unfinished accepted submission with a  *)
(* carrier, most often the one it had.                                     *)

\* A carrier has a used ID, so no later XADD changes its body.
LEMMA CarrierUsed ==
  ASSUME Shape, NEW s \in Subs, NEW m \in Ids, Carrier(m, s)
  PROVE  m <= added
  BY DEF Shape, QueueInv, Carrier, Recoverable

\* The web tier and a booting worker leave every carrier alone, and XADD
\* gives a newly accepted submission one that nobody holds yet.
LEMMA CoveredWeb ==
  ASSUME Shape, Custody, Covered, UNCHANGED threadVars,
         \/ \E s \in Subs : CreateSubmission(s)
         \/ \E s \in Subs : EnqueueJudge(s)
         \/ /\ UNCHANGED status
            /\ \A s \in Subs : req'[s] = "accepted" => req[s] = "accepted"
            /\ (\E s \in Subs : XAdd(s)) \/ XGroupCreate \/ UNCHANGED queueVars
  PROVE  Covered'
<1>1. (\E s \in Subs : XAdd(s)) \/ XGroupCreate \/ UNCHANGED queueVars
  BY DEF CreateSubmission, EnqueueJudge
<1>2. /\ pending' = pending /\ entries \subseteq entries'
      /\ lastDelivered' = lastDelivered
  BY <1>1 DEF XAdd, XGroupCreate, GroupStart, queueVars, Shape, QueueInv
<1>3. \A m \in Ids : m <= added => body'[m] = body[m]
  BY <1>1, QueueStep DEF QueueNext, Shape, BodyKept
<1>4. ASSUME NEW s \in Subs, NEW m \in Ids, Carrier(m, s) PROVE Carrier(m, s)'
  BY <1>2, <1>3, <1>4, CarrierUsed DEF Carrier, Recoverable, threadVars
<1>5. ASSUME NEW s \in Subs, EnqueueJudge(s) PROVE \E m \in Ids : Carrier(m, s)'
  <2>1. /\ added < MaxId /\ body' = [body EXCEPT ![added + 1] = s]
        /\ entries' = entries \cup {added + 1} /\ lastDelivered' = lastDelivered
        /\ item' = item
    BY <1>5 DEF EnqueueJudge, XAdd, threadVars
  <2>2. added \in Nat /\ lastDelivered \in Nat /\ lastDelivered <= added /\ body \in [Ids -> Subs \cup {NoSub}]
    BY DEF Shape, QueueInv, QueueTypeOK
  <2>3. added + 1 \in Ids
    BY <2>1, <2>2, QueueConstants DEF QueueConstants, Ids
  <2>4. \A t \in Threads : item[t] # added + 1
    BY <2>2, QueueConstants DEF QueueConstants, Shape, ThreadInv, Ids
  <2> PICK m \in Ids : m = added + 1
    BY <2>3
  <2>5. m \in entries' /\ m > lastDelivered' /\ body'[m] = s
    BY <2>1, <2>2
  <2> QED
    BY <2>1, <2>4, <2>5 DEF Carrier, Recoverable
<1>6. ASSUME NEW s \in Subs, req'[s] = "accepted", status'[s] # "done",
             ~EnqueueJudge(s)
      PROVE  req[s] = "accepted" /\ status[s] # "done"
  <2>1. CASE \E u \in Subs : CreateSubmission(u)
    BY <1>6, <2>1 DEF CreateSubmission, Shape, WebInv, RowInv
  <2>2. CASE \E u \in Subs : EnqueueJudge(u)
    BY <1>6, <2>2 DEF EnqueueJudge, rowVars, Shape, WebInv, RowInv
  <2> QED
    BY <1>6, <2>1, <2>2
<1> QED
  BY <1>4, <1>5, <1>6 DEF Covered

\* Reading moves the cursor to the oldest new entry, which becomes pending;
\* a claim keeps what is pending pending, and so does time; a crash only drops
\* messages.
LEMMA CoveredDispatch ==
  ASSUME Shape, Custody, Covered, UNCHANGED <<req, status, body, entries>>,
         \/ \E t \in Threads : ReadJudge(t) \/ ReadJudgeFails(t) \/ TakeNext(t)
         \/ \E t \in Threads : Claims(t)
         \/ \E m \in Ids : GoesStale(m)
         \/ \E p \in Procs : Crash(p)
  PROVE  Covered'
<1>1. ASSUME NEW m \in Ids, Recoverable(m) PROVE Recoverable(m)'
  <2>1. ASSUME NEW n \in Ids, XReadGroup(n) PROVE Recoverable(m)'
    BY <1>1, <2>1 DEF XReadGroup, NewEntries, Recoverable, Shape, QueueInv, QueueTypeOK, Ids
  <2>2. ASSUME NEW S \in SUBSET Ids, XClaim(S) PROVE Recoverable(m)'
    <3>1. QueueInv'
      BY <2>2, QueueStep DEF Shape, QueueNext
    <3>2. pending[m] \in Nat /\ pending'[m] \in Nat
      BY <3>1, QueueConstants DEF QueueConstants, Shape, QueueInv, QueueTypeOK, Counts
    <3> QED
      BY <1>1, <2>2, <3>2, XClaimed DEF Recoverable
  <2>3. CASE UNCHANGED <<entries, lastDelivered, pending>>
    BY <1>1, <2>3 DEF Recoverable
  <2> QED
    BY <2>1, <2>2, <2>3, ClaimSteps DEF ReadJudge, ReadJudgeFails, TakeNext, GoesStale, StaysIdle,
       Crash, queueVars
<1>2. \A u \in Threads : pc'[u] \in {"score", "ack", "del"} =>
         pc[u] = pc'[u] /\ item'[u] = item[u]
  BY ClaimSteps DEF ReadJudge, ReadJudgeFails, TakeNext, GoesStale, Crash, threadVars, Shape,
     ThreadInv
<1> QED
  BY <1>1, <1>2 DEF Covered, Carrier

\* What a goroutine does with the message it handles.  It goes on to its ack
\* only when the row is done, and a row set back to running has the message
\* of the goroutine that did so.
LEMMA CoveredWork ==
  ASSUME Shape, Custody, Covered, NEW t \in Threads,
         \/ ProcessLoad(t) \/ MarkSubmissionRunning(t)
         \/ RunCases(t) \/ RunCasesFails(t) \/ DeadLetterLoad(t)
         \/ FinishSubmission(t) \/ ApplyAccepted(t)
         \/ AckJudge(t) \/ AckJudgeFails(t)
         \/ DeleteJudge(t) \/ DeleteJudgeFails(t)
  PROVE  Covered'
<1> USE DEF ProcessLoad, MarkSubmissionRunning, RunCases, RunCasesFails, DeadLetterLoad,
            FinishSubmission, ApplyAccepted, AckJudge, AckJudgeFails, DeleteJudge,
            DeleteJudgeFails
<1>1. pc[t] # "idle" /\ item[t] \in Ids /\ Sub(t) \in Subs /\ Sub(t) = body[item[t]]
  BY HeldSub DEF Shape, Sub
<1>2. /\ req' = req /\ body' = body /\ lastDelivered' = lastDelivered
      /\ \A m \in Ids \ {item[t]} : (m \in entries' <=> m \in entries) /\ pending'[m] = pending[m]
  BY <1>1 DEF queueVars, XAck, XDel, Shape, QueueInv, QueueTypeOK
<1>3. \A u \in Threads \ {t} : pc'[u] = pc[u] /\ item'[u] = item[u]
  BY DEF Goto, Conclude, Release, RetryLater, Shape, ThreadInv
<1>4. \/ item'[t] = 0 /\ pc'[t] = "idle"
      \/ item'[t] = item[t]
  BY DEF Goto, Conclude, Release, RetryLater, Shape, ThreadInv
<1>5. ASSUME NEW s \in Subs, status[s] # "done", NEW m \in Ids, Carrier(m, s),
             m # item[t]
      PROVE  Carrier(m, s)'
  BY <1>2, <1>3, <1>4, <1>5 DEF Carrier, Recoverable, Ids
<1>6. ASSUME NEW s \in Subs, status'[s] # "done", status[s] # "done", NEW m \in Ids,
             m = item[t], Carrier(m, s)
      PROVE  Carrier(m, s)'
  <2>1. pc[t] \notin {"score", "ack", "del"} /\ s = Sub(t)
    BY <1>1, <1>6 DEF Carrier
  <2>2. pc[t] # "finish"
    BY <1>1, <1>6, <2>1 DEF Persist, Shape, RowInv
  <2>3. UNCHANGED queueVars
    BY <2>1
  <2>4. pc'[t] \in {"mark", "run", "finish", "idle"}
    BY <1>6, <2>1, <2>2 DEF Goto, Conclude, Release, RetryLater, Shape, ThreadInv
  <2> QED
    BY <1>3, <1>6, <2>3, <2>4 DEF Carrier, Recoverable, queueVars
<1>7. ASSUME NEW s \in Subs, status'[s] # "done", status[s] = "done",
             NEW m \in Ids, m = item[t]
      PROVE  Carrier(m, s)'
  <2>1. MarkSubmissionRunning(t) /\ s = Sub(t)
    BY <1>1, <1>7 DEF rowVars, Persist, Shape, RowInv
  <2>2. UNCHANGED queueVars /\ pc' = [pc EXCEPT ![t] = "run"] /\ item' = item
    BY <2>1 DEF Goto
  <2>3. Recoverable(item[t])
    BY <1>1, <2>1 DEF Custody, HeldInv, Recoverable
  <2>4. \A u \in Threads : u # t => item[u] # item[t]
    BY <1>1 DEF Custody, OneHolder, Ids
  <2>5. pc'[t] = "run"
    BY <2>2 DEF Shape, ThreadInv
  <2> QED
    BY <1>1, <1>7, <2>1, <2>2, <2>3, <2>4, <2>5 DEF Carrier, Recoverable, queueVars
<1> QED
  <2> SUFFICES ASSUME NEW s \in Subs, req'[s] = "accepted", status'[s] # "done"
               PROVE  \E m \in Ids : Carrier(m, s)'
    BY DEF Covered
  <2>1. CASE status[s] = "done"
    BY <1>1, <1>7, <2>1
  <2>2. CASE status[s] # "done"
    <3>1. PICK m \in Ids : Carrier(m, s)
      BY <1>2, <2>2 DEF Covered
    <3> QED
      BY <1>5, <1>6, <2>2, <3>1
  <2> QED
    BY <2>1, <2>2

LEMMA CoveredInit == Init => Covered
  BY DEF Init, Covered

LEMMA CoveredStep == Reliable /\ Shape /\ Custody /\ Covered /\ [Next]_vars => Covered'
<1> SUFFICES ASSUME Reliable, Shape, Custody, Covered, [Next]_vars PROVE Covered'
  OBVIOUS
<1>1. CASE \E s \in Subs : \/ CreateSubmission(s) \/ WebStep(s)
                           \/ EnqueueJudgeFails(s) \/ HandlerDies(s)
  <2>1. CASE \E s \in Subs : CheckDepth(s) \/ EnqueueJudgeFails(s) \/ HandlerDies(s)
    BY <2>1, CoveredWeb DEF CheckDepth, EnqueueJudgeFails, HandlerDies, rowVars, Shape, WebInv
  <2>2. CASE \E s \in Subs : CreateSubmission(s) \/ EnqueueJudge(s)
    BY <2>2, CoveredWeb DEF CreateSubmission, EnqueueJudge
  <2> QED
    BY <1>1, <2>1, <2>2 DEF WebStep
<1>2. CASE \E p \in Procs : BootStep(p) \/ ReconcileFails(p)
  <2>1. \A p \in Procs : requeue[p] \subseteq Subs
    BY DEF Shape, ProcInv
  <2>2. /\ UNCHANGED <<threadVars, status, req>>
        /\ (\E s \in Subs : XAdd(s)) \/ XGroupCreate \/ UNCHANGED queueVars
    BY <1>2, <2>1 DEF rowVars, BootStep, EnsureJudgeGroup, ReconcileDepth,
       ListPendingSubmissionIDs, ReconcileEnqueue, ReconcileFails
  <2> QED
    BY <2>2, CoveredWeb
<1>3. CASE \/ \E t \in Threads : ReadJudge(t) \/ ReadJudgeFails(t) \/ TakeNext(t)
           \/ \E t \in Threads : Claims(t)
           \/ \E m \in Ids : GoesStale(m)
           \/ \E p \in Procs : Crash(p)
  <2>1. UNCHANGED <<req, status, body, entries>>
    BY <1>3, ClaimSteps DEF ReadJudge, ReadJudgeFails, TakeNext, GoesStale, StaysIdle, Crash,
       XReadGroup, XClaim, queueVars, rowVars
  <2> QED
    BY <1>3, <2>1, CoveredDispatch
<1>4. ASSUME NEW t \in Threads,
             \/ ProcessLoad(t) \/ MarkSubmissionRunning(t)
             \/ RunCases(t) \/ RunCasesFails(t) \/ DeadLetterLoad(t)
             \/ FinishSubmission(t) \/ ApplyAccepted(t)
             \/ AckJudge(t) \/ AckJudgeFails(t)
             \/ DeleteJudge(t) \/ DeleteJudgeFails(t)
      PROVE  Covered'
  BY <1>4, CoveredWork
<1>5. CASE \E t \in Threads : \/ ProcessLoadFails(t) \/ MarkSubmissionRunningFails(t)
                              \/ DeadLetterLoadFails(t) \/ FinishSubmissionFails(t)
                              \/ ApplyAcceptedFails(t)
  BY <1>5 DEF Reliable, Fault, ProcessLoadFails, MarkSubmissionRunningFails,
     DeadLetterLoadFails, FinishSubmissionFails, ApplyAcceptedFails
<1>6. CASE Flush
  BY <1>6 DEF Flush, Fault, Reliable
<1>7. CASE UNCHANGED vars
  BY <1>7, CoveredWeb DEF vars, rowVars
<1> QED
  BY <1>1, <1>2, <1>3, <1>4, <1>5, <1>6, <1>7 DEF Next, ThreadStep, ThreadFails, Claims

-----------------------------------------------------------------------------
LEMMA Inductive ==
  ASSUME Reliable
  PROVE  Spec => [](Shape /\ Custody /\ Covered)
<1>1. Init => Shape /\ Custody /\ Covered
  BY ShapeInit, CustodyInit, CoveredInit
<1>2. Shape /\ Custody /\ Covered /\ [Next]_vars => (Shape /\ Custody /\ Covered)'
  BY ShapeStep, CustodyStep, CoveredStep
<1> QED
  BY <1>1, <1>2, PTL DEF Spec

\* No submission that was answered with 202 is lost: until its row is done,
\* one of its messages can still be handed out.  Crashes of any number of
\* workers, lost replies, failed acks and executor outages may happen.
THEOREM NothingIsLost ==
  ASSUME Reliable
  PROVE  Spec => []NoLostWork
<1>1. Shape /\ Covered => NoLostWork
  BY DEF Covered, Carrier, NoLostWork, Dispatched
<1> QED
  BY <1>1, Inductive, PTL

\* Under the same assumption two goroutines never have the same message.
THEOREM HandlingIsExclusive ==
  ASSUME Reliable
  PROVE  Spec => []ExclusiveHandling
<1>1. Custody => ExclusiveHandling
  BY DEF Custody, OneHolder, ExclusiveHandling
<1> QED
  BY <1>1, Inductive, PTL

-----------------------------------------------------------------------------
(* Entries leave the stream with a verdict, whatever goroutines are slow.  *)

Answering == "db" \notin FaultKinds /\ "flush" \notin FaultKinds

\* A goroutine comes to its ack through a row that is done, or makes it so.
JudgedInv ==
  /\ \A s \in Subs : status[s] = "done" => judged[s] # {}
  /\ \A t \in Threads : pc[t] \in {"score", "ack", "del"} => judged[Sub(t)] # {}

LEMMA JudgedInit == Init => JudgedInv
  BY DEF Init, JudgedInv

\* How a goroutine comes to score, ack and del.
LEMMA AckedAfter ==
  ASSUME Answering, Shape, [Next]_vars, NEW t \in Threads, pc'[t] \in {"score", "ack", "del"}
  PROVE  /\ pc[t] # "idle" /\ item'[t] = item[t]
         /\ \/ pc[t] \in {"score", "ack", "del"}
            \/ status[Sub(t)] = "done"
            \/ FinishSubmission(t)
<1> DEFINE Goal == /\ pc[t] # "idle" /\ item'[t] = item[t]
                   /\ \/ pc[t] \in {"score", "ack", "del"}
                      \/ status[Sub(t)] = "done"
                      \/ FinishSubmission(t)
<1>0. pc \in [Threads -> PcStates] /\ item \in [Threads -> Ids \cup {0}]
  BY DEF Shape, ThreadInv
<1>1. ASSUME NEW u \in Threads, ReadJudge(u) \/ ReadJudgeFails(u) \/ TakeNext(u) PROVE Goal
  BY <1>0, <1>1 DEF ReadJudge, ReadJudgeFails, TakeNext, threadVars
<1>2. ASSUME NEW u \in Threads,
             \/ ProcessLoad(u) \/ MarkSubmissionRunning(u) \/ RunCases(u) \/ RunCasesFails(u)
             \/ DeadLetterLoad(u)
      PROVE  Goal
  BY <1>0, <1>2 DEF ProcessLoad, MarkSubmissionRunning, RunCases, RunCasesFails, DeadLetterLoad,
     Goto, Conclude, Release, RetryLater
<1>3. ASSUME NEW u \in Threads,
             \/ FinishSubmission(u) \/ ApplyAccepted(u) \/ AckJudge(u) \/ AckJudgeFails(u)
             \/ DeleteJudge(u) \/ DeleteJudgeFails(u)
      PROVE  Goal
  BY <1>0, <1>3 DEF FinishSubmission, ApplyAccepted, AckJudge, AckJudgeFails, DeleteJudge,
     DeleteJudgeFails, Goto, Release
<1>4. ASSUME NEW u \in Threads,
             \/ ProcessLoadFails(u) \/ MarkSubmissionRunningFails(u) \/ DeadLetterLoadFails(u)
             \/ FinishSubmissionFails(u) \/ ApplyAcceptedFails(u)
      PROVE  Goal
  BY <1>4 DEF Answering, Fault, ProcessLoadFails, MarkSubmissionRunningFails,
     DeadLetterLoadFails, FinishSubmissionFails, ApplyAcceptedFails
<1>5. ASSUME NEW p \in Procs, Crash(p) PROVE Goal
  BY <1>0, <1>5 DEF Crash
<1>6. ASSUME UNCHANGED <<pc, item>> PROVE Goal
  BY <1>0, <1>6
<1>7. ASSUME ~\E u \in Threads : ThreadStep(u) \/ ThreadFails(u), ~\E p \in Procs : Crash(p)
      PROVE  UNCHANGED <<pc, item>>
  BY <1>7 DEF Next, vars, threadVars, CreateSubmission, WebStep, CheckDepth, EnqueueJudge,
     EnqueueJudgeFails, HandlerDies, BootStep, EnsureJudgeGroup, ReconcileDepth,
     ListPendingSubmissionIDs, ReconcileEnqueue, ReconcileFails, Flush, GoesStale
<1>8. ASSUME NEW u \in Threads, Claims(u) PROVE Goal
  BY <1>6, <1>8, ClaimSteps
<1> QED
  BY <1>1, <1>2, <1>3, <1>4, <1>5, <1>6, <1>7, <1>8 DEF ThreadStep, ThreadFails, Claims

LEMMA JudgedStep == Answering /\ Shape /\ JudgedInv /\ [Next]_vars => JudgedInv'
<1> SUFFICES ASSUME Answering, Shape, JudgedInv, [Next]_vars PROVE JudgedInv'
  OBVIOUS
<1>0. /\ \A s \in Subs : judged[s] \subseteq judged'[s]
      /\ status \in [Subs -> Statuses] /\ judged \in [Subs -> SUBSET Verdicts]
  BY CreditSteps DEF Shape, RowInv
<1>1. ASSUME NEW t \in Threads, pc[t] # "idle", item'[t] = item[t]
      PROVE  Sub(t) \in Subs /\ Sub(t)' = Sub(t)
  BY <1>1, HeldSub, CreditSteps DEF Shape, ThreadInv, BodyKept, Sub
<1>2. ASSUME NEW t \in Threads, pc[t] = "finish", Persist(Sub(t), result[t])
      PROVE  judged'[Sub(t)] # {} /\ \A s \in Subs \ {Sub(t)} : status'[s] = status[s]
  BY <1>0, <1>2, HeldSub DEF Shape, Persist
<1>3. ASSUME NEW s \in Subs, status'[s] = "done" PROVE judged'[s] # {}
  <2>1. CASE status[s] = "done"
    BY <1>0, <2>1 DEF JudgedInv
  <2>2. CASE \E t \in Threads : FinishSubmission(t) \/ FinishSubmissionFails(t)
    BY <1>0, <1>2, <1>3, <2>2 DEF JudgedInv, FinishSubmission, FinishSubmissionFails
  <2>3. CASE ~Visible
    BY <1>3, <2>1, <2>3, InvisibleSteps DEF rowVars
  <2>4. CASE \/ \E u \in Subs : CreateSubmission(u) \/ EnqueueJudge(u)
             \/ \E t \in Threads : MarkSubmissionRunning(t) \/ ApplyAccepted(t)
    BY <1>0, <1>3, <2>1, <2>4 DEF CreateSubmission, EnqueueJudge, MarkSubmissionRunning,
       ApplyAccepted, rowVars
  <2> QED
    BY <2>2, <2>3, <2>4 DEF Visible
<1>4. ASSUME NEW t \in Threads, pc'[t] \in {"score", "ack", "del"} PROVE judged'[Sub(t)'] # {}
  <2>1. /\ pc[t] # "idle" /\ item'[t] = item[t]
        /\ \/ pc[t] \in {"score", "ack", "del"} \/ status[Sub(t)] = "done"
           \/ FinishSubmission(t)
    BY <1>4, AckedAfter
  <2>2. Sub(t) \in Subs /\ Sub(t)' = Sub(t)
    BY <1>1, <2>1
  <2>3. CASE FinishSubmission(t)
    BY <1>2, <2>2, <2>3 DEF FinishSubmission
  <2>4. CASE judged[Sub(t)] # {}
    BY <1>0, <2>2, <2>4
  <2> QED
    BY <2>1, <2>2, <2>3, <2>4 DEF JudgedInv
<1> QED
  BY <1>3, <1>4 DEF JudgedInv

\* Only XDEL removes an entry, and its goroutine has seen the submission done.
LEMMA RemovedJudged ==
  ASSUME Answering, Shape, JudgedInv, [Next]_vars, NEW m \in entries \ entries'
  PROVE  judged[body[m]] # {}
<1>1. ASSUME NEW t \in Threads, DeleteJudge(t) PROVE judged[body[m]] # {}
  <2>1. m = item[t] /\ pc[t] = "del"
    BY <1>1 DEF DeleteJudge, XDel
  <2> QED
    BY <2>1 DEF JudgedInv, Sub
<1>2. ASSUME NEW t \in Threads, ThreadStep(t) \/ ThreadFails(t), ~DeleteJudge(t)
      PROVE  entries' = entries
  <2>1. CASE Claims(t)
    BY <2>1, ClaimSteps DEF XClaim, queueVars
  <2>2. CASE ~Claims(t)
    BY <1>2, <2>2 DEF Claims, ThreadStep, ThreadFails, ReadJudge, ReadJudgeFails, TakeNext,
       ProcessLoad, ProcessLoadFails, MarkSubmissionRunning, MarkSubmissionRunningFails, RunCases,
       RunCasesFails, DeadLetterLoad, DeadLetterLoadFails, FinishSubmission,
       FinishSubmissionFails, ApplyAccepted, ApplyAcceptedFails, AckJudge, AckJudgeFails,
       DeleteJudgeFails, XReadGroup, XAck, queueVars
  <2> QED
    BY <2>1, <2>2
<1>3. ASSUME ~\E t \in Threads : ThreadStep(t) \/ ThreadFails(t)
      PROVE  entries \subseteq entries'
  BY <1>3 DEF Next, vars, queueVars, CreateSubmission, WebStep, CheckDepth, EnqueueJudge,
     EnqueueJudgeFails, HandlerDies, BootStep, EnsureJudgeGroup, ReconcileDepth,
     ListPendingSubmissionIDs, ReconcileEnqueue, ReconcileFails, Crash, Flush, GoesStale,
     StaysIdle, XAdd, XGroupCreate, Answering, Fault
<1> QED
  BY <1>1, <1>2, <1>3

\* While PostgreSQL answers and Redis keeps its data no entry leaves the
\* stream before its submission has had a verdict, although slow workers and
\* reclaimers may handle one message at a time.
THEOREM RemovalFollowsVerdict ==
  ASSUME Answering
  PROVE  Spec => RemovedOnlyWhenJudged
<1>1. Spec => [](Shape /\ JudgedInv)
  BY ShapeInit, ShapeStep, JudgedInit, JudgedStep, PTL DEF Spec
<1>2. Shape /\ JudgedInv /\ [Next]_vars =>
        [\A m \in entries \ entries' : judged[body[m]] # {}]_vars
  BY RemovedJudged
<1> QED
  BY <1>1, <1>2, PTL DEF Spec, RemovedOnlyWhenJudged

-----------------------------------------------------------------------------
(* A verdict of internal_error has one of three causes.                    *)

\* The message was claimed after its last delivery.
UsedUp(m) == pending[m] > MaxDeliveries + 1

Cause(s, m) ==
  \/ s \in NoTestCases
  \/ "internal_error" \in Outcomes[s]
  \/ UsedUp(m)

PoisonInv ==
  /\ \A t \in Threads : \A m \in poisonIDs[t] :
       m <= lastDelivered /\ (pending[m] = 0 \/ pending[m] > MaxDeliveries)
  /\ \A t \in Threads : \A m \in poison[t] : UsedUp(m)
  /\ \A t \in Threads : pc[t] = "dead" => UsedUp(item[t])
  /\ \A t \in Threads :
       pc[t] = "finish" /\ result[t] = "internal_error" => Cause(Sub(t), item[t])

LEMMA PoisonInit == Init => PoisonInv
  BY DEF Init, PoisonInv

\* t has m and is not about to ack it.
Keeps(t, m) == m \in poison[t] \/ (item[t] = m /\ pc[t] \in {"dead", "finish"})

\* Nobody acks, reads or claims afresh a message that another one keeps.
LEMMA UsedUpStays ==
  ASSUME Reliable, Shape, Custody, [Next]_vars,
         NEW t \in Threads, NEW m \in Ids, Keeps(t, m), UsedUp(m)
  PROVE  UsedUp(m)'
<1>0. /\ pending \in [Ids -> Counts] /\ MaxDeliveries \in Nat /\ pending[m] \in Nat
      /\ m # 0 /\ Ids \subseteq Nat
  BY QueueConstants DEF QueueConstants, Shape, QueueInv, QueueTypeOK, Counts, Ids
<1>1. ASSUME NEW n \in Ids, XReadGroup(n) PROVE UsedUp(m)'
  <2>1. n # m
    <3>1. pending[m] > 0
      BY <1>0 DEF UsedUp
    <3>2. lastDelivered \in Nat /\ m <= lastDelivered
      BY <3>1 DEF Shape, QueueInv, QueueTypeOK
    <3> QED
      BY <1>0, <1>1, <3>2 DEF XReadGroup, NewEntries
  <2> QED
    BY <1>0, <1>1, <2>1 DEF XReadGroup, UsedUp
<1>2. ASSUME NEW S \in SUBSET Ids, XClaim(S) PROVE UsedUp(m)'
  <2>1. pending'[m] >= pending[m] /\ pending'[m] \in Nat
    <3>1. QueueInv'
      BY <1>2, QueueStep DEF Shape, QueueNext
    <3> QED
      BY <1>2, <3>1, XClaimed, QueueConstants DEF QueueConstants, QueueInv, QueueTypeOK, Counts
  <2> QED
    BY <1>0, <2>1 DEF UsedUp
<1>3. ASSUME NEW u \in Threads, XAck(item[u]), pc[u] = "ack" PROVE UsedUp(m)'
  <2>1. item[u] # 0 /\ item[u] \in Ids
    BY <1>3, HeldSub DEF Shape, ThreadInv
  <2>2. item[u] # m
    BY <1>3, <2>1 DEF Keeps, Custody, OneHolder
  <2> QED
    BY <1>0, <1>3, <2>2 DEF XAck, UsedUp
<1>4. ASSUME pending' = pending PROVE UsedUp(m)'
  BY <1>4 DEF UsedUp
<1>5. ASSUME NEW u \in Threads, ThreadStep(u) \/ ThreadFails(u) PROVE UsedUp(m)'
  <2>1. CASE Claims(u)
    BY <1>2, <1>4, <2>1, ClaimSteps DEF queueVars
  <2>2. ASSUME ~Claims(u)
        PROVE  \/ \E n \in Ids : XReadGroup(n)
               \/ XAck(item[u]) /\ pc[u] = "ack"
               \/ pending' = pending
    BY <1>5, <2>2 DEF Claims, ThreadStep, ThreadFails, ReadJudge, ReadJudgeFails, TakeNext, ProcessLoad,
       ProcessLoadFails, MarkSubmissionRunning, MarkSubmissionRunningFails, RunCases,
       RunCasesFails, DeadLetterLoad, DeadLetterLoadFails, FinishSubmission,
       FinishSubmissionFails, ApplyAccepted, ApplyAcceptedFails, AckJudge, AckJudgeFails,
       DeleteJudge, DeleteJudgeFails, XDel, queueVars
  <2> QED
    BY <1>1, <1>3, <1>4, <2>1, <2>2
<1>6. ASSUME ~\E u \in Threads : ThreadStep(u) \/ ThreadFails(u) PROVE UsedUp(m)'
  <2>1. pending' = pending
    BY <1>6 DEF Next, vars, queueVars, CreateSubmission, WebStep, CheckDepth, EnqueueJudge,
       EnqueueJudgeFails, HandlerDies, BootStep, EnsureJudgeGroup, ReconcileDepth,
       ListPendingSubmissionIDs, ReconcileEnqueue, ReconcileFails, Crash, Flush, GoesStale,
       StaysIdle, XAdd, XGroupCreate, Reliable, Fault
  <2> QED
    BY <1>4, <2>1
<1> QED
  BY <1>5, <1>6

\* What a goroutine has after a step that could end in the dead letter.
LEMMA PoisonedAfter ==
  ASSUME Reliable, Shape, [Next]_vars, NEW t \in Threads
  PROVE  /\ \A m \in poison'[t] :
              \/ m \in poison[t]
              \/ m \in StillIdle(poisonIDs[t]) /\ XClaim(poisonIDs[t])
         /\ pc'[t] = "dead" =>
              \/ pc[t] = "dead" /\ item'[t] = item[t]
              \/ item'[t] \in poison[t]
         /\ pc'[t] = "finish" /\ result'[t] = "internal_error" =>
              /\ item'[t] = item[t] /\ pc[t] # "idle"
              /\ \/ pc[t] = "finish" /\ result[t] = "internal_error"
                 \/ pc[t] = "dead"
                 \/ Sub(t) \in NoTestCases
                 \/ "internal_error" \in Outcomes[Sub(t)]
<1> DEFINE Batch == \A m \in poison'[t] :
                      \/ m \in poison[t]
                      \/ m \in StillIdle(poisonIDs[t]) /\ XClaim(poisonIDs[t])
           Dead == pc'[t] = "dead" =>
                      \/ pc[t] = "dead" /\ item'[t] = item[t]
                      \/ item'[t] \in poison[t]
           Failed == pc'[t] = "finish" /\ result'[t] = "internal_error" =>
                      /\ item'[t] = item[t] /\ pc[t] # "idle"
                      /\ \/ pc[t] = "finish" /\ result[t] = "internal_error"
                         \/ pc[t] = "dead"
                         \/ Sub(t) \in NoTestCases
                         \/ "internal_error" \in Outcomes[Sub(t)]
<1>0. /\ pc \in [Threads -> PcStates] /\ item \in [Threads -> Ids \cup {0}]
      /\ result \in [Threads -> Verdicts \cup {"none"}]
      /\ poison \in [Threads -> SUBSET Ids]
  BY DEF Shape, ThreadInv
<1>1. ASSUME UNCHANGED <<pc, item, result, poison>> PROVE Batch /\ Dead /\ Failed
  BY <1>0, <1>1
<1>2. ASSUME NEW u \in Threads, ReadJudge(u) \/ ReadJudgeFails(u) PROVE Batch /\ Dead /\ Failed
  BY <1>0, <1>2 DEF ReadJudge, ReadJudgeFails, threadVars
<1>3. ASSUME NEW u \in Threads, TakeNext(u) PROVE Batch /\ Dead /\ Failed
  BY <1>0, <1>3 DEF TakeNext, IsOldest
<1>4. ASSUME NEW u \in Threads,
             \/ ProcessLoad(u) \/ MarkSubmissionRunning(u) \/ RunCases(u) \/ RunCasesFails(u)
             \/ DeadLetterLoad(u)
      PROVE  Batch /\ Dead /\ Failed
  BY <1>0, <1>4 DEF ProcessLoad, MarkSubmissionRunning, RunCases, RunCasesFails, DeadLetterLoad,
     Goto, Conclude, Release, RetryLater
<1>5. ASSUME NEW u \in Threads,
             \/ FinishSubmission(u) \/ ApplyAccepted(u) \/ AckJudge(u) \/ AckJudgeFails(u)
             \/ DeleteJudge(u) \/ DeleteJudgeFails(u)
      PROVE  Batch /\ Dead /\ Failed
  BY <1>0, <1>5 DEF FinishSubmission, AfterFinish, ApplyAccepted, AckJudge, AckJudgeFails,
     DeleteJudge, DeleteJudgeFails, Goto, Release
<1>6. ASSUME NEW u \in Threads,
             \/ ProcessLoadFails(u) \/ MarkSubmissionRunningFails(u) \/ DeadLetterLoadFails(u)
             \/ FinishSubmissionFails(u) \/ ApplyAcceptedFails(u)
      PROVE  FALSE
  BY <1>6 DEF Reliable, Fault, ProcessLoadFails, MarkSubmissionRunningFails,
     DeadLetterLoadFails, FinishSubmissionFails, ApplyAcceptedFails
<1>7. ASSUME NEW p \in Procs, Crash(p) PROVE Batch /\ Dead /\ Failed
  BY <1>0, <1>7 DEF Crash
<1>8. ASSUME NEW u \in Threads, Claims(u) PROVE Batch /\ Dead /\ Failed
  BY <1>0, <1>8, ClaimSteps
<1>9. ASSUME ~\E u \in Threads : ThreadStep(u) \/ ThreadFails(u), ~\E p \in Procs : Crash(p)
      PROVE  UNCHANGED <<pc, item, result, poison>>
  BY <1>9 DEF Next, vars, threadVars, CreateSubmission, WebStep, CheckDepth, EnqueueJudge,
     EnqueueJudgeFails, HandlerDies, BootStep, EnsureJudgeGroup, ReconcileDepth,
     ListPendingSubmissionIDs, ReconcileEnqueue, ReconcileFails, Flush, GoesStale
<1> QED
  BY <1>1, <1>2, <1>3, <1>4, <1>5, <1>6, <1>7, <1>8, <1>9 DEF ThreadStep, ThreadFails, Claims

\* What a reclaim loop listed as poison stays over the limit until an ack.
LEMMA ListedStays ==
  ASSUME Reliable, Shape, PoisonInv, [Next]_vars, NEW t \in Threads, NEW m \in poisonIDs'[t]
  PROVE  m <= lastDelivered' /\ (pending'[m] = 0 \/ pending'[m] > MaxDeliveries)
<1> DEFINE Over == m <= lastDelivered /\ (pending[m] = 0 \/ pending[m] > MaxDeliveries)
<1>0. /\ poisonIDs \in [Threads -> SUBSET Ids] /\ stale \in SUBSET Ids
      /\ pending \in [Ids -> Counts] /\ MaxDeliveries \in Nat /\ Counts \subseteq Nat
      /\ Ids \subseteq Nat /\ lastDelivered \in Nat
      /\ \A n \in stale : n <= lastDelivered
  BY QueueConstants DEF QueueConstants, Shape, QueueInv, QueueTypeOK, ThreadInv, Counts, Ids
<1>1. m \in Ids /\ Over
  <2>1. CASE m \in poisonIDs[t]
    BY <1>0, <2>1 DEF PoisonInv
  <2>2. CASE \E u \in Threads : ScanPending(u)
    BY <1>0, <2>1, <2>2 DEF ScanPending, Exhausted, XPending, IsPoison
  <2>3. CASE poisonIDs' = poisonIDs
    BY <2>1, <2>3
  <2>4. CASE \E u \in Threads : Claims(u) /\ ~ScanPending(u)
    BY <1>0, <2>1, <2>4 DEF Claims, ClaimPoison, ClaimStale, ClaimFindsNoGroup,
       ClaimStaleJudgeFails, ClaimReturnsError
  <2>5. CASE \E p \in Procs : Crash(p)
    BY <1>0, <2>1, <2>5 DEF Crash
  <2>6. ASSUME NEW u \in Threads, ThreadStep(u) \/ ThreadFails(u), ~Claims(u)
        PROVE  poisonIDs' = poisonIDs
    BY <2>6 DEF Claims, ThreadStep, ThreadFails, ReadJudge, ReadJudgeFails, TakeNext,
       ProcessLoad, ProcessLoadFails, MarkSubmissionRunning, MarkSubmissionRunningFails,
       RunCases, RunCasesFails, DeadLetterLoad, DeadLetterLoadFails, FinishSubmission,
       FinishSubmissionFails, ApplyAccepted, ApplyAcceptedFails, AckJudge, AckJudgeFails,
       DeleteJudge, DeleteJudgeFails, Goto, Conclude, Release, RetryLater, threadVars
  <2>7. ASSUME ~\E u \in Threads : ThreadStep(u) \/ ThreadFails(u), ~\E p \in Procs : Crash(p)
        PROVE  poisonIDs' = poisonIDs
    BY <2>7 DEF Next, vars, threadVars, CreateSubmission, WebStep, CheckDepth, EnqueueJudge,
       EnqueueJudgeFails, HandlerDies, BootStep, EnsureJudgeGroup, ReconcileDepth,
       ListPendingSubmissionIDs, ReconcileEnqueue, ReconcileFails, Flush, GoesStale
  <2> QED
    BY <2>2, <2>3, <2>4, <2>5, <2>6, <2>7
<1>2. ASSUME NEW n \in Ids, XReadGroup(n) PROVE Over'
  BY <1>0, <1>1, <1>2 DEF XReadGroup, NewEntries
<1>3. ASSUME NEW S \in SUBSET Ids, XClaim(S) PROVE Over'
  <2>1. QueueInv'
    BY <1>3, QueueStep DEF Shape, QueueNext
  <2>2. pending[m] \in Nat /\ pending'[m] \in Nat
    BY <1>0, <1>1, <2>1 DEF QueueInv, QueueTypeOK
  <2> QED
    BY <1>0, <1>1, <1>3, <2>2, XClaimed
<1>4. ASSUME NEW n \in Ids, XAck(n) PROVE Over'
  BY <1>0, <1>1, <1>4 DEF XAck
<1>5. ASSUME pending' = pending, lastDelivered' = lastDelivered PROVE Over'
  BY <1>1, <1>5
<1>6. ASSUME NEW u \in Threads, ThreadStep(u) \/ ThreadFails(u) PROVE Over'
  <2>1. CASE Claims(u)
    BY <1>3, <1>5, <2>1, ClaimSteps DEF queueVars
  <2>2. pc[u] # "idle" => item[u] \in Ids
    BY HeldSub DEF Shape
  <2>3. ASSUME ~Claims(u)
        PROVE  \/ \E n \in Ids : XReadGroup(n) \/ XAck(n)
               \/ UNCHANGED <<pending, lastDelivered>>
    BY <1>6, <2>2, <2>3 DEF Claims, ThreadStep, ThreadFails, ReadJudge, ReadJudgeFails, TakeNext,
       ProcessLoad, ProcessLoadFails, MarkSubmissionRunning, MarkSubmissionRunningFails,
       RunCases, RunCasesFails, DeadLetterLoad, DeadLetterLoadFails, FinishSubmission,
       FinishSubmissionFails, ApplyAccepted, ApplyAcceptedFails, AckJudge, AckJudgeFails,
       DeleteJudge, DeleteJudgeFails, XDel, queueVars
  <2> QED
    BY <1>2, <1>4, <1>5, <2>1, <2>3
<1>7. ASSUME ~\E u \in Threads : ThreadStep(u) \/ ThreadFails(u) PROVE Over'
  <2>1. group => lastDelivered' = lastDelivered
    BY <1>7 DEF Next, vars, queueVars, CreateSubmission, WebStep, CheckDepth, EnqueueJudge,
       EnqueueJudgeFails, HandlerDies, BootStep, EnsureJudgeGroup, ReconcileDepth,
       ListPendingSubmissionIDs, ReconcileEnqueue, ReconcileFails, Crash, Flush, GoesStale,
       StaysIdle, XAdd, XGroupCreate, Reliable, Fault
  <2>2. pending' = pending
    BY <1>7 DEF Next, vars, queueVars, CreateSubmission, WebStep, CheckDepth, EnqueueJudge,
       EnqueueJudgeFails, HandlerDies, BootStep, EnsureJudgeGroup, ReconcileDepth,
       ListPendingSubmissionIDs, ReconcileEnqueue, ReconcileFails, Crash, Flush, GoesStale,
       StaysIdle, XAdd, XGroupCreate, Reliable, Fault
  <2>3. group
    <3>1. m > 0 /\ m <= lastDelivered
      BY <1>1, QueueConstants DEF QueueConstants, Ids
    <3> QED
      BY <1>0, <1>1, <3>1 DEF Shape, QueueInv
  <2> QED
    BY <1>5, <2>1, <2>2, <2>3
<1> QED
  BY <1>6, <1>7

LEMMA PoisonStep == Reliable /\ Shape /\ Custody /\ PoisonInv /\ [Next]_vars => PoisonInv'
<1> SUFFICES ASSUME Reliable, Shape, Custody, PoisonInv, [Next]_vars PROVE PoisonInv'
  OBVIOUS
<1>0. /\ pending \in [Ids -> Counts] /\ MaxDeliveries \in Nat /\ Counts \subseteq Nat
      /\ \A t \in Threads : poison[t] \subseteq Ids /\ poisonIDs[t] \subseteq Ids
      /\ \A t \in Threads : pc[t] # "idle" => item[t] \in Ids
  BY QueueConstants, HeldSub
     DEF QueueConstants, Shape, QueueInv, QueueTypeOK, ThreadInv, Counts
<1>1. ASSUME NEW t \in Threads, NEW m \in poison'[t] PROVE UsedUp(m)'
  <2>1. CASE m \in poison[t]
    BY <1>0, <2>1, UsedUpStays DEF PoisonInv, Keeps
  <2>2. CASE m \in StillIdle(poisonIDs[t]) /\ XClaim(poisonIDs[t])
    <3>1. /\ m \in Ids /\ pending[m] \in Nat /\ pending[m] > 0
          /\ pending'[m] = Redelivered(pending[m])
      BY <1>0, <2>2, XClaimed
    <3>2. pending[m] > MaxDeliveries
      BY <2>2, <3>1 DEF PoisonInv, StillIdle
    <3> QED
      BY <1>0, <3>1, <3>2 DEF Redelivered, UsedUp
  <2> QED
    BY <2>1, <2>2, PoisonedAfter
<1>2. ASSUME NEW t \in Threads, pc'[t] = "dead" PROVE UsedUp(item[t])'
  <2>1. CASE pc[t] = "dead" /\ item'[t] = item[t]
    <3>1. UsedUp(item[t]) /\ item[t] \in Ids /\ Keeps(t, item[t])
      BY <1>0, <2>1 DEF PoisonInv, Keeps
    <3> PICK m \in Ids : m = item[t]
      BY <3>1
    <3>2. UsedUp(m)'
      BY <3>1, UsedUpStays
    <3> QED
      BY <2>1, <3>2 DEF UsedUp
  <2>2. CASE item'[t] \in poison[t]
    <3> PICK m \in Ids : m = item'[t]
      BY <1>0, <2>2
    <3>1. UsedUp(m)'
      BY <2>2, UsedUpStays DEF PoisonInv, Keeps
    <3> QED
      BY <3>1 DEF UsedUp
  <2> QED
    BY <1>2, <2>1, <2>2, PoisonedAfter
<1>3. ASSUME NEW t \in Threads, pc'[t] = "finish", result'[t] = "internal_error"
      PROVE  Cause(Sub(t), item[t])'
  <2>1. item'[t] = item[t] /\ pc[t] # "idle" /\ item[t] \in Ids
    BY <1>0, <1>3, PoisonedAfter
  <2>2. Sub(t)' = Sub(t)
    BY <2>1, HeldSub, CreditSteps DEF Shape, ThreadInv, BodyKept, Sub
  <2>3. CASE Sub(t) \in NoTestCases \/ "internal_error" \in Outcomes[Sub(t)]
    BY <2>2, <2>3 DEF Cause
  <2>4. CASE UsedUp(item[t]) /\ pc[t] \in {"dead", "finish"}
    <3> PICK m \in Ids : m = item[t]
      BY <2>1
    <3>1. UsedUp(m)'
      BY <2>4, UsedUpStays DEF Keeps
    <3> QED
      BY <2>1, <3>1 DEF UsedUp, Cause
  <2> QED
    BY <1>3, <2>3, <2>4, PoisonedAfter DEF PoisonInv, Cause
<1>4. \A t \in Threads : \A m \in poisonIDs'[t] :
        m <= lastDelivered' /\ (pending'[m] = 0 \/ pending'[m] > MaxDeliveries)
  BY ListedStays DEF PoisonInv
<1> QED
  BY <1>1, <1>2, <1>3, <1>4 DEF PoisonInv

\* Only FinishSubmission of a goroutine with a cause gives internal_error.
LEMMA BurntForCause ==
  ASSUME Reliable, Shape, PoisonInv, [Next]_vars, NEW s \in Subs,
         "internal_error" \in judged'[s] \ judged[s]
  PROVE  \E m \in Ids : body[m] = s /\ Cause(s, m)
<1>0. judged \in [Subs -> SUBSET Verdicts]
  BY DEF Shape, RowInv
<1>1. PICK t \in Threads : FinishSubmission(t)
  <2>1. \E t \in Threads : FinishSubmission(t) \/ FinishSubmissionFails(t)
    <3>1. CASE Visible
      BY <3>1 DEF Visible, CreateSubmission, EnqueueJudge, MarkSubmissionRunning, ApplyAccepted,
         rowVars
    <3>2. CASE ~Visible
      BY <3>2, InvisibleSteps DEF rowVars
    <3> QED
      BY <3>1, <3>2
  <2> QED
    BY <2>1 DEF FinishSubmissionFails, Reliable, Fault
<1>2. pc[t] = "finish" /\ item[t] \in Ids /\ Sub(t) \in Subs
  BY <1>1, HeldSub DEF FinishSubmission, Shape
<1>3. s = Sub(t) /\ result[t] = "internal_error"
  BY <1>0, <1>1, <1>2 DEF FinishSubmission, Persist
<1> QED
  BY <1>2, <1>3 DEF PoisonInv, Sub

\* No crash, lost reply or unreachable executor by itself burns a submission
\* as internal_error: without a cause of its own only a message that was
\* delivered more than MaxDeliveries times and claimed once more does.
THEOREM OnlyUsedUpMessagesBurn ==
  ASSUME Reliable
  PROVE  Spec => OnlyPoisonIsDeadLettered
<1>1. Spec => [](Shape /\ Custody /\ PoisonInv)
  BY ShapeInit, ShapeStep, CustodyInit, CustodyStep, PoisonInit, PoisonStep, PTL DEF Spec
<1>2. Shape /\ PoisonInv /\ [Next]_vars =>
        [\A s \in Subs :
           "internal_error" \in judged'[s] \ judged[s] =>
             \/ s \in NoTestCases
             \/ "internal_error" \in Outcomes[s]
             \/ \E m \in Ids : body[m] = s /\ pending[m] > MaxDeliveries + 1]_vars
  BY BurntForCause DEF Cause, UsedUp
<1> QED
  BY <1>1, <1>2, PTL DEF Spec, OnlyPoisonIsDeadLettered
=============================================================================
