--------------------------- MODULE ExecutorProofs ---------------------------
(***************************************************************************)
(* Theorems about Executor for every number of executors and requests, and *)
(* every choice of limits and budgets that ExecutorConstants allows.       *)
(***************************************************************************)
EXTENDS Executor, FiniteSetTheorems, TLAPS

-----------------------------------------------------------------------------
(* Facts about the constants.                                              *)

LEMMA LimitsTyped ==
  /\ MaxConcurrent \in Nat /\ StaleSandboxAge \in Nat /\ MaxFaults \in Nat
  /\ TailTime \in Nat \ {0} /\ WriteTimeout \in Nat /\ CompileTimeout \in Nat
<1>1. {MaxConcurrent, RunTimeout, RunTimeoutMax, CompileTimeout} \subseteq Nat \ {0}
  BY ExecutorConstants DEF ExecutorConstants, ValidConfig
<1>2. {WriteTimeout, TailTime} \subseteq Nat \ {0} /\ {LifetimeGrace, ReapSlack, MaxFaults} \subseteq Nat
  BY ExecutorConstants DEF ExecutorConstants
<1> QED
  BY <1>1, <1>2 DEF StaleSandboxAge

\* What a limit gives: the caller's patience is shorter than the container's
\* life, and with the tail it is shorter than the janitor's.
LEMMA BudgetsTyped ==
  ASSUME NEW a \in TimeLimits
  PROVE  /\ ClampTimeout(a) \in Nat /\ ContainerLifetime(a) \in Nat /\ CallBudget[a] \in Nat
         /\ CallBudget[a] < ContainerLifetime(a)
         /\ CallBudget[a] + TailTime < StaleSandboxAge
<1>1. /\ RunTimeout \in Nat /\ RunTimeoutMax \in Nat /\ CompileTimeout \in Nat
      /\ WriteTimeout \in Nat /\ LifetimeGrace \in Nat /\ a \in Nat
  BY ExecutorConstants DEF ExecutorConstants, ValidConfig
<1>2. CallBudget[a] \in Nat
  BY ExecutorConstants DEF ExecutorConstants
<1>3. ClampTimeout(a) \in Nat
  BY <1>1 DEF ClampTimeout, Lesser
<1>4. ContainerLifetime(a) \in Nat
  BY <1>1, <1>3 DEF ContainerLifetime
<1>5. CallBudget[a] < ContainerLifetime(a) /\ CallBudget[a] + TailTime < StaleSandboxAge
  BY ExecutorConstants DEF ExecutorConstants
<1> QED
  BY <1>2, <1>3, <1>4, <1>5

-----------------------------------------------------------------------------
(* Type correctness.                                                       *)

Boxes == [state: {"none", "made", "up", "stopped"}, age: 0..StaleSandboxAge, sleep: Nat]

\* TypeOK without the slots.
CallsTyped ==
  /\ proc \in [Executors -> {"up", "draining", "down"}]
  /\ pc \in [Requests -> Active \cup {"new", "done"}]
  /\ req \in [Requests -> [on: Executors, asked: TimeLimits]]
  /\ budget \in [Requests -> Nat]
  /\ timer \in [Requests -> Nat]
  /\ box \in [Requests -> Boxes]
  /\ outcome \in [Requests -> Verdicts \cup {"none"}]
  /\ spent \in [Requests -> Nat]
  /\ ending \in [Requests -> {"none", "exit", "memory", "signal", "stopped", "limit", "context"}]
  /\ written \in [Requests -> Outputs \cup {<<>>}]
  /\ faults \in 0..MaxFaults

LEMMA AskedTyped ==
  ASSUME CallsTyped, NEW r \in Requests
  PROVE  req[r].on \in Executors /\ req[r].asked \in TimeLimits
  BY DEF CallsTyped

LEMMA FailsTyped ==
  ASSUME CallsTyped, NEW reason \in BOOLEAN, Fails(reason)
  PROVE  faults' \in 0..MaxFaults
  BY LimitsTyped DEF CallsTyped, Fails

LEMMA SetBoxTyped ==
  ASSUME CallsTyped, NEW r \in Requests, NEW state \in {"none", "made", "up", "stopped"},
         SetBox(r, state)
  PROVE  box' \in [Requests -> Boxes]
<1>1. NoBox \in Boxes
  BY LimitsTyped DEF NoBox, Boxes
<1>2. box[r].age \in 0..StaleSandboxAge /\ box[r].sleep \in Nat
  BY DEF CallsTyped, Boxes
<1>3. [state |-> state, age |-> box[r].age,
       sleep |-> IF state = "up" THEN box[r].sleep ELSE 0] \in Boxes
  BY <1>2 DEF Boxes
<1> QED
  BY <1>1, <1>3 DEF SetBox, CallsTyped

LEMMA StartedTyped ==
  ASSUME CallsTyped, NEW r \in Requests, Started(r)
  PROVE  box' \in [Requests -> Boxes]
<1>1. ContainerLifetime(req[r].asked) \in Nat
  BY AskedTyped, BudgetsTyped
<1>2. box[r].age \in 0..StaleSandboxAge
  BY DEF CallsTyped, Boxes
<1>3. [state |-> "up", age |-> box[r].age, sleep |-> ContainerLifetime(req[r].asked)] \in Boxes
  BY <1>1, <1>2 DEF Boxes
<1> QED
  BY <1>3 DEF Started, CallsTyped

LEMMA TimeoutTyped ==
  ASSUME CallsTyped, NEW r \in Requests, NEW phase
  PROVE  Timeout(r, phase) \in Nat
<1>1. ClampTimeout(req[r].asked) \in Nat
  BY AskedTyped, BudgetsTyped
<1> QED
  BY <1>1, LimitsTyped DEF Timeout

LEMMA EnterTyped ==
  ASSUME CallsTyped, NEW r \in Requests,
         NEW phase \in {"start", "write", "compile", "cleanup", "update", "run"}, Enter(r, phase)
  PROVE  /\ pc' \in [Requests -> Active \cup {"new", "done"}]
         /\ timer' \in [Requests -> Nat] /\ spent' \in [Requests -> Nat]
         /\ ending' \in [Requests -> {"none", "exit", "memory", "signal", "stopped", "limit", "context"}]
         /\ outcome' \in [Requests -> Verdicts \cup {"none"}]
<1>1. phase \in Active
  BY DEF Active, Admitted, CtxCalls, Commands
<1>2. Timeout(r, phase) \in Nat
  BY TimeoutTyped
<1> QED
  BY <1>1, <1>2 DEF Enter, CallsTyped

LEMMA ReturnTyped ==
  ASSUME CallsTyped, NEW r \in Requests, NEW verdict \in Verdicts, Return(r, verdict)
  PROVE  /\ pc' \in [Requests -> Active \cup {"new", "done"}]
         /\ timer' \in [Requests -> Nat]
         /\ outcome' \in [Requests -> Verdicts \cup {"none"}]
<1>1. "remove" \in Active
  BY DEF Active, Admitted
<1> QED
  BY <1>1, LimitsTyped DEF Return, CallsTyped

LEMMA LeaveTyped ==
  ASSUME CallsTyped, NEW gone, Leave(gone)
  PROVE  /\ pc' \in [Requests -> Active \cup {"new", "done"}]
         /\ budget' \in [Requests -> Nat] /\ timer' \in [Requests -> Nat]
         /\ outcome' \in [Requests -> Verdicts \cup {"none"}] /\ spent' \in [Requests -> Nat]
         /\ ending' \in [Requests -> {"none", "exit", "memory", "signal", "stopped", "limit", "context"}]
         /\ written' \in [Requests -> Outputs \cup {<<>>}]
  BY DEF CallsTyped, Leave

\* The handler's own steps, the program's, the caller's and the container's.
LEMMA CallTyped ==
  ASSUME CallsTyped, NEW r \in Requests, Handler(r) \/ Program(r) \/ Cancel(r) \/ Expire(r)
  PROVE  CallsTyped'
<1> DEFINE PcSet == Active \cup {"new", "done"}
<1>1. /\ PcSet = Active \cup {"new", "done"}
      /\ {"create", "start", "write", "compile", "cleanup", "update", "run", "remove",
          "answer", "queued", "done"} \subseteq PcSet
  BY DEF Active, Admitted, CtxCalls, Commands
<1>2. box[r] \in Boxes /\ box[r].state \in {"none", "made", "up", "stopped"} /\ budget[r] \in Nat
  BY DEF CallsTyped, Boxes
<1> HIDE DEF PcSet
<1>a. CASE Admit(r)
  BY <1>a, <1>1 DEF Admit, CallsTyped
<1>b. CASE GiveUp(r)
  <2>1. Leave({r}) /\ UNCHANGED <<proc, req, box, faults>>
    BY <1>b DEF GiveUp
  <2> QED
    BY <2>1, LeaveTyped DEF CallsTyped
<1>c. CASE CreateContainer(r)
  <2>1. /\ SetBox(r, "made") /\ Enter(r, "start")
        /\ UNCHANGED <<proc, req, budget, written, faults>>
    BY <1>c DEF CreateContainer
  <2>2. box' \in [Requests -> Boxes]
    BY <2>1, SetBoxTyped
  <2> QED
    BY <2>1, <2>2, EnterTyped DEF CallsTyped
<1>d. CASE CreateContainerFails(r)
  <2>1. /\ Fails(CtxDone(r)) /\ UNCHANGED <<proc, req, budget, timer, spent, ending, written>>
        /\ pc' = [pc EXCEPT ![r] = "answer"]
        /\ outcome' = [outcome EXCEPT ![r] = "internal_error"]
    BY <1>d DEF CreateContainerFails
  <2>2. PICK made \in BOOLEAN : SetBox(r, IF made THEN "made" ELSE "none")
    BY <1>d DEF CreateContainerFails
  <2>3. box' \in [Requests -> Boxes]
    BY <2>2, SetBoxTyped
  <2>4. faults' \in 0..MaxFaults
    BY <2>1, FailsTyped DEF CtxDone
  <2>5. pc' \in [Requests -> Active \cup {"new", "done"}]
    BY <2>1, <1>1 DEF CallsTyped
  <2> QED
    BY <2>1, <2>3, <2>4, <2>5 DEF CallsTyped, Verdicts
<1>e. CASE ContainerStart(r)
  <2>1. /\ Started(r) /\ Enter(r, "write")
        /\ UNCHANGED <<proc, req, budget, written, faults>>
    BY <1>e DEF ContainerStart
  <2> QED
    BY <2>1, StartedTyped, EnterTyped DEF CallsTyped
<1>f. CASE CtxCallFails(r)
  <2>1. /\ Fails(CtxDone(r) \/ box[r].state = "none") /\ Return(r, "internal_error")
        /\ UNCHANGED box \/ Started(r)
        /\ UNCHANGED <<proc, req, budget, spent, ending, written>>
    BY <1>f DEF CtxCallFails
  <2>2. box' \in [Requests -> Boxes]
    BY <2>1, StartedTyped DEF CallsTyped
  <2>3. faults' \in 0..MaxFaults
    BY <2>1, FailsTyped DEF CtxDone
  <2> QED
    BY <2>1, <2>2, <2>3, ReturnTyped DEF CallsTyped, Verdicts
<1>g. CASE UpdateResources(r)
  BY <1>g, EnterTyped DEF UpdateResources, CallsTyped
<1>h. CASE ExecFails(r)
  <2>1. /\ Fails(TimeIsUp(r) \/ box[r].state # "up") /\ Return(r, "internal_error")
        /\ UNCHANGED <<proc, req, budget, box, spent, ending, written>>
    BY <1>h DEF ExecFails
  <2>2. faults' \in 0..MaxFaults
    BY <2>1, FailsTyped DEF TimeIsUp, CtxDone
  <2> QED
    BY <2>1, <2>2, ReturnTyped DEF CallsTyped, Verdicts
<1>i. ASSUME NEW kills \in BOOLEAN, TimesOut(r, kills)
      PROVE  CallsTyped'
  <2>1. /\ Fails(kills) /\ UNCHANGED <<proc, req, budget, spent, written>>
        /\ SetBox(r, IF kills /\ box[r].state = "up" THEN "stopped" ELSE box[r].state)
        /\ ending' = [ending EXCEPT ![r] = IF timer[r] = 0 THEN "limit" ELSE "context"]
    BY <1>i DEF TimesOut
  <2>2. PICK verdict \in Verdicts : Return(r, verdict)
    BY <1>i DEF TimesOut, VerdictOf, Blame, Verdicts
  <2>3. box' \in [Requests -> Boxes]
    BY <2>1, <1>2, SetBoxTyped
  <2>4. faults' \in 0..MaxFaults
    BY <2>1, FailsTyped
  <2> QED
    BY <2>1, <2>2, <2>3, <2>4, ReturnTyped DEF CallsTyped
<1>j. ASSUME NEW removes \in BOOLEAN, RemoveContainer(r, removes)
      PROVE  CallsTyped'
  <2>1. /\ Fails(removes) /\ UNCHANGED <<proc, req, budget, timer, outcome, spent, ending, written>>
        /\ SetBox(r, IF removes THEN "none" ELSE box[r].state)
        /\ pc' = [pc EXCEPT ![r] = "answer"]
    BY <1>j DEF RemoveContainer
  <2>2. box' \in [Requests -> Boxes]
    BY <2>1, <1>2, SetBoxTyped
  <2>3. faults' \in 0..MaxFaults
    BY <2>1, FailsTyped
  <2>4. pc' \in [Requests -> Active \cup {"new", "done"}]
    BY <2>1, <1>1 DEF CallsTyped
  <2> QED
    BY <2>1, <2>2, <2>3, <2>4 DEF CallsTyped
<1>k. CASE Answer(r)
  <2>1. Leave({r}) /\ UNCHANGED <<proc, req, box, faults>>
    BY <1>k DEF Answer
  <2> QED
    BY <2>1, LeaveTyped DEF CallsTyped
<1>l. CASE CommandSucceeds(r)
  <2>1. PICK phase \in {"compile", "cleanup", "update"} : Enter(r, phase)
    BY <1>l DEF CommandSucceeds, NextPhases
  <2>2. UNCHANGED <<proc, req, budget, box, written, faults>>
    BY <1>l DEF CommandSucceeds
  <2> QED
    BY <2>1, <2>2, EnterTyped DEF CallsTyped
<1>m. ASSUME NEW why \in Whys, CommandFails(r, why)
      PROVE  CallsTyped'
  <2>1. /\ Return(r, Blame(r)) /\ ending' = [ending EXCEPT ![r] = why]
        /\ UNCHANGED <<proc, req, budget, box, spent, written, faults>>
    BY <1>m DEF CommandFails
  <2>2. Blame(r) \in Verdicts
    BY DEF Blame, Verdicts
  <2> QED
    BY <2>1, <2>2, ReturnTyped DEF CallsTyped, Whys
<1>n. ASSUME NEW code \in Codes, NEW why \in Whys, NEW chunks \in Outputs,
             RunEnds(r, code, why, chunks)
      PROVE  CallsTyped'
  <2>1. /\ ending' = [ending EXCEPT ![r] = why]
        /\ written' = [written EXCEPT ![r] = IF code = 0 THEN chunks ELSE written[r]]
        /\ UNCHANGED <<proc, req, budget, box, spent, faults>>
    BY <1>n DEF RunEnds
  <2>2. PICK verdict \in Verdicts : Return(r, verdict)
    BY <1>n DEF RunEnds, VerdictOf, Verdicts
  <2> QED
    BY <2>1, <2>2, ReturnTyped DEF CallsTyped, Whys
<1>o. CASE Cancel(r)
  BY <1>o DEF Cancel, CallsTyped
<1>p. CASE Expire(r)
  <2>1. SetBox(r, "stopped") /\ UNCHANGED <<proc, callVars, faults>>
    BY <1>p DEF Expire
  <2>2. box' \in [Requests -> Boxes]
    BY <2>1, SetBoxTyped
  <2> QED
    BY <2>1, <2>2 DEF CallsTyped, callVars
<1> QED
  BY <1>a, <1>b, <1>c, <1>d, <1>e, <1>f, <1>g, <1>h, <1>i, <1>j, <1>k, <1>l, <1>m, <1>n, <1>o, <1>p
  DEF Handler, Program

\* A box that ages stays a box.
LEMMA AgedTyped ==
  ASSUME NEW b \in Boxes
  PROVE  /\ Lesser(b.age + 1, StaleSandboxAge) \in 0..StaleSandboxAge
         /\ Decrement(b.sleep) \in Nat
<1>1. b.age \in Nat /\ b.sleep \in Nat
  BY LimitsTyped DEF Boxes
<1> QED
  BY <1>1, LimitsTyped DEF Lesser, Decrement

LEMMA CallsTypedStep ==
  ASSUME CallsTyped, [Next]_vars
  PROVE  CallsTyped'
<1>a. ASSUME NEW r \in Requests, NEW valid \in BOOLEAN, Arrive(r, valid)
      PROVE  CallsTyped'
  <2>1. CallBudget[req[r].asked] \in Nat
    BY AskedTyped, BudgetsTyped
  <2> QED
    BY <1>a, <2>1 DEF Arrive, CallsTyped, Active
<1>b. ASSUME NEW x \in Executors, NEW r \in Requests, NEW removes \in BOOLEAN,
             ReapStale(x, r, removes)
      PROVE  CallsTyped'
  <2>1. /\ Fails(removes) /\ UNCHANGED <<proc, callVars>>
        /\ SetBox(r, IF removes THEN "none" ELSE box[r].state)
    BY <1>b DEF ReapStale
  <2>2. box[r].state \in {"none", "made", "up", "stopped"}
    BY DEF CallsTyped, Boxes
  <2>3. box' \in [Requests -> Boxes]
    BY <2>1, <2>2, SetBoxTyped
  <2>4. faults' \in 0..MaxFaults
    BY <2>1, FailsTyped
  <2> QED
    BY <2>1, <2>3, <2>4 DEF CallsTyped, callVars
<1>c. ASSUME NEW x \in Executors, Drain(x) \/ GracefulStop(x) \/ Restart(x)
      PROVE  CallsTyped'
  <2>1. UNCHANGED <<pc, req, budget, timer, outcome, spent, ending, written, box>>
    BY <1>c DEF Drain, GracefulStop, Restart, callVars
  <2>0. PICK state \in {"up", "draining", "down"} : proc' = [proc EXCEPT ![x] = state]
    BY <1>c DEF Drain, GracefulStop, Restart
  <2>2. proc' \in [Executors -> {"up", "draining", "down"}]
    BY <2>0 DEF CallsTyped
  <2>3. faults' = faults \/ (faults > 0 /\ faults' = faults - 1)
    BY <1>c DEF Drain, GracefulStop, Restart
  <2>4. faults' \in 0..MaxFaults
    BY <2>3, LimitsTyped DEF CallsTyped
  <2> QED
    BY <2>1, <2>2, <2>4 DEF CallsTyped
<1>d. ASSUME NEW x \in Executors, Crash(x)
      PROVE  CallsTyped'
  <2>1. PICK gone : Leave(gone)
    BY <1>d DEF Crash
  <2>2. /\ faults > 0 /\ faults' = faults - 1 /\ proc' = [proc EXCEPT ![x] = "down"]
        /\ UNCHANGED <<req, box>>
    BY <1>d DEF Crash
  <2> QED
    BY <2>1, <2>2, LeaveTyped, LimitsTyped DEF CallsTyped
<1>e. CASE Tick
  <2>1. budget' \in [Requests -> Nat] /\ timer' \in [Requests -> Nat] /\ spent' \in [Requests -> Nat]
    BY <1>e DEF Tick, CallsTyped, Decrement
  <2>2. ASSUME NEW r \in Requests
        PROVE  [state |-> box[r].state, age |-> Lesser(box[r].age + 1, StaleSandboxAge),
                sleep |-> Decrement(box[r].sleep)] \in Boxes
    <3>1. box[r] \in Boxes
      BY DEF CallsTyped
    <3>2. box[r].state \in {"none", "made", "up", "stopped"}
      BY <3>1 DEF Boxes
    <3> QED
      BY <3>1, <3>2, AgedTyped DEF Boxes
  <2>3. box' \in [Requests -> Boxes]
    BY <1>e, <2>2 DEF Tick, CallsTyped
  <2> QED
    BY <1>e, <2>1, <2>3 DEF Tick, CallsTyped
<1>f. CASE UNCHANGED vars
  BY <1>f DEF vars, CallsTyped
<1> QED
  BY <1>a, <1>b, <1>c, <1>d, <1>e, <1>f, CallTyped DEF Next, Sweep

-----------------------------------------------------------------------------
(* The semaphore.                                                          *)

Held(x) == {r \in Requests : req[r].on = x /\ pc[r] \in Admitted}

\* The semaphore also bounds what it counts.
SlotsTyped == slots \in [Executors -> 0..MaxConcurrent]

LEMMA HeldIsFinite ==
  ASSUME NEW x
  PROVE  IsFiniteSet(Held(x)) /\ Cardinality(Held(x)) \in Nat
<1>1. Held(x) \subseteq Requests /\ IsFiniteSet(Requests)
  BY ExecutorConstants DEF Held, ExecutorConstants
<1> QED
  BY <1>1, FS_Subset, FS_CardinalityType

LEMMA SlotsAsHeld == SlotsAreHeld <=> \A x \in Executors : slots[x] = Cardinality(Held(x))
  BY DEF SlotsAreHeld, Held

\* Who is served stays the same, and so does the count.
LEMMA SlotsUntouched ==
  ASSUME SlotsAreHeld, SlotsTyped, UNCHANGED <<slots, req>>,
         \A r \in Requests : pc'[r] \in Admitted <=> pc[r] \in Admitted
  PROVE  SlotsAreHeld' /\ SlotsTyped'
<1>1. \A x \in Executors : Held(x)' = Held(x)
  BY DEF Held
<1> QED
  BY <1>1, SlotsAsHeld DEF SlotsTyped, SlotsAreHeld, Held

\* A request that moves between steps of its handler.
LEMMA SlotsUntouchedBy ==
  ASSUME CallsTyped, SlotsAreHeld, SlotsTyped, NEW r \in Requests, NEW step,
         UNCHANGED <<slots, req>>, pc' = [pc EXCEPT ![r] = step],
         step \in Admitted <=> pc[r] \in Admitted
  PROVE  SlotsAreHeld' /\ SlotsTyped'
<1>1. \A s \in Requests : pc'[s] \in Admitted <=> pc[s] \in Admitted
  BY DEF CallsTyped
<1> QED
  BY <1>1, SlotsUntouched

LEMMA AdmittedSteps ==
  /\ {"create", "start", "update", "write", "compile", "cleanup", "run", "remove", "answer"}
       = Admitted
  /\ "new" \notin Admitted /\ "done" \notin Admitted /\ "queued" \notin Admitted
  /\ Commands \subseteq Admitted
  BY DEF Admitted, CtxCalls, Commands

LEMMA AdmitCounts ==
  ASSUME CallsTyped, SlotsAreHeld, SlotsTyped, NEW r \in Requests, Admit(r)
  PROVE  SlotsAreHeld' /\ SlotsTyped'
<1>0. PICK e \in Executors : e = req[r].on
  BY AskedTyped
<1>1. /\ pc[r] = "queued" /\ slots[e] < MaxConcurrent /\ pc' = [pc EXCEPT ![r] = "create"]
      /\ slots' = [slots EXCEPT ![e] = slots[e] + 1] /\ req' = req
  BY <1>0 DEF Admit
<1>2. Held(e)' = Held(e) \cup {r} /\ r \notin Held(e)
  BY <1>0, <1>1, AdmittedSteps DEF Held, CallsTyped
<1>3. \A x \in Executors \ {e} : Held(x)' = Held(x)
  BY <1>0, <1>1, AdmittedSteps DEF Held, CallsTyped
<1>4. Cardinality(Held(e)') = Cardinality(Held(e)) + 1
  BY <1>2, HeldIsFinite, FS_AddElement
<1>5. slots'[e] = slots[e] + 1 /\ \A x \in Executors \ {e} : slots'[x] = slots[x]
  BY <1>1 DEF SlotsTyped
<1>6. \A x \in Executors : slots'[x] = Cardinality(Held(x)')
  <2>1. slots'[e] = Cardinality(Held(e)')
    BY <1>4, <1>5, SlotsAsHeld, HeldIsFinite
  <2>2. \A x \in Executors \ {e} : slots'[x] = Cardinality(Held(x)')
    BY <1>3, <1>5, SlotsAsHeld
  <2> QED
    BY <2>1, <2>2
<1>7. SlotsTyped'
  BY <1>1, LimitsTyped DEF SlotsTyped
<1> QED
  BY <1>6, <1>7 DEF SlotsAreHeld, Held

LEMMA AnswerCounts ==
  ASSUME CallsTyped, SlotsAreHeld, SlotsTyped, NEW r \in Requests, Answer(r)
  PROVE  SlotsAreHeld' /\ SlotsTyped'
<1>0. PICK e \in Executors : e = req[r].on
  BY AskedTyped
<1>1. /\ pc[r] = "answer" /\ slots' = [slots EXCEPT ![e] = slots[e] - 1] /\ req' = req
      /\ \A s \in Requests : pc'[s] = IF s = r THEN "done" ELSE pc[s]
  BY <1>0 DEF Answer, FreeSlot, Leave
<1>2. Held(e)' = Held(e) \ {r} /\ r \in Held(e)
  BY <1>0, <1>1, AdmittedSteps DEF Held
<1>3. \A x \in Executors \ {e} : Held(x)' = Held(x)
  BY <1>0, <1>1, AdmittedSteps DEF Held
<1>4. Cardinality(Held(e)') = Cardinality(Held(e)) - 1
  BY <1>2, HeldIsFinite, FS_RemoveElement
<1>5. slots'[e] = slots[e] - 1 /\ \A x \in Executors \ {e} : slots'[x] = slots[x]
  BY <1>1 DEF SlotsTyped
<1>6. \A x \in Executors : slots'[x] = Cardinality(Held(x)')
  <2>1. slots'[e] = Cardinality(Held(e)')
    BY <1>4, <1>5, SlotsAsHeld, HeldIsFinite
  <2>2. \A x \in Executors \ {e} : slots'[x] = Cardinality(Held(x)')
    BY <1>3, <1>5, SlotsAsHeld
  <2> QED
    BY <2>1, <2>2
<1>7. Cardinality(Held(e)') \in Nat
  <2>1. Held(e)' \subseteq Held(e)
    BY <1>2
  <2> QED
    BY <2>1, HeldIsFinite, FS_Subset, FS_CardinalityType
<1>8. slots[e] - 1 \in 0..MaxConcurrent
  BY <1>1, <1>4, <1>7, SlotsAsHeld, LimitsTyped DEF SlotsTyped
<1>9. SlotsTyped'
  BY <1>1, <1>8 DEF SlotsTyped
<1> QED
  BY <1>6, <1>9 DEF SlotsAreHeld, Held

LEMMA CrashCounts ==
  ASSUME CallsTyped, SlotsAreHeld, SlotsTyped, NEW x \in Executors, Crash(x)
  PROVE  SlotsAreHeld' /\ SlotsTyped'
<1>1. /\ slots' = [slots EXCEPT ![x] = 0] /\ req' = req
      /\ \A s \in Requests : pc'[s] = IF req[s].on = x /\ pc[s] \in Active THEN "done" ELSE pc[s]
  BY DEF Crash, Leave
<1>2. Held(x)' = {}
  BY <1>1, AdmittedSteps DEF Held, Active
<1>3. \A y \in Executors \ {x} : Held(y)' = Held(y)
  BY <1>1 DEF Held
<1>4. slots'[x] = 0 /\ \A y \in Executors \ {x} : slots'[y] = slots[y]
  BY <1>1 DEF SlotsTyped
<1>5. \A y \in Executors : slots'[y] = Cardinality(Held(y)')
  BY <1>2, <1>3, <1>4, SlotsAsHeld, FS_EmptySet
<1>6. SlotsTyped'
  BY <1>1, LimitsTyped DEF SlotsTyped
<1> QED
  BY <1>5, <1>6 DEF SlotsAreHeld, Held

LEMMA SlotsStep ==
  ASSUME CallsTyped, SlotsAreHeld, SlotsTyped, [Next]_vars
  PROVE  SlotsAreHeld' /\ SlotsTyped'
<1>a. ASSUME NEW r \in Requests, NEW valid \in BOOLEAN, Arrive(r, valid)
      PROVE  SlotsAreHeld' /\ SlotsTyped'
  <2>1. pc[r] = "new" /\ pc' = [pc EXCEPT ![r] = IF valid THEN "queued" ELSE "done"]
        /\ UNCHANGED <<slots, req>>
    BY <1>a DEF Arrive
  <2> QED
    BY <2>1, AdmittedSteps, SlotsUntouchedBy
<1>b. ASSUME NEW r \in Requests, GiveUp(r)
      PROVE  SlotsAreHeld' /\ SlotsTyped'
  <2>1. pc[r] = "queued" /\ UNCHANGED <<slots, req>>
        /\ \A s \in Requests : pc'[s] = IF s = r THEN "done" ELSE pc[s]
    BY <1>b DEF GiveUp, Leave
  <2> QED
    BY <2>1, AdmittedSteps, SlotsUntouched
<1>c. ASSUME NEW r \in Requests,
             \/ CreateContainer(r) \/ CreateContainerFails(r) \/ ContainerStart(r)
             \/ CtxCallFails(r) \/ UpdateResources(r) \/ ExecFails(r)
      PROVE  SlotsAreHeld' /\ SlotsTyped'
  <2>1. pc[r] \in Admitted /\ UNCHANGED <<slots, req>>
    BY <1>c, AdmittedSteps DEF CreateContainer, CreateContainerFails, ContainerStart, CtxCallFails,
       UpdateResources, ExecFails
  <2>2. \E step \in Admitted : pc' = [pc EXCEPT ![r] = step]
    BY <1>c, AdmittedSteps DEF CreateContainer, CreateContainerFails, ContainerStart, CtxCallFails,
       UpdateResources, ExecFails, Enter, Return
  <2> QED
    BY <2>1, <2>2, SlotsUntouchedBy
<1>d. ASSUME NEW r \in Requests, NEW kills \in BOOLEAN, TimesOut(r, kills) \/ RemoveContainer(r, kills)
      PROVE  SlotsAreHeld' /\ SlotsTyped'
  <2>1. pc[r] \in Admitted /\ UNCHANGED <<slots, req>>
    BY <1>d, AdmittedSteps DEF TimesOut, RemoveContainer
  <2>2. \E step \in Admitted : pc' = [pc EXCEPT ![r] = step]
    BY <1>d, AdmittedSteps DEF TimesOut, RemoveContainer, Return
  <2> QED
    BY <2>1, <2>2, SlotsUntouchedBy
<1>e. ASSUME NEW r \in Requests, Program(r)
      PROVE  SlotsAreHeld' /\ SlotsTyped'
  <2>1. pc[r] \in Admitted /\ UNCHANGED <<slots, req>>
    BY <1>e, AdmittedSteps DEF Program, CommandSucceeds, CommandFails, RunEnds
  <2>2. \E step \in Admitted : pc' = [pc EXCEPT ![r] = step]
    BY <1>e, AdmittedSteps DEF Program, CommandSucceeds, NextPhases, CommandFails, RunEnds, Enter, Return
  <2> QED
    BY <2>1, <2>2, SlotsUntouchedBy
<1>f. ASSUME UNCHANGED <<slots, req, pc>>
      PROVE  SlotsAreHeld' /\ SlotsTyped'
  BY <1>f, SlotsUntouched
<1>g. ASSUME NEW r \in Requests, Cancel(r) \/ Expire(r)
      PROVE  UNCHANGED <<slots, req, pc>>
  BY <1>g DEF Cancel, Expire, callVars
<1>h. ASSUME NEW x \in Executors, Sweep(x) \/ Drain(x) \/ GracefulStop(x) \/ Restart(x)
      PROVE  UNCHANGED <<slots, req, pc>>
  BY <1>h DEF Sweep, ReapStale, Drain, GracefulStop, Restart, callVars
<1>i. ASSUME Tick \/ UNCHANGED vars
      PROVE  UNCHANGED <<slots, req, pc>>
  BY <1>i DEF Tick, vars
<1> QED
  BY <1>a, <1>b, <1>c, <1>d, <1>e, <1>f, <1>g, <1>h, <1>i, AdmitCounts, AnswerCounts, CrashCounts
  DEF Next, Handler

-----------------------------------------------------------------------------
(* The life of a container, and what a verdict rests on.                   *)

InTime(r) == box[r].age + budget[r] <= CallBudget[req[r].asked]

\* A container in use is younger than its caller's patience was long, and its
\* sleep outlasts what is left of it.
LifeOK(r) ==
  /\ pc[r] \in {"new", "queued", "create"} => box[r] = NoBox
  /\ pc[r] \in {"queued", "create"} => budget[r] <= CallBudget[req[r].asked]
  /\ pc[r] = "start" => box[r].state = "made" /\ InTime(r)
  /\ pc[r] \in Commands \cup {"update"} =>
       box[r].state = "up" /\ InTime(r) /\ budget[r] < box[r].sleep
  /\ pc[r] = "remove" =>
       box[r].state # "none" /\ box[r].age + timer[r] <= CallBudget[req[r].asked] + TailTime

\* The conjuncts of VerdictIsEarned that are about what ended the command.
JustVerdict(r) ==
  /\ outcome[r] = "time_limit_exceeded" =>
       ending[r] = "limit" /\ spent[r] = ClampTimeout(req[r].asked)
  /\ outcome[r] = "memory_limit_exceeded" => ending[r] \in {"memory", "signal"}
  /\ outcome[r] = "compilation_error" =>
       \/ ending[r] \in {"exit", "memory", "signal"}
       \/ ending[r] = "limit" /\ spent[r] = CompileTimeout
  /\ outcome[r] \in {"accepted", "wrong_answer", "runtime_error"} =>
       ending[r] \in {"exit", "memory"}

\* A command's time is what it has had and what it has left.
EarnedOK(r) ==
  /\ pc[r] = "run" => spent[r] + timer[r] = ClampTimeout(req[r].asked)
  /\ pc[r] = "compile" => spent[r] + timer[r] = CompileTimeout
  /\ pc[r] \in {"remove", "answer"} /\ budget[r] > 0 => JustVerdict(r)

RequestOK(r) == LifeOK(r) /\ EarnedOK(r)

LEMMA TypedAt ==
  ASSUME CallsTyped, NEW r \in Requests
  PROVE  /\ budget[r] \in Nat /\ timer[r] \in Nat /\ spent[r] \in Nat
         /\ box[r].age \in Nat /\ box[r].sleep \in Nat
         /\ box[r].state \in {"none", "made", "up", "stopped"}
         /\ CallBudget[req[r].asked] \in Nat /\ ClampTimeout(req[r].asked) \in Nat
         /\ ContainerLifetime(req[r].asked) \in Nat
         /\ CallBudget[req[r].asked] < ContainerLifetime(req[r].asked)
         /\ CallBudget[req[r].asked] + TailTime < StaleSandboxAge
<1>1. box[r] \in Boxes /\ budget[r] \in Nat /\ timer[r] \in Nat /\ spent[r] \in Nat
  BY DEF CallsTyped
<1>2. box[r].age \in Nat /\ box[r].sleep \in Nat /\ box[r].state \in {"none", "made", "up", "stopped"}
  BY <1>1, LimitsTyped DEF Boxes
<1> QED
  BY <1>1, <1>2, AskedTyped, BudgetsTyped

\* A request nothing happens to.
Same(r) ==
  /\ pc'[r] = pc[r] /\ req'[r] = req[r] /\ budget'[r] = budget[r] /\ timer'[r] = timer[r]
  /\ box'[r] = box[r] /\ outcome'[r] = outcome[r] /\ spent'[r] = spent[r]
  /\ ending'[r] = ending[r] /\ written'[r] = written[r]

LEMMA SameOK ==
  ASSUME NEW r \in Requests, RequestOK(r), Same(r)
  PROVE  RequestOK(r)'
<1>1. LifeOK(r)'
  BY DEF RequestOK, LifeOK, Same, InTime
<1>2. EarnedOK(r)'
  BY DEF RequestOK, EarnedOK, JustVerdict, Same
<1> QED
  BY <1>1, <1>2 DEF RequestOK

\* A request that is done needs nothing.
LEMMA DoneOK ==
  ASSUME NEW r \in Requests, pc'[r] = "done"
  PROVE  RequestOK(r)'
  BY DEF RequestOK, LifeOK, EarnedOK, Commands

LEMMA OthersSame ==
  ASSUME CallsTyped, NEW r \in Requests, Handler(r) \/ Program(r) \/ Cancel(r) \/ Expire(r),
         NEW s \in Requests \ {r}
  PROVE  Same(s)
<1>1. ASSUME Admit(r) \/ Cancel(r) PROVE Same(s)
  BY <1>1 DEF Admit, Cancel, Same, CallsTyped
<1>2. ASSUME GiveUp(r) \/ Answer(r) PROVE Same(s)
  BY <1>2 DEF GiveUp, Answer, Leave, Same, CallsTyped
<1>3. ASSUME CreateContainer(r) \/ ContainerStart(r) \/ UpdateResources(r) PROVE Same(s)
  BY <1>3 DEF CreateContainer, ContainerStart, UpdateResources, SetBox, Started, Enter, Same, CallsTyped
<1>a. ASSUME CreateContainerFails(r) PROVE Same(s)
  BY <1>a DEF CreateContainerFails, SetBox, Same, CallsTyped
<1>4. ASSUME CtxCallFails(r) \/ ExecFails(r) PROVE Same(s)
  <2>1. box'[s] = box[s]
    BY <1>4 DEF CtxCallFails, ExecFails, Started, CallsTyped
  <2> QED
    BY <1>4, <2>1 DEF CtxCallFails, ExecFails, Return, Same, CallsTyped
<1>5. ASSUME NEW b \in BOOLEAN, TimesOut(r, b) \/ RemoveContainer(r, b) PROVE Same(s)
  <2>0. \E state : SetBox(r, state)
    BY <1>5 DEF TimesOut, RemoveContainer
  <2>1. box'[s] = box[s]
    BY <2>0 DEF SetBox, CallsTyped
  <2>2. pc'[s] = pc[s] /\ timer'[s] = timer[s] /\ outcome'[s] = outcome[s] /\ ending'[s] = ending[s]
    <3>1. CASE TimesOut(r, b)
      <4>1. ending' = [ending EXCEPT ![r] = IF timer[r] = 0 THEN "limit" ELSE "context"]
        BY <3>1 DEF TimesOut
      <4>2. \E verdict : Return(r, verdict)
        BY <3>1 DEF TimesOut
      <4> QED
        BY <4>1, <4>2 DEF Return, CallsTyped
    <3>2. CASE RemoveContainer(r, b)
      BY <3>2 DEF RemoveContainer, CallsTyped
    <3> QED
      BY <1>5, <3>1, <3>2
  <2>3. UNCHANGED <<req, budget, spent, written>>
    BY <1>5 DEF TimesOut, RemoveContainer
  <2> QED
    BY <2>1, <2>2, <2>3 DEF Same
<1>6. ASSUME CommandSucceeds(r) PROVE Same(s)
  BY <1>6 DEF CommandSucceeds, Enter, Same, CallsTyped
<1>7. ASSUME NEW why \in Whys, CommandFails(r, why) PROVE Same(s)
  BY <1>7 DEF CommandFails, Return, Same, CallsTyped
<1>8. ASSUME NEW code \in Codes, NEW why \in Whys, NEW chunks \in Outputs, RunEnds(r, code, why, chunks)
      PROVE  Same(s)
  BY <1>8 DEF RunEnds, Return, Same, CallsTyped
<1>9. ASSUME Expire(r) PROVE Same(s)
  BY <1>9 DEF Expire, callVars, SetBox, Same, CallsTyped
<1> QED
  BY <1>a, <1>1, <1>2, <1>3, <1>4, <1>5, <1>6, <1>7, <1>8, <1>9 DEF Handler, Program

\* What the caller asked for is not changed by any step of its call.
LEMMA AskedKept ==
  ASSUME CallsTyped, NEW r \in Requests, Handler(r) \/ Program(r) \/ Cancel(r) \/ Expire(r)
  PROVE  req'[r] = req[r]
  BY DEF Handler, Program, Admit, GiveUp, CreateContainer, CreateContainerFails, ContainerStart,
     CtxCallFails, UpdateResources, ExecFails, TimesOut, RemoveContainer, Answer, CommandSucceeds,
     CommandFails, RunEnds, Cancel, Expire, callVars

\* A request that goes on to its next step.
LEMMA PhaseOK ==
  ASSUME CallsTyped, NEW r \in Requests, RequestOK(r),
         \/ Admit(r) \/ CreateContainer(r) \/ ContainerStart(r) \/ UpdateResources(r)
         \/ CommandSucceeds(r) \/ Cancel(r) \/ Expire(r)
  PROVE  RequestOK(r)'
<1>t. req'[r] = req[r]
  BY AskedKept DEF Handler, Program
<1>u. LifeOK(r) /\ EarnedOK(r)
  BY DEF RequestOK
<1>a. CASE Admit(r)
  <2>1. pc[r] = "queued" /\ pc'[r] = "create" /\ budget'[r] = budget[r] /\ box'[r] = box[r]
    BY <1>a DEF Admit, CallsTyped
  <2> QED
    BY <2>1, <1>t, <1>u DEF RequestOK, LifeOK, EarnedOK, Commands
<1>b. CASE CreateContainer(r)
  <2>1. /\ pc[r] = "create" /\ pc'[r] = "start" /\ budget'[r] = budget[r]
        /\ box'[r] = [state |-> "made", age |-> box[r].age, sleep |-> 0]
    BY <1>b DEF CreateContainer, SetBox, Enter, CallsTyped
  <2>2. box[r].age = 0 /\ budget[r] <= CallBudget[req[r].asked]
    BY <2>1, <1>u DEF LifeOK, NoBox
  <2>3. box'[r].state = "made" /\ box'[r].age + budget'[r] <= CallBudget[req'[r].asked]
    BY <2>1, <2>2, <1>t, TypedAt
  <2> QED
    BY <2>1, <2>3 DEF RequestOK, LifeOK, InTime, EarnedOK, Commands
<1>c. CASE ContainerStart(r)
  <2>1. /\ pc[r] = "start" /\ pc'[r] = "write" /\ budget'[r] = budget[r]
        /\ box'[r] = [state |-> "up", age |-> box[r].age,
                      sleep |-> ContainerLifetime(req[r].asked)]
    BY <1>c DEF ContainerStart, Started, Enter, CallsTyped
  <2>2. box[r].age + budget[r] <= CallBudget[req[r].asked]
    BY <2>1, <1>u DEF LifeOK, InTime
  <2>3. /\ box'[r].state = "up" /\ box'[r].age + budget'[r] <= CallBudget[req'[r].asked]
        /\ budget'[r] < box'[r].sleep
    BY <2>1, <2>2, <1>t, TypedAt
  <2> QED
    BY <2>1, <2>3 DEF RequestOK, LifeOK, InTime, EarnedOK, Commands
<1>d. CASE UpdateResources(r)
  <2>1. /\ pc[r] = "update" /\ pc'[r] = "run" /\ budget'[r] = budget[r] /\ box'[r] = box[r]
        /\ spent'[r] = 0 /\ timer'[r] = ClampTimeout(req[r].asked)
    BY <1>d DEF UpdateResources, Enter, Timeout, Commands, CallsTyped
  <2>2. LifeOK(r)'
    BY <2>1, <1>t, <1>u DEF LifeOK, InTime, Commands
  <2>3. EarnedOK(r)'
    BY <2>1, <1>t, TypedAt DEF EarnedOK
  <2> QED
    BY <2>2, <2>3 DEF RequestOK
<1>e. CASE CommandSucceeds(r)
  <2>1. PICK phase \in {"compile", "cleanup", "update"} : Enter(r, phase)
    BY <1>e DEF CommandSucceeds, NextPhases
  <2>2. /\ pc[r] \in Commands /\ pc'[r] = phase /\ budget'[r] = budget[r] /\ box'[r] = box[r]
        /\ spent'[r] = 0 /\ (phase = "compile" => timer'[r] = CompileTimeout)
    BY <1>e, <2>1 DEF CommandSucceeds, Enter, Timeout, Commands, CallsTyped
  <2>3. LifeOK(r)'
    BY <2>2, <1>t, <1>u DEF LifeOK, InTime, Commands
  <2>4. EarnedOK(r)'
    BY <2>2, LimitsTyped DEF EarnedOK
  <2> QED
    BY <2>3, <2>4 DEF RequestOK
<1>f. CASE Cancel(r)
  <2>1. /\ pc'[r] = pc[r] /\ budget'[r] = 0 /\ box'[r] = box[r] /\ timer'[r] = timer[r]
        /\ spent'[r] = spent[r] /\ budget[r] > 0
    BY <1>f DEF Cancel, CallsTyped
  <2>2. LifeOK(r)'
    BY <2>1, <1>t, <1>u, TypedAt DEF LifeOK, InTime
  <2>3. EarnedOK(r)'
    BY <2>1, <1>t, <1>u DEF EarnedOK
  <2> QED
    BY <2>2, <2>3 DEF RequestOK
<1>g. CASE Expire(r)
  <2>1. /\ box[r].state = "up" /\ box[r].sleep = 0 /\ pc'[r] = pc[r] /\ budget'[r] = budget[r]
        /\ timer'[r] = timer[r] /\ outcome'[r] = outcome[r] /\ spent'[r] = spent[r]
        /\ ending'[r] = ending[r]
        /\ box'[r] = [state |-> "stopped", age |-> box[r].age, sleep |-> 0]
    BY <1>g DEF Expire, callVars, SetBox, CallsTyped
  <2>2. pc[r] \notin Commands \cup {"update", "start", "new", "queued", "create"}
    BY <2>1, <1>u, TypedAt DEF LifeOK, NoBox
  <2>3. LifeOK(r)'
    BY <2>1, <2>2, <1>t, <1>u DEF LifeOK
  <2>4. EarnedOK(r)'
    BY <2>1, <1>t, <1>u DEF EarnedOK, JustVerdict
  <2> QED
    BY <2>3, <2>4 DEF RequestOK
<1> QED
  BY <1>a, <1>b, <1>c, <1>d, <1>e, <1>f, <1>g

\* Every way into the removal: the container is there, with the tail to go.
LEMMA RemoveOK ==
  ASSUME CallsTyped, NEW r \in Requests, RequestOK(r), req'[r] = req[r],
         pc[r] \in Commands \cup {"start", "update"}, pc'[r] = "remove", timer'[r] = TailTime,
         box'[r].state # "none", box'[r].age = box[r].age,
         budget'[r] > 0 => JustVerdict(r)'
  PROVE  RequestOK(r)'
<1>1. box[r].age + budget[r] <= CallBudget[req[r].asked]
  BY DEF RequestOK, LifeOK, InTime
<1>2. box[r].age + TailTime <= CallBudget[req[r].asked] + TailTime
  BY <1>1, TypedAt, LimitsTyped
<1>3. LifeOK(r)'
  BY <1>2 DEF LifeOK, Commands
<1>4. EarnedOK(r)'
  BY DEF EarnedOK
<1> QED
  BY <1>3, <1>4 DEF RequestOK

\* A handler that is over, or failed with an error of its own.
LEMMA ErrorOK ==
  ASSUME CallsTyped, NEW r \in Requests, RequestOK(r),
         \/ GiveUp(r) \/ Answer(r) \/ CreateContainerFails(r) \/ CtxCallFails(r) \/ ExecFails(r)
  PROVE  RequestOK(r)'
<1>t. req'[r] = req[r]
  BY AskedKept DEF Handler
<1>a. CASE GiveUp(r) \/ Answer(r)
  <2>1. pc'[r] = "done"
    BY <1>a DEF GiveUp, Answer, Leave
  <2> QED
    BY <2>1, DoneOK
<1>b. CASE CreateContainerFails(r)
  <2>1. pc'[r] = "answer" /\ outcome'[r] = "internal_error"
    BY <1>b DEF CreateContainerFails, CallsTyped
  <2> QED
    BY <2>1 DEF RequestOK, LifeOK, EarnedOK, JustVerdict, Commands
<1>c. CASE CtxCallFails(r)
  <2>1. /\ pc[r] \in {"start", "update"} /\ pc'[r] = "remove" /\ timer'[r] = TailTime
        /\ outcome'[r] = "internal_error"
    BY <1>c DEF CtxCallFails, Return, CallsTyped
  <2>2. box[r].state # "none"
    BY <2>1 DEF RequestOK, LifeOK
  <2>3. box'[r].state # "none" /\ box'[r].age = box[r].age
    <3>1. UNCHANGED box \/ Started(r)
      BY <1>c DEF CtxCallFails
    <3> QED
      BY <2>2, <3>1 DEF Started, CallsTyped
  <2>4. JustVerdict(r)'
    BY <2>1 DEF JustVerdict
  <2> QED
    BY <1>t, <2>1, <2>3, <2>4, RemoveOK
<1>d. CASE ExecFails(r)
  <2>1. /\ pc[r] \in Commands /\ pc'[r] = "remove" /\ timer'[r] = TailTime
        /\ outcome'[r] = "internal_error" /\ box'[r] = box[r]
    BY <1>d DEF ExecFails, Return, CallsTyped
  <2>2. box[r].state # "none"
    BY <2>1 DEF RequestOK, LifeOK
  <2>3. JustVerdict(r)'
    BY <2>1 DEF JustVerdict
  <2> QED
    BY <1>t, <2>1, <2>2, <2>3, RemoveOK
<1> QED
  BY <1>a, <1>b, <1>c, <1>d

\* The time limit: a TLE, or a compile error, after the whole of it.
LEMMA TimesOutOK ==
  ASSUME CallsTyped, NEW r \in Requests, RequestOK(r), NEW kills \in BOOLEAN, TimesOut(r, kills)
  PROVE  RequestOK(r)'
<1>t. req'[r] = req[r]
  BY AskedKept DEF Handler
<1>1. /\ pc[r] \in Commands /\ pc'[r] = "remove" /\ timer'[r] = TailTime
      /\ outcome'[r] = IF pc[r] = "run" THEN "time_limit_exceeded" ELSE Blame(r)
      /\ ending'[r] = IF timer[r] = 0 THEN "limit" ELSE "context"
      /\ (timer[r] = 0 \/ budget[r] = 0) /\ budget'[r] = budget[r] /\ spent'[r] = spent[r]
  BY DEF TimesOut, TimeIsUp, CtxDone, Return, VerdictOf, CallsTyped
<1>2. box[r].state = "up"
  BY <1>1 DEF RequestOK, LifeOK
<1>3. box'[r].state # "none" /\ box'[r].age = box[r].age
  BY <1>2 DEF TimesOut, SetBox, CallsTyped
<1>4. ASSUME budget'[r] > 0
      PROVE  JustVerdict(r)'
  <2>1. timer[r] = 0 /\ ending'[r] = "limit"
    BY <1>1, <1>4, TypedAt
  <2>2. pc[r] = "run" => spent[r] = ClampTimeout(req[r].asked)
    BY <2>1, TypedAt DEF RequestOK, EarnedOK
  <2>3. pc[r] = "compile" => spent[r] = CompileTimeout
    BY <2>1, TypedAt, LimitsTyped DEF RequestOK, EarnedOK
  <2> QED
    BY <1>1, <1>t, <2>1, <2>2, <2>3 DEF JustVerdict, Blame
<1> QED
  BY <1>t, <1>1, <1>3, <1>4, RemoveOK DEF Commands

LEMMA RemovedOK ==
  ASSUME CallsTyped, NEW r \in Requests, RequestOK(r), NEW removes \in BOOLEAN,
         RemoveContainer(r, removes)
  PROVE  RequestOK(r)'
<1>t. req'[r] = req[r]
  BY AskedKept DEF Handler
<1>1. /\ pc[r] = "remove" /\ pc'[r] = "answer" /\ outcome'[r] = outcome[r]
      /\ budget'[r] = budget[r] /\ spent'[r] = spent[r] /\ ending'[r] = ending[r]
  BY DEF RemoveContainer, CallsTyped
<1> QED
  BY <1>t, <1>1 DEF RequestOK, LifeOK, EarnedOK, JustVerdict, Commands

LEMMA CommandFailsOK ==
  ASSUME CallsTyped, NEW r \in Requests, RequestOK(r), NEW why \in Whys, CommandFails(r, why)
  PROVE  RequestOK(r)'
<1>t. req'[r] = req[r]
  BY AskedKept DEF Program
<1>1. /\ pc[r] \in Commands /\ pc'[r] = "remove" /\ timer'[r] = TailTime
      /\ outcome'[r] = Blame(r) /\ ending'[r] = why /\ box'[r] = box[r]
  BY DEF CommandFails, Return, CallsTyped
<1>2. box[r].state = "up"
  BY <1>1 DEF RequestOK, LifeOK
<1>3. why \in {"exit", "memory", "signal"}
  BY <1>2 DEF CommandFails, Ends
<1>4. JustVerdict(r)'
  BY <1>1, <1>3 DEF JustVerdict, Blame
<1> QED
  BY <1>t, <1>1, <1>2, <1>4, RemoveOK

LEMMA RunEndsOK ==
  ASSUME CallsTyped, NEW r \in Requests, RequestOK(r), NEW code \in Codes, NEW why \in Whys,
         NEW chunks \in Outputs, RunEnds(r, code, why, chunks)
  PROVE  RequestOK(r)'
<1>t. req'[r] = req[r]
  BY AskedKept DEF Program
<1>1. PICK oom \in {FALSE, why = "memory"}, matches \in BOOLEAN :
        Return(r, VerdictOf([timedOut |-> FALSE, oom |-> oom, code |-> code, matches |-> matches]))
  BY DEF RunEnds, OutputsMatch
<1>2. /\ pc[r] = "run" /\ pc'[r] = "remove" /\ timer'[r] = TailTime
      /\ ending'[r] = why /\ box'[r] = box[r]
  BY <1>1 DEF RunEnds, Return, CallsTyped
<1>3. box[r].state = "up"
  BY <1>2 DEF RequestOK, LifeOK, Commands
<1>4. outcome'[r] = IF oom \/ code = SigkillExit THEN "memory_limit_exceeded"
                   ELSE IF code # 0 THEN "runtime_error"
                   ELSE IF matches THEN "accepted" ELSE "wrong_answer"
  BY <1>1 DEF Return, VerdictOf, CallsTyped
<1>5. /\ why \in {"exit", "signal", "memory"}
      /\ why = "exit" => code # SigkillExit
      /\ why = "signal" => code = SigkillExit
  BY <1>3 DEF RunEnds, Ends, SigkillExit
<1>6. JustVerdict(r)'
  BY <1>2, <1>4, <1>5 DEF JustVerdict
<1> QED
  BY <1>t, <1>2, <1>3, <1>6, RemoveOK DEF Commands

LEMMA ArriveOK ==
  ASSUME CallsTyped, NEW r \in Requests, NEW valid \in BOOLEAN, Arrive(r, valid), RequestOK(r)
  PROVE  RequestOK(r)'
<1>1. /\ pc[r] = "new" /\ pc'[r] = (IF valid THEN "queued" ELSE "done") /\ req'[r] = req[r]
      /\ valid => budget'[r] = CallBudget[req[r].asked] /\ box'[r] = box[r]
  BY DEF Arrive, CallsTyped
<1>2. box'[r] = box[r]
  BY DEF Arrive
<1> QED
  BY <1>1, <1>2, TypedAt DEF RequestOK, LifeOK, EarnedOK, Commands

\* No janitor finds a container stale that a handler still uses.
LEMMA ReapOK ==
  ASSUME CallsTyped, NEW x \in Executors, NEW r \in Requests, NEW removes \in BOOLEAN,
         ReapStale(x, r, removes), RequestOK(r)
  PROVE  RequestOK(r)'
<1>1. /\ box[r].state # "none" /\ box[r].age >= StaleSandboxAge
      /\ pc'[r] = pc[r] /\ req'[r] = req[r] /\ budget'[r] = budget[r] /\ timer'[r] = timer[r]
      /\ outcome'[r] = outcome[r] /\ spent'[r] = spent[r] /\ ending'[r] = ending[r]
  BY DEF ReapStale, Listed, Exists, IsStale, callVars
<1>2. ~(pc[r] \in Commands \cup {"update", "start"})
  <2>1. SUFFICES ASSUME pc[r] \in Commands \cup {"update", "start"} PROVE FALSE
    OBVIOUS
  <2>2. box[r].age + budget[r] <= CallBudget[req[r].asked]
    BY <2>1 DEF RequestOK, LifeOK, InTime
  <2> QED
    BY <1>1, <2>2, TypedAt, LimitsTyped
<1>3. pc[r] # "remove"
  <2>1. SUFFICES ASSUME pc[r] = "remove" PROVE FALSE
    OBVIOUS
  <2>2. box[r].age + timer[r] <= CallBudget[req[r].asked] + TailTime
    BY <2>1 DEF RequestOK, LifeOK
  <2> QED
    BY <1>1, <2>2, TypedAt, LimitsTyped
<1>4. pc[r] \notin {"new", "queued", "create"}
  BY <1>1 DEF RequestOK, LifeOK, NoBox
<1>5. LifeOK(r)'
  BY <1>1, <1>2, <1>3, <1>4 DEF LifeOK
<1>6. EarnedOK(r)'
  BY <1>1 DEF RequestOK, EarnedOK, JustVerdict
<1> QED
  BY <1>5, <1>6 DEF RequestOK

LEMMA CrashOK ==
  ASSUME CallsTyped, NEW x \in Executors, Crash(x), NEW r \in Requests, RequestOK(r)
  PROVE  RequestOK(r)'
<1>1. pc'[r] = "done" \/ Same(r)
  BY DEF Crash, Leave, Same
<1> QED
  BY <1>1, DoneOK, SameOK

\* In one tick the patience, the sleep and the timer lose what the age wins.
LEMMA TickOK ==
  ASSUME CallsTyped, Tick, NEW r \in Requests, RequestOK(r)
  PROVE  RequestOK(r)'
<1>1. /\ pc'[r] = pc[r] /\ req'[r] = req[r] /\ outcome'[r] = outcome[r] /\ ending'[r] = ending[r]
      /\ budget'[r] = IF pc[r] \in Active THEN Decrement(budget[r]) ELSE budget[r]
      /\ timer'[r] = IF pc[r] \in Commands \cup {"remove"} THEN Decrement(timer[r]) ELSE timer[r]
      /\ spent'[r] = spent[r] + (IF pc[r] \in {"compile", "run"} THEN 1 ELSE 0)
      /\ ~Overdue(r)
  BY DEF Tick
<1>2. /\ box[r].state = "none" => box'[r] = box[r]
      /\ box[r].state # "none" =>
           box'[r] = [state |-> box[r].state, age |-> Lesser(box[r].age + 1, StaleSandboxAge),
                      sleep |-> Decrement(box[r].sleep)]
  BY DEF Tick, Exists
<1>3. box'[r].state = box[r].state /\ box'[r].age <= box[r].age + 1
      /\ box'[r].sleep = (IF box[r].state = "none" THEN box[r].sleep ELSE Decrement(box[r].sleep))
  BY <1>2, TypedAt, LimitsTyped DEF Lesser
<1>4. /\ pc[r] \in CtxCalls \cup Commands \cup {"queued"} => budget[r] > 0
      /\ pc[r] \in Commands \cup {"remove"} => timer[r] > 0
  BY <1>1, TypedAt DEF Overdue
<1>5. CASE pc[r] \in Commands \cup {"start", "update"}
  <2>1. budget[r] > 0 /\ budget'[r] = budget[r] - 1 /\ InTime(r) /\ box[r].state # "none"
    BY <1>1, <1>4, <1>5, TypedAt DEF Active, Admitted, CtxCalls, Decrement, RequestOK, LifeOK
  <2>2. box'[r].age + budget'[r] <= CallBudget[req[r].asked]
    <3>1. box'[r].age \in Nat
      BY <1>2, <2>1, TypedAt, LimitsTyped DEF Lesser
    <3> QED
      BY <3>1, <2>1, <1>3, TypedAt DEF InTime
  <2>3. budget[r] < box[r].sleep => budget'[r] < box'[r].sleep
    BY <1>3, <2>1, TypedAt DEF Decrement
  <2>4. LifeOK(r)'
    BY <1>1, <1>3, <1>5, <2>2, <2>3 DEF RequestOK, LifeOK, InTime, Commands
  <2>5. pc[r] \in {"compile", "run"} => spent'[r] + timer'[r] = spent[r] + timer[r]
    BY <1>1, <1>4, TypedAt DEF Commands, Decrement
  <2>6. EarnedOK(r)'
    BY <1>1, <1>5, <2>5 DEF RequestOK, EarnedOK, Commands
  <2> QED
    BY <2>4, <2>6 DEF RequestOK
<1>6. CASE pc[r] = "remove"
  <2>1. timer'[r] = timer[r] - 1 /\ timer[r] > 0 /\ spent'[r] = spent[r]
    BY <1>1, <1>4, <1>6, TypedAt DEF Decrement
  <2>2. box'[r].age \in Nat
    BY <1>2, TypedAt, LimitsTyped DEF Lesser
  <2>3. box[r].state # "none" /\ box[r].age + timer[r] <= CallBudget[req[r].asked] + TailTime
    BY <1>6 DEF RequestOK, LifeOK
  <2>4. box'[r].age + timer'[r] <= CallBudget[req[r].asked] + TailTime
    BY <2>1, <2>2, <2>3, <1>3, TypedAt, LimitsTyped
  <2>5. LifeOK(r)'
    BY <1>1, <1>3, <1>6, <2>3, <2>4 DEF LifeOK, Commands
  <2>6. budget'[r] > 0 => budget[r] > 0
    BY <1>1, TypedAt DEF Decrement
  <2>7. EarnedOK(r)'
    BY <1>1, <1>6, <2>1, <2>6 DEF RequestOK, EarnedOK, JustVerdict
  <2> QED
    BY <2>5, <2>7 DEF RequestOK
<1>7. CASE pc[r] \notin Commands \cup {"start", "update", "remove"}
  <2>1. pc[r] # "answer"
    BY <1>1 DEF Overdue
  <2>2. pc[r] \in {"queued", "create"} =>
          budget'[r] <= budget[r] /\ budget[r] <= CallBudget[req[r].asked]
    BY <1>1, TypedAt DEF Active, Admitted, CtxCalls, Decrement, RequestOK, LifeOK
  <2>3. budget'[r] \in Nat
    BY <1>1, TypedAt DEF Decrement
  <2>4. pc[r] \in {"queued", "create"} => budget'[r] <= CallBudget[req[r].asked]
    BY <2>2, <2>3, TypedAt
  <2>5. pc[r] \in {"new", "queued", "create"} => box'[r] = box[r]
    BY <1>2 DEF RequestOK, LifeOK, NoBox
  <2>6. LifeOK(r)'
    BY <1>1, <1>7, <2>4, <2>5 DEF RequestOK, LifeOK
  <2>7. EarnedOK(r)'
    BY <1>1, <1>7, <2>1 DEF EarnedOK, Commands
  <2> QED
    BY <2>6, <2>7 DEF RequestOK
<1> QED
  BY <1>5, <1>6, <1>7

LEMMA RequestsStep ==
  ASSUME CallsTyped, \A r \in Requests : RequestOK(r), [Next]_vars
  PROVE  \A r \in Requests : RequestOK(r)'
<1> SUFFICES ASSUME NEW s \in Requests PROVE RequestOK(s)'
  OBVIOUS
<1>1. RequestOK(s)
  OBVIOUS
<1>a. ASSUME NEW r \in Requests, NEW valid \in BOOLEAN, Arrive(r, valid)
      PROVE  RequestOK(s)'
  <2>1. CASE s = r
    BY <1>a, <1>1, <2>1, ArriveOK
  <2>2. CASE s # r
    <3>1. Same(s)
      BY <1>a, <2>2 DEF Arrive, Same, CallsTyped
    <3> QED
      BY <1>1, <3>1, SameOK
  <2> QED
    BY <2>1, <2>2
<1>b. ASSUME NEW r \in Requests, Handler(r) \/ Program(r) \/ Cancel(r) \/ Expire(r)
      PROVE  RequestOK(s)'
  <2>1. CASE s # r
    BY <1>b, <1>1, <2>1, OthersSame, SameOK
  <2>2. CASE s = r
    <3>1. RequestOK(r)
      OBVIOUS
    <3>2. RequestOK(r)'
      BY <1>b, <3>1, PhaseOK, ErrorOK, TimesOutOK, RemovedOK, CommandFailsOK, RunEndsOK
      DEF Handler, Program
    <3> QED
      BY <2>2, <3>2
  <2> QED
    BY <2>1, <2>2
<1>c. ASSUME NEW x \in Executors, NEW r \in Requests, NEW removes \in BOOLEAN,
             ReapStale(x, r, removes)
      PROVE  RequestOK(s)'
  <2>1. CASE s = r
    BY <1>c, <1>1, <2>1, ReapOK
  <2>2. CASE s # r
    <3>1. Same(s)
      BY <1>c, <2>2 DEF ReapStale, callVars, SetBox, Same, CallsTyped
    <3> QED
      BY <1>1, <3>1, SameOK
  <2> QED
    BY <2>1, <2>2
<1>d. ASSUME UNCHANGED <<callVars, box>>
      PROVE  RequestOK(s)'
  <2>1. Same(s)
    BY <1>d DEF callVars, Same
  <2> QED
    BY <1>1, <2>1, SameOK
<1>e. ASSUME NEW x \in Executors, Drain(x) \/ GracefulStop(x) \/ Restart(x)
      PROVE  UNCHANGED <<callVars, box>>
  BY <1>e DEF Drain, GracefulStop, Restart
<1>f. ASSUME UNCHANGED vars
      PROVE  UNCHANGED <<callVars, box>>
  BY <1>f DEF vars, callVars
<1>g. ASSUME NEW x \in Executors, Crash(x)
      PROVE  RequestOK(s)'
  BY <1>g, <1>1, CrashOK
<1>h. ASSUME Tick
      PROVE  RequestOK(s)'
  BY <1>h, <1>1, TickOK
<1> QED
  BY <1>a, <1>b, <1>c, <1>d, <1>e, <1>f, <1>g, <1>h DEF Next, Sweep

-----------------------------------------------------------------------------
(* The text of an accepted run.                                            *)

TextOK(r) == pc[r] \in {"remove", "answer"} => AcceptedMeansEqual(r)

TextsOK == ComparisonIsExact => \A r \in Requests : TextOK(r)

LEMMA TextKept ==
  ASSUME NEW r \in Requests, TextOK(r), outcome'[r] = outcome[r], written'[r] = written[r],
         pc[r] \in {"remove", "answer"} \/ pc'[r] = pc[r]
  PROVE  TextOK(r)'
  BY DEF TextOK, AcceptedMeansEqual

LEMMA TextNeedless ==
  ASSUME NEW r \in Requests,
         pc'[r] \notin {"remove", "answer"} \/ outcome'[r] \notin {"accepted", "wrong_answer"}
  PROVE  TextOK(r)'
  BY DEF TextOK, AcceptedMeansEqual

LEMMA TextOfRun ==
  ASSUME CallsTyped, ComparisonIsExact, NEW r \in Requests, NEW code \in Codes, NEW why \in Whys,
         NEW chunks \in Outputs, RunEnds(r, code, why, chunks)
  PROVE  TextOK(r)'
<1>1. PICK oom \in {FALSE, why = "memory"} :
        Return(r, VerdictOf([timedOut |-> FALSE, oom |-> oom, code |-> code,
                 matches |-> OutputsMatch(Expected, Captured(OutputLimit, chunks))]))
  BY DEF RunEnds
<1>2. DEFINE same == OutputsMatch(Expected, Captured(OutputLimit, chunks))
<1>3. outcome'[r] = IF oom \/ code = SigkillExit THEN "memory_limit_exceeded"
                   ELSE IF code # 0 THEN "runtime_error"
                   ELSE IF same THEN "accepted" ELSE "wrong_answer"
  BY <1>1 DEF Return, VerdictOf, CallsTyped
<1>4. written'[r] = IF code = 0 THEN chunks ELSE written[r]
  BY DEF RunEnds, CallsTyped
<1>5. same <=> SignificantText(Kept(chunks)) = SignificantText(Expected)
  BY DEF ComparisonIsExact
<1> HIDE DEF same
<1> QED
  BY <1>3, <1>4, <1>5 DEF TextOK, AcceptedMeansEqual

LEMMA TextStep ==
  ASSUME CallsTyped, TextsOK, [Next]_vars
  PROVE  TextsOK'
<1> SUFFICES ASSUME ComparisonIsExact, NEW s \in Requests, TextOK(s) PROVE TextOK(s)'
  BY DEF TextsOK, ComparisonIsExact, Kept
<1>a. ASSUME Same(s) PROVE TextOK(s)'
  BY <1>a, TextKept DEF Same
<1>b. ASSUME NEW r \in Requests, NEW valid \in BOOLEAN, Arrive(r, valid)
      PROVE  TextOK(s)'
  <2>1. s = r => pc'[s] \in {"queued", "done"}
    BY <1>b DEF Arrive, CallsTyped
  <2>2. s # r => Same(s)
    BY <1>b DEF Arrive, Same, CallsTyped
  <2> QED
    BY <2>1, <2>2, <1>a, TextNeedless
<1>c. ASSUME NEW r \in Requests, Handler(r) \/ Program(r) \/ Cancel(r) \/ Expire(r)
      PROVE  TextOK(s)'
  <2>1. CASE s # r
    BY <1>c, <2>1, <1>a, OthersSame
  <2>2. CASE s = r
    <3>1. CASE Cancel(r) \/ Expire(r)
      BY <3>1, <2>2, TextKept DEF Cancel, Expire, callVars
    <3>2. CASE Admit(r) \/ GiveUp(r) \/ Answer(r)
      <4>1. pc'[r] \in {"create", "done"}
        BY <3>2 DEF Admit, GiveUp, Answer, Leave, CallsTyped
      <4> QED
        BY <4>1, <2>2, TextNeedless
    <3>3. CASE CreateContainer(r) \/ ContainerStart(r) \/ UpdateResources(r) \/ CommandSucceeds(r)
      <4>1. pc'[r] \in {"start", "write", "run", "compile", "cleanup", "update"}
        BY <3>3 DEF CreateContainer, ContainerStart, UpdateResources, CommandSucceeds, NextPhases,
           Enter, CallsTyped
      <4> QED
        BY <4>1, <2>2, TextNeedless
    <3>4. CASE CreateContainerFails(r) \/ CtxCallFails(r) \/ ExecFails(r)
      <4>1. outcome'[r] = "internal_error"
        BY <3>4 DEF CreateContainerFails, CtxCallFails, ExecFails, Return, CallsTyped
      <4> QED
        BY <4>1, <2>2, TextNeedless
    <3>5. ASSUME NEW kills \in BOOLEAN, TimesOut(r, kills) PROVE TextOK(s)'
      <4>1. outcome'[r] \in {"time_limit_exceeded", "compilation_error", "internal_error"}
        BY <3>5 DEF TimesOut, Return, VerdictOf, Blame, CallsTyped
      <4> QED
        BY <4>1, <2>2, TextNeedless
    <3>6. ASSUME NEW removes \in BOOLEAN, RemoveContainer(r, removes) PROVE TextOK(s)'
      BY <3>6, <2>2, TextKept DEF RemoveContainer
    <3>7. ASSUME NEW why \in Whys, CommandFails(r, why) PROVE TextOK(s)'
      <4>1. outcome'[r] \in {"compilation_error", "internal_error"}
        BY <3>7 DEF CommandFails, Return, Blame, CallsTyped
      <4> QED
        BY <4>1, <2>2, TextNeedless
    <3> QED
      BY <1>c, <2>2, <3>1, <3>2, <3>3, <3>4, <3>5, <3>6, <3>7, TextOfRun DEF Handler, Program
  <2> QED
    BY <2>1, <2>2
<1>d. ASSUME UNCHANGED callVars PROVE TextOK(s)'
  BY <1>d, TextKept DEF callVars
<1>e. ASSUME NEW x \in Executors, Sweep(x) \/ Drain(x) \/ GracefulStop(x) \/ Restart(x)
      PROVE  UNCHANGED callVars
  BY <1>e DEF Sweep, ReapStale, Drain, GracefulStop, Restart
<1>f. ASSUME UNCHANGED vars PROVE UNCHANGED callVars
  BY <1>f DEF vars, callVars
<1>g. ASSUME NEW x \in Executors, Crash(x) PROVE TextOK(s)'
  <2>1. pc'[s] = "done" \/ Same(s)
    BY <1>g DEF Crash, Leave, Same
  <2> QED
    BY <2>1, <1>a, TextNeedless
<1>h. ASSUME Tick PROVE TextOK(s)'
  BY <1>h, TextKept DEF Tick
<1> QED
  BY <1>b, <1>c, <1>d, <1>e, <1>f, <1>g, <1>h DEF Next

-----------------------------------------------------------------------------
(* The theorems.                                                           *)

\* What every state satisfies, whatever fails, is cancelled or crashes.
Inv ==
  /\ CallsTyped
  /\ SlotsTyped
  /\ SlotsAreHeld
  /\ \A r \in Requests : RequestOK(r)
  /\ TextsOK

LEMMA InvInit == Init => Inv
<1> SUFFICES ASSUME Init PROVE Inv
  OBVIOUS
<1>1. CallsTyped
  <2>1. NoBox \in Boxes
    BY LimitsTyped DEF NoBox, Boxes
  <2> QED
    BY <2>1, LimitsTyped DEF Init, CallsTyped, Verdicts
<1>2. SlotsTyped
  BY LimitsTyped DEF Init, SlotsTyped
<1>3. SlotsAreHeld
  <2>1. \A x \in Executors : Held(x) = {}
    BY AdmittedSteps DEF Init, Held
  <2> QED
    BY <2>1, FS_EmptySet, SlotsAsHeld DEF Init
<1>4. \A r \in Requests : RequestOK(r)
  BY DEF Init, RequestOK, LifeOK, EarnedOK, Commands
<1>5. TextsOK
  BY DEF Init, TextsOK, TextOK
<1> QED
  BY <1>1, <1>2, <1>3, <1>4, <1>5 DEF Inv

LEMMA InvStep == Inv /\ [Next]_vars => Inv'
<1> SUFFICES ASSUME Inv, [Next]_vars PROVE Inv'
  OBVIOUS
<1>1. CallsTyped /\ SlotsTyped /\ SlotsAreHeld /\ (\A r \in Requests : RequestOK(r)) /\ TextsOK
  BY DEF Inv
<1>2. CallsTyped'
  BY <1>1, CallsTypedStep
<1>3. SlotsTyped' /\ SlotsAreHeld'
  BY <1>1, SlotsStep
<1>4. \A r \in Requests : RequestOK(r)'
  BY <1>1, RequestsStep
<1>5. TextsOK'
  BY <1>1, TextStep
<1> QED
  BY <1>2, <1>3, <1>4, <1>5 DEF Inv

LEMMA InvHolds == Spec => []Inv
  BY InvInit, InvStep, PTL DEF Spec

\* Type correctness of calls, containers and semaphores under every fault.
THEOREM ExecutorTyped == Spec => []TypeOK
<1>1. Inv => TypeOK
  BY DEF Inv, CallsTyped, SlotsTyped, TypeOK, Boxes
<1> QED
  BY <1>1, InvHolds, PTL

\* The semaphore counts the calls that are served, and with its type never
\* more than MaxConcurrent, through cancellations, failures and crashes.
THEOREM SemaphoreCounts == Spec => []SlotsAreHeld
<1>1. Inv => SlotsAreHeld
  BY DEF Inv
<1> QED
  BY <1>1, InvHolds, PTL

\* For all limits for which callers give up before containers end and are
\* reaped, no sleep and no janitor ends a container in use.
THEOREM ContainersInUseAreUp == Spec => []InUseIsUp
<1>1. Inv => InUseIsUp
  <2>1. SUFFICES ASSUME Inv, NEW r \in Requests
                 PROVE  /\ pc[r] = "start" => box[r].state \in {"made", "up"}
                        /\ pc[r] \in Commands \cup {"update"} => box[r].state = "up"
                        /\ pc[r] = "remove" => box[r].state # "none"
    BY DEF InUseIsUp
  <2>2. LifeOK(r)
    BY <2>1 DEF Inv, RequestOK
  <2> QED
    BY <2>2 DEF LifeOK
<1> QED
  BY <1>1, InvHolds, PTL

\* Every verdict has its cause, for any time limits: TLE only after the whole
\* limit, MLE and compile errors never for a kill of ours.
THEOREM VerdictsHaveCauses ==
  Spec => [](\A r \in Requests : pc[r] = "answer" /\ budget[r] > 0 => JustVerdict(r))
<1>1. Inv => \A r \in Requests : pc[r] = "answer" /\ budget[r] > 0 => JustVerdict(r)
  BY DEF Inv, RequestOK, EarnedOK
<1> QED
  BY <1>1, InvHolds, PTL

\* And accepted is equality of what counts in the texts, for every set of
\* outputs on which the comparison, which is about data alone, is exact.
THEOREM VerdictsAreEarned == Spec => [](ComparisonIsExact => VerdictIsEarned)
<1>1. Inv => (ComparisonIsExact => VerdictIsEarned)
  <2> SUFFICES ASSUME Inv, ComparisonIsExact, NEW r \in Requests, pc[r] = "answer", budget[r] > 0
               PROVE  JustVerdict(r) /\ AcceptedMeansEqual(r)
    BY DEF VerdictIsEarned, JustVerdict
  <2>1. JustVerdict(r)
    BY DEF Inv, RequestOK, EarnedOK
  <2>2. AcceptedMeansEqual(r)
    BY DEF Inv, TextsOK, TextOK
  <2> QED
    BY <2>1, <2>2
<1> QED
  BY <1>1, InvHolds, PTL
=============================================================================
