------------------------------ MODULE Executor ------------------------------
(***************************************************************************)
(* Executors that share one Docker daemon (services/executor): admission   *)
(* of calls, the phases of a sandbox, its removal on every path, the       *)
(* container's own end, the janitor, crash and graceful stop.              *)
(*                                                                         *)
(* Time passes in ticks.  A call of the daemon that is bound by a context  *)
(* returns in the tick in which the context is done.  A request makes one  *)
(* call, for which there is at most one container.                         *)
(***************************************************************************)
EXTENDS Output

CONSTANTS
  Executors,
  Requests,
  TimeLimits,      \* the limits callers ask for; 0 asks for the default
  CallBudget,      \* limit -> how long its caller waits for the answer
  MaxConcurrent,
  CompileTimeout,
  RunTimeout,      \* the default limit of a run
  RunTimeoutMax,
  WriteTimeout,    \* sourceWriteTimeout, also the limit of the cleanup
  LifetimeGrace,
  ReapSlack,       \* the five minutes of staleSandboxAge
  Expected,        \* the text a run is compared with
  Outputs,         \* what a program may print, in the chunks that arrive
  OutputLimit,     \* characters of it that are kept
  TailTime,        \* what may follow the last phase: kill, drain, inspects, remove
  MaxFaults        \* bound: faults and stops in one behaviour

Lesser(a, b) == IF a < b THEN a ELSE b

ClampTimeout(asked) == IF asked = 0 THEN RunTimeout ELSE Lesser(asked, RunTimeoutMax)

ContainerLifetime(asked) ==
  CompileTimeout + ClampTimeout(asked) + 2 * WriteTimeout + LifetimeGrace

StaleSandboxAge == 2 * (CompileTimeout + RunTimeoutMax) + ReapSlack

ValidConfig ==
  /\ {MaxConcurrent, RunTimeout, RunTimeoutMax, CompileTimeout} \subseteq Nat \ {0}
  /\ RunTimeout <= RunTimeoutMax

\* The caller gives up before its container ends by itself, and what it gave
\* up is removed before a janitor thinks it abandoned.
ASSUME ExecutorConstants ==
  /\ ValidConfig
  /\ IsFiniteSet(Requests) /\ IsFiniteSet(Executors)
  /\ TimeLimits \subseteq Nat
  /\ CallBudget \in [TimeLimits -> Nat]
  /\ {WriteTimeout, TailTime} \subseteq Nat \ {0}
  /\ {LifetimeGrace, ReapSlack, MaxFaults, OutputLimit} \subseteq Nat
  /\ \A a \in TimeLimits :
       /\ CallBudget[a] < ContainerLifetime(a)
       /\ CallBudget[a] + TailTime < StaleSandboxAge

VARIABLES
  proc,     \* executor -> "up", "draining" or "down"
  slots,    \* executor -> places of its semaphore that are taken
  pc,       \* request -> where its handler is
  req,      \* request -> its executor and the limit it asks for
  budget,   \* request -> ticks until its context is done
  timer,    \* request -> ticks until the step it is in is given up
  box,      \* request -> its container: state, age, what is left of its sleep
  outcome,  \* request -> the verdict, once decided
  spent,    \* history: ticks of the compiler or of the program
  ending,   \* history: what ended that command
  written,  \* history: what a program printed that ended well
  faults    \* faults and stops left

callVars == <<pc, req, budget, timer, outcome, spent, ending, written>>
vars == <<proc, slots, pc, req, budget, timer, box, outcome, spent, ending, written, faults>>

CtxCalls == {"create", "start", "update"}
Commands == {"write", "compile", "cleanup", "run"}
Admitted == CtxCalls \cup Commands \cup {"remove", "answer"}
Active == Admitted \cup {"queued"}

Verdicts == {"accepted", "wrong_answer", "runtime_error", "compilation_error",
             "time_limit_exceeded", "memory_limit_exceeded", "internal_error"}

TypeOK ==
  /\ proc \in [Executors -> {"up", "draining", "down"}]
  /\ slots \in [Executors -> 0..MaxConcurrent]
  /\ pc \in [Requests -> Active \cup {"new", "done"}]
  /\ req \in [Requests -> [on: Executors, asked: TimeLimits]]
  /\ budget \in [Requests -> Nat]
  /\ timer \in [Requests -> Nat]
  /\ box \in [Requests -> [state: {"none", "made", "up", "stopped"},
                           age: 0..StaleSandboxAge, sleep: Nat]]
  /\ outcome \in [Requests -> Verdicts \cup {"none"}]
  /\ spent \in [Requests -> Nat]
  /\ ending \in [Requests -> {"none", "exit", "memory", "signal", "stopped", "limit", "context"}]
  /\ written \in [Requests -> Outputs \cup {<<>>}]
  /\ faults \in 0..MaxFaults

NoBox == [state |-> "none", age |-> 0, sleep |-> 0]

Init ==
  /\ proc = [x \in Executors |-> "up"]
  /\ slots = [x \in Executors |-> 0]
  /\ pc = [r \in Requests |-> "new"]
  /\ req \in [Requests -> [on: Executors, asked: TimeLimits]]
  /\ budget = [r \in Requests |-> 0]
  /\ timer = [r \in Requests |-> 0]
  /\ box = [r \in Requests |-> NoBox]
  /\ outcome = [r \in Requests |-> "none"]
  /\ spent = [r \in Requests |-> 0]
  /\ ending = [r \in Requests |-> "none"]
  /\ written = [r \in Requests |-> <<>>]
  /\ faults = MaxFaults

Exists(r) == box[r].state # "none"

\* The handlers of gone are over: what they knew goes with them.
Leave(gone) ==
  LET Reset(f, v) == [r \in Requests |-> IF r \in gone THEN v ELSE f[r]]
  IN /\ pc' = Reset(pc, "done")
     /\ budget' = Reset(budget, 0) /\ timer' = Reset(timer, 0)
     /\ outcome' = Reset(outcome, "none")
     /\ spent' = Reset(spent, 0) /\ ending' = Reset(ending, "none")
     /\ written' = Reset(written, <<>>)

-----------------------------------------------------------------------------
(* Admission.                                                              *)

\* A malformed request is refused before anything else.  A server that is
\* going down takes no new call.
Arrive(r, valid) ==
  /\ pc[r] = "new" /\ proc[req[r].on] = "up"
  /\ pc' = [pc EXCEPT ![r] = IF valid THEN "queued" ELSE "done"]
  /\ budget' = [budget EXCEPT ![r] = IF valid THEN CallBudget[req[r].asked] ELSE 0]
  /\ UNCHANGED <<proc, slots, req, timer, box, outcome, spent, ending, written, faults>>

\* Deviation: the slot is taken whether there is one or not.
AdmitAtOnce(r) ==
  /\ pc[r] = "queued"
  /\ slots' = [slots EXCEPT ![req[r].on] = @ + 1]
  /\ pc' = [pc EXCEPT ![r] = "create"]
  /\ UNCHANGED <<proc, req, budget, timer, box, outcome, spent, ending, written, faults>>

\* The select of a slot and of the context: when both are ready either wins.
Admit(r) ==
  /\ pc[r] = "queued" /\ slots[req[r].on] < MaxConcurrent
  /\ slots' = [slots EXCEPT ![req[r].on] = @ + 1]
  /\ pc' = [pc EXCEPT ![r] = "create"]
  /\ UNCHANGED <<proc, req, budget, timer, box, outcome, spent, ending, written, faults>>

GiveUp(r) ==
  /\ pc[r] = "queued" /\ budget[r] = 0
  /\ Leave({r})
  /\ UNCHANGED <<proc, slots, req, box, faults>>

\* The caller goes away: its deadline, its shutdown, its connection.
Cancel(r) ==
  /\ pc[r] \in Active /\ budget[r] > 0
  /\ budget' = [budget EXCEPT ![r] = 0]
  /\ UNCHANGED <<proc, slots, pc, req, timer, box, outcome, spent, ending, written, faults>>

-----------------------------------------------------------------------------
(* The phases of a sandbox.                                                *)

\* A step fails for a reason it has, or by a fault of the daemon.
Fails(reason) ==
  \/ reason /\ UNCHANGED faults
  \/ faults > 0 /\ faults' = faults - 1

CtxDone(r) == budget[r] = 0

Timeout(r, phase) ==
  CASE phase = "compile" -> CompileTimeout
    [] phase = "run" -> ClampTimeout(req[r].asked)
    [] OTHER -> WriteTimeout

Enter(r, phase) ==
  /\ pc' = [pc EXCEPT ![r] = phase]
  /\ timer' = [timer EXCEPT ![r] = IF phase \in Commands THEN Timeout(r, phase) ELSE @]
  /\ spent' = [spent EXCEPT ![r] = 0]
  /\ ending' = [ending EXCEPT ![r] = "none"]
  /\ UNCHANGED outcome

\* Every return from Execute with a container runs the deferred removal.
Return(r, verdict) ==
  /\ pc' = [pc EXCEPT ![r] = "remove"]
  /\ timer' = [timer EXCEPT ![r] = TailTime]
  /\ outcome' = [outcome EXCEPT ![r] = verdict]

SetBox(r, state) ==
  box' = [box EXCEPT ![r] =
            IF state = "none" THEN NoBox
            ELSE [state |-> state, age |-> box[r].age,
                  sleep |-> IF state = "up" THEN box[r].sleep ELSE 0]]

CreateContainer(r) ==
  /\ pc[r] = "create" /\ ~CtxDone(r)
  /\ SetBox(r, "made")
  /\ Enter(r, "start")
  /\ UNCHANGED <<proc, slots, req, budget, written, faults>>

\* Without an answer there is no ID to remove: what was made stays behind.
CreateContainerFails(r) ==
  /\ pc[r] = "create" /\ Fails(CtxDone(r))
  /\ \E made \in BOOLEAN : SetBox(r, IF made THEN "made" ELSE "none")
  /\ pc' = [pc EXCEPT ![r] = "answer"]
  /\ outcome' = [outcome EXCEPT ![r] = "internal_error"]
  /\ UNCHANGED <<proc, slots, req, budget, timer, spent, ending, written>>

Started(r) ==
  box' = [box EXCEPT ![r] = [state |-> "up", age |-> box[r].age,
                             sleep |-> ContainerLifetime(req[r].asked)]]

ContainerStart(r) ==
  /\ pc[r] = "start" /\ box[r].state = "made" /\ ~CtxDone(r)
  /\ Started(r)
  /\ Enter(r, "write")
  /\ UNCHANGED <<proc, slots, req, budget, written, faults>>

\* The daemon may have started what it does not answer for.
CtxCallFails(r) ==
  /\ pc[r] \in {"start", "update"} /\ Fails(CtxDone(r) \/ box[r].state = "none")
  /\ Return(r, "internal_error")
  /\ UNCHANGED box \/ (pc[r] = "start" /\ box[r].state = "made" /\ Started(r))
  /\ UNCHANGED <<proc, slots, req, budget, spent, ending, written>>

\* The resources of a run replace those of the compiler.
UpdateResources(r) ==
  /\ pc[r] = "update" /\ ~CtxDone(r) /\ box[r].state = "up"
  /\ Enter(r, "run")
  /\ UNCHANGED <<proc, slots, req, budget, box, written, faults>>

\* Deviation: only the end of the output ends the wait.
OnlyTheOutput(r) == FALSE

TimeIsUp(r) == timer[r] = 0 \/ CtxDone(r)

\* The exec cannot be created, attached, read or inspected.
ExecFails(r) ==
  /\ pc[r] \in Commands
  /\ Fails(TimeIsUp(r) \/ box[r].state # "up")
  /\ Return(r, "internal_error")
  /\ UNCHANGED <<proc, slots, req, budget, box, spent, ending, written>>

\* The exit code of a process that was sent SIGKILL: 128 + 9.
SigkillExit == 137

\* Deviation: memory is looked at first, so our own SIGKILL looks like it.
MemoryFirst(res) ==
  IF res.oom \/ res.code = SigkillExit THEN "memory_limit_exceeded"
  ELSE IF res.timedOut THEN "time_limit_exceeded" ELSE "runtime_error"

\* A timeout beats everything, for we kill too; then memory; then crashes.
VerdictOf(res) ==
  IF res.timedOut THEN "time_limit_exceeded"
  ELSE IF res.oom \/ res.code = SigkillExit THEN "memory_limit_exceeded"
  ELSE IF res.code # 0 THEN "runtime_error"
  ELSE IF res.matches THEN "accepted" ELSE "wrong_answer"

\* What ends a process in the container: itself, a SIGKILL of its own, the
\* kernel when memory is out (which may hit a child only, so any code is
\* possible), or the end of the container.
Ends(r, code, why) ==
  IF box[r].state = "up"
  THEN \/ why = "exit" /\ code \in {0, 1}
       \/ why = "signal" /\ code = SigkillExit
       \/ why = "memory" /\ code \in {0, 1, SigkillExit}
  ELSE why = "stopped" /\ code = SigkillExit

Codes == {0, 1, SigkillExit}
Whys == {"exit", "signal", "memory", "stopped"}

\* Only some languages have a cleanup.
NextPhases(phase) ==
  CASE phase = "write" -> {"compile"}
    [] phase = "compile" -> {"cleanup", "update"}
    [] OTHER -> {"update"}

CommandSucceeds(r) ==
  /\ pc[r] \in Commands \ {"run"} /\ box[r].state = "up"
  /\ \E phase \in NextPhases(pc[r]) : Enter(r, phase)
  /\ UNCHANGED <<proc, slots, req, budget, box, written, faults>>

\* A compiler that fails is the program's fault, any other command is ours.
Blame(r) == IF pc[r] = "compile" THEN "compilation_error" ELSE "internal_error"

CommandFails(r, why) ==
  /\ pc[r] \in Commands \ {"run"}
  /\ \E code \in Codes \ {0} : Ends(r, code, why)
  /\ ending' = [ending EXCEPT ![r] = why]
  /\ Return(r, Blame(r))
  /\ UNCHANGED <<proc, slots, req, budget, box, spent, written, faults>>

\* The flag of the daemon may be missing: the inspect fails, or the kernel
\* accounts for it elsewhere.
RunEnds(r, code, why, chunks) ==
  /\ pc[r] = "run" /\ Ends(r, code, why)
  /\ written' = [written EXCEPT ![r] = IF code = 0 THEN chunks ELSE @]
  /\ ending' = [ending EXCEPT ![r] = why]
  /\ \E oom \in {FALSE, why = "memory"} :
       Return(r, VerdictOf([timedOut |-> FALSE, oom |-> oom, code |-> code,
                            matches |-> OutputsMatch(Expected, Captured(OutputLimit, chunks))]))
  /\ UNCHANGED <<proc, slots, req, budget, box, spent, faults>>

\* The exec's own limit or the caller's context ends the wait: the whole
\* container is killed.  The kill may fail.
TimesOut(r, kills) ==
  /\ pc[r] \in Commands /\ TimeIsUp(r)
  /\ Fails(kills)
  /\ SetBox(r, IF kills /\ box[r].state = "up" THEN "stopped" ELSE box[r].state)
  /\ ending' = [ending EXCEPT ![r] = IF timer[r] = 0 THEN "limit" ELSE "context"]
  /\ \E code \in Codes :
       Return(r, IF pc[r] = "run"
                 THEN VerdictOf([timedOut |-> TRUE, oom |-> FALSE, code |-> code,
                                 matches |-> FALSE])
                 ELSE Blame(r))
  /\ UNCHANGED <<proc, slots, req, budget, spent, written>>

\* The deferred removal has a context of its own; a failure is only logged.
RemoveContainer(r, removes) ==
  /\ pc[r] = "remove" /\ Fails(removes)
  /\ SetBox(r, IF removes THEN "none" ELSE box[r].state)
  /\ pc' = [pc EXCEPT ![r] = "answer"]
  /\ UNCHANGED <<proc, slots, req, budget, timer, outcome, spent, ending, written>>

\* Deviation: the slot is not given back.
KeepSlot(x) == UNCHANGED slots

FreeSlot(x) == slots' = [slots EXCEPT ![x] = @ - 1]

\* The slot is free and the caller, if it still waits, has its answer.
Answer(r) ==
  /\ pc[r] = "answer"
  /\ FreeSlot(req[r].on)
  /\ Leave({r})
  /\ UNCHANGED <<proc, req, box, faults>>

-----------------------------------------------------------------------------
(* The daemon, the janitor, the process, and time.                         *)

\* The container's sleep is over: it stops, and so does all that runs in it.
Expire(r) ==
  /\ box[r].state = "up" /\ box[r].sleep = 0
  /\ SetBox(r, "stopped")
  /\ UNCHANGED <<proc, slots, callVars, faults>>

\* Deviation: only containers that run are listed.
RunningOnly(r) == box[r].state = "up"

\* Every container with the label is listed, whoever made it.
Listed(r) == Exists(r)

\* Deviation: the cutoff is compared the other way round.
IsRecent(r) == box[r].age <= StaleSandboxAge

IsStale(r) == box[r].age >= StaleSandboxAge

\* The janitor of any executor removes what is old.
ReapStale(x, r, removes) ==
  /\ proc[x] = "up" /\ Listed(r) /\ IsStale(r)
  /\ Fails(removes)
  /\ SetBox(r, IF removes THEN "none" ELSE box[r].state)
  /\ UNCHANGED <<proc, slots, callVars>>

\* A stopped janitor and a server that only finishes what it has.
Drain(x) ==
  /\ proc[x] = "up" /\ faults > 0
  /\ faults' = faults - 1
  /\ proc' = [proc EXCEPT ![x] = "draining"]
  /\ UNCHANGED <<slots, callVars, box>>

GracefulStop(x) ==
  /\ proc[x] = "draining" /\ \A r \in Requests : req[r].on = x => pc[r] \notin Active
  /\ proc' = [proc EXCEPT ![x] = "down"]
  /\ UNCHANGED <<slots, callVars, box, faults>>

\* The process dies: its callers get an error, its containers stay.
Crash(x) ==
  /\ proc[x] # "down" /\ faults > 0
  /\ faults' = faults - 1
  /\ proc' = [proc EXCEPT ![x] = "down"]
  /\ slots' = [slots EXCEPT ![x] = 0]
  /\ Leave({r \in Requests : req[r].on = x /\ pc[r] \in Active})
  /\ UNCHANGED <<req, box>>

Restart(x) ==
  /\ proc[x] = "down"
  /\ proc' = [proc EXCEPT ![x] = "up"]
  /\ UNCHANGED <<slots, callVars, box, faults>>

Decrement(n) == IF n = 0 THEN 0 ELSE n - 1

\* What a context or a timer bounds returns in the tick in which it is done.
Overdue(r) ==
  \/ pc[r] \in CtxCalls \cup Commands \cup {"queued"} /\ budget[r] = 0
  \/ pc[r] \in Commands \cup {"remove"} /\ timer[r] = 0
  \/ pc[r] = "answer"

Tick ==
  /\ \A r \in Requests : ~Overdue(r)
  /\ budget' = [r \in Requests |-> IF pc[r] \in Active THEN Decrement(budget[r]) ELSE budget[r]]
  /\ timer' = [r \in Requests |-> IF pc[r] \in Commands \cup {"remove"}
                                  THEN Decrement(timer[r]) ELSE timer[r]]
  /\ spent' = [r \in Requests |-> spent[r] + (IF pc[r] \in {"compile", "run"} THEN 1 ELSE 0)]
  /\ box' = [r \in Requests |->
               IF Exists(r)
               THEN [state |-> box[r].state, age |-> Lesser(box[r].age + 1, StaleSandboxAge),
                     sleep |-> Decrement(box[r].sleep)]
               ELSE box[r]]
  /\ UNCHANGED <<proc, slots, pc, req, outcome, ending, written, faults>>

\* What the processes in the container do.
Program(r) ==
  \/ CommandSucceeds(r)
  \/ \E why \in Whys : CommandFails(r, why)
  \/ \E code \in Codes, why \in Whys, chunks \in Outputs : RunEnds(r, code, why, chunks)

Handler(r) ==
  \/ Admit(r) \/ GiveUp(r)
  \/ CreateContainer(r) \/ CreateContainerFails(r)
  \/ ContainerStart(r) \/ CtxCallFails(r) \/ UpdateResources(r) \/ ExecFails(r)
  \/ \E kills \in BOOLEAN : TimesOut(r, kills)
  \/ \E removes \in BOOLEAN : RemoveContainer(r, removes)
  \/ Answer(r)

Sweep(x) == \E r \in Requests, removes \in BOOLEAN : ReapStale(x, r, removes)

Next ==
  \/ \E r \in Requests, valid \in BOOLEAN : Arrive(r, valid)
  \/ \E r \in Requests : Handler(r) \/ Program(r) \/ Cancel(r) \/ Expire(r)
  \/ \E x \in Executors : Sweep(x) \/ Drain(x) \/ GracefulStop(x) \/ Crash(x) \/ Restart(x)
  \/ Tick

Spec == Init /\ [][Next]_vars

\* A program need not end and the daemon need not answer, but a handler
\* whose time is up goes on, time passes, and a process is started again.
FairSpec ==
  /\ Spec
  /\ \A r \in Requests : WF_vars(Overdue(r) /\ Handler(r))
  /\ \A x \in Executors : WF_vars(Sweep(x)) /\ WF_vars(GracefulStop(x)) /\ WF_vars(Restart(x))
  /\ WF_vars(Tick)

-----------------------------------------------------------------------------
(* Properties.                                                             *)

\* The semaphore counts the calls that are served, through cancellation,
\* timeouts, failures and crashes, and never more than MaxConcurrent.
SlotsAreHeld ==
  \A x \in Executors :
    slots[x] = Cardinality({r \in Requests : req[r].on = x /\ pc[r] \in Admitted})

\* Nothing takes a container away from a command that runs in it: not the
\* end of its own sleep, and no janitor, of this executor or of another.
InUseIsUp ==
  \A r \in Requests :
    /\ pc[r] = "start" => box[r].state \in {"made", "up"}
    /\ pc[r] \in Commands \cup {"update"} => box[r].state = "up"
    /\ pc[r] = "remove" => box[r].state # "none"

\* What is kept of an output, said without the chunks it arrived in.
Kept(chunks) ==
  LET text == FlattenSeq(chunks) IN SubSeq(text, 1, Lesser(OutputLimit, Len(text)))

\* Capture and comparison, chunk by chunk and line by line, are exact on what
\* programs may print: about data only, for TLC to evaluate.
ComparisonIsExact ==
  \A chunks \in Outputs :
    OutputsMatch(Expected, Captured(OutputLimit, chunks))
      <=> SignificantText(Kept(chunks)) = SignificantText(Expected)

\* Accepted is a program whose output, as far as it is kept, is what is
\* expected up to blanks at the ends of lines and empty lines at the end,
\* and no other; a program that ended well with another output is wrong.
AcceptedMeansEqual(r) ==
  outcome[r] \in {"accepted", "wrong_answer"} =>
    (outcome[r] = "accepted" <=> SignificantText(Kept(written[r])) = SignificantText(Expected))

\* What a caller that still waits is told is what the program did: TLE after
\* the whole limit and never for a caller's deadline, MLE for memory or for a
\* SIGKILL of the program's own and never for one of ours, a compile error
\* only for the compiler's own failure or its whole time limit.
VerdictIsEarned ==
  \A r \in Requests : pc[r] = "answer" /\ budget[r] > 0 =>
    /\ outcome[r] = "time_limit_exceeded" =>
         ending[r] = "limit" /\ spent[r] = ClampTimeout(req[r].asked)
    /\ outcome[r] = "memory_limit_exceeded" => ending[r] \in {"memory", "signal"}
    /\ outcome[r] = "compilation_error" =>
         \/ ending[r] \in {"exit", "memory", "signal"}
         \/ ending[r] = "limit" /\ spent[r] = CompileTimeout
    /\ outcome[r] \in {"accepted", "wrong_answer", "runtime_error"} =>
         ending[r] \in {"exit", "memory"}
    /\ AcceptedMeansEqual(r)

\* Every container is removed in the end, whoever left it behind.
LeaksEnd == \A r \in Requests : Exists(r) ~> ~Exists(r)

\* Every call ends: nobody waits for a slot, or for a container, for good.
EveryCallEnds == \A r \in Requests : pc[r] = "queued" ~> pc[r] = "done"
=============================================================================
