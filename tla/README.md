# AetherJudge: models, checks and proofs

AetherJudge is a contest platform.  A Go gateway (`backend/services/api-gateway`)
takes submissions over HTTP, keeps everything that must last in PostgreSQL, and
dispatches judging work through a Redis Stream.  Worker processes (the same image,
`cmd/worker`) consume the stream, call an executor (`backend/services/executor`)
that runs the code in a container per test case, write the verdict and the score
to PostgreSQL, and publish events that reach the browsers (`frontend/`) over
WebSockets.

This directory holds TLA+ models of the parts that have protocol state, TLC
configurations that check them, and TLAPS proofs.  Run `tlc -config X.cfg M` and
`tlapm M.tla` in this directory; `PROJECT.json` lists every run, which lines each
definition stands for, a mutation for each checked property, the hazards of the
code and the theorems.

Paths below are relative to `backend/services/api-gateway/` unless they say more.

## Inventory

| Component | State it keeps | Operations | What is hard | What makes it correct |
|---|---|---|---|---|
| Judge queue (`internal/redisx/queue.go`) | stream entries, group cursor, pending list with delivery counts | XADD, XGROUP CREATE, XLEN, XREADGROUP, XPENDING, XCLAIM, XACK, XDEL | lost replies, redelivery, a flush, two or three commands per operation | delivered until acked, bounded redelivery |
| Submission handler (`internal/api/handlers_submissions.go`, `judge.Enqueue`) | the row (`submissions`) | INSERT, depth check, XADD, 202 or 503 | dying between row and message, check-then-act on the depth | a 202 is a promise to judge |
| Judge worker (`internal/judge/judge.go`) | where each goroutine is, the message it holds | boot and reconcile, consume, reclaim, process, dead-letter, finish, score, ack | crashes anywhere, slow workers, concurrent claims, error paths | nothing lost, nothing scored twice, every delivery ends |
| Scoring (`internal/db/leaderboard.go`) | `problem_solves`, `leaderboard_entries` | ApplyAccepted, GetLeaderboard | at-least-once delivery, dependence on judging order | one credit per (user, problem), only for an accept |
| Leaderboard cache (`internal/redisx/leaderboard.go`, `leaderboardRows`) | sorted set and hash per contest, TTL | write-through, two-step read, rebuild | cold key written through, stale rebuild, out-of-order writes | serves standings that PostgreSQL had, and in the end those it has |
| Refresh tokens (`internal/auth/refresh.go`, `internal/db/refresh_tokens.go`) | token rows | issue, rotate, revoke, revoke all | concurrent rotation, crash between create and revoke, lost answers | a rotated token is dead, reuse ends the family, ordinary use never looks like reuse |
| Realtime hub (`internal/realtime/hub.go`, `ws.go`, `internal/redisx/pubsub.go`) | rooms, clients, subscriptions, slots | join, leave, pump, drop | pump of an old room against a new one, full buffers | a live client is in a room that is fed, misses nothing, and gives its slot back |
| Executor (`backend/services/executor/internal/{service,sandbox,judge}`) | semaphore, containers | Execute and its phases, timeouts, removal, janitor, crash, graceful stop | leaks on crash, deadlines against admission, whose SIGKILL it was | slots and containers are given back, a container in use is left alone, a verdict is what the program did |
| Access tokens and roles (`internal/auth/jwt.go`, `rbac.go`, `changeUserRole`) | `users.role`, signed tokens | login, refresh, permission gate, role change | the token is a cache of the role; two admins at once | a role propagates within one token lifetime, no admin locks everyone out alone |
| Limits (`internal/redisx/ratelimit.go`, `internal/api/middleware.go`) | counters | Allow, connection limiter | INCR without EXPIRE | no more than two windows' worth in one window, no lasting denial |
| Authoring (`internal/api/handlers_admin.go`, `internal/db/contests.go`) | contests, problems, test cases | create and update contests, create problems, batches of test cases | position read and row written in two statements, batches without a transaction | positions without gaps, nothing answered with 201 disappears |
| Import and editor (`internal/api/testcase_import.go`, `frontend/src/components/admin/test-case-editor.tsx`) | the draft in the browser | type, import, save | import and save in flight together, four formats | nothing entered is lost, a file is taken whole or not at all |
| Browser session (`frontend/src/lib/api.ts`, `stores/auth.ts`) | access token, refresh in flight, cookie shared by the tabs | bootstrap, refresh, login, sign-out, reload | two tabs with one cookie, two clients with one token, calls of a page that was left | one refresh at a time in a page |
| Browser room (`frontend/src/hooks/use-contest-events.ts`) | socket, query cache | reconnect, re-snapshot, poll | events against snapshots | a stale view is refetched |
| Configuration, telemetry, seed, UI | none | pure functions, plumbing | little | not modelled |

Interactions: the handler writes the row first and the message second; the worker
trusts only the row (`GetSubmission`) and uses the message as a pointer; verdict
and score are two transactions; the cache and the events are written after the
score, best effort; the only things shared between processes are PostgreSQL,
Redis and, for executors, the Docker daemon.

## Modules

| Module | Models | Notes |
|---|---|---|
| `JudgeQueue` | one Redis command per operator, as `queue.go` issues it | a message is its position among all XADDs; `pending[m]` is its delivery count, `stale` the entries idle for `ClaimMinIdle` |
| `JudgeService` | handler, boot, consumers, reclaimers, PostgreSQL rows, faults | extends `JudgeQueue`; one action per call that leaves the process |
| `JudgeContract` | what judging promises, without queue, worker or fault | abstract specification |
| `JudgeGuarantees` | the properties, and the refinement mapping to `JudgeContract` | the runs name the faults under which each one holds |
| `MCJudge` | small instances | |
| `JudgeProofs`, `JudgeLossProofs` | theorems | |
| `Leaderboard` | scoring transaction, write-through, broadcast, cached read, rebuild, expiry | details what `score` does from `ApplyAccepted` on, where `JudgeService` stops |
| `MCLeaderboard`, `LeaderboardProofs` | small instances; theorems | |
| `Hub` | rooms, pumps, subscriptions, the handler of a connection, the connection limiter | its events are what `Leaderboard` publishes, reduced to numbers |
| `MCHub`, `HubProofs` | small instances; theorems | |
| `ContestRoom` | the room page of one tab: socket, token, leaderboard query | extends `Hub`: every connection is the tab's; `HubProofs` has the theorems about both |
| `MCContestRoom` | small instances | |
| `Output` | capture and comparison of a program's output, as operators on texts | reference: which characters are significant |
| `Executor` | executors on one daemon: calls, sandboxes, janitor, processes, time in ticks | extends `Output` |
| `MCExecutor`, `ExecutorProofs` | a small instance; theorems | |
| `Session` | refresh token rows, the handlers that rotate them, browsers with a cookie each and their tabs | what `ContestRoom` has as one step of its tab is a protocol here |
| `MCSession`, `SessionProofs` | a small instance; theorems | |
| `RateLimit` | one key of the fixed-window limiter | extended by `Access` |
| `Access` | roles, access tokens, refreshes through one limit | a refresh token always works here; `Session` says when it does |
| `MCAccess`, `AccessProofs` | a small instance; theorems | |
| `TestCaseImport` | the four parsers, as operators on lines and cells | reference: the words a reader sees in the file |
| `Authoring` | contests, positions, batches, the editor | extends `TestCaseImport` |
| `MCAuthoring`, `AuthoringProofs` | small instances with files in every format; theorems | |

### State and code

`req[s]` is where the POST of submission `s` is (`accepted` = answered with 202).
`status`, `verdict` are the columns of `submissions`; `solves` and `credits` stand for
`problem_solves` and for how often a (user, problem) pair was added to
`leaderboard_entries`.  `boot[p]` is where a worker process is in `StartConsumers`,
`requeue[p]` is what reconcile has yet to re-enqueue.  `pc[t]`, `item[t]`, `result[t]`
are a goroutine's place in `consumeLoop`/`reclaimLoop` → `handle`/`deadLetter` →
`process` → `finish` → `score` → `ack`, its message and its verdict.  `ClaimStaleJudge` is
three steps: `ScanPending` (XPENDING) makes the lists `poisonIDs[t]` and `claimIDs[t]`,
`ClaimPoison` and `ClaimStale` (one XCLAIM each) turn what is still stale of them into
`poison[t]` and `claimed[t]`, the batch that the goroutine then handles.  Any step of
another goroutine may come between, so two reclaim loops may list the same messages.  `judged` is a history variable: the verdicts ever persisted.

In `Leaderboard`, `standing` and `solves` are `leaderboard_entries` and
`problem_solves`, `cache` is the sorted set with its hash (always written, deleted and
expired together, so a set of rows; the score of a member is computed from its row),
`volatile` says that the keys have a TTL, `rows` and `ids` are what a goroutine or a
request has in hand, and `shown` is what was last sent, by WebSocket or in an answer:
rows with the rank that events.LeaderboardRow carries.  `past` is a history variable.
A repeated accept changes nothing and is not a step.  The rest of the judge service is
left out here: any goroutine may have a first solve at any time.

In `Hub` a contest has one entry in `h.rooms` (`room`), but several rooms may exist: a
room that is forgotten still has its pump and its subscription goroutine until these
have ended.  A room is named by the connection whose `Join` made it, so `members`,
`sub`, `stream` and `pump` are functions of connections.  `chan[c]` and `closed[c]` are
`Client.send`; `pc[c]` is where `serveContestWS` is (`accepted` = slot taken, handshake
done, not yet in the room).  Hub methods hold the mutex throughout, so each is a step;
a round of the pump is one step with its receive.  go-redis's buffer and `out` are
one `stream`, without a limit: what go-redis drops is the fault `gap`.  A connection
that has ended may be used again, once the goroutines of its old room have ended.
`seen[c]` is a history variable.

`ContestRoom` has one tab.  `hook` is where `useContestEvents` is, `wire` what the
server wrote and the tab has not handled, `fetch` and `answer` the leaderboard query
under way.  Standings are only a number of first solves: event *n* carries what is true
after solve *n* (one scorer at a time; the order of two scorers' broadcasts is a hazard
of the worker, listed with `judge.go:477`).  The other queries of the page matter
only as requests that may meet a 401 (`Recover`).  `handled` is a history variable, for the
page what `seen` is for the handler.  `LetIn` is `Hub!Join` with it; faults of the tab are
counted in `tabFaults`, and together with the hub's they stay within `MaxFaults`.

In `Executor` a request makes one call, and `box[r]` is the container made for it: its
state, its age, and what is left of the `sleep` it runs.  `pc[r]` is the phase of
`Service.Execute` and `sandbox.Execute`; `timer[r]` is the limit of that phase, `budget[r]`
what is left of the caller's deadline.  Both count down in `Tick`, which is held up
(`Overdue`) while some call whose context is done has not returned: a call returns in
the tick in which it is told to.  The container's clock is not held up by anything, and
neither is what a program does.  A flag of the daemon may be missing, so an out-of-memory
kill may look like an ordinary exit; `VerdictOf` gets whatever the daemon said.  `spent`,
`ending` and `written` are history: what really ended the command, after how long, and
what it had printed.

In `Session` a token is the number of its row; the random secret and its hash are the
identity of the row.  A page has two calls at most, its single-flight refresh and a login
or logout; the cookie of a browser is common to its tabs and is sent when a call starts,
set when its answer arrives.  Each statement of `Rotate` is a step.  `Select` and
`RevokeAllUserRefreshTokens` are steps of their own, so another rotation may insert
between them.  A page may be loaded anew at any time; the handlers of the page before
(`left refresh`, `left user`) go on, and end at any statement (`NoticeCancel`), as the
server sees the cancelled request only at its next one.  All of a user's tokens are the
family, so a login of another browser is in it.  Another client that presents the same
token, a thief's or a restored profile's, is a browser whose cookie was copied.
`parent`, `purged`, `spared` and `overlap` are history variables: `spared` is how many
rotations were between their SELECT and their INSERT when the family was last revoked.

In `Access` a user's role and how long ago it lost it are one number, `since`; tokens
without the permission are no tokens.  A handler takes its time at the start and mints
with it at the end: `stamp` is how old that time is, and `MaxDelay` how old it gets.
`hits` saturates above the limit, where only the comparison matters.

In `Authoring` `rows` has the problems of a slug and the test cases of a problem alike, as
both go through the same two statements, `NextOrd` and an upsert.  `alone` is a history
variable: has any other call been between its read and its last write on the same
list.  `fate` says where each test case that was entered is, so that a lost one can be
told from a saved one.  Texts are sequences of lines, of which those with something on
them, empty ones, blank ones and the two rules are told apart.

Two orders of names matter: SQL sorts a `citext` column, Go compares bytes, and user
names may have capitals (`validate.go:32`).  Where the orders differ, tied users are
ranked differently by a warm and by a cold read; `RanksLikeSql` has their agreement as
its premise.

Every statement or command that reaches PostgreSQL, Redis or the executor is one
step.  Two merges keep the model small and lose nothing: GetSubmission with the two
reads that follow it (users and problems never change here), and the cases of one
submission (only the first verdict that is not `accepted` matters).

### Faults

`FaultKinds` and `MaxFaults` say what may go wrong in a run:

- `crash`: a worker process or a request handler stops anywhere.  A shutdown is the
  same: the cancelled context makes every later call fail.
- `redis`: a command fails, or is applied and its reply is lost.
- `executor`: the executor is unreachable or out of time.
- `db`: a statement fails, or is applied and its reply is lost.
- `flush`: Redis restarts without data (ADR-0004 runs it without persistence).

- `subscribe`, `stream`, `gap` (`Hub`): the subscription handshake fails; the message
  channel is closed; an event misses an open subscription.
- `dial`, `refresh`, `fetch` (`ContestRoom`): the request of the tab fails.

- `refused`, `db`, `lost`, `reload`, `copied` (`Session`): a refusal by the limiter, a failed
  statement, an answer that does not arrive, a page loaded anew while its calls are under
  way, a cookie that gets into another client.  Loading an idle page is no fault.
- `Executor`, `Access` and `Authoring` have one budget, `MaxFaults`: a step of the daemon
  fails (or does its work and does not answer), the executor crashes or drains; Redis
  fails before or after it did its work; a statement of a batch fails, written or not.

A shutdown of the gateway and a client that leaves, or whose writes fail, are not
faults: they may happen at any time.

`SlowWorkers` says whether a live goroutine may hold a message for `ClaimMinIdle`; then
the message goes stale (`GoesStale`) while it is being judged, and a reclaimer takes it.
It restricts only what time does.  No claim asks who holds a message: an XCLAIM takes
what is stale when it arrives, whatever XPENDING said before.

## Runs

The judge runs use `MCJudge`, the board run `MCLeaderboard`, and so on.  Deadlock checking
is off, except in `sandbox` and `access` where time always passes: when everything is
judged (solved, published, saved) and no fault is left, the system is idle.

| Run | Shows |
|---|---|
| `judge_no_loss` | `NoLostWork`, `ExclusiveHandling`, `OnlyPoisonIsDeadLettered` with two reclaim loops in two processes and any three crashes, Redis errors or executor outages |
| `judge_any_fault` | `CreditsAreEarned` and `ImplementsContract` with slow workers and any two faults, in one process |
| `judge_live` | `RemovedOnlyWhenJudged`, `AcceptedIsJudged`, `EveryDeliveryIsAcked` under fairness, with slow workers and three faults |
| `judge_uncredited` | violated: an accepted verdict whose score is lost (`judge.go:435-441`) |
| `board_cache` | `TypeOK`, `Truthful`, `RanksLikeSql`, `CutIsRight` and, under fairness, `Settles`, with two scorers, one reader, expiry at any moment and one fault |
| `hub_rooms` | `MembersAreOpen`, `RoomIsFed`, `SlotsAreHeld`, `FedWithoutGaps` and, under fairness, `DroppedAreTold`, `ShutdownEnds`, with three connections, two events, one failed handshake or ended stream, and a shutdown |
| `room_live` | `PageMissesNothing` and, under fairness, `Converges`, `Reconnects`, `LeftBehind`, with any one fault of the six kinds |
| `sandbox` | `TypeOK`, `SlotsAreHeld`, `InUseIsUp`, `VerdictIsEarned` and, under fairness, `LeaksEnd`, `EveryCallEnds`: two calls compete for one slot, with one fault, crash or stop |
| `session` | `QuietSession`, `RotatedIsDead`, `ReuseEndsFamily`: two tabs, of one browser or of two, a login, one fault |
| `access` | `RoleIsRecent`, `LimitHolds`, `LastAdminFallsToAnother`: two accounts behind one address, one failure of Redis |
| `authoring` | `ScheduleIsConsistent`, `OrdsAreContiguous`, `WrittenAloneIsStored`, `EditorIsHonest`, `ImportIsWhole`: two admins at one contest and one editor, seven files, one failure |
| `authoring_collision` | violated, without a fault: two problems created at once get one position, both are answered with 201, and one replaces the other (`handlers_admin.go:319`) |

`EditorIsHonest` is `EntriesAreKept` and `StoredOnce`; `LimitHolds` is `BurstBound` and
`CounterExpires`.  The type invariants of `JudgeService`, `Session`, `Access`, `Hub`,
`ContestRoom` and `Authoring` are in no run; all but that of `Authoring` are proved.

Bounds.  Two submissions of the same user and problem are what scoring and the depth
check need to interfere (`judge_any_fault`, `judge_uncredited`); elsewhere one submission
leaves the IDs to its duplicates, which reconcile makes: up to three messages in
`judge_no_loss` and four in `judge_live`, so batches of two (`ClaimBatch`) happen and leave
something out.  `MaxDeliveries` 1 or 2 makes a message poison within the fault budget (a
message needs one delivery more than the limit, and then a claim); `DepthLimit` is
reached.  `judge_no_loss` has two processes with a reclaim loop each and a consumer in one
of them: concurrent reconciles, claims across processes and two lists with the same
message in them all happen.  `judge_any_fault` and `judge_live` have one process: two
faults are needed to dead-letter a message while the database fails, and the second
process would only multiply the states.

The board runs have two users and two problems: two first solves by one user change
a row, two by different users tie or do not (penalties 0 to 2).  `Limit` 2 shows both
users; `CutIsRight` quantifies over every smaller cut.  The `Weight` of 5 is the
smallest that exceeds what two problems can cost.  `Elapsed` has a negative value: a
worker's clock may be behind.  `Alphabetical` makes `ZREVRANGE` break ties the other
way than SQL.

In `hub_rooms` two connections are one user's and the cap is 1, so the limiter refuses;
a buffer of 1 fills with two events; three connections let two stay while one leaves
and rejoins.  `gap` is left to `room_live`, as `FedWithoutGaps` says nothing after one
(`RedisDelivers`).  `room_live` has two connections, so the server may still hold the old one
while the tab makes the next and the cap of 1 refuses it; one event is enough to be
missed, overwritten or delivered late.  That `PageMissesNothing` also keeps the order of
several events, and of connections that overlap, is left to its theorem: two events
make the liveness part too large.

In `sandbox` one slot makes the second call queue, give up and race its deadline.  The
limit asked for is above the maximum, so the clamp matters; limits of one or two ticks
leave time for every phase to end before, at and after its limit, and the caller's
deadline is one tick longer than the run, so it too ends phases.  `LifetimeGrace` and
`ReapSlack` are 0, which makes the margins as narrow as the assumptions allow: the
sleep of a container ends one tick after its caller gave up.  The five outputs are equal
to the expected one up to blanks, equal after the cut at `OutputLimit`, different by an
empty line, by a blank at the front, and empty.  One fault leaks a container, or
fails its removal, but not both; the janitor finds both alike.

In `session` three tokens are a login, a rotation and either the fork of it or the next
one; with a fourth there would be no new order of two rotations and a purge.  The initial
states have both tabs in one browser, and each in its own.  Up to two rotations are
spared and one of them escapes; that no more do, and that the sessions of several logins
do not disturb each other in a quiet browser, is left to the theorems.  In `access` a lifetime of three ticks is longer than two handlers at
`MaxDelay` 1, two calls per window of three ticks let a burst straddle two windows, and
two accounts are enough to demote each other.  In `authoring` two admins make two positions
collide; batches of two are longer than one statement, and the limit of two makes a
draft that grew during an import too long; four calls in all, one fault.  The two instants
give one schedule, its inverse and two empty ones, and `Moments` has every position of
`now` relative to them.  The contest and its first problem are enough, as lists do
not interact.

Fairness (`judge_live`).  Weak fairness of a handler that has its row, of a booting
process, of each goroutine's own steps, the reclaim loop's scans and claims among them,
and of time: all calls have deadlines, the loops never end while the process runs, the
orchestrator restarts a dead worker, the reclaim loop probes every `ClaimMinIdle / 2`, and
a message that nobody has goes stale in the end.  No
fault and no client step is fair: nothing obliges a client to submit.

Fairness (`board_cache`).  Weak fairness of a scorer after its transaction, of a
request once it runs, and of the expiry of a key with a TTL: every call has a
deadline, and writes stop renewing the TTL because a contest has finitely many first
solves.  Starting a request or a solve is not fair, and neither is any fault.

Fairness (`hub_rooms`).  Goroutines that can go on do: the handler after its handshake
and when it has something to write or its channel is closed, its deferred calls, the
pump, and a subscription goroutine whose context is done.  No connection has to come or
go, and no event has to be published.

Fairness (`room_live`).  The same for the server; for the tab, timers fire, promises
settle and a guest is sent away (`AuthGate`).  `Gone` is fair only for a socket the tab
has left: the next ping or write finds out.  The answer to a request is strongly fair,
because opening a socket restarts it: a tab that reconnects for ever waits at least a
second each time, longer than an answer takes every time.  Polling is fair, so the
page is visible.  The page owes no
authenticated request, so `Recover` is not fair.  `Reconnects` has it as its premise: a
page that goes on making such requests gets its socket back, however often its token
expires.  A token obtained while the page has no socket is `new` and outlives one
attempt with it: tokens live 15 minutes, and a retry waits 15 seconds at most.

Fairness (`sandbox`).  A call whose phase or context is over returns, time passes, a
janitor's sweep that stays possible is made, and the orchestrator restarts an executor.
Nothing obliges a program to end, the daemon to answer, or a call to be made.

## Not promised

What looks like a guarantee, in a comment or a document, and is none.  The models take all
these steps; the two that a run states are `judge_uncredited` and `authoring_collision`.

- A second message of a submission takes its row from done back to running and judges it
  again: `MarkSubmissionRunning` has no condition on the status, although
  `submissions.go:47` speaks of queued to running and ADR-0011 of a no-op.  It is not
  scored again (`CreditsAreEarned`).
- A failed `FinishSubmission` is acked (`finish` returns nothing), although `judge.go:331-335`
  leaves a message un-acked when the database fails; the row stays running.
  `RemovedOnlyWhenJudged` is checked without `db` faults for this reason.
- Reconcile runs only on an empty stream (`judge.go:230`): after a flush one new
  submission keeps every later boot from finding the older rows.  An entry that was acked
  and not deleted (XACK without XDEL) has the same effect and counts towards the depth.
- The depth limit may be exceeded by as many submissions as are between check and XADD.
- A first solve on an expired key makes it warm with one row (`leaderboard.go:112-114` and
  ADR-0012:27 have a cold key rebuilt), until the TTL ends or a solver writes; `Settles`
  says what comes in the end.  Nor is the last broadcast of standings always the newest.
- The pump of a room that was forgotten drops the clients of the room that has followed
  it, as it looks the room up by contest (`hub.go:113-114`); they reconnect.
- `use-contest-events.ts:75-76` says that every reconnect fetches a fresh token.
  `ensureFreshToken` (`api.ts:78-82`) returns the token in hand, however old: a page whose
  token expired while it had no socket dials with it, gets 401 and dials again, for as
  long as it makes no authenticated request (the leaderboard's is not one).  `Reconnects`
  without its premise is violated by this loop.
- An event between a tab's snapshot and its subscription is missed (ADR-0008:64-65 has
  the snapshot absorb it); the next event, poll or reconnect repairs it.
- ADR-0007:27-28 ("the entire token family is revoked and the session dies everywhere") and
  `docs/security/threat-model.md:108-109` promise more than `RevokeAllUserRefreshTokens` does:
  a rotation that has read its token as live before the revocation inserts a successor
  after it (`refresh.go:66-90`), and the browser that gets it keeps a session.
  `ReuseEndsFamily` has at most one for each such rotation, and none without one.  Two
  rotations of one token that both read it as live fork the family, which is no reuse.
- `docs/architecture.md:117-119` has the single-flight refresh keep concurrent 401s from
  looking like reuse.  It does so in one tab: two tabs that refresh one after the other
  with the same cookie in hand do look like reuse, and lose the session.  `QuietSession`
  is stated for calls that do not overlap.
- An import may have 2000 cases (ADR-0016), a save 100: a longer draft is refused as a whole.
- What is typed or imported while a save is in flight is cleared by its success
  (`setDraft`), and a retry after an error stores the rows that had been written again.
- A submission at the very instant a contest ends is accepted, while the contest is
  listed as past (`ScheduleIsConsistent` has that one moment).

## Proofs

Everything in `JudgeProofs` and `JudgeLossProofs` holds for all values of the constants
that satisfy `QueueConstants` and `ServiceConstants`.

- `TypeCorrect`: `Spec => []TypeOK`.  `TypeOK` is not inductive; `Shape` adds that IDs are
  used in order, that only used IDs are in the stream, pending or held (so the body of a
  held message is a submission), and that a goroutine at `finish` has a verdict.  The
  proof goes by Redis command (`QueueStep`) and by kind of goroutine step
  (`ThreadMoves`), then by action.
- `CreditsEarned`: `Spec => []CreditsAreEarned`.  The invariant ties `credits` to `solves`,
  and says that a goroutine on its way to `ApplyAccepted` handles a submission that
  has had an accepted verdict.  Verdicts are never forgotten, although `verdict` is
  overwritten.
- `NothingIsLost`: `Reliable` implies `Spec => []NoLostWork`, where `Reliable` is: no slow
  workers, no database errors, no flush.  Two invariants carry it.  `Custody`: what a
  goroutine holds is pending and in the stream, and no two goroutines hold the same.
  `Covered`: an accepted submission that is not done has a *carrier*, a message that
  can still be handed out and that no goroutine is about to ack.  The last part is
  needed because a duplicate may set a done row back to running: the goroutine that
  found it done still acks its own message, and what saves the submission is the
  message of the goroutine that set it back.
- `HandlingIsExclusive`: under `Reliable`, `Spec => []ExclusiveHandling`.  `Reliable` only says that a message
  in somebody's hands does not go stale; it says nothing of when a list from XPENDING is
  claimed.  `StaleIsFree`, a part of `Custody`, is the argument: what is stale at any
  moment is in nobody's hands, and a claim takes from its list, however old, what is
  stale now and makes it fresh (`CustodyClaim`).  Without the MinIdle of XCLAIM the theorem
  fails (the mutant of `ExclusiveHandling`).
- `ServiceImplementsContract`: `Spec => ImplementsContract`, the refinement of `JudgeContract`
  under every fault.  The contract sees requests, rows, verdicts, solves and credits; most
  steps change none of these (`InvisibleSteps`), and each other action is shown to be one
  of the contract's.  That needs `StoredInv` (whatever is in the stream, in a goroutine's
  hands or listed by reconcile has a row) and, for the credits, the invariant of
  `CreditsEarned`.
- `RemovalFollowsVerdict`: `Answering` (PostgreSQL answers, no flush; slow workers allowed)
  implies `Spec => RemovedOnlyWhenJudged`.  `JudgedInv`: a row that is done, and a goroutine
  past its finish, have had a verdict.
- `OnlyUsedUpMessagesBurn`: `Reliable` implies `Spec => OnlyPoisonIsDeadLettered`.  `PoisonInv`
  follows the cause of an internal error from where it arises to the row: no test cases,
  the executor's own answer, or a message delivered too often: from the list of a scan,
  where its count only grows until somebody acks it (`ListedStays`), to the claim, after
  which it is not acked by others while the goroutine that claimed it has it (`Custody`).

`LeaderboardProofs` assumes `LeaderboardConstants`: the three orders of the users are
injective, and no user's penalties can reach `Weight` (the comment on `solvedWeight`
relies on the same).

- `RankScoreOrders`: the packed score orders as (solved desc, penalty asc).
- `StandingsTyped`, `NothingInvented`, `RanksAreSqlRanks`, `CutsAreRight`: the four
  invariants of `board_cache`, from one inductive invariant `IInv`.  It says that every
  set of rows anywhere (cache, hands of a goroutine, what was sent) is *sound*, a set of
  rows that PostgreSQL had with one for each user; that what was sent is a ranking of
  such a set; and, for the cut, that `leaderboard_entries` counts `problem_solves`, so a
  user's penalty is at most what the solved problems can cost.  All steps but
  `ApplyAccepted` leave PostgreSQL alone and follow from one lemma (`QuietStep`).

`HubProofs` assumes `HubConstants`: finitely many connections, each of one user.

- `HubTyped`, `RoomsAreFed`, `ChannelsAreOpen`, `SlotsAreReturned`: the four invariants.  Rooms and
  channels go together in `RoomInv`: `dropLocked` is shown once (`DropKeepsRooms`) to take
  members out, close only their channels, and keep or end the room in the map; each
  caller then follows.  The slots need finite sets: a handler that starts adds one to a
  cardinality, one that returns removes one.
- `NobodyIsSkipped`: `Spec => []FedWithoutGaps`.  Faults only become fewer, so a state in which
  Redis has lost nothing was reached by such states (`RedisDelivered`).  `FedInv` splits what waits into
  channel and stream: the stream ends with the last event published (`StreamRun`), and a
  member's channel ends where the stream starts (`ChanRun`).  The pump moves the border
  between the two for all members at once, except those it drops.
- `RoomRunsTheHub`: `TabSpec => Spec`.  A step of page and server is a step of the hub or
  changes none of its variables, so all of the above holds with a browser attached.
- `PagesMissNothing`: `TabSpec => []PageMissesNothing`, from Redis to the screen.  What counts is the last event that left the hub towards the socket
  (`LeftHub`): only `Deliver` moves it (`LeftHubKept`), by one, and the wire is the run of
  events that ends there (`WireRun`).  It starts empty, as nothing is on a wire before the
  hub has let its connection in (`WireStarts`).  `RoomTyped` is the type invariant.

`ExecutorProofs` assumes `ExecutorConstants`.  Besides the types these say that a caller
gives up before its container's sleep is over, and that its patience with the time a
removal takes is shorter than the janitor's; the configured 45 s of overhead against
60 s of grace, and the five minutes of slack, satisfy both.

- `ExecutorTyped`, `SemaphoreCounts`: as for the hub, a set grows and shrinks by one call.
- `ContainersInUseAreUp`: the invariant bounds a container's age by what its caller has waited
  (`LifeOK`): age and remaining budget add up to at most the whole budget, sleep is longer
  than budget, and so neither `Expire` nor `ReapStale` is enabled before the caller is gone.
- `VerdictsHaveCauses`: the parts of `VerdictIsEarned` about causes, without any
  assumption about texts.  The invariant follows a verdict from the command that ended
  to the answer, and `spent` with `timer` always add up to the limit.
- `VerdictsAreEarned`: all of it, given `ComparisonIsExact`.  That is a fact about the set
  `Outputs` alone; TLC evaluates it on the instance, as an assumption of `MCExecutor`.

`SessionProofs` assumes `SessionConstants`: finitely many tabs, any number of browsers.

- `RotationKills`, `QuietBrowserKeepsItsSession`: rows are numbered without a gap, and
  calls are left behind by faults only.  While all is quiet no two browsers have the same
  token (`Apart`), and every cookie works, but for that of the one call under way, which
  is about to replace it.
- `ReuseIsContained`: an escape uses up a rotation that was in flight at the revocation.
  The escaped tokens and the rotations that have still seen a revoked token alive
  (`Rotating`) are together at most `spared`: an INSERT moves one from the second count to
  the first, a reload hands rotations over to `left refresh` one for one, and no SELECT
  after the revocation adds to them.

`AccessProofs` assumes `AccessConstants` and `RateLimitConstants`.

- `RolesPropagate`: a handler that read an admin's role knows something that is at most as
  old as its `stamp`, so the token it mints is too.
- `LimiterHolds`: `Spec => []LimitHolds`.  At any time the calls let through in the last
  window are of two kinds (`Divides`): those of keys that have died, which leave the
  window before the living key does, and those of the living key, each of which was given
  a count of its own up to the limit.  Neither kind has more than `Limit`.  The history
  `passed` tells calls apart by their age and count; `PassedIsNew` shows that no two calls
  are confused, so that the cardinality counts calls.
- `AccessTyped`.
- `NobodyFallsAlone`: an action property.  The invariant bounds `since` of a handler that
  passed the gate by its `stamp` and a lifetime; the demotion is then the only action that
  can end the last admin, and its actor is not the target.

`AuthoringProofs` assumes `AuthoringConstants`, of them not the bound on positions.

- `SchedulesAgree`: stored schedules satisfy the CHECK, the rest is arithmetic.
- `PositionsHaveNoGaps`: a writer's position, however stale, is at most one behind the end.
- `AloneMeansStored`: a call that is alone has no competitor at its list, its rows so far
  are there, and whoever writes to a list has read its position after everything that was
  answered to calls that were alone.  Every step is one of five kinds (`KindsOfSteps`).
- `DraftsAreKept`: `EntriesAreKept`; what is entered during a save is told apart.
- `EditorAgrees`: `Spec => []EditorIsHonest`, that is with `StoredOnce`, for files in which no
  case is twice (`NoTwins`, which the files of the instance satisfy; a file that holds a
  case twice stores it twice).  `OnceInv`: until something fails, an item is in one place
  only, the draft, the part of a batch that is yet to be written, or one row.

Only model-checked: `ImportIsWhole`, as what the parsers do to every file is an induction
over files; and liveness, with fairness and `ENABLED`: `AcceptedIsJudged`,
`EveryDeliveryIsAcked`, `Settles`, `DroppedAreTold`, `ShutdownEnds`, `Converges`, `Reconnects`,
`LeftBehind`, `LeaksEnd`, `EveryCallEnds`.  Every other property of a passing run is
stated by a theorem.

## Not modelled

Trimming of the stream at about 100000 entries; entries without a valid submission ID
(nothing writes them); deleted submissions (no operation deletes a contest); memory
limits and images of sandboxes; how executors authenticate callers; signup and password
hashing; the moderator role, which differs by permissions only; slugs, joining a contest
and read-only lists; how a client's address is found behind proxies; the bytes of CSV,
JSON and XLSX, which libraries decode; the text of verdicts, times, events, traces and
metrics; configuration, server plumbing, the seed tool, generated gRPC code, rendering.

## Plan

1. Abstract specifications of the leaderboard cache (a register that may lag) and of the
   refresh family, and the refinements.
2. Composition: `JudgeService` with `Executor` in place of the outcome of a call, once the
   state space allows a queue and a sandbox at the same time.
3. Joining a contest against its end, and the submission gate at that moment.
4. The type invariant of `Authoring` as a theorem: it needs that the calls made so far bound
   the positions that are taken (`MaxCalls * MaxTestCasesPerRequest <= MaxOrd`).
