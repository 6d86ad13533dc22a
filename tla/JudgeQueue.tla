----------------------------- MODULE JudgeQueue -----------------------------
(***************************************************************************)
(* The durable judge queue: one Redis Stream with one consumer group       *)
(* (internal/redisx/queue.go, ADR-0011).                                   *)
(*                                                                         *)
(* A stream entry is identified by its position in the order of all XADDs; *)
(* Redis IDs grow with time and are not reused, so a flush empties the     *)
(* stream but never makes an old ID name a new entry.  The group keeps a   *)
(* cursor (the last ID it handed out) and the pending entries list with a  *)
(* delivery count per un-acked entry.  Of an entry's idle time it only     *)
(* matters whether it has reached Config.ClaimMinIdle.                     *)
(*                                                                         *)
(* Every operator below is one Redis command as queue.go issues it; the    *)
(* judge service composes them into its own steps.                         *)
(***************************************************************************)
EXTENDS Naturals, FiniteSets

CONSTANTS
  Subs,           \* submissions
  NoSub,          \* the body of an ID that no XADD has used yet
  MaxId,          \* bound: XADDs in one behaviour
  MaxDeliveries,  \* Config.MaxDeliveries
  ClaimBatch      \* how many entries one XPENDING asks for (32 in the code)

ASSUME QueueConstants ==
  /\ NoSub \notin Subs
  /\ MaxId \in Nat
  /\ MaxDeliveries \in Nat \ {0}
  /\ ClaimBatch \in Nat \ {0}

VARIABLES
  added,          \* XADDs so far: the highest ID in use
  body,           \* the submission each ID carries
  entries,        \* IDs present in the stream (XLEN counts these)
  group,          \* does the consumer group exist
  lastDelivered,  \* the group's cursor
  pending,        \* delivery count of each pending ID, 0 when it is not pending
  stale           \* pending IDs that have been idle for ClaimMinIdle

queueVars == <<added, body, entries, group, lastDelivered, pending, stale>>

Ids == 1..MaxId

\* Counts above MaxDeliveries are all treated alike.  The count stops at
\* MaxDeliveries + 2, so it still tells a message that was claimed as poison.
Counts == 0..(MaxDeliveries + 2)

QueueTypeOK ==
  /\ added \in 0..MaxId
  /\ body \in [Ids -> Subs \cup {NoSub}]
  /\ entries \in SUBSET Ids
  /\ group \in BOOLEAN
  /\ lastDelivered \in 0..MaxId
  /\ pending \in [Ids -> Counts]
  /\ stale \in SUBSET Ids

QueueInit ==
  /\ added = 0
  /\ body = [m \in Ids |-> NoSub]
  /\ entries = {}
  /\ group = FALSE
  /\ lastDelivered = 0
  /\ pending = [m \in Ids |-> 0]
  /\ stale = {}

-----------------------------------------------------------------------------
\* XADD, with no trimming: MAXLEN ~ 100000 is never reached in these bounds.
XAdd(s) ==
  /\ added < MaxId
  /\ added' = added + 1
  /\ body' = [body EXCEPT ![added + 1] = s]
  /\ entries' = entries \cup {added + 1}
  /\ UNCHANGED <<group, lastDelivered, pending, stale>>

\* Deviation: create the group at "$", past what the stream already holds.
GroupStartLatest == added
GroupStart == 0

\* XGROUP CREATE ... 0 MKSTREAM; an existing group (BUSYGROUP) is no error.
XGroupCreate ==
  /\ group' = TRUE
  /\ lastDelivered' = IF group THEN lastDelivered ELSE GroupStart
  /\ UNCHANGED <<added, body, entries, pending, stale>>

QueueDepth == Cardinality(entries)

NewEntries == {m \in entries : m > lastDelivered}

\* XREADGROUP ... > COUNT 1 hands out the oldest entry past the cursor.
\* Without the group the command fails (NOGROUP) and the reader only sleeps.
XReadGroup(m) ==
  /\ group
  /\ m \in NewEntries
  /\ \A n \in NewEntries : m <= n
  /\ lastDelivered' = m
  /\ pending' = [pending EXCEPT ![m] = 1]
  /\ stale' = stale \ {m}
  /\ UNCHANGED <<added, body, entries, group>>

\* ClaimMinIdle has passed since m was delivered or claimed last.
StaysIdle(m) ==
  /\ pending[m] > 0
  /\ m \notin stale
  /\ stale' = stale \cup {m}
  /\ UNCHANGED <<added, body, entries, group, lastDelivered, pending>>

\* The reply to XPENDING IDLE minIdle - + count: the first ClaimBatch stale
\* entries in the order of their IDs.
XPending == {m \in stale : Cardinality({n \in stale : n < m}) < ClaimBatch}

\* Deviation: compare with >=.
IsPoisonEarly(m) == pending[m] >= MaxDeliveries

\* RetryCount > maxDeliveries, read before this claim counts as a delivery.
IsPoison(m) == pending[m] > MaxDeliveries

\* The counter of deliveries, kept up to the bound that matters.
Redelivered(n) == IF n > MaxDeliveries + 1 THEN n ELSE n + 1

\* Deviation: XCLAIM with MINIDLE 0, which takes whatever is pending.
StillPending(S) == {m \in S : pending[m] > 0}

\* XCLAIM MINIDLE skips the IDs of S that are no longer pending and those
\* that were delivered or claimed again after XPENDING listed them.
StillIdle(S) == S \cap stale

\* XCLAIM of the IDs in S transfers StillIdle(S) to the caller.  It counts as
\* a delivery and resets the idle time.  Without the group it fails.
XClaim(S) ==
  /\ group
  /\ pending' = [m \in Ids |->
                   IF m \in StillIdle(S) THEN Redelivered(pending[m]) ELSE pending[m]]
  /\ stale' = stale \ StillIdle(S)
  /\ UNCHANGED <<added, body, entries, group, lastDelivered>>

\* XACK does not ask who owns the entry, and acking an unknown ID is no error.
XAck(m) ==
  /\ pending' = [pending EXCEPT ![m] = 0]
  /\ stale' = stale \ {m}
  /\ UNCHANGED <<added, body, entries, group, lastDelivered>>

XDel(m) ==
  /\ entries' = entries \ {m}
  /\ UNCHANGED <<added, body, group, lastDelivered, pending, stale>>

\* Redis runs without persistence (ADR-0004): a restart of Redis is a flush.
RedisLosesEverything ==
  /\ entries' = {}
  /\ group' = FALSE
  /\ lastDelivered' = 0
  /\ pending' = [m \in Ids |-> 0]
  /\ stale' = {}
  /\ UNCHANGED <<added, body>>

-----------------------------------------------------------------------------
\* The group can still hand this entry to somebody: it is ahead of the cursor
\* or it is pending and a reclaim will find it.
Recoverable(m) == m \in entries /\ (m > lastDelivered \/ pending[m] > 0)

\* Some entry that carries s is recoverable.
Dispatched(s) == \E m \in Ids : body[m] = s /\ Recoverable(m)
=============================================================================
