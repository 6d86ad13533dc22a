----------------------------- MODULE Leaderboard ----------------------------
(***************************************************************************)
(* The standings of one contest and their read cache (judge.go score,      *)
(* internal/redisx/leaderboard.go, leaderboardRows, ADR-0012).             *)
(*                                                                         *)
(* PostgreSQL has the standings.  Redis has a sorted set of the members    *)
(* and a hash of their rows; the two keys are written, deleted and given   *)
(* their TTL in one MULTI, so they are one set of rows here.  Scorers are  *)
(* judge goroutines after an accept: they write the user's new row through *)
(* and broadcast.  Readers are REST requests: they read the cache in two   *)
(* commands, and rebuild it from PostgreSQL when they find it cold.        *)
(***************************************************************************)
EXTENDS Integers, FiniteSets

CONSTANTS
  Users,
  Problems,
  SqlName,      \* place of a user's name in the order of citext
  GoName,       \* its place in the byte order of Go strings
  Member,       \* place of a user's ID among the members of a sorted set
  Scorers,
  Readers,
  Limit,        \* leaderboardLimit and leaderboardBroadcastSize, both 50
  Elapsed,      \* seconds from the start of the contest to an accept
  Attempts,     \* wrong attempts before it
  Surcharge,    \* wrongAttemptPenalty in seconds
  MaxPenalty,   \* bound: penalty seconds of one problem
  Weight,       \* solvedWeight, 1e12
  MaxSolves,    \* bound: first solves in one behaviour
  FaultKinds,   \* faults that may happen
  MaxFaults     \* bound: faults in one behaviour

Injective(f) == \A u, v \in DOMAIN f : f[u] = f[v] => u = v

\* Deviation: an accept stamped before the start earns negative seconds.
Unclamped(e) == e
SolveTime(e) == IF e < 0 THEN 0 ELSE e

\* What a first solve adds to penalty_s.
PenaltyOf(e, k) == SolveTime(e) + k * Surcharge

\* Weight outweighs any penalty total that a user can have.
ASSUME LeaderboardConstants ==
  /\ IsFiniteSet(Users) /\ IsFiniteSet(Problems)
  /\ \A f \in {SqlName, GoName, Member} : f \in [Users -> Int] /\ Injective(f)
  /\ Scorers \cap Readers = {}
  /\ Limit \in Nat \ {0}
  /\ Elapsed \in SUBSET Int /\ Attempts \in SUBSET Nat /\ Surcharge \in Nat
  /\ MaxPenalty \in Nat
  /\ \A e \in Elapsed, k \in Attempts : PenaltyOf(e, k) <= MaxPenalty
  /\ Weight \in Nat
  /\ Cardinality(Problems) * MaxPenalty < Weight
  /\ MaxSolves \in Nat
  /\ FaultKinds \subseteq {"redis", "db", "crash"}
  /\ MaxFaults \in Nat

Clients == Scorers \cup Readers

VARIABLES
  solves,    \* problem_solves: pairs <<user, problem>>
  standing,  \* leaderboard_entries: solved and penalty; solved is 0 without a row
  cache,     \* rows in the sorted set and the hash
  volatile,  \* do the keys have a TTL
  pc,        \* where each scorer and reader is
  rows,      \* the standings, or the one row, it has in hand
  ids,       \* the members ZREVRANGE gave a reader
  shown,     \* the standings last sent: a leaderboard.update, or an answer
  faults,    \* faults left
  past       \* history: every row leaderboard_entries ever had

vars == <<solves, standing, cache, volatile, pc, rows, ids, shown, faults, past>>

Row == [user: Users, solved: Nat, penalty: Nat]
RankedRow == [rank: Nat \ {0}, row: Row]
PcStates == {"idle", "set", "load", "publish", "meta", "sql", "rebuild"}

TypeOK ==
  /\ solves \in SUBSET (Users \X Problems)
  /\ standing \in [Users -> [solved: Nat, penalty: Nat]]
  /\ cache \in SUBSET Row
  /\ volatile \in BOOLEAN
  /\ pc \in [Clients -> PcStates]
  /\ rows \in [Clients -> SUBSET Row]
  /\ ids \in [Readers -> SUBSET Users]
  /\ shown \in SUBSET RankedRow
  /\ faults \in 0..MaxFaults
  /\ past \in SUBSET Row

Init ==
  /\ solves = {}
  /\ standing = [u \in Users |-> [solved |-> 0, penalty |-> 0]]
  /\ cache = {}
  /\ volatile = FALSE
  /\ pc = [c \in Clients |-> "idle"]
  /\ rows = [c \in Clients |-> {}]
  /\ ids = [r \in Readers |-> {}]
  /\ shown = {}
  /\ faults = MaxFaults
  /\ past = {}

Fault(kind) ==
  /\ kind \in FaultKinds
  /\ faults > 0
  /\ faults' = faults - 1

-----------------------------------------------------------------------------
(* The orders.                                                             *)

\* x has a better result than y.
StandsAhead(x, y) ==
  \/ x.solved > y.solved
  \/ x.solved = y.solved /\ x.penalty < y.penalty

Ties(x, y) == x.solved = y.solved /\ x.penalty = y.penalty

\* ORDER BY solved DESC, penalty_s ASC, username ASC.
SqlBefore(x, y) == StandsAhead(x, y) \/ (Ties(x, y) /\ SqlName[x.user] < SqlName[y.user])

\* Deviation: the penalty counts for the user.
PenaltyAdded(x) == x.solved * Weight + x.penalty
RankScore(x) == x.solved * Weight - x.penalty

\* ZREVRANGE: scores from high to low, equal scores by member, also reversed.
ScoreBefore(x, y) ==
  \/ RankScore(x) > RankScore(y)
  \/ RankScore(x) = RankScore(y) /\ Member[x.user] > Member[y.user]

\* Deviation: keep the order of ZREVRANGE.
AsFetched(x, y) == ScoreBefore(x, y)

\* TopLeaderboard's sort of what it fetched.
GoBefore(x, y) == StandsAhead(x, y) \/ (Ties(x, y) /\ GoName[x.user] < GoName[y.user])

\* Those of S that fewer than n others come before: LIMIT n, or ZREVRANGE 0 n-1.
Top(n, S, Before(_, _)) == {x \in S : Cardinality({y \in S : Before(y, x)}) < n}

\* The rows of S with their ranks, i + 1 for the i-th of the sorted rows.
Ranked(S, Before(_, _)) ==
  {[rank |-> Cardinality({y \in S : Before(y, x)}) + 1, row |-> x] : x \in S}

RowOf(u) == [user |-> u, solved |-> standing[u].solved, penalty |-> standing[u].penalty]

Entries == {RowOf(u) : u \in {v \in Users : standing[v].solved > 0}}

GetLeaderboard == Top(Limit, Entries, SqlBefore)

-----------------------------------------------------------------------------
(* Commands on the cache.                                                  *)

\* Deviation: add the new row and keep the old one.
Appended(r) == cache \cup {r}
Upserted(r) == {x \in cache : x.user # r.user} \cup {r}

WriteThrough(r) ==
  /\ cache' = Upserted(r)
  /\ volatile' = TRUE

\* Deviation: rebuild without EXPIRE.
NoExpire(S) == FALSE

\* EXPIRE of keys that DEL removed and no ZADD wrote again does nothing.
Expires(S) == S # {}

\* DEL, then every row of S.
ReplaceAll(S) ==
  /\ cache' = S
  /\ volatile' = Expires(S)

-----------------------------------------------------------------------------
(* score: one judge goroutine.                                             *)

\* The transaction of a first solve.  A repeated accept changes nothing and
\* returns before the cache is written; so does an error.
ApplyAccepted(w, u, p, e, k) ==
  /\ pc[w] = "idle"
  /\ <<u, p>> \notin solves
  /\ Cardinality(solves) < MaxSolves
  /\ solves' = solves \cup {<<u, p>>}
  /\ LET new == [user |-> u,
                 solved |-> standing[u].solved + 1,
                 penalty |-> standing[u].penalty + PenaltyOf(e, k)]
     IN /\ standing' = [standing EXCEPT ![u] = [solved |-> new.solved, penalty |-> new.penalty]]
        /\ past' = past \cup {new}
        /\ rows' = [rows EXCEPT ![w] = {new}]
  /\ pc' = [pc EXCEPT ![w] = "set"]
  /\ UNCHANGED <<cache, volatile, ids, shown, faults>>

SetLeaderboardEntry(w) ==
  /\ pc[w] = "set"
  /\ \E r \in rows[w] : WriteThrough(r)
  /\ pc' = [pc EXCEPT ![w] = "load"]
  /\ UNCHANGED <<solves, standing, rows, ids, shown, faults, past>>

\* Best effort: the error, before or after Redis applied the MULTI, is logged.
SetLeaderboardEntryFails(w) ==
  /\ pc[w] = "set"
  /\ Fault("redis")
  /\ (\E r \in rows[w] : WriteThrough(r)) \/ UNCHANGED <<cache, volatile>>
  /\ pc' = [pc EXCEPT ![w] = "load"]
  /\ UNCHANGED <<solves, standing, rows, ids, shown, past>>

LoadStandings(w) ==
  /\ pc[w] = "load"
  /\ rows' = [rows EXCEPT ![w] = GetLeaderboard]
  /\ pc' = [pc EXCEPT ![w] = "publish"]
  /\ UNCHANGED <<solves, standing, cache, volatile, ids, shown, faults, past>>

\* c has nothing more to do.
Done(c) ==
  /\ pc' = [pc EXCEPT ![c] = "idle"]
  /\ rows' = [rows EXCEPT ![c] = {}]

Publish(w) ==
  /\ pc[w] = "publish"
  /\ shown' = Ranked(rows[w], SqlBefore)
  /\ Done(w)
  /\ UNCHANGED <<solves, standing, cache, volatile, ids, faults, past>>

\* The standings cannot be read, or the PUBLISH fails: no broadcast.
BroadcastFails(w) ==
  /\ \/ pc[w] = "load" /\ Fault("db")
     \/ pc[w] = "publish" /\ Fault("redis")
  /\ Done(w)
  /\ UNCHANGED <<solves, standing, cache, volatile, ids, shown, past>>

-----------------------------------------------------------------------------
(* leaderboardRows: one request.                                           *)

\* ZREVRANGE 0 Limit-1.
ReadIds(r) ==
  /\ pc[r] = "idle"
  /\ ids' = [ids EXCEPT ![r] = {x.user : x \in Top(Limit, cache, ScoreBefore)}]
  /\ pc' = [pc EXCEPT ![r] = IF cache = {} THEN "sql" ELSE "meta"]
  /\ UNCHANGED <<solves, standing, cache, volatile, rows, shown, faults, past>>

\* HMGET of those members; one without a field is skipped.
ReadMeta(r) ==
  /\ pc[r] = "meta"
  /\ shown' = Ranked({x \in cache : x.user \in ids[r]}, GoBefore)
  /\ ids' = [ids EXCEPT ![r] = {}]
  /\ Done(r)
  /\ UNCHANGED <<solves, standing, cache, volatile, faults, past>>

\* Either command fails: fall back to PostgreSQL.
ReadFails(r) ==
  /\ pc[r] \in {"idle", "meta"}
  /\ Fault("redis")
  /\ ids' = [ids EXCEPT ![r] = {}]
  /\ pc' = [pc EXCEPT ![r] = "sql"]
  /\ UNCHANGED <<solves, standing, cache, volatile, rows, shown, past>>

ReadStandings(r) ==
  /\ pc[r] = "sql"
  /\ rows' = [rows EXCEPT ![r] = GetLeaderboard]
  /\ pc' = [pc EXCEPT ![r] = "rebuild"]
  /\ UNCHANGED <<solves, standing, cache, volatile, ids, shown, faults, past>>

\* The request answers 500.
ReadStandingsFails(r) ==
  /\ pc[r] = "sql"
  /\ Fault("db")
  /\ Done(r)
  /\ UNCHANGED <<solves, standing, cache, volatile, ids, shown, past>>

RebuildLeaderboard(r) ==
  /\ pc[r] = "rebuild"
  /\ ReplaceAll(rows[r])
  /\ shown' = Ranked(rows[r], SqlBefore)
  /\ Done(r)
  /\ UNCHANGED <<solves, standing, ids, faults, past>>

\* The answer is given all the same.
RebuildLeaderboardFails(r) ==
  /\ pc[r] = "rebuild"
  /\ Fault("redis")
  /\ ReplaceAll(rows[r]) \/ UNCHANGED <<cache, volatile>>
  /\ shown' = Ranked(rows[r], SqlBefore)
  /\ Done(r)
  /\ UNCHANGED <<solves, standing, ids, past>>

-----------------------------------------------------------------------------
\* The TTL runs out.  It may at any moment, so this is also what a restart of
\* Redis without persistence looks like.
Expire ==
  /\ volatile
  /\ cache' = {}
  /\ volatile' = FALSE
  /\ UNCHANGED <<solves, standing, pc, rows, ids, shown, faults, past>>

\* The process dies, or the client hangs up and its context ends.
Crash(c) ==
  /\ pc[c] # "idle"
  /\ Fault("crash")
  /\ Done(c)
  /\ ids' = [r \in Readers |-> IF r = c THEN {} ELSE ids[r]]
  /\ UNCHANGED <<solves, standing, cache, volatile, shown, past>>

\* What a scorer does after the transaction, and a request once it runs.
ScorerStep(w) == SetLeaderboardEntry(w) \/ LoadStandings(w) \/ Publish(w)
ReaderStep(r) == ReadMeta(r) \/ ReadStandings(r) \/ RebuildLeaderboard(r)

Next ==
  \/ \E w \in Scorers : \/ \E u \in Users, p \in Problems, e \in Elapsed, k \in Attempts :
                             ApplyAccepted(w, u, p, e, k)
                        \/ ScorerStep(w)
                        \/ SetLeaderboardEntryFails(w)
                        \/ BroadcastFails(w)
  \/ \E r \in Readers : \/ ReadIds(r)
                        \/ ReaderStep(r)
                        \/ ReadFails(r)
                        \/ ReadStandingsFails(r)
                        \/ RebuildLeaderboardFails(r)
  \/ \E c \in Clients : Crash(c)
  \/ Expire

Spec == Init /\ [][Next]_vars

\* Calls have deadlines, and a key with a TTL expires once writes stop
\* renewing it, which they do: a contest has finitely many first solves.  No
\* client has to read and nobody has to solve anything.
Fairness ==
  /\ \A w \in Scorers : WF_vars(ScorerStep(w))
  /\ \A r \in Readers : WF_vars(ReaderStep(r))
  /\ WF_vars(Expire)

FairSpec == Spec /\ Fairness

-----------------------------------------------------------------------------
(* Properties.                                                             *)

OneRowEach(S) == \A x, y \in S : x.user = y.user => x = y

RowsOf(standings) == {x.row : x \in standings}

\* The cache, a broadcast and an answer hold only rows that
\* leaderboard_entries had at some time, and at most one for each user,
\* whatever writers, rebuilds and expiries do between the commands of a read
\* (SetLeaderboardEntry, TopLeaderboard, RebuildLeaderboard).
Truthful ==
  \A S \in {cache, RowsOf(shown)} : S \subseteq past /\ OneRowEach(S)

\* Whoever sends standings ranks them as PostgreSQL would, also after the
\* sorted set broke a tie the other way, provided that Go and citext order
\* the names alike (TopLeaderboard's re-sort, ADR-0012).
RanksLikeSql ==
  (\A u, v \in Users : SqlName[u] < SqlName[v] <=> GoName[u] < GoName[v])
    => \A x, y \in shown : x.rank < y.rank <=> SqlBefore(x.row, y.row)

\* Whatever the limit, the packed score never puts a worse result among the
\* first n at the cost of a better one, for every mix of old and new rows
\* that the cache can have (rankScore).
CutIsRight ==
  \A n \in 1..Cardinality(Users) :
    LET best == Top(n, cache, ScoreBefore)
    IN \A x \in best, y \in cache \ best : ~StandsAhead(y, x)

\* Stale contents do not last: the cache is in the end cold, or exactly what
\* GetLeaderboard returns (the TTL of every write, and the rebuild on a cold
\* read).
Settles == <>[](cache = {} \/ cache = GetLeaderboard)
=============================================================================
