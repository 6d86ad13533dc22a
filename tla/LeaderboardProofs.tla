-------------------------- MODULE LeaderboardProofs -------------------------
(***************************************************************************)
(* Theorems about Leaderboard for every number of users, problems, judge   *)
(* goroutines, requests and faults.                                        *)
(***************************************************************************)
EXTENDS Leaderboard, FiniteSetTheorems, TLAPS

-----------------------------------------------------------------------------
(* The packed score.                                                       *)

\* As long as penalties stay below Weight, rankScore orders two results as
\* (solved desc, penalty asc) does.
THEOREM RankScoreOrders ==
  ASSUME NEW x \in Row, NEW y \in Row, x.penalty < Weight, y.penalty < Weight
  PROVE  StandsAhead(x, y) <=> RankScore(x) > RankScore(y)
<1> DEFINE a == x.solved  b == y.solved  p == x.penalty  q == y.penalty
<1>1. a \in Nat /\ b \in Nat /\ p \in Nat /\ q \in Nat /\ Weight \in Nat
  BY LeaderboardConstants DEF LeaderboardConstants, Row
<1>2. p < Weight /\ q < Weight
  OBVIOUS
<1> HIDE DEF a, b, p, q
<1>3. ASSUME NEW m \in Nat, NEW n \in Nat, m > n
      PROVE  m * Weight >= n * Weight + Weight
  <2>1. PICK d \in Nat : m = n + 1 + d
    <3>1. m - n - 1 \in Nat /\ m = n + 1 + (m - n - 1)
      BY <1>3
    <3> QED
      BY <3>1
  <2>2. d * Weight \in Nat /\ n * Weight \in Nat
    BY <1>1
  <2>3. m * Weight = n * Weight + Weight + d * Weight
    BY <1>1, <2>1
  <2> QED
    BY <1>1, <2>2, <2>3
<1>4. a * Weight \in Nat /\ b * Weight \in Nat
  BY <1>1
<1>5. a > b => a * Weight >= b * Weight + Weight
  BY <1>1, <1>3
<1>6. b > a => b * Weight >= a * Weight + Weight
  BY <1>1, <1>3
<1>7. (a > b \/ (a = b /\ p < q)) <=> a * Weight - p > b * Weight - q
  <2>1. CASE a > b
    BY <2>1, <1>1, <1>2, <1>4, <1>5
  <2>2. CASE b > a
    BY <2>2, <1>1, <1>2, <1>4, <1>6
  <2>3. CASE a = b
    BY <2>3, <1>1, <1>4
  <2> QED
    BY <2>1, <2>2, <2>3, <1>1
<1> QED
  BY <1>7 DEF StandsAhead, RankScore, a, b, p, q

-----------------------------------------------------------------------------
(* Sets of rows.                                                           *)

\* A set of rows with at most one for each user is finite.
LEMMA OneRowFinite ==
  ASSUME NEW S \in SUBSET Row, OneRowEach(S)
  PROVE  IsFiniteSet(S)
<1> DEFINE f == [x \in S |-> x.user]
<1>1. f \in Injection(S, Users)
  BY DEF Injection, IsInjective, OneRowEach, Row
<1> QED
  BY <1>1, FS_Injection, LeaderboardConstants DEF LeaderboardConstants

LEMMA EntriesSound ==
  ASSUME TypeOK
  PROVE  /\ Entries \in SUBSET Row /\ OneRowEach(Entries)
         /\ GetLeaderboard \in SUBSET Entries /\ OneRowEach(GetLeaderboard)
<1>1. Entries \in SUBSET Row
  BY DEF TypeOK, Entries, RowOf, Row
<1>2. OneRowEach(Entries)
  BY DEF Entries, RowOf, OneRowEach
<1>3. GetLeaderboard \in SUBSET Entries
  BY DEF GetLeaderboard, Top
<1> QED
  BY <1>1, <1>2, <1>3 DEF OneRowEach

\* Ranking adds ranks to the rows and changes nothing else.
LEMMA RanksAdded ==
  ASSUME NEW S \in SUBSET Row, NEW f \in [S -> Nat \ {0}], NEW T,
         T = {[rank |-> f[x], row |-> x] : x \in S}
  PROVE  T \in SUBSET RankedRow /\ RowsOf(T) = S
<1>1. T \in SUBSET RankedRow
  BY DEF RankedRow
<1>2. RowsOf(T) \subseteq S
  BY DEF RowsOf
<1>3. ASSUME NEW x \in S PROVE x \in RowsOf(T)
  <2>1. [rank |-> f[x], row |-> x] \in T
    OBVIOUS
  <2>2. [rank |-> f[x], row |-> x].row = x
    OBVIOUS
  <2> QED
    BY <2>1, <2>2 DEF RowsOf
<1> QED
  BY <1>1, <1>2, <1>3

LEMMA RankedSound ==
  ASSUME NEW S \in SUBSET Row, OneRowEach(S), NEW T,
         T = Ranked(S, SqlBefore) \/ T = Ranked(S, GoBefore)
  PROVE  T \in SUBSET RankedRow /\ RowsOf(T) = S
<1>1. IsFiniteSet(S)
  BY OneRowFinite
<1>2. ASSUME NEW R \in SUBSET S PROVE Cardinality(R) + 1 \in Nat \ {0}
  BY <1>1, FS_Subset, FS_CardinalityType
<1>3. CASE T = Ranked(S, SqlBefore)
  <2> DEFINE f == [x \in S |-> Cardinality({y \in S : SqlBefore(y, x)}) + 1]
  <2>1. f \in [S -> Nat \ {0}]
    <3>1. \A x \in S : Cardinality({y \in S : SqlBefore(y, x)}) + 1 \in Nat \ {0}
      BY <1>2
    <3> QED
      BY <3>1
  <2>2. T = {[rank |-> f[x], row |-> x] : x \in S}
    BY <1>3 DEF Ranked
  <2> HIDE DEF f
  <2> QED
    BY <2>1, <2>2, RanksAdded
<1>4. CASE T = Ranked(S, GoBefore)
  <2> DEFINE f == [x \in S |-> Cardinality({y \in S : GoBefore(y, x)}) + 1]
  <2>1. f \in [S -> Nat \ {0}]
    <3>1. \A x \in S : Cardinality({y \in S : GoBefore(y, x)}) + 1 \in Nat \ {0}
      BY <1>2
    <3> QED
      BY <3>1
  <2>2. T = {[rank |-> f[x], row |-> x] : x \in S}
    BY <1>4 DEF Ranked
  <2> HIDE DEF f
  <2> QED
    BY <2>1, <2>2, RanksAdded
<1> QED
  BY <1>3, <1>4

-----------------------------------------------------------------------------
(* The inductive invariant.                                                *)

\* Only rows that PostgreSQL had, one for each user.
Sound(S) == S \subseteq past /\ OneRowEach(S)

SolvedBy(u) == {p \in Problems : <<u, p>> \in solves}

\* leaderboard_entries counts problem_solves, and a user's penalty is bounded
\* by what the solved problems can cost.
Counted ==
  \A u \in Users : /\ standing[u].solved = Cardinality(SolvedBy(u))
                   /\ standing[u].penalty <= standing[u].solved * MaxPenalty

\* What was sent is a ranking of some set of rows, one for each user.
Sent == \E S \in SUBSET Row : /\ OneRowEach(S)
                             /\ shown \in {Ranked(S, SqlBefore), Ranked(S, GoBefore)}

IInv ==
  /\ TypeOK
  /\ Sent
  /\ Sound(cache)
  /\ Sound(RowsOf(shown))
  /\ \A c \in Clients : Sound(rows[c])
  /\ \A u \in Users : standing[u].solved > 0 => RowOf(u) \in past
  /\ Counted
  /\ \A x \in past : x.penalty < Weight

LEMMA InitInv == Init => IInv
<1> SUFFICES ASSUME Init PROVE IInv
  OBVIOUS
<1>1. TypeOK
  <2>1. volatile \in BOOLEAN
    BY DEF Init
  <2>2. faults \in 0..MaxFaults
    BY LeaderboardConstants DEF Init, LeaderboardConstants
  <2> QED
    BY <2>1, <2>2 DEF Init, TypeOK, PcStates
<1>2. Sound(cache) /\ Sound(RowsOf(shown)) /\ \A c \in Clients : Sound(rows[c])
  BY DEF Init, Sound, RowsOf, OneRowEach
<1>3. Counted
  <2>1. \A u \in Users : SolvedBy(u) = {}
    BY DEF Init, SolvedBy
  <2>2. 0 <= 0 * MaxPenalty
    BY LeaderboardConstants DEF LeaderboardConstants
  <2> QED
    BY <2>1, <2>2, FS_EmptySet DEF Init, Counted
<1>4. Sent
  <2>1. Ranked({}, SqlBefore) = {} /\ OneRowEach({})
    BY DEF Ranked, OneRowEach
  <2> QED
    BY <2>1 DEF Init, Sent
<1> QED
  BY <1>1, <1>2, <1>3, <1>4 DEF Init, IInv

\* A step that leaves PostgreSQL alone keeps the invariant if it puts nothing
\* but sound sets into the cache, into hands and on display.
LEMMA QuietStep ==
  ASSUME IInv,
         UNCHANGED <<solves, standing, past>>,
         volatile' \in BOOLEAN,
         pc' \in [Clients -> PcStates],
         ids' \in [Readers -> SUBSET Users],
         faults' \in 0..MaxFaults,
         Sound(cache'),
         DOMAIN rows' = Clients, rows' = [c \in Clients |-> rows'[c]],
         \A c \in Clients : Sound(rows'[c]),
         \/ shown' = shown
         \/ \E S : Sound(S) /\ shown' \in {Ranked(S, SqlBefore), Ranked(S, GoBefore)}
  PROVE  IInv'
<1>1. past \in SUBSET Row
  BY DEF IInv, TypeOK
<1>2. shown' \in SUBSET RankedRow /\ Sound(RowsOf(shown'))
  <2>1. CASE shown' = shown
    BY <2>1 DEF IInv, TypeOK
  <2>2. ASSUME NEW S, Sound(S), shown' \in {Ranked(S, SqlBefore), Ranked(S, GoBefore)}
        PROVE  shown' \in SUBSET RankedRow /\ Sound(RowsOf(shown'))
    <3>1. S \in SUBSET Row /\ OneRowEach(S)
      BY <2>2, <1>1 DEF Sound
    <3>2. shown' \in SUBSET RankedRow /\ RowsOf(shown') = S
      BY <2>2, <3>1, RankedSound
    <3> QED
      BY <2>2, <3>2
  <2> QED
    BY <2>1, <2>2
<1>3. TypeOK'
  <2>1. cache' \in SUBSET Row /\ rows' \in [Clients -> SUBSET Row]
    BY <1>1 DEF Sound
  <2> QED
    BY <1>2, <2>1 DEF IInv, TypeOK
<1>4. Sound(cache)' /\ Sound(RowsOf(shown))' /\ \A c \in Clients : Sound(rows[c])'
  BY <1>2 DEF Sound, RowsOf, OneRowEach
<1>5. Counted' /\ (\A u \in Users : standing[u].solved > 0 => RowOf(u) \in past)'
  BY DEF IInv, Counted, SolvedBy, RowOf
<1>6. Sent'
  <2>1. CASE shown' = shown
    BY <2>1 DEF IInv, Sent
  <2>2. ASSUME NEW S, Sound(S), shown' \in {Ranked(S, SqlBefore), Ranked(S, GoBefore)}
        PROVE  Sent'
    <3>1. S \in SUBSET Row /\ OneRowEach(S)
      BY <2>2, <1>1 DEF Sound
    <3> QED
      BY <2>2, <3>1 DEF Sent
  <2> QED
    BY <2>1, <2>2
<1> QED
  BY <1>3, <1>4, <1>5, <1>6 DEF IInv

LEMMA PenaltyBound ==
  ASSUME NEW e \in Elapsed, NEW k \in Attempts
  PROVE  PenaltyOf(e, k) \in Nat /\ PenaltyOf(e, k) <= MaxPenalty
<1>1. SolveTime(e) \in Nat
  BY LeaderboardConstants DEF LeaderboardConstants, SolveTime
<1>2. k * Surcharge \in Nat
  BY LeaderboardConstants DEF LeaderboardConstants
<1> QED
  BY <1>1, <1>2, LeaderboardConstants DEF LeaderboardConstants, PenaltyOf

\* Products grow with their first factor.
LEMMA Monotone ==
  ASSUME NEW a \in Nat, NEW b \in Nat, NEW m \in Nat, a <= b
  PROVE  a * m <= b * m
<1>1. PICK d \in Nat : b = a + d
  <2>1. b - a \in Nat /\ b = a + (b - a)
    OBVIOUS
  <2> QED
    BY <2>1
<1>2. b * m = a * m + d * m /\ d * m \in Nat /\ a * m \in Nat
  BY <1>1
<1> QED
  BY <1>2

\* A first solve.
LEMMA AcceptStep ==
  ASSUME IInv, NEW w \in Scorers, NEW u \in Users, NEW p \in Problems,
         NEW e \in Elapsed, NEW k \in Attempts, ApplyAccepted(w, u, p, e, k)
  PROVE  IInv'
<1> DEFINE d == PenaltyOf(e, k)
           n == standing[u].solved
           new == [user |-> u, solved |-> n + 1, penalty |-> standing[u].penalty + d]
<1>1. d \in Nat /\ d <= MaxPenalty
  BY PenaltyBound
<1>2. n \in Nat /\ standing[u].penalty \in Nat /\ w \in Clients
  BY DEF IInv, TypeOK, Clients
<1>3. /\ solves' = solves \cup {<<u, p>>} /\ <<u, p>> \notin solves
      /\ standing' = [standing EXCEPT ![u] = [solved |-> n + 1,
                                             penalty |-> standing[u].penalty + d]]
      /\ past' = past \cup {new}
      /\ rows' = [rows EXCEPT ![w] = {new}]
      /\ pc' = [pc EXCEPT ![w] = "set"]
      /\ UNCHANGED <<cache, volatile, ids, shown, faults>>
  BY DEF ApplyAccepted
<1> HIDE DEF d
<1>4. new \in Row
  BY <1>1, <1>2 DEF Row
<1>5. TypeOK'
  <2>1. standing' \in [Users -> [solved: Nat, penalty: Nat]]
    BY <1>1, <1>2, <1>3 DEF IInv, TypeOK
  <2>2. volatile' \in BOOLEAN
    BY <1>3 DEF IInv, TypeOK
  <2>3. rows' \in [Clients -> SUBSET Row] /\ past' \in SUBSET Row
    BY <1>2, <1>3, <1>4 DEF IInv, TypeOK
  <2>4. pc' \in [Clients -> PcStates] /\ solves' \in SUBSET (Users \X Problems)
    BY <1>2, <1>3 DEF IInv, TypeOK, PcStates
  <2> HIDE DEF new
  <2> QED
    BY <2>1, <2>2, <2>3, <2>4, <1>3 DEF IInv, TypeOK
<1>6. /\ Sound(cache)' /\ Sound(RowsOf(shown))' /\ \A c \in Clients : Sound(rows[c])'
  <2>1. past \subseteq past' /\ new \in past'
    BY <1>3
  <2>2. Sound(cache)' /\ Sound(RowsOf(shown))'
    BY <2>1, <1>3 DEF IInv, Sound, RowsOf, OneRowEach
  <2>3. ASSUME NEW c \in Clients PROVE Sound(rows[c])'
    <3>1. rows'[c] = IF c = w THEN {new} ELSE rows[c]
      BY <1>3 DEF IInv, TypeOK
    <3> HIDE DEF new
    <3> QED
      BY <3>1, <2>1 DEF IInv, Sound, OneRowEach
  <2> QED
    BY <2>2, <2>3
<1>7. \A v \in Users : standing'[v] = IF v = u
         THEN [solved |-> n + 1, penalty |-> standing[u].penalty + d] ELSE standing[v]
  BY <1>3 DEF IInv, TypeOK
<1>8. (\A v \in Users : standing[v].solved > 0 => RowOf(v) \in past)'
  <2>1. RowOf(u)' = new
    BY <1>7 DEF RowOf
  <2>2. \A v \in Users \ {u} : RowOf(v)' = RowOf(v)
    BY <1>7 DEF RowOf
  <2> QED
    BY <1>3, <1>7, <2>1, <2>2 DEF IInv
<1>9. /\ Cardinality(SolvedBy(u)') = n + 1
      /\ n + 1 <= Cardinality(Problems) /\ Cardinality(Problems) \in Nat
      /\ \A v \in Users \ {u} : SolvedBy(v)' = SolvedBy(v)
  <2>1. SolvedBy(u)' = SolvedBy(u) \cup {p} /\ p \notin SolvedBy(u)
    BY <1>3 DEF SolvedBy
  <2>2. SolvedBy(u) \in SUBSET Problems /\ SolvedBy(u)' \in SUBSET Problems
    BY DEF SolvedBy
  <2>3. IsFiniteSet(Problems)
    BY LeaderboardConstants DEF LeaderboardConstants
  <2>4. Cardinality(SolvedBy(u)) = n
    BY DEF IInv, Counted
  <2>5. IsFiniteSet(SolvedBy(u))
    BY <2>2, <2>3, FS_Subset
  <2>6. Cardinality(SolvedBy(u)') = n + 1
    BY <2>1, <2>4, <2>5, FS_AddElement
  <2>7. Cardinality(SolvedBy(u)') <= Cardinality(Problems) /\ Cardinality(Problems) \in Nat
    BY <2>2, <2>3, FS_Subset, FS_CardinalityType
  <2>8. \A v \in Users \ {u} : SolvedBy(v)' = SolvedBy(v)
    BY <1>3 DEF SolvedBy
  <2> QED
    BY <2>6, <2>7, <2>8
<1>10. standing[u].penalty + d <= (n + 1) * MaxPenalty
  <2>1. standing[u].penalty <= n * MaxPenalty
    BY DEF IInv, Counted
  <2>2. MaxPenalty \in Nat
    BY LeaderboardConstants DEF LeaderboardConstants
  <2>3. (n + 1) * MaxPenalty = n * MaxPenalty + MaxPenalty /\ n * MaxPenalty \in Nat
    BY <1>2, <2>2
  <2> HIDE DEF n
  <2> QED
    BY <1>1, <1>2, <2>1, <2>2, <2>3
<1>11. Counted'
  <2>1. ASSUME NEW v \in Users
        PROVE  /\ standing'[v].solved = Cardinality(SolvedBy(v)')
               /\ standing'[v].penalty <= standing'[v].solved * MaxPenalty
    <3>1. CASE v = u
      BY <3>1, <1>7, <1>9, <1>10
    <3>2. CASE v # u
      BY <3>2, <1>7, <1>9 DEF IInv, Counted
    <3> QED
      BY <3>1, <3>2
  <2> QED
    BY <2>1 DEF Counted
<1>12. \A x \in past' : x.penalty < Weight
  <2>1. (n + 1) * MaxPenalty <= Cardinality(Problems) * MaxPenalty
    BY <1>2, <1>9, Monotone, LeaderboardConstants DEF LeaderboardConstants
  <2>2. new.penalty < Weight
    <3>1. /\ Weight \in Nat /\ MaxPenalty \in Nat
          /\ Cardinality(Problems) * MaxPenalty < Weight
      BY LeaderboardConstants DEF LeaderboardConstants
    <3>2. (n + 1) * MaxPenalty \in Nat /\ Cardinality(Problems) * MaxPenalty \in Nat
      BY <3>1, <1>2, <1>9
    <3>3. new.penalty = standing[u].penalty + d
      OBVIOUS
    <3> HIDE DEF n, new
    <3> QED
      BY <3>1, <3>2, <3>3, <2>1, <1>10, <1>1, <1>2
  <2> QED
    BY <2>2, <1>3 DEF IInv
<1>13. Sent'
  BY <1>3 DEF IInv, Sent
<1> HIDE DEF new, n
<1> QED
  BY <1>5, <1>6, <1>8, <1>11, <1>12, <1>13 DEF IInv

LEMMA SoundSets ==
  ASSUME IInv
  PROVE  /\ Sound({}) /\ Sound(GetLeaderboard)
         /\ \A S \in SUBSET cache : Sound(S)
         /\ \A c \in Clients : \A r \in rows[c] : Sound(Upserted(r))
<1>1. Sound({}) /\ \A S \in SUBSET cache : Sound(S)
  BY DEF IInv, Sound, OneRowEach
<1>2. Sound(GetLeaderboard)
  <2>1. Entries \subseteq past
    BY DEF IInv, Entries
  <2>2. GetLeaderboard \in SUBSET Entries /\ OneRowEach(GetLeaderboard)
    BY EntriesSound DEF IInv
  <2> QED
    BY <2>1, <2>2 DEF Sound
<1>3. ASSUME NEW c \in Clients, NEW r \in rows[c] PROVE Sound(Upserted(r))
  <2>1. r \in past
    BY DEF IInv, Sound
  <2> QED
    BY <2>1 DEF IInv, Sound, OneRowEach, Upserted
<1> QED
  BY <1>1, <1>2, <1>3

\* What the steps below have in common.
LEMMA Moves ==
  ASSUME IInv
  PROVE  /\ volatile \in BOOLEAN /\ Sound(cache)
         /\ pc \in [Clients -> PcStates] /\ ids \in [Readers -> SUBSET Users]
         /\ rows = [c \in Clients |-> rows[c]] /\ \A c \in Clients : Sound(rows[c])
         /\ \A kind : Fault(kind) => faults' \in 0..MaxFaults
         /\ faults \in 0..MaxFaults
<1>1. volatile \in BOOLEAN
  BY DEF IInv, TypeOK
<1>2. \A kind : Fault(kind) => faults' \in 0..MaxFaults
  BY LeaderboardConstants DEF LeaderboardConstants, Fault, IInv, TypeOK
<1> QED
  BY <1>1, <1>2 DEF IInv, TypeOK

LEMMA ScorerSteps ==
  ASSUME IInv, NEW w \in Scorers,
         ScorerStep(w) \/ SetLeaderboardEntryFails(w) \/ BroadcastFails(w)
  PROVE  IInv'
<1>0. w \in Clients
  BY DEF Clients
<1>1. CASE SetLeaderboardEntry(w) \/ SetLeaderboardEntryFails(w)
  <2>1. /\ UNCHANGED <<solves, standing, past, rows, ids, shown>>
        /\ pc' = [pc EXCEPT ![w] = "load"]
        /\ faults' = faults \/ Fault("redis")
        /\ \/ \E r \in rows[w] : cache' = Upserted(r) /\ volatile' = TRUE
           \/ UNCHANGED <<cache, volatile>>
    BY <1>1 DEF SetLeaderboardEntry, SetLeaderboardEntryFails, WriteThrough
  <2>2. Sound(cache') /\ volatile' \in BOOLEAN
    BY <1>0, <2>1, SoundSets, Moves
  <2>3. pc' \in [Clients -> PcStates]
    BY <2>1, <1>0, Moves DEF PcStates
  <2>4. faults' \in 0..MaxFaults
    BY <2>1, Moves
  <2>5. DOMAIN rows' = Clients /\ rows' = [c \in Clients |-> rows'[c]]
    BY <2>1, Moves
  <2> QED
    BY <2>1, <2>2, <2>3, <2>4, <2>5, Moves, QuietStep
<1>2. CASE LoadStandings(w) \/ Publish(w) \/ BroadcastFails(w)
  <2>1. /\ UNCHANGED <<solves, standing, past, cache, volatile, ids>>
        /\ pc' = [pc EXCEPT ![w] = "publish"] \/ pc' = [pc EXCEPT ![w] = "idle"]
        /\ faults' = faults \/ Fault("redis") \/ Fault("db")
        /\ rows' = [rows EXCEPT ![w] = GetLeaderboard] \/ rows' = [rows EXCEPT ![w] = {}]
        /\ shown' = shown \/ shown' = Ranked(rows[w], SqlBefore)
    BY <1>2 DEF LoadStandings, Publish, BroadcastFails, Done
  <2>2. volatile' \in BOOLEAN
    BY <2>1, Moves
  <2>3. pc' \in [Clients -> PcStates]
    BY <2>1, <1>0, Moves DEF PcStates
  <2>4. faults' \in 0..MaxFaults
    BY <2>1, Moves
  <2>5. /\ DOMAIN rows' = Clients /\ rows' = [c \in Clients |-> rows'[c]]
        /\ \A c \in Clients : Sound(rows'[c])
    BY <2>1, <1>0, Moves, SoundSets
  <2>6. /\ Sound(rows[w])
        /\ shown' = shown \/ shown' \in {Ranked(rows[w], SqlBefore), Ranked(rows[w], GoBefore)}
    BY <2>1, <1>0, Moves
  <2> QED
    BY <2>1, <2>2, <2>3, <2>4, <2>5, <2>6, Moves, QuietStep
<1> QED
  BY <1>1, <1>2 DEF ScorerStep

LEMMA ReaderSteps ==
  ASSUME IInv, NEW r \in Readers,
         \/ ReadIds(r) \/ ReaderStep(r) \/ ReadFails(r)
         \/ ReadStandingsFails(r) \/ RebuildLeaderboardFails(r)
  PROVE  IInv'
<1>0. r \in Clients
  BY DEF Clients
<1>1. CASE ReadIds(r) \/ ReadMeta(r) \/ ReadFails(r)
  <2> DEFINE found == {x.user : x \in Top(Limit, cache, ScoreBefore)}
             fetched == {x \in cache : x.user \in ids[r]}
  <2>0. found \in SUBSET Users
    BY DEF IInv, TypeOK, Top, Row
  <2>1. /\ UNCHANGED <<solves, standing, past, cache, volatile>>
        /\ \/ pc' = [pc EXCEPT ![r] = "sql"] \/ pc' = [pc EXCEPT ![r] = "meta"]
           \/ pc' = [pc EXCEPT ![r] = "idle"]
        /\ ids' = [ids EXCEPT ![r] = found] \/ ids' = [ids EXCEPT ![r] = {}]
        /\ faults' = faults \/ Fault("redis")
        /\ rows' = rows \/ rows' = [rows EXCEPT ![r] = {}]
        /\ shown' = shown \/ shown' = Ranked(fetched, GoBefore)
    BY <1>1 DEF ReadIds, ReadMeta, ReadFails, Done
  <2>2. Sound(fetched)
    BY SoundSets
  <2> HIDE DEF found, fetched
  <2>3. volatile' \in BOOLEAN
    BY <2>1, Moves
  <2>4. pc' \in [Clients -> PcStates]
    BY <2>1, <1>0, Moves DEF PcStates
  <2>5. ids' \in [Readers -> SUBSET Users] /\ faults' \in 0..MaxFaults
    BY <2>0, <2>1, Moves
  <2>6. /\ DOMAIN rows' = Clients /\ rows' = [c \in Clients |-> rows'[c]]
        /\ \A c \in Clients : Sound(rows'[c])
    BY <2>1, <1>0, Moves, SoundSets
  <2>7. shown' = shown \/ shown' \in {Ranked(fetched, SqlBefore), Ranked(fetched, GoBefore)}
    BY <2>1
  <2> QED
    BY <2>1, <2>2, <2>3, <2>4, <2>5, <2>6, <2>7, Moves, QuietStep
<1>2. CASE \/ ReadStandings(r) \/ ReadStandingsFails(r)
           \/ RebuildLeaderboard(r) \/ RebuildLeaderboardFails(r)
  <2>1. /\ UNCHANGED <<solves, standing, past, ids>>
        /\ pc' = [pc EXCEPT ![r] = "rebuild"] \/ pc' = [pc EXCEPT ![r] = "idle"]
        /\ faults' = faults \/ Fault("redis") \/ Fault("db")
        /\ rows' = [rows EXCEPT ![r] = GetLeaderboard] \/ rows' = [rows EXCEPT ![r] = {}]
        /\ shown' = shown \/ shown' = Ranked(rows[r], SqlBefore)
        /\ cache' = cache \/ cache' = rows[r]
    BY <1>2 DEF ReadStandings, ReadStandingsFails, RebuildLeaderboard,
                RebuildLeaderboardFails, ReplaceAll, Done
  <2>2. volatile' = volatile \/ volatile' = Expires(rows[r])
    BY <1>2 DEF ReadStandings, ReadStandingsFails, RebuildLeaderboard,
                RebuildLeaderboardFails, ReplaceAll
  <2>3. volatile' \in BOOLEAN
    <3>1. Expires(rows[r]) \in BOOLEAN
      BY DEF Expires
    <3> QED
      BY <2>2, <3>1, Moves
  <2>4. pc' \in [Clients -> PcStates]
    BY <2>1, <1>0, Moves DEF PcStates
  <2>5. faults' \in 0..MaxFaults
    BY <2>1, Moves
  <2>6. /\ DOMAIN rows' = Clients /\ rows' = [c \in Clients |-> rows'[c]]
        /\ \A c \in Clients : Sound(rows'[c])
    BY <2>1, <1>0, Moves, SoundSets
  <2>7. /\ Sound(rows[r]) /\ Sound(cache')
        /\ shown' = shown \/ shown' \in {Ranked(rows[r], SqlBefore), Ranked(rows[r], GoBefore)}
    BY <2>1, <1>0, Moves
  <2> QED
    BY <2>1, <2>3, <2>4, <2>5, <2>6, <2>7, Moves, QuietStep
<1> QED
  BY <1>1, <1>2 DEF ReaderStep

LEMMA StepInv == IInv /\ [Next]_vars => IInv'
<1> SUFFICES ASSUME IInv, [Next]_vars PROVE IInv'
  OBVIOUS
<1>1. ASSUME NEW w \in Scorers, NEW u \in Users, NEW p \in Problems,
             NEW e \in Elapsed, NEW k \in Attempts, ApplyAccepted(w, u, p, e, k)
      PROVE  IInv'
  BY <1>1, AcceptStep
<1>2. ASSUME NEW w \in Scorers,
             ScorerStep(w) \/ SetLeaderboardEntryFails(w) \/ BroadcastFails(w)
      PROVE  IInv'
  BY <1>2, ScorerSteps
<1>3. ASSUME NEW r \in Readers,
             \/ ReadIds(r) \/ ReaderStep(r) \/ ReadFails(r)
             \/ ReadStandingsFails(r) \/ RebuildLeaderboardFails(r)
      PROVE  IInv'
  BY <1>3, ReaderSteps
<1>4. ASSUME NEW c \in Clients, Crash(c) PROVE IInv'
  <2>1. /\ UNCHANGED <<solves, standing, past, cache, volatile, shown>>
        /\ pc' = [pc EXCEPT ![c] = "idle"]
        /\ rows' = [rows EXCEPT ![c] = {}]
        /\ ids' = [r \in Readers |-> IF r = c THEN {} ELSE ids[r]]
        /\ Fault("crash")
    BY <1>4 DEF Crash, Done
  <2>2. volatile' \in BOOLEAN
    BY <2>1, Moves
  <2>3. pc' \in [Clients -> PcStates]
    BY <2>1, Moves DEF PcStates
  <2>4. ids' \in [Readers -> SUBSET Users] /\ faults' \in 0..MaxFaults
    BY <2>1, Moves
  <2>5. /\ DOMAIN rows' = Clients /\ rows' = [x \in Clients |-> rows'[x]]
        /\ \A x \in Clients : Sound(rows'[x])
    BY <2>1, Moves, SoundSets
  <2> QED
    BY <2>1, <2>2, <2>3, <2>4, <2>5, Moves, QuietStep
<1>5. CASE Expire
  <2>1. /\ UNCHANGED <<solves, standing, past, pc, rows, ids, shown, faults>>
        /\ cache' = {}
    BY <1>5 DEF Expire
  <2>2. volatile' \in BOOLEAN
    BY <1>5 DEF Expire
  <2>3. DOMAIN rows' = Clients /\ rows' = [x \in Clients |-> rows'[x]]
    BY <2>1, Moves
  <2> QED
    BY <2>1, <2>2, <2>3, Moves, SoundSets, QuietStep
<1>6. CASE UNCHANGED vars
  <2>1. /\ UNCHANGED <<solves, standing, past, pc, rows, ids, shown, faults, cache>>
        /\ UNCHANGED volatile
    BY <1>6 DEF vars
  <2>2. volatile' \in BOOLEAN
    BY <2>1, Moves
  <2>3. DOMAIN rows' = Clients /\ rows' = [x \in Clients |-> rows'[x]]
    BY <2>1, Moves
  <2> QED
    BY <2>1, <2>2, <2>3, Moves, QuietStep
<1> QED
  BY <1>1, <1>2, <1>3, <1>4, <1>5, <1>6 DEF Next

LEMMA Inductive == Spec => []IInv
<1> QED
  BY InitInv, StepInv, PTL DEF Spec

-----------------------------------------------------------------------------
\* Every variable keeps its type: in particular no penalty is ever negative,
\* whatever the clocks of the workers say.
THEOREM StandingsTyped == Spec => []TypeOK
<1>1. IInv => TypeOK
  BY DEF IInv
<1> QED
  BY Inductive, <1>1, PTL

\* However many writers, rebuilds and expiries race with a read, the cache, a
\* broadcast and an answer never hold a row that leaderboard_entries did not
\* have, nor a user twice.
THEOREM NothingInvented == Spec => []Truthful
<1>1. IInv => Truthful
  BY DEF IInv, Truthful, Sound
<1> QED
  BY Inductive, <1>1, PTL

\* A row that n rows come before is preceded by what precedes those.
LEMMA BetterIsFirst ==
  ASSUME NEW S \in SUBSET Row, IsFiniteSet(S), NEW n \in Nat,
         \A z \in S : z.penalty < Weight,
         NEW x \in Top(n, S, ScoreBefore), NEW y \in S, StandsAhead(y, x)
  PROVE  y \in Top(n, S, ScoreBefore)
<1> DEFINE before(z) == {v \in S : ScoreBefore(v, z)}
<1>1. x \in S /\ Cardinality(before(x)) < n
  BY DEF Top
<1>2. RankScore(y) > RankScore(x)
  BY <1>1, RankScoreOrders
<1>3. \A z \in S : RankScore(z) \in Int
  BY LeaderboardConstants DEF LeaderboardConstants, RankScore, Row
<1>4. ASSUME NEW v \in S, ScoreBefore(v, y) PROVE ScoreBefore(v, x)
  <2>1. RankScore(v) > RankScore(y) \/ RankScore(v) = RankScore(y)
    BY <1>4 DEF ScoreBefore
  <2>2. RankScore(v) \in Int /\ RankScore(y) \in Int /\ RankScore(x) \in Int
    BY <1>1, <1>3
  <2>3. RankScore(v) > RankScore(x)
    BY <1>2, <2>1, <2>2
  <2> QED
    BY <2>3 DEF ScoreBefore
<1>5. before(y) \in SUBSET before(x)
  BY <1>4
<1>6. IsFiniteSet(before(x)) /\ IsFiniteSet(before(y))
  BY FS_Subset
<1>7. Cardinality(before(y)) <= Cardinality(before(x))
  BY <1>5, <1>6, FS_Subset
<1>8. Cardinality(before(y)) \in Nat /\ Cardinality(before(x)) \in Nat
  BY <1>6, FS_CardinalityType
<1>9. Cardinality(before(y)) < n
  BY <1>1, <1>7, <1>8
<1> QED
  BY <1>9 DEF Top

\* The cut that ZREVRANGE makes is right for every contest whose penalties
\* are below Weight, whatever mix of old and new rows the cache holds.
THEOREM CutsAreRight == Spec => []CutIsRight
<1>1. IInv => CutIsRight
  <2> SUFFICES ASSUME IInv, NEW n \in 1..Cardinality(Users),
                      NEW x \in Top(n, cache, ScoreBefore),
                      NEW y \in cache \ Top(n, cache, ScoreBefore),
                      StandsAhead(y, x)
               PROVE  FALSE
    BY DEF CutIsRight
  <2>1. cache \in SUBSET Row /\ OneRowEach(cache) /\ \A z \in cache : z.penalty < Weight
    BY DEF IInv, TypeOK, Sound
  <2>2. IsFiniteSet(cache)
    BY <2>1, OneRowFinite
  <2>3. n \in Nat
    OBVIOUS
  <2> QED
    BY <2>1, <2>2, <2>3, BetterIsFirst
<1> QED
  BY Inductive, <1>1, PTL

\* The SQL order is a strict total order on rows of different users.
LEMMA SqlTotal ==
  ASSUME NEW x \in Row, NEW y \in Row
  PROVE  /\ ~(SqlBefore(x, y) /\ SqlBefore(y, x)) /\ ~SqlBefore(x, x)
         /\ \A z \in Row : SqlBefore(z, x) /\ SqlBefore(x, y) => SqlBefore(z, y)
         /\ x.user # y.user => SqlBefore(x, y) \/ SqlBefore(y, x)
<1>1. \A u \in Users : SqlName[u] \in Int
  BY LeaderboardConstants DEF LeaderboardConstants
<1>2. \A u, v \in Users : SqlName[u] = SqlName[v] => u = v
  BY LeaderboardConstants DEF LeaderboardConstants, Injective
<1>3. \A z \in Row : z.solved \in Nat /\ z.penalty \in Nat /\ z.user \in Users
  BY DEF Row
<1> QED
  BY <1>1, <1>2, <1>3 DEF SqlBefore, StandsAhead, Ties

\* Ranks by counting agree with the order they count.
LEMMA RanksAgree ==
  ASSUME NEW S \in SUBSET Row, OneRowEach(S),
         NEW a \in Ranked(S, SqlBefore), NEW b \in Ranked(S, SqlBefore)
  PROVE  a.rank < b.rank <=> SqlBefore(a.row, b.row)
<1> DEFINE before(z) == {v \in S : SqlBefore(v, z)}
           rank(z) == Cardinality(before(z)) + 1
<1>0. ASSUME NEW c \in Ranked(S, SqlBefore) PROVE c.row \in S /\ c.rank = rank(c.row)
  <2>1. PICK x \in S : c = [rank |-> rank(x), row |-> x]
    BY DEF Ranked
  <2> HIDE DEF rank
  <2>2. c.row = x /\ c.rank = rank(x)
    BY <2>1
  <2> QED
    BY <2>2
<1>1. a.row \in S /\ b.row \in S /\ a.rank = rank(a.row) /\ b.rank = rank(b.row)
  <2> HIDE DEF rank
  <2> QED
    BY <1>0
<1>2. IsFiniteSet(S)
  BY OneRowFinite
<1>3. ASSUME NEW z \in S PROVE IsFiniteSet(before(z)) /\ Cardinality(before(z)) \in Nat
  BY <1>2, FS_Subset, FS_CardinalityType
<1>4. ASSUME NEW x \in S, NEW y \in S, SqlBefore(x, y) PROVE rank(x) < rank(y)
  <2>1. before(x) \in SUBSET before(y)
    BY <1>4, SqlTotal
  <2>2. x \in before(y) /\ x \notin before(x)
    BY <1>4, SqlTotal
  <2>3. Cardinality(before(x)) <= Cardinality(before(y))
    BY <1>3, <2>1, FS_Subset
  <2>4. Cardinality(before(x)) # Cardinality(before(y))
    BY <1>3, <2>1, <2>2, FS_Subset
  <2> HIDE DEF before
  <2> QED
    BY <1>3, <2>3, <2>4
<1>5. \A z \in S : rank(z) \in Nat
  BY <1>3
<1> HIDE DEF rank
<1>6. CASE SqlBefore(a.row, b.row)
  <2>1. rank(a.row) < rank(b.row)
    BY <1>1, <1>4, <1>6
  <2> QED
    BY <1>1, <1>6, <2>1
<1>7. CASE SqlBefore(b.row, a.row)
  <2>1. rank(b.row) < rank(a.row)
    BY <1>1, <1>4, <1>7
  <2>2. ~SqlBefore(a.row, b.row)
    BY <1>1, <1>7, SqlTotal
  <2> QED
    <3>1. a.rank \in Nat /\ b.rank \in Nat /\ b.rank < a.rank
      BY <1>1, <1>5, <2>1
    <3> QED
      BY <2>2, <3>1
<1>8. CASE a.row = b.row
  <2>1. ~SqlBefore(a.row, b.row)
    BY <1>1, <1>8, SqlTotal
  <2> QED
    <3>1. a.rank \in Nat /\ b.rank = a.rank
      BY <1>1, <1>5, <1>8
    <3> QED
      BY <2>1, <3>1
<1>9. SqlBefore(a.row, b.row) \/ SqlBefore(b.row, a.row) \/ a.row = b.row
  <2>1. a.row.user = b.row.user => a.row = b.row
    BY <1>1 DEF OneRowEach
  <2> QED
    BY <1>1, <2>1, SqlTotal
<1> QED
  BY <1>6, <1>7, <1>8, <1>9

\* What is sent is ranked as PostgreSQL ranks it, from the cache or not, when
\* Go and citext order the names alike.
THEOREM RanksAreSqlRanks == Spec => []RanksLikeSql
<1>1. IInv => RanksLikeSql
  <2> SUFFICES ASSUME IInv,
                      \A u, v \in Users : SqlName[u] < SqlName[v] <=> GoName[u] < GoName[v]
               PROVE  \A x, y \in shown : x.rank < y.rank <=> SqlBefore(x.row, y.row)
    BY DEF RanksLikeSql
  <2>1. PICK S \in SUBSET Row : /\ OneRowEach(S)
                               /\ shown \in {Ranked(S, SqlBefore), Ranked(S, GoBefore)}
    BY DEF IInv, Sent
  <2>2. \A x, y \in S : GoBefore(x, y) <=> SqlBefore(x, y)
    BY DEF GoBefore, SqlBefore, Row
  <2>3. \A x \in S : {y \in S : GoBefore(y, x)} = {y \in S : SqlBefore(y, x)}
    BY <2>2
  <2>4. Ranked(S, GoBefore) = Ranked(S, SqlBefore)
    BY <2>3 DEF Ranked
  <2> QED
    BY <2>1, <2>4, RanksAgree
<1> QED
  BY Inductive, <1>1, PTL
=============================================================================
