------------------------------ MODULE RateLimit -----------------------------
(***************************************************************************)
(* One key of the fixed-window limiter (redisx/ratelimit.go): a counter,   *)
(* and its time to live.  INCR and EXPIRE are two commands.                *)
(***************************************************************************)
EXTENDS Integers, FiniteSets

CONSTANTS
  Limit,      \* calls per window
  Window      \* ticks of a window

ASSUME RateLimitConstants == Limit \in Nat \ {0} /\ Window \in Nat \ {0}

VARIABLES
  hits,       \* the counter; 0 without the key; Limit + 1 is any higher count
  ttl,        \* ticks the key has left; 0 when it has no time to live
  passed      \* history: calls let through, as <<ticks ago from 1 on, the count it was given>>

limitVars == <<hits, ttl, passed>>

LimitTypeOK ==
  /\ hits \in 0..(Limit + 1)
  /\ ttl \in 0..Window
  /\ passed \subseteq (1..Window) \X (1..Limit)

LimitInit ==
  /\ hits = 0 /\ ttl = 0
  /\ passed = {}

Counted == IF hits > Limit THEN hits ELSE hits + 1

Allowed(n) == n <= Limit

\* Deviation: the window is opened by the first call that is refused.
OpensLate(n) == n = Limit + 1

\* The call that made the key gives it its window.
Opens(n) == n = 1

\* Deviation: the unit of the window is wrong.
BriefWindow == 1

FullWindow == Window

\* INCR, and what goes through without an EXPIRE of its own.
Incr ==
  /\ hits' = Counted
  /\ passed' = passed \cup (IF Allowed(Counted) /\ ~Opens(Counted) THEN {<<1, Counted>>} ELSE {})
  /\ UNCHANGED ttl

Expire ==
  /\ ttl' = FullWindow
  /\ passed' = passed \cup {<<1, 1>>}
  /\ UNCHANGED hits

LimitTick ==
  /\ passed' = {<<p[1] + 1, p[2]>> : p \in {q \in passed : q[1] < Window}}
  /\ IF ttl = 1 THEN hits' = 0 /\ ttl' = 0
     ELSE ttl' = (IF ttl = 0 THEN 0 ELSE ttl - 1) /\ UNCHANGED hits
=============================================================================
