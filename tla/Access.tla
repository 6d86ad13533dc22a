------------------------------- MODULE Access -------------------------------
(***************************************************************************)
(* Roles, and the access tokens that cache them (auth/jwt.go, rbac.go, the *)
(* middleware, changeUserRole, ADR-0014): a token is minted with the role  *)
(* that PostgreSQL has at a login or a refresh, and is believed until it   *)
(* expires.  Refreshes come from one address, through one rate limit.      *)
(*                                                                         *)
(* One client for each account, with one call at a time.  Of the roles,    *)
(* "admin" is the one that may manage users; the others are "other".       *)
(***************************************************************************)
EXTENDS RateLimit

CONSTANTS
  Users,
  FirstAdmins,   \* admins at the start, from the seed
  AccessTTL,     \* ticks an access token is valid
  MaxDelay,      \* bound: ticks between two statements of a handler
  MaxFaults      \* bound: faults of Redis

ASSUME AccessConstants ==
  /\ IsFiniteSet(Users)
  /\ FirstAdmins \subseteq Users
  /\ AccessTTL \in Nat \ {0}
  /\ {MaxDelay, MaxFaults} \subseteq Nat

\* How long ago an admin's token may be older than the role it has.
Longest == AccessTTL + 2 * MaxDelay + 1

VARIABLES
  since,    \* users.role, and history: ticks since the user was last an admin; 0: is one
  token,    \* user -> its access token as admin: ticks left, was it a refresh's
  pc,       \* user -> where its call is
  stamp,    \* user -> ticks since its handler last took the time
  seen,     \* user -> was it an admin when the handler read the row
  target,   \* user -> the account whose role it changes
  faults    \* faults left

callVars == <<pc, stamp, seen, target>>
vars == <<since, token, callVars, faults, limitVars>>

Admins == {u \in Users : since[u] = 0}
NoAdminToken == [left |-> 0, renewed |-> FALSE]
Places == {"idle", "expire", "reread", "mint", "bcrypt", "promote", "demote"}

TypeOK ==
  /\ LimitTypeOK
  /\ since \in [Users -> 0..Longest]
  /\ token \in [Users -> [left: 0..AccessTTL, renewed: BOOLEAN]]
  /\ pc \in [Users -> Places]
  /\ stamp \in [Users -> 0..MaxDelay]
  /\ seen \in [Users -> BOOLEAN]
  /\ target \in [Users -> Users]
  /\ faults \in 0..MaxFaults

Init ==
  /\ LimitInit
  /\ since = [u \in Users |-> IF u \in FirstAdmins THEN 0 ELSE Longest]
  /\ token = [u \in Users |-> NoAdminToken]
  /\ pc = [u \in Users |-> "idle"]
  /\ stamp = [u \in Users |-> 0]
  /\ seen = [u \in Users |-> FALSE]
  /\ target = [u \in Users |-> u]
  /\ faults = MaxFaults

Goto(u, place) == pc' = [pc EXCEPT ![u] = place]

\* The call is over: what its handler knew goes with it.
Over(u) ==
  /\ Goto(u, "idle")
  /\ stamp' = [stamp EXCEPT ![u] = 0]
  /\ seen' = [seen EXCEPT ![u] = FALSE]
  /\ target' = [target EXCEPT ![u] = u]

Now(u) == stamp' = [stamp EXCEPT ![u] = 0]

-----------------------------------------------------------------------------
(* Tokens.                                                                 *)

\* Only a token with the permission counts, and only while it is valid.
Minted(admin, age, renewed) ==
  IF admin /\ age < AccessTTL THEN [left |-> AccessTTL - age, renewed |-> renewed]
  ELSE NoAdminToken

\* A refresh passes the limiter first.  Over the limit it is refused.
Refresh(u) ==
  /\ pc[u] = "idle"
  /\ Incr
  /\ IF Opens(Counted) THEN Goto(u, "expire") /\ Now(u) /\ UNCHANGED <<seen, target>>
     ELSE IF Allowed(Counted) THEN Goto(u, "reread") /\ Now(u) /\ UNCHANGED <<seen, target>>
     ELSE UNCHANGED callVars
  /\ UNCHANGED <<since, token, faults>>

\* The handler takes the time before it rotates the refresh token.
OpenWindow(u) ==
  /\ pc[u] = "expire"
  /\ Expire
  /\ Goto(u, "reread") /\ Now(u)
  /\ UNCHANGED <<since, token, seen, target, faults>>

\* Fail-closed: without Redis there is no refresh.  The INCR may have been
\* done, the EXPIRE may have been done.
RedisFails(u) ==
  /\ faults > 0 /\ faults' = faults - 1
  /\ \/ /\ pc[u] = "idle"
        /\ \E n \in {hits, Counted} : hits' = n
        /\ UNCHANGED ttl
     \/ /\ pc[u] = "expire"
        /\ \E n \in {ttl, FullWindow} : ttl' = n
        /\ UNCHANGED hits
  /\ Over(u)
  /\ UNCHANGED <<since, token, passed>>

\* The row is read after the rotation, and the token is minted with the
\* time of the start.
Reread(u) ==
  /\ pc[u] = "reread"
  /\ Goto(u, "mint")
  /\ seen' = [seen EXCEPT ![u] = since[u] = 0]
  /\ UNCHANGED <<since, token, stamp, target, faults, limitVars>>

\* Deviation: the time is taken when the token is minted.
MintNow(u) == Minted(seen[u], 0, TRUE)

Renewed(u) == Minted(seen[u], stamp[u], TRUE)

Mint(u) ==
  /\ pc[u] = "mint"
  /\ token' = [token EXCEPT ![u] = Renewed(u)]
  /\ Over(u)
  /\ UNCHANGED <<since, faults, limitVars>>

\* A login reads the row, then compares the password.
Login(u) ==
  /\ pc[u] = "idle"
  /\ Goto(u, "bcrypt") /\ Now(u)
  /\ seen' = [seen EXCEPT ![u] = since[u] = 0]
  /\ UNCHANGED <<since, token, target, faults, limitVars>>

IssueSession(u) ==
  /\ pc[u] = "bcrypt"
  /\ token' = [token EXCEPT ![u] = Minted(seen[u], 0, FALSE)]
  /\ Over(u)
  /\ UNCHANGED <<since, faults, limitVars>>

-----------------------------------------------------------------------------
(* Change of a role.                                                       *)

\* Deviation: no guardrail.
Anyone(u, v) == TRUE

NotOneself(u, v) == u # v

\* requireAuth and requirePermission(user.manage).
MayManage(u) == token[u].left > 0

ChangeUserRole(u, v, place) ==
  /\ pc[u] = "idle" /\ MayManage(u) /\ NotOneself(u, v)
  /\ Goto(u, place) /\ Now(u)
  /\ target' = [target EXCEPT ![u] = v]
  /\ UNCHANGED <<since, token, seen, faults, limitVars>>

\* The UPDATE takes what the request says, whatever the role is by now.
UpdateUserRole(u) ==
  /\ pc[u] \in {"promote", "demote"}
  /\ since' = [since EXCEPT ![target[u]] =
                 IF pc[u] = "promote" THEN 0 ELSE IF @ = 0 THEN 1 ELSE @]
  /\ Over(u)
  /\ UNCHANGED <<token, faults, limitVars>>

Older(n, bound) == IF n < bound THEN n + 1 ELSE n

Tick ==
  /\ \A u \in Users : pc[u] # "idle" => stamp[u] < MaxDelay
  /\ LimitTick
  /\ since' = [u \in Users |-> IF since[u] = 0 THEN 0 ELSE Older(since[u], Longest)]
  /\ token' = [u \in Users |-> IF token[u].left <= 1 THEN NoAdminToken
                               ELSE [token[u] EXCEPT !.left = @ - 1]]
  /\ stamp' = [u \in Users |-> IF pc[u] = "idle" THEN 0 ELSE stamp[u] + 1]
  /\ UNCHANGED <<pc, seen, target, faults>>

Next ==
  \/ \E u \in Users :
       \/ Refresh(u) \/ OpenWindow(u) \/ RedisFails(u) \/ Reread(u) \/ Mint(u)
       \/ Login(u) \/ IssueSession(u) \/ UpdateUserRole(u)
       \/ \E v \in Users, place \in {"promote", "demote"} : ChangeUserRole(u, v, place)
  \/ Tick

Spec == Init /\ [][Next]_vars

-----------------------------------------------------------------------------
(* Properties.                                                             *)

\* "Propagation window = one access-token TTL": whoever holds a refreshed
\* token as admin was one when the token was issued, or later.  A login may
\* be late by what the comparison of the password takes.
RoleIsRecent ==
  \A u \in Users : token[u].left > 0 =>
    since[u] <= AccessTTL - token[u].left + (IF token[u].renewed THEN 1 ELSE MaxDelay + 1)

\* The guardrail against self-lockout: the last admin falls only to someone
\* who was an admin himself no longer than a token and two handlers ago.
LastAdminFallsToAnother ==
  [][Admins # {} /\ Admins' = {} =>
       \E u \in Users :
         /\ pc[u] = "demote" /\ {target[u]} = Admins /\ u # target[u]
         /\ since[u] < Longest]_vars

\* At most twice the limit in any time as long as a window (ADR-0007).
BurstBound == Cardinality(passed) <= 2 * Limit

\* The counter has a time to live, or is about to get it, or Redis failed.
CounterExpires ==
  hits > 0 => ttl > 0 \/ faults < MaxFaults \/ \E u \in Users : pc[u] = "expire"

\* The limiter, whoever calls between its two commands and whatever fails.
LimitHolds == BurstBound /\ CounterExpires
=============================================================================
