---------------------------- MODULE AccessProofs ----------------------------
(***************************************************************************)
(* Theorems about Access for every number of accounts, every lifetime of a *)
(* token, delay of a handler, limit and window.                            *)
(***************************************************************************)
EXTENDS Access, FiniteSetTheorems, TLAPS

LEMMA Bounds ==
  /\ AccessTTL \in Nat /\ AccessTTL > 0 /\ MaxDelay \in Nat /\ MaxFaults \in Nat
  /\ Limit \in Nat /\ Limit > 0 /\ Window \in Nat /\ Window > 0
  /\ Longest \in Nat /\ Longest = AccessTTL + 2 * MaxDelay + 1
<1>1. AccessTTL \in Nat \ {0} /\ {MaxDelay, MaxFaults} \subseteq Nat
  BY AccessConstants DEF AccessConstants
<1>2. Limit \in Nat \ {0} /\ Window \in Nat \ {0}
  BY RateLimitConstants DEF RateLimitConstants
<1> QED
  BY <1>1, <1>2 DEF Longest

-----------------------------------------------------------------------------
(* Type correctness.                                                       *)

\* TypeOK without the limiter's variables.
RolesTyped ==
  /\ since \in [Users -> 0..Longest]
  /\ token \in [Users -> [left: 0..AccessTTL, renewed: BOOLEAN]]
  /\ pc \in [Users -> Places]
  /\ stamp \in [Users -> 0..MaxDelay]
  /\ seen \in [Users -> BOOLEAN]
  /\ target \in [Users -> Users]
  /\ faults \in 0..MaxFaults

LEMMA TypeOKParts == TypeOK <=> LimitTypeOK /\ RolesTyped
  BY DEF TypeOK, RolesTyped

LEMMA TypedAt ==
  ASSUME RolesTyped, NEW u \in Users
  PROVE  /\ since[u] \in Nat /\ since[u] <= Longest
         /\ token[u].left \in Nat /\ token[u].left <= AccessTTL /\ token[u].renewed \in BOOLEAN
         /\ token[u] \in [left: 0..AccessTTL, renewed: BOOLEAN]
         /\ stamp[u] \in Nat /\ stamp[u] <= MaxDelay /\ seen[u] \in BOOLEAN
         /\ pc[u] \in Places /\ target[u] \in Users
<1>1. /\ since[u] \in 0..Longest /\ token[u] \in [left: 0..AccessTTL, renewed: BOOLEAN]
      /\ stamp[u] \in 0..MaxDelay /\ seen[u] \in BOOLEAN /\ pc[u] \in Places /\ target[u] \in Users
  BY DEF RolesTyped
<1>2. token[u].left \in 0..AccessTTL /\ token[u].renewed \in BOOLEAN
  BY <1>1
<1> QED
  BY <1>1, <1>2, Bounds

LEMMA MintedTyped ==
  ASSUME NEW admin \in BOOLEAN, NEW age \in Nat, NEW renewed \in BOOLEAN
  PROVE  Minted(admin, age, renewed) \in [left: 0..AccessTTL, renewed: BOOLEAN]
<1>1. CASE admin /\ age < AccessTTL
  <2>1. AccessTTL - age \in 0..AccessTTL
    BY <1>1, Bounds
  <2>2. Minted(admin, age, renewed) = [left |-> AccessTTL - age, renewed |-> renewed]
    BY <1>1 DEF Minted
  <2> QED
    BY <2>1, <2>2
<1>2. CASE ~(admin /\ age < AccessTTL)
  <2>1. Minted(admin, age, renewed) = [left |-> 0, renewed |-> FALSE]
    BY <1>2 DEF Minted, NoAdminToken
  <2> QED
    BY <2>1, Bounds
<1> QED
  BY <1>1, <1>2

LEMMA LimiterTyped ==
  ASSUME LimitTypeOK, Incr \/ Expire \/ LimitTick \/ UNCHANGED limitVars
  PROVE  LimitTypeOK'
<1>1. /\ hits \in Nat /\ hits <= Limit + 1 /\ ttl \in Nat /\ ttl <= Window
      /\ passed \subseteq (1..Window) \X (1..Limit)
  BY Bounds DEF LimitTypeOK
<1>2. CASE Incr
  <2>1. hits' \in 0..(Limit + 1)
    BY <1>1, <1>2, Bounds DEF Incr, Counted
  <2>2. passed' \subseteq (1..Window) \X (1..Limit)
    <3>1. Allowed(Counted) => <<1, Counted>> \in (1..Window) \X (1..Limit)
      BY <1>1, Bounds DEF Allowed, Counted
    <3> QED
      BY <1>1, <1>2, <3>1 DEF Incr
  <2> QED
    BY <1>2, <2>1, <2>2 DEF Incr, LimitTypeOK
<1>3. CASE Expire
  <2>1. <<1, 1>> \in (1..Window) \X (1..Limit)
    BY Bounds
  <2> QED
    BY <1>3, <2>1, Bounds DEF Expire, FullWindow, LimitTypeOK
<1>4. CASE LimitTick
  <2>1. ASSUME NEW p \in passed, p[1] < Window
        PROVE  <<p[1] + 1, p[2]>> \in (1..Window) \X (1..Limit)
    BY <1>1, <2>1, Bounds
  <2>2. hits' \in 0..(Limit + 1) /\ ttl' \in 0..Window
    BY <1>1, <1>4, Bounds DEF LimitTick
  <2> QED
    BY <1>4, <2>1, <2>2 DEF LimitTick, LimitTypeOK
<1>5. CASE UNCHANGED limitVars
  BY <1>5 DEF limitVars, LimitTypeOK
<1> QED
  BY <1>2, <1>3, <1>4, <1>5

LEMMA PlacesAre ==
  {"idle", "expire", "reread", "mint", "bcrypt", "promote", "demote"} = Places
  BY DEF Places

\* A handler that takes the time, or is over, or keeps what it knows.
Clocked(u) ==
  \/ \E place \in Places : Goto(u, place) /\ Now(u) /\ UNCHANGED <<seen, target>>
  \/ Over(u)
  \/ UNCHANGED callVars

LEMMA ClockedTyped ==
  ASSUME RolesTyped, NEW u \in Users, Clocked(u)
  PROVE  /\ pc' \in [Users -> Places] /\ stamp' \in [Users -> 0..MaxDelay]
         /\ seen' \in [Users -> BOOLEAN] /\ target' \in [Users -> Users]
<1>1. 0 \in 0..MaxDelay
  BY Bounds
<1>2. CASE \E place \in Places : Goto(u, place) /\ Now(u) /\ UNCHANGED <<seen, target>>
  BY <1>1, <1>2 DEF Goto, Now, RolesTyped
<1>3. CASE Over(u)
  <2>1. pc' = [pc EXCEPT ![u] = "idle"] /\ stamp' = [stamp EXCEPT ![u] = 0]
        /\ seen' = [seen EXCEPT ![u] = FALSE] /\ target' = [target EXCEPT ![u] = u]
    BY <1>3 DEF Over, Goto
  <2>2. seen' \in [Users -> BOOLEAN]
    BY <2>1, Zenon DEF RolesTyped
  <2> QED
    BY <1>1, <2>1, <2>2, PlacesAre DEF RolesTyped
<1>4. CASE UNCHANGED callVars
  BY <1>4 DEF callVars, RolesTyped
<1> QED
  BY <1>2, <1>3, <1>4 DEF Clocked

LEMMA RefreshClocked ==
  ASSUME NEW u \in Users, Refresh(u)
  PROVE  /\ pc[u] = "idle" /\ Incr /\ UNCHANGED <<since, token, faults>> /\ Clocked(u)
         /\ Opens(Counted) => pc' = [pc EXCEPT ![u] = "expire"]
         /\ UNCHANGED callVars \/ (Now(u) /\ UNCHANGED <<seen, target>>
                                  /\ \E place \in {"expire", "reread"} : Goto(u, place))
<1>1. CASE Opens(Counted)
  BY <1>1, PlacesAre DEF Refresh, Clocked, Goto
<1>2. CASE ~Opens(Counted) /\ Allowed(Counted)
  BY <1>2, PlacesAre DEF Refresh, Clocked, Goto
<1>3. CASE ~Opens(Counted) /\ ~Allowed(Counted)
  BY <1>3 DEF Refresh, Clocked
<1> QED
  BY <1>1, <1>2, <1>3

LEMMA RolesTypedStep ==
  ASSUME RolesTyped, [Next]_vars
  PROVE  RolesTyped'
<1>a. ASSUME NEW u \in Users, Refresh(u) PROVE RolesTyped'
  BY <1>a, RefreshClocked, ClockedTyped DEF RolesTyped
<1>b. ASSUME NEW u \in Users, OpenWindow(u) PROVE RolesTyped'
  <2>1. Clocked(u) /\ UNCHANGED <<since, token, faults>>
    BY <1>b, PlacesAre DEF OpenWindow, Clocked
  <2> QED
    BY <2>1, ClockedTyped DEF RolesTyped
<1>c. ASSUME NEW u \in Users, RedisFails(u) PROVE RolesTyped'
  <2>1. Clocked(u) /\ UNCHANGED <<since, token>> /\ faults > 0 /\ faults' = faults - 1
    BY <1>c DEF RedisFails, Clocked
  <2>2. faults' \in 0..MaxFaults
    BY <2>1, Bounds DEF RolesTyped
  <2> QED
    BY <2>1, <2>2, ClockedTyped DEF RolesTyped
<1>d. ASSUME NEW u \in Users, NEW place \in {"mint", "bcrypt"},
             Goto(u, place), seen' = [seen EXCEPT ![u] = since[u] = 0],
             UNCHANGED stamp \/ Now(u), UNCHANGED <<since, token, target, faults>>
      PROVE  RolesTyped'
  <2>1. seen' \in [Users -> BOOLEAN]
    BY <1>d, Zenon DEF RolesTyped
  <2>2. stamp' \in [Users -> 0..MaxDelay]
    BY <1>d, Bounds DEF Now, RolesTyped
  <2>3. pc' \in [Users -> Places]
    BY <1>d, PlacesAre DEF Goto, RolesTyped
  <2> QED
    BY <1>d, <2>1, <2>2, <2>3 DEF RolesTyped
<1>e. ASSUME NEW u \in Users, Mint(u) \/ IssueSession(u) PROVE RolesTyped'
  <2>1. Clocked(u) /\ UNCHANGED <<since, faults>>
    BY <1>e DEF Mint, IssueSession, Clocked
  <2>2. seen[u] \in BOOLEAN /\ stamp[u] \in Nat
    BY TypedAt
  <2>3. Minted(seen[u], stamp[u], TRUE) \in [left: 0..AccessTTL, renewed: BOOLEAN]
        /\ Minted(seen[u], 0, FALSE) \in [left: 0..AccessTTL, renewed: BOOLEAN]
    BY <2>2, MintedTyped
  <2>4. token' \in [Users -> [left: 0..AccessTTL, renewed: BOOLEAN]]
    BY <1>e, <2>3 DEF Mint, IssueSession, Renewed, RolesTyped
  <2> QED
    BY <2>1, <2>4, ClockedTyped DEF RolesTyped
<1>f. ASSUME NEW u \in Users, UpdateUserRole(u) PROVE RolesTyped'
  <2>1. Clocked(u) /\ UNCHANGED <<token, faults>>
    BY <1>f DEF UpdateUserRole, Clocked
  <2>2. 0 \in 0..Longest /\ 1 \in 0..Longest
    BY Bounds
  <2>3. since' \in [Users -> 0..Longest]
    BY <1>f, <2>2 DEF UpdateUserRole, RolesTyped
  <2> QED
    BY <2>1, <2>3, ClockedTyped DEF RolesTyped
<1>g. ASSUME NEW u \in Users, NEW v \in Users, NEW place \in {"promote", "demote"},
             ChangeUserRole(u, v, place)
      PROVE  RolesTyped'
  <2>1. stamp' \in [Users -> 0..MaxDelay]
    BY <1>g, Bounds DEF ChangeUserRole, Now, RolesTyped
  <2>2. pc' \in [Users -> Places]
    BY <1>g, PlacesAre DEF ChangeUserRole, Goto, RolesTyped
  <2> QED
    BY <1>g, <2>1, <2>2 DEF ChangeUserRole, RolesTyped
<1>h. ASSUME Tick PROVE RolesTyped'
  <2>1. ASSUME NEW u \in Users
        PROVE  (IF since[u] = 0 THEN 0 ELSE Older(since[u], Longest)) \in 0..Longest
    BY TypedAt, Bounds DEF Older
  <2>2. ASSUME NEW u \in Users
        PROVE  (IF pc[u] = "idle" THEN 0 ELSE stamp[u] + 1) \in 0..MaxDelay
    <3>1. pc[u] # "idle" => stamp[u] < MaxDelay
      BY <1>h DEF Tick
    <3> QED
      BY <3>1, TypedAt, Bounds
  <2>3. ASSUME NEW u \in Users
        PROVE  (IF token[u].left <= 1 THEN NoAdminToken ELSE [token[u] EXCEPT !.left = token[u].left - 1])
                  \in [left: 0..AccessTTL, renewed: BOOLEAN]
    <3>1. token[u].left > 1 => token[u].left - 1 \in 0..AccessTTL
      BY TypedAt, Bounds
    <3>2. NoAdminToken \in [left: 0..AccessTTL, renewed: BOOLEAN]
      BY Bounds DEF NoAdminToken
    <3>3. token[u] \in [left: 0..AccessTTL, renewed: BOOLEAN] /\ token[u].left \in Nat
      BY TypedAt
    <3> QED
      BY <3>1, <3>2, <3>3
  <2>4. since' \in [Users -> 0..Longest] /\ stamp' \in [Users -> 0..MaxDelay]
    BY <1>h, <2>1, <2>2 DEF Tick
  <2>5. token' \in [Users -> [left: 0..AccessTTL, renewed: BOOLEAN]]
    BY <1>h, <2>3 DEF Tick
  <2> QED
    BY <1>h, <2>4, <2>5 DEF Tick, RolesTyped
<1>i. ASSUME UNCHANGED vars PROVE RolesTyped'
  BY <1>i DEF vars, callVars, RolesTyped
<1>j. ASSUME NEW u \in Users, Reread(u) \/ Login(u) PROVE RolesTyped'
  BY <1>d, <1>j DEF Reread, Login
<1> QED
  BY <1>a, <1>b, <1>c, <1>e, <1>f, <1>g, <1>h, <1>i, <1>j DEF Next

LEMMA LimiterTypedStep ==
  ASSUME LimitTypeOK, [Next]_vars
  PROVE  LimitTypeOK'
<1>1. ASSUME NEW u \in Users, RedisFails(u) PROVE LimitTypeOK'
  <2>1. hits' \in {hits, Counted} /\ ttl' \in {ttl, Window} /\ passed' = passed
    BY <1>1 DEF RedisFails, FullWindow
  <2>2. Counted \in 0..(Limit + 1) /\ Window \in 0..Window
    BY Bounds DEF Counted, LimitTypeOK
  <2> QED
    BY <2>1, <2>2 DEF LimitTypeOK
<1>2. ASSUME ~(\E u \in Users : RedisFails(u))
      PROVE  Incr \/ Expire \/ LimitTick \/ UNCHANGED limitVars
  BY <1>2 DEF Next, vars, Refresh, OpenWindow, Reread, Mint, Login, IssueSession, UpdateUserRole,
     ChangeUserRole, Tick
<1> QED
  BY <1>1, <1>2, LimiterTyped

-----------------------------------------------------------------------------
(* How old what a token, a handler and a permitted call know may be.       *)

Slack(u) == IF token[u].renewed THEN 1 ELSE MaxDelay + 1

RoleOK(u) ==
  /\ token[u].left > 0 => since[u] <= AccessTTL - token[u].left + Slack(u)
  /\ pc[u] \in {"mint", "bcrypt"} /\ seen[u] => since[u] <= stamp[u] + 1
  /\ pc[u] \in {"promote", "demote"} =>
       target[u] # u /\ since[u] <= AccessTTL + MaxDelay + stamp[u]

\* Nothing happens to an account, but that it may become an admin, or was one
\* until just now.
LEMMA OthersOK ==
  ASSUME RolesTyped, NEW u \in Users, RoleOK(u), token'[u] = token[u], pc'[u] = pc[u],
         stamp'[u] = stamp[u], seen'[u] = seen[u], target'[u] = target[u],
         since'[u] \in {0, since[u]} \/ (since[u] = 0 /\ since'[u] = 1)
  PROVE  RoleOK(u)'
<1>1. since'[u] <= since[u] \/ since'[u] = 1
  BY TypedAt
<1>2. /\ since'[u] \in Nat
      /\ token[u].left > 0 => 1 <= AccessTTL - token[u].left + Slack(u)
      /\ 1 <= stamp[u] + 1 /\ 1 <= AccessTTL + MaxDelay + stamp[u]
  BY TypedAt, Bounds DEF Slack
<1>3. token[u].left > 0 => since'[u] <= AccessTTL - token[u].left + Slack(u)
  <2>1. AccessTTL - token[u].left + Slack(u) \in Int
    BY TypedAt, Bounds DEF Slack
  <2> QED
    BY <1>1, <1>2, <2>1, TypedAt DEF RoleOK
<1>4. pc[u] \in {"mint", "bcrypt"} /\ seen[u] => since'[u] <= stamp[u] + 1
  BY <1>1, <1>2, TypedAt DEF RoleOK
<1>5. pc[u] \in {"promote", "demote"} =>
        target[u] # u /\ since'[u] <= AccessTTL + MaxDelay + stamp[u]
  BY <1>1, <1>2, TypedAt, Bounds DEF RoleOK
<1>6. Slack(u)' = Slack(u)
  BY DEF Slack
<1> QED
  BY <1>3, <1>4, <1>5, <1>6 DEF RoleOK

LEMMA MintedRecent ==
  ASSUME RolesTyped, NEW u \in Users, RoleOK(u), pc[u] \in {"mint", "bcrypt"},
         NEW age \in {0, stamp[u]}, NEW renewed \in BOOLEAN, age = stamp[u] \/ ~renewed,
         token'[u] = Minted(seen[u], age, renewed), pc'[u] = "idle", since'[u] = since[u]
  PROVE  RoleOK(u)'
<1>1. CASE seen[u] /\ age < AccessTTL
  <2>1. token'[u].left = AccessTTL - age /\ token'[u].renewed = renewed
    BY <1>1 DEF Minted
  <2>2. since[u] <= stamp[u] + 1 /\ stamp[u] <= MaxDelay
    BY <1>1, TypedAt DEF RoleOK
  <2>3. since'[u] <= AccessTTL - token'[u].left + Slack(u)'
    BY <2>1, <2>2, TypedAt, Bounds DEF Slack
  <2> QED
    BY <2>3 DEF RoleOK
<1>2. CASE ~(seen[u] /\ age < AccessTTL)
  <2>1. token'[u].left = 0
    BY <1>2 DEF Minted, NoAdminToken
  <2> QED
    BY <2>1 DEF RoleOK
<1> QED
  BY <1>1, <1>2

LEMMA TickRoles ==
  ASSUME RolesTyped, Tick, NEW u \in Users, RoleOK(u)
  PROVE  RoleOK(u)'
<1>1. /\ pc'[u] = pc[u] /\ seen'[u] = seen[u] /\ target'[u] = target[u]
      /\ stamp'[u] = IF pc[u] = "idle" THEN 0 ELSE stamp[u] + 1
      /\ since'[u] = IF since[u] = 0 THEN 0 ELSE Older(since[u], Longest)
      /\ token'[u] = IF token[u].left <= 1 THEN NoAdminToken
                     ELSE [token[u] EXCEPT !.left = token[u].left - 1]
  BY DEF Tick
<1>2. since'[u] <= since[u] + 1 /\ since'[u] \in Nat
  BY <1>1, TypedAt, Bounds DEF Older
<1>3. CASE token[u].left <= 1
  <2>1. token'[u].left = 0
    BY <1>1, <1>3 DEF NoAdminToken
  <2> QED
    BY <1>1, <1>2, <2>1, TypedAt, Bounds DEF RoleOK
<1>4. CASE ~(token[u].left <= 1)
  <2>1. token'[u].left = token[u].left - 1 /\ token'[u].renewed = token[u].renewed
    BY <1>1, <1>4, TypedAt
  <2>2. Slack(u)' = Slack(u) /\ Slack(u) \in Nat
    BY <2>1, Bounds DEF Slack
  <2>3. since[u] <= AccessTTL - token[u].left + Slack(u)
    BY <1>4, TypedAt DEF RoleOK
  <2>4. since'[u] <= AccessTTL - token'[u].left + Slack(u)'
    BY <1>2, <2>1, <2>2, <2>3, TypedAt, Bounds
  <2>5. pc[u] # "idle" => stamp'[u] = stamp[u] + 1
    BY <1>1
  <2> QED
    BY <1>1, <1>2, <2>4, <2>5, TypedAt, Bounds DEF RoleOK
<1> QED
  BY <1>3, <1>4

LEMMA RolesStep ==
  ASSUME RolesTyped, \A u \in Users : RoleOK(u), [Next]_vars
  PROVE  \A u \in Users : RoleOK(u)'
<1> SUFFICES ASSUME NEW v \in Users PROVE RoleOK(v)'
  OBVIOUS
<1>v. RoleOK(v)
  OBVIOUS
\* The steps of a handler that leave the roles and the tokens alone.
<1>a. ASSUME NEW u \in Users, UNCHANGED <<since, token>>, \A w \in Users \ {u} :
               pc'[w] = pc[w] /\ stamp'[w] = stamp[w] /\ seen'[w] = seen[w] /\ target'[w] = target[w],
             \/ pc'[u] \in {"idle", "expire", "reread"}
             \/ pc'[u] \in {"mint", "bcrypt"} /\ seen'[u] = (since[u] = 0) /\ stamp'[u] \in Nat
             \/ pc'[u] = pc[u] /\ stamp'[u] = stamp[u] /\ seen'[u] = seen[u] /\ target'[u] = target[u]
      PROVE  RoleOK(v)'
  <2>1. CASE v # u \/ (pc'[u] = pc[u] /\ stamp'[u] = stamp[u] /\ seen'[u] = seen[u] /\ target'[u] = target[u])
    BY <1>a, <1>v, <2>1, OthersOK
  <2>2. CASE v = u /\ pc'[u] \in {"idle", "expire", "reread"}
    BY <1>a, <1>v, <2>2 DEF RoleOK, Slack
  <2>3. CASE v = u /\ pc'[u] \in {"mint", "bcrypt"} /\ seen'[u] = (since[u] = 0) /\ stamp'[u] \in Nat
    <3>1. ASSUME seen'[u] PROVE since'[u] <= stamp'[u] + 1
      <4>1. since[u] = 0
        BY <2>3, <3>1, Zenon
      <4>2. since' = since /\ stamp'[u] \in Nat
        BY <1>a, <2>3
      <4> QED
        BY <4>1, <4>2
    <3> QED
      BY <1>a, <1>v, <2>3, <3>1 DEF RoleOK, Slack
  <2> QED
    BY <1>a, <2>1, <2>2, <2>3
<1>b. ASSUME NEW u \in Users, Refresh(u) PROVE RoleOK(v)'
  <2>1. UNCHANGED <<since, token>> /\ (UNCHANGED callVars \/ (Now(u) /\ UNCHANGED <<seen, target>>
          /\ \E place \in {"expire", "reread"} : Goto(u, place)))
    BY <1>b, RefreshClocked
  <2> QED
    BY <1>a, <2>1 DEF callVars, Now, Goto, RolesTyped
<1>c. ASSUME NEW u \in Users, OpenWindow(u) \/ RedisFails(u) PROVE RoleOK(v)'
  BY <1>a, <1>c DEF OpenWindow, RedisFails, Over, Now, Goto, RolesTyped
<1>d. ASSUME NEW u \in Users, Reread(u) \/ Login(u) PROVE RoleOK(v)'
  <2>1. /\ UNCHANGED <<since, token, target>>
        /\ pc'[u] \in {"mint", "bcrypt"} /\ stamp'[u] \in Nat
        /\ \A w \in Users \ {u} : pc'[w] = pc[w] /\ stamp'[w] = stamp[w]
    BY <1>d, TypedAt DEF Reread, Login, Goto, Now, RolesTyped
  <2>2. seen' = [seen EXCEPT ![u] = since[u] = 0]
    BY <1>d DEF Reread, Login
  <2>3. seen'[u] = (since[u] = 0)
    BY <2>2, Zenon DEF RolesTyped
  <2>4. \A w \in Users \ {u} : seen'[w] = seen[w]
    BY <2>2, Zenon DEF RolesTyped
  <2> QED
    BY <1>a, <2>1, <2>3, <2>4
<1>e. ASSUME NEW u \in Users, Mint(u) \/ IssueSession(u) PROVE RoleOK(v)'
  <2>1. CASE v = u
    <3>1. Mint(u) => pc[u] = "mint" /\ token'[u] = Minted(seen[u], stamp[u], TRUE)
      BY DEF Mint, Renewed, RolesTyped
    <3>2. IssueSession(u) => pc[u] = "bcrypt" /\ token'[u] = Minted(seen[u], 0, FALSE)
      BY DEF IssueSession, RolesTyped
    <3>3. pc'[u] = "idle" /\ since'[u] = since[u]
      BY <1>e DEF Mint, IssueSession, Over, Goto, RolesTyped
    <3>4. Mint(u) => RoleOK(u)'
      BY <1>v, <2>1, <3>1, <3>3, MintedRecent
    <3>5. IssueSession(u) => RoleOK(u)'
      BY <1>v, <2>1, <3>2, <3>3, MintedRecent
    <3> QED
      BY <1>e, <2>1, <3>4, <3>5
  <2>2. CASE v # u
    <3>1. token'[v] = token[v] /\ since'[v] = since[v]
      BY <1>e, <2>2 DEF Mint, IssueSession, RolesTyped
    <3>2. pc'[v] = pc[v] /\ stamp'[v] = stamp[v] /\ seen'[v] = seen[v] /\ target'[v] = target[v]
      BY <1>e, <2>2 DEF Mint, IssueSession, Over, Goto, RolesTyped
    <3> QED
      BY <1>v, <3>1, <3>2, OthersOK
  <2> QED
    BY <2>1, <2>2
<1>f. ASSUME NEW u \in Users, NEW w \in Users, NEW place \in {"promote", "demote"},
             ChangeUserRole(u, w, place)
      PROVE  RoleOK(v)'
  <2>1. /\ token[u].left > 0 /\ u # w /\ UNCHANGED <<since, token, seen>>
        /\ pc' = [pc EXCEPT ![u] = place] /\ stamp' = [stamp EXCEPT ![u] = 0]
        /\ target' = [target EXCEPT ![u] = w]
    BY <1>f DEF ChangeUserRole, MayManage, NotOneself, Goto, Now
  <2>2. CASE v # u
    BY <1>v, <2>1, <2>2, OthersOK DEF RolesTyped
  <2>3. CASE v = u
    <3>1. since[u] <= AccessTTL + MaxDelay
      <4>1. since[u] <= AccessTTL - token[u].left + Slack(u)
        BY <1>v, <2>1, <2>3 DEF RoleOK
      <4> QED
        BY <4>1, <2>1, TypedAt, Bounds DEF Slack
    <3>2. since[u] <= AccessTTL + MaxDelay + 0
      BY <3>1, TypedAt, Bounds
    <3>3. pc'[u] = place /\ stamp'[u] = 0 /\ target'[u] = w
      BY <2>1 DEF RolesTyped
    <3> QED
      BY <1>v, <2>1, <2>3, <3>2, <3>3 DEF RoleOK, Slack
  <2> QED
    BY <2>2, <2>3
<1>g. ASSUME NEW u \in Users, UpdateUserRole(u) PROVE RoleOK(v)'
  <2>1. UNCHANGED token /\ since' = [since EXCEPT ![target[u]] =
          IF pc[u] = "promote" THEN 0 ELSE IF since[target[u]] = 0 THEN 1 ELSE since[target[u]]]
    BY <1>g DEF UpdateUserRole
  <2>2. since'[v] \in {0, since[v]} \/ (since[v] = 0 /\ since'[v] = 1)
    BY <2>1 DEF RolesTyped
  <2>3. /\ pc' = [pc EXCEPT ![u] = "idle"] /\ stamp' = [stamp EXCEPT ![u] = 0]
        /\ seen' = [seen EXCEPT ![u] = FALSE] /\ target' = [target EXCEPT ![u] = u]
    BY <1>g DEF UpdateUserRole, Over, Goto
  <2>4. CASE v # u
    <3>1. pc'[v] = pc[v] /\ stamp'[v] = stamp[v] /\ seen'[v] = seen[v] /\ target'[v] = target[v]
      BY <2>3, <2>4 DEF RolesTyped
    <3> QED
      BY <1>v, <2>1, <2>2, <3>1, OthersOK
  <2>5. CASE v = u
    <3>1. pc'[v] = "idle"
      BY <2>3, <2>5 DEF RolesTyped
    <3>2. since'[v] <= since[v] \/ since'[v] = 1
      BY <2>2, TypedAt
    <3>3. /\ since'[v] \in Nat /\ Slack(v) \in Nat /\ Slack(v) >= 1 /\ Slack(v)' = Slack(v)
      BY <2>1, <2>2, TypedAt, Bounds DEF Slack
    <3>4. token[v].left > 0 => since'[v] <= AccessTTL - token[v].left + Slack(v)
      BY <1>v, <3>2, <3>3, TypedAt, Bounds DEF RoleOK
    <3> QED
      BY <2>1, <3>1, <3>3, <3>4 DEF RoleOK
  <2> QED
    BY <2>4, <2>5
<1>h. ASSUME Tick PROVE RoleOK(v)'
  BY <1>h, <1>v, TickRoles
<1>i. ASSUME UNCHANGED vars PROVE RoleOK(v)'
  BY <1>i, <1>v, OthersOK DEF vars, callVars
<1> QED
  BY <1>b, <1>c, <1>d, <1>e, <1>f, <1>g, <1>h, <1>i DEF Next

-----------------------------------------------------------------------------
(* The limiter's counter.                                                  *)

LEMMA CounterStep ==
  ASSUME TypeOK, CounterExpires, [Next]_vars
  PROVE  CounterExpires'
<1>t. /\ hits \in Nat /\ ttl \in Nat /\ faults \in Nat /\ faults <= MaxFaults /\ MaxFaults \in Nat
      /\ pc \in [Users -> Places]
  BY Bounds DEF TypeOK, LimitTypeOK
\* What moves no other account, keeps the counter and is not at its EXPIRE.
<1>a. ASSUME NEW u \in Users, UNCHANGED <<hits, ttl, faults>>, pc[u] # "expire",
             \A w \in Users \ {u} : pc'[w] = pc[w]
      PROVE  CounterExpires'
  BY <1>a DEF CounterExpires
<1>b. ASSUME NEW u \in Users, Refresh(u) PROVE CounterExpires'
  <2>1. /\ pc[u] = "idle" /\ UNCHANGED <<ttl, faults>> /\ hits' = Counted
        /\ Opens(Counted) => pc' = [pc EXCEPT ![u] = "expire"]
        /\ \A w \in Users \ {u} : pc'[w] = pc[w]
    BY <1>b, RefreshClocked, <1>t DEF Incr, callVars, Goto
  <2>2. CASE hits = 0
    <3>1. Opens(Counted)
      BY <2>2, Bounds DEF Counted, Opens
    <3>2. pc'[u] = "expire"
      BY <2>1, <3>1, <1>t
    <3> QED
      BY <3>2 DEF CounterExpires
  <2>3. CASE hits # 0
    <3>1. hits > 0
      BY <2>3, <1>t
    <3> QED
      BY <2>1, <3>1 DEF CounterExpires
  <2> QED
    BY <2>2, <2>3
<1>c. ASSUME NEW u \in Users, OpenWindow(u) PROVE CounterExpires'
  BY <1>c, Bounds DEF OpenWindow, Expire, FullWindow, CounterExpires
<1>d. ASSUME NEW u \in Users, RedisFails(u) PROVE CounterExpires'
  <2>1. faults' < MaxFaults
    BY <1>d, <1>t DEF RedisFails
  <2> QED
    BY <2>1 DEF CounterExpires
<1>e. ASSUME NEW u \in Users,
             Reread(u) \/ Mint(u) \/ Login(u) \/ IssueSession(u) \/ UpdateUserRole(u)
      PROVE  CounterExpires'
  <2>1. /\ UNCHANGED <<hits, ttl, faults>> /\ pc[u] # "expire"
        /\ \E place : pc' = [pc EXCEPT ![u] = place]
    BY <1>e DEF Reread, Mint, Login, IssueSession, UpdateUserRole, Over, Goto, limitVars
  <2> QED
    BY <2>1, <1>a, <1>t
<1>f. ASSUME NEW u \in Users, NEW w \in Users, NEW place \in {"promote", "demote"},
             ChangeUserRole(u, w, place)
      PROVE  CounterExpires'
  BY <1>f, <1>a, <1>t DEF ChangeUserRole, Goto, limitVars
<1>g. ASSUME Tick PROVE CounterExpires'
  <2>1. UNCHANGED <<pc, faults>> /\ (ttl = 1 => hits' = 0)
        /\ (ttl # 1 => hits' = hits /\ ttl' = IF ttl = 0 THEN 0 ELSE ttl - 1)
    BY <1>g DEF Tick, LimitTick
  <2> QED
    BY <2>1, <1>t DEF CounterExpires
<1>h. ASSUME UNCHANGED vars PROVE CounterExpires'
  BY <1>h DEF vars, callVars, limitVars, CounterExpires
<1> QED
  BY <1>b, <1>c, <1>d, <1>e, <1>f, <1>g, <1>h DEF Next

-----------------------------------------------------------------------------
(* The limiter's window.                                                   *)

Opening == {u \in Users : pc[u] = "expire"}

Due == IF Opening = {} THEN 0 ELSE 1

\* Of the calls P, those that a dead key let through are Old, and the others
\* went through on the counter's h so far, which has t ticks to live; due
\* calls more are about to.  Whatever Old holds leaves the window before the
\* counter does.
Divides(Old, P, due, h, t) ==
  /\ Old \subseteq P
  /\ Cardinality(Old) <= Limit
  /\ Cardinality(P \ Old) + due <= Limit
  /\ Cardinality(P \ Old) + due <= h
  /\ t > 0 => \A p \in Old : p[1] > Window - t

\* One call at most makes the key, no key lives without a count, and a call
\* that goes through never takes the place of one that did.
WindowInv ==
  /\ \A u, v \in Opening : u = v
  /\ Opening # {} => hits > 0 /\ ttl = 0
  /\ ttl > 0 => hits > 0
  /\ \E Old \in SUBSET passed : Divides(Old, passed, Due, hits, ttl)
  /\ \A p \in passed : p[1] = 1 => p[2] <= hits /\ (p[2] = 1 => Opening = {})

LEMMA PassedIsFinite ==
  ASSUME LimitTypeOK
  PROVE  IsFiniteSet(passed) /\ \A p \in passed : p[1] \in Nat /\ p[2] \in Nat /\ p[1] <= Window
<1>1. IsFiniteSet(1..Window) /\ IsFiniteSet(1..Limit)
  BY Bounds, FS_Interval
<1>2. IsFiniteSet((1..Window) \X (1..Limit))
  BY <1>1, FS_Product
<1> QED
  BY <1>2, FS_Subset, Bounds DEF LimitTypeOK

LEMMA OneMore ==
  ASSUME NEW P, IsFiniteSet(P), NEW Old, NEW x
  PROVE  /\ IsFiniteSet(P \cup {x}) /\ Cardinality(P \ Old) \in Nat
         /\ Cardinality((P \cup {x}) \ Old) \in Nat
         /\ Cardinality((P \cup {x}) \ Old) <= Cardinality(P \ Old) + 1
<1>1. IsFiniteSet(P \ Old) /\ IsFiniteSet(P \cup {x})
  BY FS_Difference, FS_AddElement
<1>2. /\ IsFiniteSet((P \ Old) \cup {x})
      /\ Cardinality((P \ Old) \cup {x}) <= Cardinality(P \ Old) + 1
  <2> DEFINE Q == P \ Old
  <2>1. IsFiniteSet(Q) /\ Cardinality(Q) \in Nat
    BY <1>1, FS_CardinalityType
  <2> HIDE DEF Q
  <2>2. /\ IsFiniteSet(Q \cup {x})
        /\ Cardinality(Q \cup {x}) = IF x \in Q THEN Cardinality(Q) ELSE Cardinality(Q) + 1
    BY <2>1, FS_AddElement
  <2>3. IsFiniteSet(Q \cup {x}) /\ Cardinality(Q \cup {x}) <= Cardinality(Q) + 1
    BY <2>1, <2>2
  <2> QED
    BY <2>3 DEF Q
<1>3. (P \cup {x}) \ Old \in SUBSET ((P \ Old) \cup {x})
  OBVIOUS
<1>4. /\ IsFiniteSet((P \cup {x}) \ Old)
      /\ Cardinality((P \cup {x}) \ Old) <= Cardinality((P \ Old) \cup {x})
  BY <1>2, <1>3, FS_Subset
<1> QED
  BY <1>1, <1>2, <1>4, FS_CardinalityType

\* The calls of P one tick later.
Shifted(P) == {<<p[1] + 1, p[2]>> : p \in {q \in P : q[1] < Window}}

LEMMA ShiftedIsNoMore ==
  ASSUME NEW P, IsFiniteSet(P)
  PROVE  IsFiniteSet(Shifted(P)) /\ Cardinality(Shifted(P)) <= Cardinality(P)
<1> DEFINE Q == {q \in P : q[1] < Window}
           f == [p \in Q |-> <<p[1] + 1, p[2]>>]
<1>1. IsFiniteSet(Q) /\ Cardinality(Q) <= Cardinality(P)
  BY FS_Subset
<1>2. f \in Surjection(Q, Shifted(P))
  BY DEF Surjection, Shifted
<1>3. IsFiniteSet(Shifted(P)) /\ Cardinality(Shifted(P)) <= Cardinality(Q)
  <2> HIDE DEF Q, f
  <2> QED
    BY <1>1, <1>2, FS_Surjection
<1> QED
  BY <1>1, <1>3, FS_CardinalityType

\* Time passes and the counter lives on, or it has no time to live.
LEMMA DividesOlder ==
  ASSUME LimitTypeOK, NEW Old \in SUBSET passed, NEW due \in {0, 1}, NEW t2 \in Nat,
         Divides(Old, passed, due, hits, ttl), t2 = IF ttl = 0 THEN 0 ELSE ttl - 1
  PROVE  Divides(Shifted(Old), Shifted(passed), due, hits, t2)
<1>0. /\ IsFiniteSet(passed) /\ IsFiniteSet(Old) /\ IsFiniteSet(passed \ Old)
      /\ hits \in Nat /\ ttl \in Nat
  BY PassedIsFinite, FS_Subset, FS_Difference, Bounds DEF LimitTypeOK
<1>1. Shifted(Old) \subseteq Shifted(passed)
  BY DEF Shifted
<1>2. Shifted(passed) \ Shifted(Old) \in SUBSET Shifted(passed \ Old)
  BY DEF Shifted
<1>3. /\ IsFiniteSet(Shifted(Old)) /\ Cardinality(Shifted(Old)) <= Cardinality(Old)
      /\ IsFiniteSet(Shifted(passed \ Old))
      /\ Cardinality(Shifted(passed \ Old)) <= Cardinality(passed \ Old)
  BY <1>0, ShiftedIsNoMore
<1>4. /\ IsFiniteSet(Shifted(passed) \ Shifted(Old))
      /\ Cardinality(Shifted(passed) \ Shifted(Old)) <= Cardinality(Shifted(passed \ Old))
  BY <1>2, <1>3, FS_Subset
<1>5. /\ Cardinality(Old) \in Nat /\ Cardinality(passed \ Old) \in Nat
      /\ Cardinality(Shifted(Old)) \in Nat /\ Cardinality(Shifted(passed \ Old)) \in Nat
      /\ Cardinality(Shifted(passed) \ Shifted(Old)) \in Nat
  BY <1>0, <1>3, <1>4, FS_CardinalityType
<1>6. ASSUME t2 > 0, NEW p \in Shifted(Old) PROVE p[1] > Window - t2
  <2>1. PICK q \in Old : p = <<q[1] + 1, q[2]>>
    BY DEF Shifted
  <2>2. q[1] > Window - ttl /\ q[1] \in Nat
    BY <1>0, <1>6, <2>1, PassedIsFinite DEF Divides
  <2> QED
    BY <1>0, <1>6, <2>1, <2>2, Bounds
<1>7. /\ Cardinality(Shifted(Old)) <= Limit
      /\ Cardinality(Shifted(passed) \ Shifted(Old)) + due <= Limit
      /\ Cardinality(Shifted(passed) \ Shifted(Old)) + due <= hits
  BY <1>0, <1>3, <1>4, <1>5, Bounds DEF Divides
<1> QED
  BY <1>1, <1>6, <1>7 DEF Divides

\* The counter dies: what was old has left the window, what it let through is
\* old from now on.
LEMMA DividesAnew ==
  ASSUME LimitTypeOK, NEW Old \in SUBSET passed, ttl = 1, Divides(Old, passed, 0, hits, ttl)
  PROVE  Divides(Shifted(passed \ Old), Shifted(passed), 0, 0, 0)
<1>1. /\ IsFiniteSet(passed \ Old) /\ Shifted(passed \ Old) \subseteq Shifted(passed)
      /\ Cardinality(passed \ Old) \in Nat /\ Cardinality(Shifted(passed \ Old)) \in Nat
      /\ Cardinality(Shifted(passed \ Old)) <= Cardinality(passed \ Old)
  BY PassedIsFinite, FS_Difference, ShiftedIsNoMore, FS_CardinalityType DEF Shifted
<1>2. ASSUME NEW p \in Old PROVE ~(p[1] < Window)
  BY PassedIsFinite, Bounds DEF Divides
<1>3. Shifted(passed) \ Shifted(passed \ Old) = {}
  BY <1>2 DEF Shifted
<1>4. Cardinality(passed \ Old) <= Limit
  BY <1>1, Bounds DEF Divides
<1>5. Cardinality(Shifted(passed \ Old)) <= Limit
  BY <1>1, <1>4, Bounds
<1>6. Cardinality(Shifted(passed) \ Shifted(passed \ Old)) = 0
  BY <1>3, FS_EmptySet
<1>7. /\ Cardinality(Shifted(passed) \ Shifted(passed \ Old)) + 0 <= Limit
      /\ Cardinality(Shifted(passed) \ Shifted(passed \ Old)) + 0 <= 0
  BY <1>6, Bounds
<1>8. Shifted(passed \ Old) \subseteq Shifted(passed)
  BY <1>1
<1>9. ~(0 > 0)
  OBVIOUS
<1> QED
  BY <1>5, <1>7, <1>8, <1>9, Zenon DEF Divides

LEMMA WindowStep ==
  ASSUME TypeOK, WindowInv, [Next]_vars
  PROVE  WindowInv'
<1>t. /\ hits \in Nat /\ ttl \in Nat /\ LimitTypeOK /\ IsFiniteSet(passed)
      /\ \A p \in passed : p[1] \in Nat /\ p[2] \in Nat /\ p[1] > 0 /\ p[2] > 0
      /\ pc \in [Users -> Places] /\ Due \in {0, 1}
  BY PassedIsFinite, Bounds DEF TypeOK, LimitTypeOK, Due
<1> PICK Old \in SUBSET passed : Divides(Old, passed, Due, hits, ttl)
  BY DEF WindowInv
<1>o. Cardinality(passed \ Old) \in Nat
  BY <1>t, FS_Difference, FS_CardinalityType
<1>a. ASSUME UNCHANGED limitVars, Opening' = Opening PROVE WindowInv'
  BY <1>a DEF limitVars, WindowInv, Due
<1>b. ASSUME NEW u \in Users, Refresh(u) PROVE WindowInv'
  <2>0. Incr /\ pc[u] = "idle" /\ hits' = Counted /\ ttl' = ttl
    BY <1>b DEF Refresh, Incr
  <2>1. CASE Opens(Counted)
    <3>1. hits = 0 /\ hits' = 1 /\ ttl = 0 /\ passed' = passed /\ Opening = {} /\ Due = 0
      BY <1>t, <2>0, <2>1, Bounds DEF Opens, Counted, Incr, WindowInv, Due
    <3>2. pc' = [pc EXCEPT ![u] = "expire"]
      BY <1>b, <2>1, RefreshClocked
    <3>3. Opening' = {u} /\ Due' = 1
      BY <1>t, <3>1, <3>2 DEF Opening, Due
    <3>4. Divides(Old, passed, 1, 1, ttl)
      BY <1>o, <3>1, Bounds DEF Divides
    <3>5. \A p \in passed : p[1] # 1
      BY <1>t, <3>1 DEF WindowInv
    <3> QED
      BY <2>0, <3>1, <3>3, <3>4, <3>5 DEF WindowInv
  <2>2. CASE ~Opens(Counted)
    <3>1. hits > 0 /\ hits' >= hits /\ hits' > 1 /\ hits' \in Nat
      BY <1>t, <2>0, <2>2, Bounds DEF Opens, Counted
    <3>2. Opening' = Opening /\ Due' = Due
      BY <1>b, <1>t, <2>0, <2>2 DEF Refresh, Goto, Opening, callVars, Due
    <3>3. CASE Allowed(Counted)
      <4>1. passed' = passed \cup {<<1, hits'>>}
        BY <2>0, <2>2, <3>3 DEF Incr
      <4>2. hits' = hits + 1 /\ hits' <= Limit
        BY <1>t, <2>0, <3>3, Bounds DEF Allowed, Counted
      <4>3. PICK n \in Nat : n = hits'
        BY <3>1
      <4>4. Divides(Old, passed \cup {<<1, n>>}, Due, n, ttl)
        <5>1. /\ Cardinality((passed \cup {<<1, n>>}) \ Old) \in Nat
              /\ Cardinality((passed \cup {<<1, n>>}) \ Old) <= Cardinality(passed \ Old) + 1
          BY <1>t, OneMore
        <5> QED
          BY <1>t, <1>o, <4>2, <4>3, <5>1, Bounds DEF Divides
      <4>5. Divides(Old, passed', Due', hits', ttl')
        BY <2>0, <3>2, <4>1, <4>3, <4>4
      <4>6. \A p \in passed' : p[1] = 1 => p[2] <= hits' /\ (p[2] = 1 => Opening' = {})
        BY <1>t, <3>1, <3>2, <4>1 DEF WindowInv
      <4> QED
        BY <2>0, <3>1, <3>2, <4>1, <4>5, <4>6 DEF WindowInv
    <3>4. CASE ~Allowed(Counted)
      <4>1. passed' = passed
        BY <2>0, <3>4 DEF Incr
      <4>2. PICK n \in Nat : n = hits'
        BY <3>1
      <4>3. Divides(Old, passed, Due, n, ttl)
        BY <1>t, <1>o, <3>1, <4>2, Bounds DEF Divides
      <4>4. Divides(Old, passed', Due', hits', ttl')
        BY <2>0, <3>2, <4>1, <4>2, <4>3
      <4>5. \A p \in passed' : p[1] = 1 => p[2] <= hits' /\ (p[2] = 1 => Opening' = {})
        BY <1>t, <3>1, <3>2, <4>1 DEF WindowInv
      <4> QED
        BY <2>0, <3>1, <3>2, <4>1, <4>4, <4>5 DEF WindowInv
    <3> QED
      BY <3>3, <3>4
  <2> QED
    BY <2>1, <2>2
\* What ends a caller's turn to give the counter its time to live.
<1>c. ASSUME NEW u \in Users, pc[u] = "expire", pc' = [pc EXCEPT ![u] = pc'[u]], pc'[u] # "expire"
      PROVE  Opening' = {} /\ Due' = 0 /\ Due = 1 /\ hits > 0 /\ ttl = 0
  BY <1>c, <1>t DEF Opening, Due, WindowInv
<1>d. ASSUME NEW u \in Users, OpenWindow(u) PROVE WindowInv'
  <2>1. Opening' = {} /\ Due' = 0 /\ Due = 1 /\ hits > 0
    BY <1>c, <1>d, <1>t DEF OpenWindow, Goto
  <2>2. passed' = passed \cup {<<1, 1>>} /\ ttl' = Window /\ hits' = hits
    BY <1>d DEF OpenWindow, Expire, FullWindow
  <2>3. Divides(Old, passed \cup {<<1, 1>>}, 0, hits, Window)
    <3>1. /\ Cardinality((passed \cup {<<1, 1>>}) \ Old) \in Nat
          /\ Cardinality((passed \cup {<<1, 1>>}) \ Old) <= Cardinality(passed \ Old) + 1
      BY <1>t, OneMore
    <3>2. \A q \in Old : q[1] > Window - Window
      BY <1>t, Bounds
    <3> QED
      BY <1>t, <1>o, <2>1, <3>1, <3>2, Bounds DEF Divides
  <2>4. \A p \in passed' : p[1] = 1 => p[2] <= hits'
    BY <1>t, <2>1, <2>2 DEF WindowInv
  <2> QED
    BY <2>1, <2>2, <2>3, <2>4 DEF WindowInv
<1>e. ASSUME NEW u \in Users, RedisFails(u) PROVE WindowInv'
  <2>0. passed' = passed /\ pc' = [pc EXCEPT ![u] = "idle"]
    BY <1>e DEF RedisFails, Over, Goto
  <2>1. CASE pc[u] = "idle"
    <3>1. ttl' = ttl /\ hits' \in Nat /\ hits' >= hits /\ Opening' = Opening /\ Due' = Due
      BY <1>e, <1>t, <2>0, <2>1 DEF RedisFails, Counted, Opening, Due
    <3>2. PICK n \in Nat : n = hits'
      BY <3>1
    <3>3. Divides(Old, passed, Due, n, ttl)
      BY <1>t, <1>o, <3>1, <3>2, Bounds DEF Divides
    <3>4. \A p \in passed : p[1] = 1 => p[2] <= hits'
      BY <1>t, <3>1 DEF WindowInv
    <3> QED
      BY <1>t, <2>0, <3>1, <3>2, <3>3, <3>4 DEF WindowInv
  <2>2. CASE pc[u] = "expire"
    <3>1. Opening' = {} /\ Due' = 0 /\ Due = 1 /\ hits > 0 /\ ttl = 0
      BY <1>c, <1>t, <2>0, <2>2
    <3>2. hits' = hits /\ ttl' \in {0, Window}
      BY <1>e, <2>2, <3>1 DEF RedisFails, FullWindow
    <3>3. Divides(Old, passed, 0, hits, 0) /\ Divides(Old, passed, 0, hits, Window)
      <4>1. \A q \in Old : q[1] > Window - Window
        BY <1>t, Bounds
      <4> QED
        BY <1>t, <1>o, <3>1, <4>1, Bounds DEF Divides
    <3>4. Divides(Old, passed', Due', hits', ttl')
      BY <2>0, <3>1, <3>2, <3>3
    <3> QED
      BY <2>0, <3>1, <3>2, <3>4 DEF WindowInv
  <2> QED
    BY <1>e, <2>1, <2>2 DEF RedisFails
<1>f. ASSUME Tick PROVE WindowInv'
  <2>0. passed' = Shifted(passed) /\ Opening' = Opening /\ Due' = Due
    BY <1>f DEF Tick, LimitTick, Shifted, Opening, Due
  <2>1. \A p \in passed' : p[1] # 1
    BY <1>t, <2>0 DEF Shifted
  <2>2. CASE ttl = 1
    <3>1. hits' = 0 /\ ttl' = 0 /\ Opening = {} /\ Due = 0
      BY <1>f, <2>2 DEF Tick, LimitTick, WindowInv, Due
    <3>2. Divides(Shifted(passed \ Old), passed', 0, 0, 0)
      BY <1>t, <2>0, <2>2, <3>1, DividesAnew
    <3>3. \E O \in SUBSET passed' : Divides(O, passed', 0, 0, 0)
      BY <3>2 DEF Divides
    <3> QED
      BY <2>0, <2>1, <3>1, <3>3 DEF WindowInv
  <2>3. CASE ttl # 1
    <3>1. hits' = hits /\ ttl' = IF ttl = 0 THEN 0 ELSE ttl - 1
      BY <1>f, <2>3 DEF Tick, LimitTick
    <3>2. PICK n \in Nat : n = ttl'
      BY <1>t, <3>1
    <3>3. Divides(Shifted(Old), Shifted(passed), Due, hits, n)
      BY <1>t, <3>1, <3>2, DividesOlder
    <3>4. \E O \in SUBSET passed' : Divides(O, passed', Due', hits', ttl')
      BY <2>0, <3>1, <3>2, <3>3 DEF Divides
    <3>5. Opening # {} => hits > 0 /\ ttl = 0
      BY DEF WindowInv
    <3> QED
      BY <1>t, <2>0, <2>1, <3>1, <3>4, <3>5 DEF WindowInv
  <2> QED
    BY <2>2, <2>3
<1>g. ASSUME NEW u \in Users,
             \/ Reread(u) \/ Mint(u) \/ Login(u) \/ IssueSession(u) \/ UpdateUserRole(u)
             \/ \E w \in Users, place \in {"promote", "demote"} : ChangeUserRole(u, w, place)
      PROVE  WindowInv'
  <2>1. /\ UNCHANGED limitVars /\ pc[u] # "expire"
        /\ \E place \in Places \ {"expire"} : pc' = [pc EXCEPT ![u] = place]
    BY <1>g, PlacesAre DEF Reread, Mint, Login, IssueSession, UpdateUserRole, ChangeUserRole, Over,
       Goto
  <2>2. Opening' = Opening
    BY <1>t, <2>1 DEF Opening
  <2> QED
    BY <1>a, <2>1, <2>2
<1>h. ASSUME UNCHANGED vars PROVE WindowInv'
  BY <1>a, <1>h DEF vars, callVars, Opening
<1> QED
  BY <1>b, <1>d, <1>e, <1>f, <1>g, <1>h DEF Next

LEMMA WindowBounds ==
  ASSUME TypeOK, WindowInv
  PROVE  BurstBound
<1>1. IsFiniteSet(passed)
  BY PassedIsFinite DEF TypeOK
<1> PICK Old \in SUBSET passed : Divides(Old, passed, Due, hits, ttl)
  BY DEF WindowInv
<1>2. Cardinality(passed \ Old) = Cardinality(passed) - Cardinality(passed \cap Old)
  BY <1>1, FS_Difference
<1>3. passed \cap Old = Old /\ IsFiniteSet(Old)
  BY <1>1, FS_Subset
<1>4. Cardinality(passed) \in Nat /\ Cardinality(Old) \in Nat /\ Due \in {0, 1}
  BY <1>1, <1>3, FS_CardinalityType DEF Due
<1>5. Cardinality(Old) <= Limit /\ Cardinality(passed \ Old) + Due <= Limit
  BY DEF Divides
<1>6. Cardinality(passed \ Old) = Cardinality(passed) - Cardinality(Old)
  BY <1>2, <1>3
<1> QED
  BY <1>4, <1>5, <1>6, Bounds DEF BurstBound

\* The history loses no call: the one that goes through is new in it.
LEMMA PassedIsNew ==
  ASSUME TypeOK, WindowInv, NEW u \in Users
  PROVE  /\ Refresh(u) /\ Allowed(Counted) /\ ~Opens(Counted) => <<1, Counted>> \notin passed
         /\ OpenWindow(u) => <<1, 1>> \notin passed
<1>1. hits \in Nat
  BY Bounds DEF TypeOK, LimitTypeOK
<1>2. Allowed(Counted) => Counted = hits + 1
  BY <1>1, Bounds DEF Allowed, Counted
<1>3. OpenWindow(u) => Opening # {}
  BY DEF OpenWindow, Opening
<1> QED
  BY <1>1, <1>2, <1>3 DEF WindowInv

-----------------------------------------------------------------------------
(* The theorems.                                                           *)

Inv == TypeOK /\ (\A u \in Users : RoleOK(u)) /\ CounterExpires /\ WindowInv

LEMMA InvInit == Init => Inv
<1> SUFFICES ASSUME Init PROVE Inv
  OBVIOUS
<1>1. LimitTypeOK
  BY Bounds DEF Init, LimitInit, LimitTypeOK
<1>2. RolesTyped
  <2>1. seen \in [Users -> BOOLEAN] /\ target \in [Users -> Users]
    BY DEF Init
  <2>2. since \in [Users -> 0..Longest] /\ stamp \in [Users -> 0..MaxDelay] /\ faults \in 0..MaxFaults
    BY Bounds DEF Init
  <2>3. token \in [Users -> [left: 0..AccessTTL, renewed: BOOLEAN]] /\ pc \in [Users -> Places]
    BY Bounds, PlacesAre DEF Init, NoAdminToken
  <2> QED
    BY <2>1, <2>2, <2>3 DEF RolesTyped
<1>3. \A u \in Users : RoleOK(u)
  BY DEF Init, RoleOK, NoAdminToken
<1>4. CounterExpires
  BY DEF Init, LimitInit, CounterExpires
<1>5. WindowInv
  <2>1. hits = 0 /\ ttl = 0 /\ passed = {} /\ Opening = {} /\ Due = 0
    BY DEF Init, LimitInit, Opening, Due
  <2>2. Divides({}, {}, 0, 0, 0)
    BY FS_EmptySet, Bounds DEF Divides
  <2> QED
    BY <2>1, <2>2 DEF WindowInv
<1> QED
  BY <1>1, <1>2, <1>3, <1>4, <1>5, TypeOKParts DEF Inv

LEMMA InvStep == Inv /\ [Next]_vars => Inv'
<1> SUFFICES ASSUME Inv, [Next]_vars PROVE Inv'
  OBVIOUS
<1>1. LimitTypeOK /\ RolesTyped /\ (\A u \in Users : RoleOK(u)) /\ CounterExpires /\ TypeOK
  BY TypeOKParts DEF Inv
<1>2. LimitTypeOK' /\ RolesTyped'
  BY <1>1, LimiterTypedStep, RolesTypedStep
<1>3. TypeOK'
  BY <1>2 DEF TypeOK, RolesTyped
<1>4. \A u \in Users : RoleOK(u)'
  BY <1>1, RolesStep
<1>5. CounterExpires'
  BY <1>1, CounterStep
<1>6. WindowInv'
  BY <1>1, WindowStep DEF Inv
<1> QED
  BY <1>3, <1>4, <1>5, <1>6 DEF Inv

LEMMA InvHolds == Spec => []Inv
  BY InvInit, InvStep, PTL DEF Spec

\* Type correctness of roles, tokens, calls and the limiter.
THEOREM AccessTyped == Spec => []TypeOK
<1>1. Inv => TypeOK
  BY DEF Inv
<1> QED
  BY <1>1, InvHolds, PTL

\* The propagation window of a role is one token's lifetime, for every
\* lifetime, and however the statements of two handlers interleave.
THEOREM RolesPropagate == Spec => []RoleIsRecent
<1>1. Inv => RoleIsRecent
  BY DEF Inv, RoleOK, Slack, RoleIsRecent
<1> QED
  BY <1>1, InvHolds, PTL

\* However calls come between INCR and EXPIRE, and wherever Redis fails, the
\* limiter lets no more than twice its limit through in any time as long as a
\* window (the doc of Allow, ADR-0007), and its counter gets a time to live
\* unless Redis fails between the two commands.
THEOREM LimiterHolds == Spec => []LimitHolds
<1>1. Inv => LimitHolds
  BY WindowBounds DEF Inv, LimitHolds
<1> QED
  BY <1>1, InvHolds, PTL

\* Only a step that demotes takes an admin away.
LEMMA OnlyDemotionRemoves ==
  ASSUME TypeOK, [Next]_vars, Admins # {}, Admins' = {}
  PROVE  \E u \in Users : UpdateUserRole(u) /\ pc[u] = "demote" /\ {target[u]} = Admins
<1>1. PICK a \in Users : since[a] = 0
  BY DEF Admins
<1>2. since'[a] # 0
  BY DEF Admins
<1>3. PICK u \in Users : UpdateUserRole(u)
  BY <1>1, <1>2 DEF Next, vars, Refresh, OpenWindow, RedisFails, Reread, Mint, Login, IssueSession,
     ChangeUserRole, Tick
<1>4. /\ pc[u] \in {"promote", "demote"} /\ since \in [Users -> 0..Longest] /\ target[u] \in Users
      /\ since' = [since EXCEPT ![target[u]] =
           IF pc[u] = "promote" THEN 0 ELSE IF since[target[u]] = 0 THEN 1 ELSE since[target[u]]]
  BY <1>3 DEF UpdateUserRole, TypeOK
<1>5. \A w \in Users : since'[w] # 0
  BY DEF Admins
<1>6. pc[u] = "demote"
  BY <1>4, <1>5
<1>7. \A w \in Users \ {target[u]} : since[w] # 0
  BY <1>4, <1>5
<1>8. {target[u]} = Admins
  BY <1>1, <1>4, <1>7 DEF Admins
<1> QED
  BY <1>3, <1>6, <1>8

\* The last admin falls only to another one, who was an admin a bounded time
\* ago: nobody locks everyone out alone, whoever promotes and demotes when.
THEOREM NobodyFallsAlone == Spec => LastAdminFallsToAnother
<1>1. Inv /\ [Next]_vars =>
        (Admins # {} /\ Admins' = {} =>
           \E u \in Users : /\ pc[u] = "demote" /\ {target[u]} = Admins /\ u # target[u]
                            /\ since[u] < Longest)
  <2> SUFFICES ASSUME Inv, [Next]_vars, Admins # {}, Admins' = {}
               PROVE  \E u \in Users : /\ pc[u] = "demote" /\ {target[u]} = Admins
                                       /\ u # target[u] /\ since[u] < Longest
    OBVIOUS
  <2>1. RolesTyped /\ TypeOK
    BY TypeOKParts DEF Inv
  <2>2. PICK u \in Users : pc[u] = "demote" /\ {target[u]} = Admins
    BY <2>1, OnlyDemotionRemoves
  <2>3. target[u] # u /\ since[u] <= AccessTTL + MaxDelay + stamp[u]
    BY <2>2 DEF Inv, RoleOK
  <2>4. since[u] < Longest
    BY <2>1, <2>3, TypedAt, Bounds
  <2> QED
    BY <2>2, <2>3, <2>4
<1>2. Inv /\ [Next]_vars =>
        [Admins # {} /\ Admins' = {} =>
           \E u \in Users : /\ pc[u] = "demote" /\ {target[u]} = Admins /\ u # target[u]
                            /\ since[u] < Longest]_vars
  BY <1>1
<1> QED
  BY <1>2, InvHolds, PTL DEF Spec, LastAdminFallsToAnother
=============================================================================
