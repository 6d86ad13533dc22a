------------------------------- MODULE Session ------------------------------
(***************************************************************************)
(* The refresh tokens of one user and the browsers that have them          *)
(* (auth/refresh.go, db/refresh_tokens.go, refreshToken and logout of      *)
(* handlers_auth.go, lib/api.ts, stores/auth.ts, ADR-0007).                *)
(*                                                                         *)
(* The tabs of a browser share one cookie.  A page has at most one refresh *)
(* in flight (single-flight), and beside it one login or logout; handlers  *)
(* of the page that the tab showed before may still run.  Refresh tokens   *)
(* are numbered in the order of their INSERT.                              *)
(***************************************************************************)
EXTENDS Integers, FiniteSets

CONSTANTS
  Tabs,
  Browsers,
  MaxTokens,    \* bound: rows of refresh_tokens
  MaxLogins,    \* bound: logins in one behaviour
  FaultKinds,   \* faults that may happen
  MaxFaults     \* bound: faults in one behaviour

ASSUME SessionConstants ==
  /\ IsFiniteSet(Tabs)
  /\ {MaxTokens, MaxLogins, MaxFaults} \subseteq Nat
  /\ FaultKinds \subseteq {"refused", "db", "lost", "reload", "copied"}

NoToken == 0
Ids == 1..MaxTokens

\* The calls of the page, and those that the page before left behind.
PageCalls == {"refresh", "user"}
Calls == Tabs \X (PageCalls \cup {"left refresh", "left user"})

VARIABLES
  rows,     \* refresh_tokens: id -> "none", "live", "expired" or "revoked"
  home,     \* tab -> its browser
  cookie,   \* browser -> its cookie: a token or NoToken
  status,   \* tab -> what its auth store says
  pc,       \* call -> where its handler or its answer is
  sent,     \* call -> the cookie that the request brought
  next,     \* call -> the token its handler inserted
  logins,   \* logins so far
  faults,   \* faults left
  parent,   \* history: token -> the token it was rotated from
  purged,   \* history: the newest token at the last revocation of the family
  spared,   \* history: rotations between SELECT and INSERT at that moment
  overlap   \* history: have two calls ever been in flight at once

past == <<parent, purged, spared>>
vars == <<rows, home, cookie, status, pc, sent, next, logins, faults, past, overlap>>

Handling == {"select", "purge", "insert", "revoke", "mint",
             "issue", "forget"}
Answered == {"ok", "unauthorized", "failed", "loggedin", "loggedout"}

TypeOK ==
  /\ rows \in [Ids -> {"none", "live", "expired", "revoked"}]
  /\ home \in [Tabs -> Browsers]
  /\ cookie \in [Browsers -> Ids \cup {NoToken}]
  /\ status \in [Tabs -> {"restoring", "authenticated", "guest"}]
  /\ pc \in [Calls -> {"idle"} \cup Handling \cup Answered]
  /\ sent \in [Calls -> Ids \cup {NoToken}]
  /\ next \in [Calls -> Ids \cup {NoToken}]
  /\ logins \in 0..MaxLogins
  /\ faults \in 0..MaxFaults
  /\ parent \in [Ids -> Ids \cup {NoToken}]
  /\ purged \in Ids \cup {NoToken}
  /\ spared \in Nat
  /\ overlap \in BOOLEAN

Init ==
  /\ rows = [k \in Ids |-> "none"]
  /\ home \in [Tabs -> Browsers]
  /\ cookie = [b \in Browsers |-> NoToken]
  /\ status = [t \in Tabs |-> "restoring"]
  /\ pc = [c \in Calls |-> "idle"]
  /\ sent = [c \in Calls |-> NoToken]
  /\ next = [c \in Calls |-> NoToken]
  /\ logins = 0
  /\ faults = MaxFaults
  /\ parent = [k \in Ids |-> NoToken]
  /\ purged = NoToken
  /\ spared = 0
  /\ overlap = FALSE

\* Rows are numbered without a gap.
Used == {k \in Ids : rows[k] # "none"}
Idle == \A c \in Calls : pc[c] = "idle"

Goto(c, place) == pc' = [pc EXCEPT ![c] = place]

Fault(kind) == kind \in FaultKinds /\ faults > 0 /\ faults' = faults - 1

-----------------------------------------------------------------------------
(* The tabs.                                                               *)

\* The cookie that the tab's requests bring.
Jar(t) == cookie[home[t]]

SetCookie(t, k) == cookie' = [cookie EXCEPT ![home[t]] = k]

Send(c, place) ==
  /\ pc[c] = "idle"
  /\ Goto(c, place)
  /\ sent' = [sent EXCEPT ![c] = Jar(c[1])]
  /\ overlap' = (overlap \/ ~Idle)
  /\ UNCHANGED <<rows, home, cookie, status, next, faults, past>>

\* A page that loads, an API call answered 401, a room that dials.  Without
\* the cookie there is nothing to look up.
RefreshSession(t) ==
  /\ status[t] # "guest"
  /\ Send(<<t, "refresh">>, IF Jar(t) = NoToken THEN "failed" ELSE "select")
  /\ UNCHANGED logins

Login(t) ==
  /\ status[t] = "guest" /\ logins < MaxLogins
  /\ logins' = logins + 1
  /\ Send(<<t, "user">>, "issue")

SignOut(t) ==
  /\ status[t] = "authenticated"
  /\ Send(<<t, "user">>, IF Jar(t) = NoToken THEN "loggedout" ELSE "forget")
  /\ UNCHANGED logins

\* Where a call ends, sent and next are over.
Over(c) ==
  /\ Goto(c, "idle")
  /\ sent' = [sent EXCEPT ![c] = NoToken]
  /\ next' = [next EXCEPT ![c] = NoToken]

SignedIn(t) == status' = [status EXCEPT ![t] = "authenticated"]

\* A page that loads asks next who it is, which may fail.
NobodyThere(t) == status[t] = "restoring" /\ status' = [status EXCEPT ![t] = "guest"]

\* Whoever asked for the refresh gives the session up, except the room's
\* socket, which only asks again.
SignedOut(t) ==
  \E s \in {"guest"} \cup ({status[t]} \ {"restoring"}) : status' = [status EXCEPT ![t] = s]

\* Deviation: the answer has the access token only.
ClearedOnly(c) == IF pc[c] = "unauthorized" THEN NoToken ELSE Jar(c[1])

CookieAfter(c) ==
  CASE pc[c] = "ok" -> next[c]
    [] pc[c] = "unauthorized" -> NoToken
    [] OTHER -> Jar(c[1])

ReceiveRefresh(t) ==
  LET c == <<t, "refresh">>
  IN /\ pc[c] \in {"ok", "unauthorized", "failed"}
     /\ SetCookie(t, CookieAfter(c))
     /\ IF pc[c] = "ok" THEN SignedIn(t) \/ NobodyThere(t) ELSE SignedOut(t)
     /\ Over(c)
     /\ UNCHANGED <<rows, home, logins, faults, past, overlap>>

ReceiveLogin(t) ==
  LET c == <<t, "user">>
  IN /\ pc[c] \in {"loggedin", "failed"}
     /\ IF pc[c] = "loggedin"
        THEN SetCookie(t, next[c]) /\ SignedIn(t)
        ELSE UNCHANGED <<cookie, status>>
     /\ Over(c)
     /\ UNCHANGED <<rows, home, logins, faults, past, overlap>>

\* Signing out is best effort: the tab is a guest whatever the answer.
BecomeGuest(t) == status' = [status EXCEPT ![t] = "guest"]

ReceiveLogout(t) ==
  LET c == <<t, "user">>
  IN /\ pc[c] = "loggedout"
     /\ SetCookie(t, NoToken)
     /\ BecomeGuest(t)
     /\ Over(c)
     /\ UNCHANGED <<rows, home, logins, faults, past, overlap>>

\* The answer, with the cookie in it, does not reach the browser.
AnswerLost(t, kind) ==
  LET c == <<t, kind>>
  IN /\ pc[c] \in Answered /\ Fault("lost")
     /\ IF pc[c] = "loggedout" THEN BecomeGuest(t)
        ELSE IF kind = "refresh" THEN SignedOut(t) ELSE UNCHANGED status
     /\ Over(c)
     /\ UNCHANGED <<rows, home, cookie, logins, past, overlap>>

InFlight(t) == \E kind \in PageCalls : pc[<<t, kind>>] # "idle"

\* The page is loaded anew.  What it had in flight is cancelled, but its
\* handlers go on until they notice, and nobody waits for their answers.
\* Bound: no reload while handlers of the page before are running.
Reload(t) ==
  /\ \A c \in Calls : c[1] = t /\ c[2] \notin PageCalls => pc[c] = "idle"
  /\ IF InFlight(t) THEN Fault("reload") ELSE UNCHANGED faults
  /\ status' = [status EXCEPT ![t] = "restoring"]
  /\ LET Before(c) == <<t, IF c[2] = "left refresh" THEN "refresh" ELSE "user">>
         LeftBy(c) == c[2] \notin PageCalls /\ pc[Before(c)] \in Handling
         Leave(f, v) == [c \in Calls |-> IF c[1] # t THEN f[c]
                                         ELSE IF LeftBy(c) THEN f[Before(c)] ELSE v]
     IN /\ pc' = Leave(pc, "idle")
        /\ sent' = Leave(sent, NoToken) /\ next' = Leave(next, NoToken)
  /\ UNCHANGED <<rows, home, cookie, logins, past, overlap>>

\* A handler that was left behind ends at any of its calls of the database,
\* or gets to its answer, which reaches nobody.
NoticeCancel(c) ==
  /\ c[2] \notin PageCalls /\ pc[c] # "idle"
  /\ Over(c)
  /\ UNCHANGED <<rows, home, cookie, status, logins, faults, past, overlap>>

\* Another client presents the same token: the cookie gets into its jar.
CookieCopied(s, t) ==
  /\ Jar(s) \notin {NoToken, Jar(t)}
  /\ Fault("copied")
  /\ SetCookie(t, Jar(s))
  /\ UNCHANGED <<rows, home, status, pc, sent, next, logins, past, overlap>>

-----------------------------------------------------------------------------
(* The handlers.                                                           *)

Quietly == UNCHANGED <<home, cookie, status, sent, logins, overlap>>

\* The limiter says no (429), or Redis does not answer (503).
Refused(c) ==
  /\ pc[c] \in {"select", "issue"} /\ Fault("refused")
  /\ Goto(c, "failed")
  /\ Quietly /\ UNCHANGED <<rows, next, past>>

\* A call of the database fails: 500, and the cookie stays.  A logout is
\* answered with 204 all the same.
DbFails(c) ==
  /\ pc[c] \in Handling /\ Fault("db")
  /\ Goto(c, IF pc[c] = "forget" THEN "loggedout" ELSE "failed")
  /\ Quietly /\ UNCHANGED <<rows, next, past>>

\* Rotate: what the SELECT finds decides.
Select(c) ==
  /\ pc[c] = "select"
  /\ Goto(c, CASE rows[sent[c]] = "revoked" -> "purge"
               [] rows[sent[c]] = "expired" -> "unauthorized"
               [] OTHER -> "insert")
  /\ Quietly /\ UNCHANGED <<rows, next, faults, past>>

\* Deviation: only the token that was reused is revoked.
RevokeReused(c) == [rows EXCEPT ![sent[c]] = "revoked"]

RevokedFamily(c) == [k \in Ids |-> IF rows[k] = "none" THEN "none" ELSE "revoked"]

Rotations == {c \in Calls : pc[c] = "insert"}

RevokeAllUserRefreshTokens(c) ==
  /\ pc[c] = "purge"
  /\ rows' = RevokedFamily(c)
  /\ purged' = Cardinality(Used) /\ spared' = Cardinality(Rotations)
  /\ Goto(c, "unauthorized")
  /\ Quietly /\ UNCHANGED <<next, faults, parent>>

CreateRefreshToken(c, from, place) ==
  LET k == Cardinality(Used) + 1
  IN /\ k \in Ids
     /\ rows' = [rows EXCEPT ![k] = "live"]
     /\ parent' = [parent EXCEPT ![k] = from]
     /\ next' = [next EXCEPT ![c] = k]
     /\ Goto(c, place)
     /\ Quietly /\ UNCHANGED <<faults, purged, spared>>

InsertNext(c) == pc[c] = "insert" /\ CreateRefreshToken(c, sent[c], "revoke")

IssueSession(c) == pc[c] = "issue" /\ CreateRefreshToken(c, NoToken, "loggedin")

\* Deviation: the successor is stored and the old token stays.
KeepOld(c) == rows

\* The UPDATE is conditional on revoked_at, and nobody looks at its count.
RevokedOne(c) == [rows EXCEPT ![sent[c]] = "revoked"]

RevokeRefreshToken(c) ==
  /\ pc[c] \in {"revoke", "forget"}
  /\ rows' = RevokedOne(c)
  /\ Goto(c, IF pc[c] = "revoke" THEN "mint" ELSE "loggedout")
  /\ Quietly /\ UNCHANGED <<next, faults, past>>

\* The user is read again and an access token minted.
MintAccess(c) ==
  /\ pc[c] = "mint"
  /\ Goto(c, "ok")
  /\ Quietly /\ UNCHANGED <<rows, next, faults, past>>

\* RefreshTokenTTL after its INSERT.
TokenExpires(k) ==
  /\ rows[k] = "live"
  /\ rows' = [rows EXCEPT ![k] = "expired"]
  /\ UNCHANGED <<home, cookie, status, pc, sent, next, logins, faults, past, overlap>>

Handle(c) ==
  \/ Select(c) \/ RevokeAllUserRefreshTokens(c) \/ InsertNext(c)
  \/ RevokeRefreshToken(c) \/ MintAccess(c)
  \/ IssueSession(c)

Receive(t) == ReceiveRefresh(t) \/ ReceiveLogin(t) \/ ReceiveLogout(t)

Next ==
  \/ \E t \in Tabs : RefreshSession(t) \/ Login(t) \/ SignOut(t) \/ Receive(t) \/ Reload(t)
  \/ \E t \in Tabs, kind \in PageCalls : AnswerLost(t, kind)
  \/ \E c \in Calls : Handle(c) \/ Refused(c) \/ DbFails(c) \/ NoticeCancel(c)
  \/ \E s, t \in Tabs : CookieCopied(s, t)
  \/ \E k \in Ids : TokenExpires(k)

Spec == Init /\ [][Next]_vars

-----------------------------------------------------------------------------
(* Properties.                                                             *)

Quiet == ~overlap /\ faults = MaxFaults

\* A user whose browsers make one call at a time, and lose none, never trips
\* the detection of reuse, and the cookies always work.
QuietSession ==
  Quiet => /\ \A c \in Calls : pc[c] # "purge"
           /\ Idle => \A b \in Browsers :
                cookie[b] # NoToken => rows[cookie[b]] \in {"live", "expired"}

Children(k) == {j \in Ids : rows[j] # "none" /\ parent[j] = k}

\* The two statements of a rotation: a token with a successor is dead, or
\* its handler is between the two, or it failed there.
RotatedIsDead ==
  \A k \in Ids : Children(k) # {} /\ rows[k] = "live" =>
    \/ \E c \in Calls : pc[c] = "revoke" /\ sent[c] = k
    \/ faults < MaxFaults

\* Successors, since the last revocation, of tokens from before it.
Escaped == {j \in Ids : j > purged /\ rows[j] # "none" /\ parent[j] \in 1..purged}

\* Reuse ends the family in every browser: no token from before is live, and
\* new ones come from logins, but for one successor for each rotation that
\* was between its SELECT and its INSERT (Rotate, RevokeAllUserRefreshTokens).
ReuseEndsFamily ==
  purged # NoToken =>
    /\ \A k \in 1..purged : rows[k] # "live"
    /\ Cardinality(Escaped) <= spared
=============================================================================
