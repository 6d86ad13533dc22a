----------------------------- MODULE ContestRoom ----------------------------
(***************************************************************************)
(* The room page of one browser tab against the hub                        *)
(* (frontend/src/hooks/use-contest-events.ts, lib/api.ts,                  *)
(* components/room/leaderboard-panel.tsx, components/auth/auth-gate.tsx).  *)
(*                                                                         *)
(* The tab shows standings that come from two sources: events on its       *)
(* WebSocket, and answers to GET /leaderboard, which it asks for when the  *)
(* socket opens and from time to time.  Standings are the number of first  *)
(* solves in them; event n carries the standings after solve n.  All       *)
(* connections are the tab's, one after the other; the server may still    *)
(* serve an old one when the next is made.                                 *)
(***************************************************************************)
EXTENDS Hub

CONSTANTS
  NoConn,       \* the tab has no socket
  NoView,       \* the query has no data yet
  TabFaultKinds \* faults on the tab's side

ASSUME TabConstants ==
  /\ NoConn \notin Conns
  /\ NoView \notin 0..MaxEvents
  /\ TabFaultKinds \subseteq {"dial", "refresh", "fetch"}

VARIABLES
  hook,     \* where useContestEvents is
  socket,   \* its WebSocket
  wire,     \* events written by the server and not yet handled by the tab
  handled,  \* the last event handled, or published before the hub let it in
  token,    \* the access token in module memory; new, if it was obtained without
            \* a socket and no attempt to connect with it has ended yet
  guest,    \* the session has expired
  fetch,    \* the leaderboard query: none, asked, or answered
  answer,   \* the standings in the answer, 0 without one
  view,     \* the standings on the screen, the data of the query
  solved,   \* first solves
  tabFaults \* faults of the tab

tabVars == <<hook, socket, wire, handled, token, guest, fetch, answer, view, tabFaults>>
vars == <<hubVars, tabVars, solved>>

TabTypeOK ==
  /\ TypeOK
  /\ hook \in {"connect", "dial", "stale", "opening", "open",
              "backoff", "ended", "unmounted"}
  /\ socket \in Conns \cup {NoConn}
  /\ wire \in Seq(Events)
  /\ handled \in 0..MaxEvents
  /\ token \in {"none", "new", "fresh", "expired"}
  /\ guest \in BOOLEAN
  /\ fetch \in {"none", "asked", "answered"}
  /\ {answer, solved} \subseteq 0..MaxEvents
  /\ view \in 0..MaxEvents \cup {NoView}
  /\ socket # NoConn <=> hook \in {"opening", "open"}
  /\ tabFaults \in 0..MaxFaults

\* AuthGate renders the room once the session is restored.
TabInit ==
  /\ Init
  /\ hook = "connect"
  /\ socket = NoConn
  /\ wire = <<>>
  /\ handled = 0
  /\ token = "fresh"
  /\ guest = FALSE
  /\ fetch = "asked"
  /\ answer = 0
  /\ view = NoView
  /\ solved = 0
  /\ tabFaults = 0

\* MaxFaults bounds the faults of the hub and of the tab together.
FaultBound == tabFaults <= faults

TabFault(kind) ==
  /\ kind \in TabFaultKinds
  /\ tabFaults < faults
  /\ tabFaults' = tabFaults + 1

NoFault == UNCHANGED tabFaults

\* A step of the browser by itself.
quiet == <<hubVars, handled>>

-----------------------------------------------------------------------------
(* The socket.                                                             *)

InDate == token \in {"new", "fresh"}

\* An attempt to connect has ended, either way.
TokenTried == token' = IF token = "new" THEN "fresh" ELSE token

\* ensureFreshToken returns the token in hand, however old; only without one
\* it refreshes.
EnsureFreshToken ==
  /\ hook = "connect"
  /\ \/ /\ token # "none"
        /\ hook' = IF InDate THEN "dial" ELSE "stale"
        /\ NoFault /\ UNCHANGED token
     \/ /\ token = "none" /\ token' = "new" /\ hook' = "dial"
        /\ NoFault
     \/ /\ token = "none" /\ hook' = "ended"
        /\ TabFault("refresh") /\ UNCHANGED token
  /\ UNCHANGED <<quiet, socket, wire, guest, fetch, answer, view, solved>>

\* The handshake request gets through requireAuth and the limiter.
Dial(c) ==
  /\ hook = "dial"
  /\ Accept(c)
  /\ hook' = "opening"
  /\ socket' = c
  /\ UNCHANGED <<wire, handled, tabFaults, token, guest, fetch, answer, view, solved>>

\* 401 (the token was too old, or became so on the way), 429 or a network
\* error: onclose without onopen.
DialFails ==
  /\ \/ hook = "stale" /\ NoFault /\ UNCHANGED token
     \/ hook = "dial" /\ ~InDate /\ NoFault /\ UNCHANGED token
     \/ hook = "dial" /\ (\A c \in Conns : slots[Owner[c]] >= MaxPerUser) /\ NoFault /\ TokenTried
     \/ hook \in {"dial", "opening"} /\ TabFault("dial") /\ TokenTried
  /\ hook' = "backoff"
  /\ socket' = NoConn
  /\ wire' = <<>> /\ handled' = 0
  /\ UNCHANGED <<hubVars, guest, fetch, answer, view, solved>>

\* onopen: the query is invalidated.  A fetch under way starts over, but the
\* query client keeps the first one, as long as there is no data.
Opened ==
  /\ hook = "opening"
  /\ hook' = "open"
  /\ IF view = NoView /\ fetch # "none"
       THEN UNCHANGED <<fetch, answer>>
       ELSE fetch' = "asked" /\ answer' = 0
  /\ TokenTried
  /\ UNCHANGED <<quiet, tabFaults, socket, wire, guest, view, solved>>

\* onmessage: the event's standings go into the cache of the query.
HandleMessage ==
  /\ hook = "open"
  /\ wire # <<>>
  /\ view' = Head(wire)
  /\ handled' = Later(handled, Head(wire))
  /\ wire' = Tail(wire)
  /\ UNCHANGED <<hubVars, tabFaults, hook, socket, token, guest, fetch, answer, solved>>

\* onclose, after onopen: the server closed, or the network broke and what
\* was under way is lost.
Closed ==
  /\ hook = "open"
  /\ hook' = "backoff"
  /\ socket' = NoConn
  /\ wire' = <<>> /\ handled' = 0
  /\ UNCHANGED <<hubVars, tabFaults, token, guest, fetch, answer, view, solved>>

ClosedByServer == hook = "open" /\ pc[socket] \in {"idle", "leaving"} /\ Closed

Retry ==
  /\ hook = "backoff"
  /\ hook' = "connect"
  /\ UNCHANGED <<quiet, tabFaults, socket, wire, token, guest, fetch, answer, view, solved>>

\* Deviation: the cleanup leaves the socket open.
UnmountKeepsSocket ==
  /\ hook # "unmounted"
  /\ hook' = "unmounted"
  /\ fetch' = "none" /\ answer' = 0
  /\ UNCHANGED <<quiet, tabFaults, socket, wire, token, guest, view, solved>>

\* The effect's cleanup, and the end of the page's queries.
Unmount ==
  /\ hook # "unmounted"
  /\ hook' = "unmounted"
  /\ socket' = NoConn
  /\ wire' = <<>> /\ handled' = 0
  /\ fetch' = "none" /\ answer' = 0
  /\ UNCHANGED <<hubVars, tabFaults, token, guest, view, solved>>

-----------------------------------------------------------------------------
(* The session.                                                            *)

\* Minutes after it was obtained: a new token outlives the seconds of one
\* backoff and one attempt.
TokenExpires ==
  /\ token = "fresh"
  /\ token' = "expired"
  /\ UNCHANGED <<quiet, tabFaults, hook, socket, wire, guest, fetch, answer, view, solved>>

\* An authenticated request got a 401: refreshSession, and onSessionExpired
\* when it fails.
Recover ==
  /\ hook # "unmounted"
  /\ token = "expired"
  /\ \/ token' = (IF hook = "open" THEN "fresh" ELSE "new") /\ NoFault /\ UNCHANGED guest
     \/ token' = "none" /\ guest' = TRUE /\ TabFault("refresh")
  /\ UNCHANGED <<quiet, hook, socket, wire, fetch, answer, view, solved>>

-----------------------------------------------------------------------------
(* The leaderboard query.                                                  *)

\* Deviation: no polling while the socket is open.
PollOffline ==
  /\ hook \notin {"open", "unmounted"}
  /\ fetch = "none"
  /\ fetch' = "asked"
  /\ UNCHANGED <<quiet, tabFaults, hook, socket, wire, token, guest, answer, view, solved>>

\* refetchInterval.
Poll ==
  /\ hook # "unmounted"
  /\ fetch = "none"
  /\ fetch' = "asked"
  /\ UNCHANGED <<quiet, tabFaults, hook, socket, wire, token, guest, answer, view, solved>>

\* GET /leaderboard, when the cache agrees with PostgreSQL (see Leaderboard).
Snapshot ==
  /\ fetch = "asked"
  /\ fetch' = "answered"
  /\ answer' = solved
  /\ UNCHANGED <<quiet, tabFaults, hook, socket, wire, token, guest, view, solved>>

\* The answer replaces what an event may have put there meanwhile.
ShowAnswer ==
  /\ fetch = "answered"
  /\ fetch' = "none" /\ answer' = 0
  /\ view' = answer
  /\ UNCHANGED <<quiet, tabFaults, hook, socket, wire, token, guest, solved>>

FetchFails ==
  /\ fetch # "none"
  /\ TabFault("fetch")
  /\ fetch' = "none" /\ answer' = 0
  /\ UNCHANGED <<quiet, hook, socket, wire, token, guest, view, solved>>

-----------------------------------------------------------------------------
(* The server.                                                             *)

\* One scorer at a time: a solve is broadcast before the next.
Solve ==
  /\ solved = sent /\ solved < MaxEvents
  /\ solved' = solved + 1
  /\ UNCHANGED <<hubVars, tabVars>>

Broadcast ==
  /\ sent < solved
  /\ Publish
  /\ UNCHANGED <<tabVars, solved>>
  /\ FaultBound'

\* Deviation: onmessage is set in onopen only, and what came before is lost.
DeliverOnceOpen(c) ==
  /\ WriteFrame(c)
  /\ wire' = IF c = socket /\ hook = "open" THEN Append(wire, Head(chan[c])) ELSE wire
  /\ UNCHANGED <<hook, socket, handled, token, guest, fetch, answer, view, solved, tabFaults>>

\* What is written to the tab's socket reaches it; on an old one it is lost.
Deliver(c) ==
  /\ WriteFrame(c)
  /\ wire' = IF c = socket THEN Append(wire, Head(chan[c])) ELSE wire
  /\ UNCHANGED <<hook, socket, handled, token, guest, fetch, answer, view, solved, tabFaults>>

\* The hub lets a connection in; what was published before is not for it.
LetIn(c) ==
  /\ Join(c)
  /\ handled' = IF c = socket THEN sent ELSE handled
  /\ UNCHANGED <<hook, socket, wire, token, guest, fetch, answer, view, solved, tabFaults>>

HubStep ==
  /\ \/ \E c \in Conns : JoinFails(c) \/ Dropped(c) \/ Gone(c) \/ Leave(c)
     \/ \E g \in Conns : Relay(g) \/ PumpEnds(g) \/ SubEnds(g)
  /\ UNCHANGED <<tabVars, solved>>
  /\ FaultBound'

Connecting == EnsureFreshToken \/ (\E c \in Conns : Dial(c)) \/ DialFails \/ Opened \/ Retry

TabNext ==
  \/ Connecting \/ HandleMessage \/ Closed \/ Unmount
  \/ TokenExpires \/ Recover
  \/ Poll \/ Snapshot \/ ShowAnswer \/ FetchFails
  \/ Solve \/ Broadcast
  \/ \E c \in Conns : Deliver(c) \/ LetIn(c)
  \/ HubStep

TabSpec == TabInit /\ [][TabNext]_vars

\* Timers fire, promises settle, and the server's goroutines go on.  A server
\* that writes or pings finds out that its peer is gone.  Users, networks,
\* clocks and faults owe nothing: no fairness of Unmount, Closed,
\* TokenExpires, Recover or Solve.  A fetch is strongly fair: reopening
\* restarts it, but a reconnect waits at least a second, longer than an answer
\* takes each time.
TabFairness ==
  /\ WF_vars(Connecting /\ NoFault)
  /\ WF_vars(HandleMessage)
  /\ WF_vars(ClosedByServer)
  /\ WF_vars(Unmount /\ guest)
  /\ WF_vars(Poll)
  /\ SF_vars(Snapshot) /\ SF_vars(ShowAnswer)
  /\ WF_vars(Broadcast)
  /\ \A c \in Conns :
       /\ WF_vars(\/ LetIn(c)
                  \/ ((JoinFails(c) /\ UNCHANGED faults) \/ Dropped(c) \/ Leave(c)) /\ HubStep)
       /\ WF_vars(Deliver(c))
       /\ WF_vars(socket # c /\ Gone(c) /\ HubStep)
  /\ \A g \in Conns : WF_vars((Relay(g) \/ PumpEnds(g) \/ (SubEnds(g) /\ UNCHANGED faults)) /\ HubStep)

FairTabSpec == TabSpec /\ TabFairness

-----------------------------------------------------------------------------
(* Properties.                                                             *)

\* While Redis delivers, no page skips an event: what is under way to it, in
\* the hub and on its socket, is every event it has not handled, in order, up
\* to the last one published (pump, ServeWS, handleMessage).
PageMissesNothing ==
  RedisDelivers /\ socket # NoConn /\ room # NoRoom /\ socket \in members[room] /\ sub[room] = "open" =>
    LET coming == wire \o chan[socket] \o stream[room]
    IN /\ sent - handled <= Len(coming)
       /\ \A i \in 1..Len(coming) : coming[i] = sent - Len(coming) + i

\* Whatever events are missed, reordered against answers or lost, a page
\* that stays open shows the current standings in the end
\* (use-contest-events.ts: "a missed event can cost at most freshness").
Converges == <>[](hook = "unmounted" \/ view = solved)

\* A page that goes on making authenticated requests gets its socket back,
\* or its session ends, however often its token expires: ensureFreshToken
\* hands out an expired one, and it is the recovery of those requests that
\* ends the 401s of the socket (onclose and its backoff, apiFetch).
Reconnects ==
  WF_vars(Recover) => (hook = "backoff" ~> hook \in {"open", "ended", "unmounted"})

\* A page that was left keeps no connection at the server.
LeftBehind == hook = "unmounted" ~> \A c \in Conns : pc[c] = "idle"
=============================================================================
