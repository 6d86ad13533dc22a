--------------------------------- MODULE Hub --------------------------------
(***************************************************************************)
(* The fan-out of one contest's events to WebSocket connections            *)
(* (internal/realtime/hub.go, ws.go, internal/redisx/pubsub.go, and the    *)
(* connection limiter of internal/api/middleware.go).                      *)
(*                                                                         *)
(* A room lives from the first join to the last leave.  Its subscription   *)
(* goroutine copies from Redis to a stream, its pump copies from the       *)
(* stream to the send channels of its members.  The hub forgets a room     *)
(* before these two goroutines have ended, so several rooms of a contest   *)
(* may exist at once; `room' is the one in the map.  A room is named by    *)
(* the connection whose Join made it.  Hub methods hold the mutex from     *)
(* start to end, so each is one step.                                      *)
(***************************************************************************)
EXTENDS Integers, Sequences, FiniteSets

CONSTANTS
  Conns,        \* connections; one that has ended may come again
  Users,
  Owner,        \* the user of a connection
  NoRoom,       \* the contest is not in the map of rooms
  SendBuffer,   \* sendBuffer, 32
  MaxPerUser,   \* maxWSConnsPerUser, 8
  MaxEvents,    \* bound: events published in one behaviour
  FaultKinds,   \* faults that may happen
  MaxFaults     \* bound: faults in one behaviour

ASSUME HubConstants ==
  /\ IsFiniteSet(Conns)
  /\ Owner \in [Conns -> Users]
  /\ NoRoom \notin Conns
  /\ SendBuffer \in Nat \ {0}
  /\ MaxPerUser \in Nat
  /\ MaxEvents \in Nat
  /\ FaultKinds \subseteq {"subscribe", "stream", "gap"}
  /\ MaxFaults \in Nat

VARIABLES
  room,      \* h.rooms[contestID]
  members,   \* r.clients of each room
  sub,       \* the subscription goroutine: off, open, or its context cancelled
  stream,    \* events between Redis and the pump
  pump,      \* is the pump of a room running
  chan,      \* Client.send
  closed,    \* has Client.send been closed
  pc,        \* where the handler of a connection is
  seen,      \* the last event written to it, or published before it joined
  slots,     \* connLimiter.count
  sent,      \* events published; an event is its number
  up,        \* baseCtx is not done
  faults     \* faults left

hubVars == <<room, members, sub, stream, pump, chan, closed, pc, seen, slots, sent, up, faults>>
roomVars == <<room, members, sub, stream, pump>>

Events == 1..MaxEvents

TypeOK ==
  /\ room \in Conns \cup {NoRoom}
  /\ members \in [Conns -> SUBSET Conns]
  /\ sub \in [Conns -> {"off", "open", "cancelled"}]
  /\ stream \in [Conns -> Seq(Events)]
  /\ pump \in [Conns -> {"off", "running"}]
  /\ chan \in [Conns -> Seq(Events)]
  /\ \A c \in Conns : Len(chan[c]) <= SendBuffer
  /\ closed \in [Conns -> BOOLEAN]
  /\ pc \in [Conns -> {"idle", "accepted", "serving", "leaving"}]
  /\ seen \in [Conns -> 0..MaxEvents]
  /\ slots \in [Users -> 0..MaxPerUser]
  /\ sent \in 0..MaxEvents
  /\ up \in BOOLEAN
  /\ faults \in 0..MaxFaults

Init ==
  /\ room = NoRoom
  /\ members = [g \in Conns |-> {}]
  /\ sub = [g \in Conns |-> "off"]
  /\ stream = [g \in Conns |-> <<>>]
  /\ pump = [g \in Conns |-> "off"]
  /\ chan = [c \in Conns |-> <<>>]
  /\ closed = [c \in Conns |-> TRUE]
  /\ pc = [c \in Conns |-> "idle"]
  /\ seen = [c \in Conns |-> 0]
  /\ slots = [u \in Users |-> 0]
  /\ sent = 0
  /\ up = TRUE
  /\ faults = MaxFaults

Fault(kind) ==
  /\ kind \in FaultKinds
  /\ faults > 0
  /\ faults' = faults - 1

-----------------------------------------------------------------------------
(* The hub.                                                                *)

\* Deviation: the client stays in the room's map.
DropKept(D) ==
  /\ closed' = [c \in Conns |-> closed[c] \/ (room # NoRoom /\ c \in D \cap members[room])]
  /\ UNCHANGED <<room, members, sub>>

\* Deviation: the last one out does not cancel the subscription.
DropUncancelled(D) ==
  LET out == IF room = NoRoom THEN {} ELSE D \cap members[room]
  IN /\ members' = [g \in Conns |-> IF g = room THEN members[g] \ out ELSE members[g]]
     /\ closed' = [c \in Conns |-> closed[c] \/ c \in out]
     /\ room' = IF out # {} /\ members[room] = out THEN NoRoom ELSE room
     /\ UNCHANGED sub

\* dropLocked for each connection of D: only members of the room in the map
\* are removed, and the room goes with the last of them.
Drop(D) ==
  LET out == IF room = NoRoom THEN {} ELSE D \cap members[room]
      last == out # {} /\ members[room] = out
  IN /\ members' = [g \in Conns |-> IF g = room THEN members[g] \ out ELSE members[g]]
     /\ closed' = [c \in Conns |-> closed[c] \/ c \in out]
     /\ room' = IF last THEN NoRoom ELSE room
     /\ sub' = [g \in Conns |->
                  IF last /\ g = room /\ sub[g] = "open" THEN "cancelled" ELSE sub[g]]

\* The handler got a slot, and the WebSocket handshake is done.
Accept(c) ==
  /\ up
  /\ pc[c] = "idle"
  /\ pump[c] = "off" /\ sub[c] = "off"
  /\ slots[Owner[c]] < MaxPerUser
  /\ slots' = [slots EXCEPT ![Owner[c]] = @ + 1]
  /\ pc' = [pc EXCEPT ![c] = "accepted"]
  /\ UNCHANGED <<roomVars, chan, closed, seen, sent, up, faults>>

\* The first to join subscribes and starts the pump.
OpenRoom(c) ==
  /\ up
  /\ room' = c
  /\ members' = [members EXCEPT ![c] = {c}]
  /\ sub' = [sub EXCEPT ![c] = "open"]
  /\ stream' = [stream EXCEPT ![c] = <<>>]
  /\ pump' = [pump EXCEPT ![c] = "running"]

EnterRoom(c) ==
  /\ members' = [members EXCEPT ![room] = @ \cup {c}]
  /\ UNCHANGED <<room, sub, stream, pump>>

Join(c) ==
  /\ pc[c] = "accepted"
  /\ IF room = NoRoom THEN OpenRoom(c) ELSE EnterRoom(c)
  /\ chan' = [chan EXCEPT ![c] = <<>>]
  /\ closed' = [closed EXCEPT ![c] = FALSE]
  /\ seen' = [seen EXCEPT ![c] = sent]
  /\ pc' = [pc EXCEPT ![c] = "serving"]
  /\ UNCHANGED <<slots, sent, up, faults>>

\* Deviation: the slot is not given back.
ReleaseForgotten(c) == UNCHANGED slots

Release(c) == slots' = [slots EXCEPT ![Owner[c]] = IF @ <= 1 THEN 0 ELSE @ - 1]

\* The subscription handshake failed.
JoinFails(c) ==
  /\ pc[c] = "accepted"
  /\ room = NoRoom
  /\ \/ ~up /\ UNCHANGED faults
     \/ Fault("subscribe")
  /\ Release(c)
  /\ pc' = [pc EXCEPT ![c] = "idle"]
  /\ UNCHANGED <<roomVars, chan, closed, seen, sent, up>>

Full(c) == Len(chan[c]) >= SendBuffer

\* Deviation: a slow client misses the message and stays.
RelaySkips(g) ==
  /\ pump[g] = "running"
  /\ stream[g] # <<>>
  /\ chan' = [c \in Conns |-> IF c \in members[g] /\ ~Full(c)
                                THEN Append(chan[c], Head(stream[g]))
                                ELSE chan[c]]
  /\ stream' = [stream EXCEPT ![g] = Tail(@)]
  /\ UNCHANGED <<room, members, sub, pump, closed, pc, seen, slots, sent, up, faults>>

\* One round of the pump's loop.
Relay(g) ==
  /\ pump[g] = "running"
  /\ stream[g] # <<>>
  /\ LET full == {c \in members[g] : Full(c)}
     IN /\ chan' = [c \in Conns |-> IF c \in members[g] \ full
                                      THEN Append(chan[c], Head(stream[g]))
                                      ELSE chan[c]]
        /\ Drop(full)
  /\ stream' = [stream EXCEPT ![g] = Tail(@)]
  /\ UNCHANGED <<pump, pc, seen, slots, sent, up, faults>>

\* Deviation: the pump just ends.
PumpEndsQuietly(g) ==
  /\ pump[g] = "running"
  /\ sub[g] = "off"
  /\ stream[g] = <<>>
  /\ pump' = [pump EXCEPT ![g] = "off"]
  /\ UNCHANGED <<room, members, sub, stream, chan, closed, pc, seen, slots, sent, up, faults>>

\* The stream has ended: the pump drops the clients of the room that is in
\* the map, which may be a later one than its own.
PumpEnds(g) ==
  /\ pump[g] = "running"
  /\ sub[g] = "off"
  /\ stream[g] = <<>>
  /\ pump' = [pump EXCEPT ![g] = "off"]
  /\ Drop(Conns)
  /\ UNCHANGED <<stream, chan, pc, seen, slots, sent, up, faults>>

-----------------------------------------------------------------------------
(* Redis.                                                                  *)

\* An event reaches every open subscription.  One that is reconnecting, or
\* whose pump kept it waiting for too long, misses it.
Publish ==
  /\ sent < MaxEvents
  /\ sent' = sent + 1
  /\ \E lost \in SUBSET {g \in Conns : sub[g] = "open"} :
       /\ IF lost = {} THEN UNCHANGED faults ELSE Fault("gap")
       /\ stream' = [g \in Conns |-> IF sub[g] = "open" /\ g \notin lost
                                       THEN Append(stream[g], sent + 1)
                                       ELSE stream[g]]
  /\ UNCHANGED <<room, members, sub, pump, chan, closed, pc, seen, slots, up>>

\* The goroutine leaves its loop: its context is done, or the message channel
\* was closed.  What it held is lost, what it handed over is not.
SubEnds(g) ==
  /\ \/ sub[g] = "cancelled" /\ UNCHANGED faults
     \/ sub[g] = "open" /\ ~up /\ UNCHANGED faults
     \/ sub[g] = "open" /\ Fault("stream")
  /\ sub' = [sub EXCEPT ![g] = "off"]
  /\ \E n \in 0..Len(stream[g]) : stream' = [stream EXCEPT ![g] = SubSeq(@, 1, n)]
  /\ UNCHANGED <<room, members, pump, chan, closed, pc, seen, slots, sent, up>>

Shutdown ==
  /\ up
  /\ up' = FALSE
  /\ UNCHANGED <<roomVars, chan, closed, pc, seen, slots, sent, faults>>

-----------------------------------------------------------------------------
(* The handler of a connection.                                            *)

Later(m, n) == IF m > n THEN m ELSE n

WriteFrame(c) ==
  /\ pc[c] = "serving"
  /\ chan[c] # <<>>
  /\ chan' = [chan EXCEPT ![c] = Tail(@)]
  /\ seen' = [seen EXCEPT ![c] = Later(@, Head(chan[c]))]
  /\ UNCHANGED <<roomVars, closed, pc, slots, sent, up, faults>>

\* Deviation: a closed channel is noticed only when the room is gone.
DroppedWithRoom(c) ==
  /\ room = NoRoom
  /\ pc[c] = "serving" /\ chan[c] = <<>> /\ closed[c]
  /\ pc' = [pc EXCEPT ![c] = "leaving"]
  /\ UNCHANGED <<roomVars, chan, closed, seen, slots, sent, up, faults>>

\* A closed channel is read to its end before it reports closed.
Dropped(c) ==
  /\ pc[c] = "serving"
  /\ chan[c] = <<>>
  /\ closed[c]
  /\ pc' = [pc EXCEPT ![c] = "leaving"]
  /\ UNCHANGED <<roomVars, chan, closed, seen, slots, sent, up, faults>>

\* The peer left, or a write or a ping failed.
Gone(c) ==
  /\ pc[c] = "serving"
  /\ pc' = [pc EXCEPT ![c] = "leaving"]
  /\ UNCHANGED <<roomVars, chan, closed, seen, slots, sent, up, faults>>

\* The deferred calls: hub.Leave, then the slot.
Leave(c) ==
  /\ pc[c] = "leaving"
  /\ Drop({c})
  /\ Release(c)
  /\ pc' = [pc EXCEPT ![c] = "idle"]
  /\ chan' = [chan EXCEPT ![c] = <<>>]
  /\ seen' = [seen EXCEPT ![c] = 0]
  /\ UNCHANGED <<stream, pump, sent, up, faults>>

-----------------------------------------------------------------------------
Next ==
  \/ \E c \in Conns :
       \/ Accept(c) \/ Join(c) \/ JoinFails(c)
       \/ WriteFrame(c) \/ Dropped(c) \/ Gone(c) \/ Leave(c)
  \/ \E g \in Conns : Relay(g) \/ PumpEnds(g) \/ SubEnds(g)
  \/ Publish
  \/ Shutdown

Spec == Init /\ [][Next]_hubVars

\* Goroutines that can go on do.  Nothing obliges a client to come or go, an
\* event to be published, the process to stop or a fault to happen.
HubFairness ==
  /\ \A c \in Conns : WF_hubVars(Join(c) \/ (JoinFails(c) /\ UNCHANGED faults))
  /\ \A c \in Conns : WF_hubVars(WriteFrame(c) \/ Dropped(c)) /\ WF_hubVars(Leave(c))
  /\ \A g \in Conns : WF_hubVars(Relay(g)) /\ WF_hubVars(PumpEnds(g))
  /\ \A g \in Conns : WF_hubVars(SubEnds(g) /\ UNCHANGED faults)

FairSpec == Spec /\ HubFairness

-----------------------------------------------------------------------------
(* Properties.                                                             *)

\* The hub sends to, and closes, only channels that are open: neither can
\* panic, although handlers leave while pumps drop (dropLocked).
MembersAreOpen ==
  \A g, c \in Conns : c \in members[g] =>
    ~closed[c] /\ pc[c] \in {"serving", "leaving"}

\* No room is left without a pump, and no subscription without a room: the
\* room in the map has members, its pump runs and its context is not
\* cancelled; any other room has no members and its context is cancelled
\* (Join, dropLocked, pump).
RoomIsFed ==
  \A g \in Conns :
    IF g = room THEN members[g] # {} /\ pump[g] = "running" /\ sub[g] # "cancelled"
                ELSE members[g] = {} /\ sub[g] # "open"

\* A slot is held exactly as long as its handler runs, on every way out
\* (serveContestWS, connLimiter).
SlotsAreHeld ==
  \A u \in Users : slots[u] = Cardinality({c \in Conns : Owner[c] = u /\ pc[c] # "idle"})

\* Redis has lost no event so far: it never does, or no fault has happened.
RedisDelivers == "gap" \in FaultKinds => faults = MaxFaults

\* A slow client is dropped rather than skipped: while Redis delivers, what
\* waits for a member of a room whose subscription lives is every event it has
\* not seen, in order, up to the last one published.
FedWithoutGaps ==
  RedisDelivers =>
    \A c \in Conns : room # NoRoom /\ c \in members[room] /\ sub[room] = "open" =>
      LET waiting == chan[c] \o stream[room]
      IN /\ sent - seen[c] <= Len(waiting)
         /\ \A i \in 1..Len(waiting) : waiting[i] = sent - Len(waiting) + i

\* A dropped connection is not left hanging: its handler returns.
DroppedAreTold == \A c \in Conns : closed[c] ~> pc[c] \in {"idle", "accepted"}

\* Process shutdown ends every handler, room and pump although Server.Shutdown does not wait
\* for hijacked connections (NewHub's baseCtx).
ShutdownEnds == ~up ~> \A c \in Conns : pc[c] = "idle" /\ pump[c] = "off"
=============================================================================
