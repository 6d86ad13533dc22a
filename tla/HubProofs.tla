------------------------------ MODULE HubProofs -----------------------------
(***************************************************************************)
(* Theorems about Hub for every number of connections, users, events and   *)
(* faults, and about ContestRoom, which is Hub with a browser tab.         *)
(***************************************************************************)
EXTENDS ContestRoom, FiniteSetTheorems, SequenceTheorems, TLAPS

-----------------------------------------------------------------------------
(* Type correctness.                                                       *)

\* What dropLocked assigns keeps its types.
LEMMA DropTyped ==
  ASSUME TypeOK, NEW D, Drop(D)
  PROVE  /\ room' \in Conns \cup {NoRoom}
         /\ members' \in [Conns -> SUBSET Conns]
         /\ sub' \in [Conns -> {"off", "open", "cancelled"}]
         /\ closed' \in [Conns -> BOOLEAN]
<1> DEFINE out == IF room = NoRoom THEN {} ELSE D \cap members[room]
           last == out # {} /\ members[room] = out
<1>1. /\ members' = [g \in Conns |-> IF g = room THEN members[g] \ out ELSE members[g]]
      /\ closed' = [c \in Conns |-> closed[c] \/ c \in out]
      /\ room' = IF last THEN NoRoom ELSE room
      /\ sub' = [g \in Conns |->
                   IF last /\ g = room /\ sub[g] = "open" THEN "cancelled" ELSE sub[g]]
  BY DEF Drop
<1> HIDE DEF out, last
<1>2. room' \in Conns \cup {NoRoom}
  BY <1>1 DEF TypeOK
<1>3. members' \in [Conns -> SUBSET Conns]
  BY <1>1 DEF TypeOK
<1>4. sub' \in [Conns -> {"off", "open", "cancelled"}]
  BY <1>1 DEF TypeOK
<1>5. closed' \in [Conns -> BOOLEAN]
  BY <1>1, Zenon DEF TypeOK
<1> QED
  BY <1>2, <1>3, <1>4, <1>5

LEMMA ReleaseTyped ==
  ASSUME TypeOK, NEW c \in Conns, Release(c)
  PROVE  slots' \in [Users -> 0..MaxPerUser]
<1>1. Owner[c] \in Users /\ MaxPerUser \in Nat
  BY HubConstants DEF HubConstants
<1>2. slots \in [Users -> 0..MaxPerUser]
  BY DEF TypeOK
<1> QED
  BY <1>1, <1>2 DEF Release

LEMMA FaultTyped ==
  ASSUME TypeOK, NEW k, Fault(k) \/ UNCHANGED faults
  PROVE  faults' \in 0..MaxFaults
  BY HubConstants DEF HubConstants, TypeOK, Fault

LEMMA InitTyped == Init => TypeOK
<1> SUFFICES ASSUME Init PROVE TypeOK
  OBVIOUS
<1> USE HubConstants DEF HubConstants, Init
<1>1. \A c \in Conns : Len(chan[c]) <= SendBuffer
  OBVIOUS
<1>2. stream \in [Conns -> Seq(Events)] /\ chan \in [Conns -> Seq(Events)]
  OBVIOUS
<1>3. closed \in [Conns -> BOOLEAN]
  OBVIOUS
<1>4. up \in BOOLEAN
  OBVIOUS
<1> QED
  BY <1>1, <1>2, <1>3, <1>4 DEF TypeOK

LEMMA StepTyped == TypeOK /\ [Next]_hubVars => TypeOK'
<1> SUFFICES ASSUME TypeOK, [Next]_hubVars PROVE TypeOK'
  OBVIOUS
<1> USE HubConstants DEF HubConstants, roomVars
<1>1. ASSUME NEW c \in Conns, Accept(c) PROVE TypeOK'
  <2>1. slots' \in [Users -> 0..MaxPerUser]
    BY <1>1 DEF TypeOK, Accept
  <2>2. pc' \in [Conns -> {"idle", "accepted", "serving", "leaving"}]
    BY <1>1 DEF TypeOK, Accept
  <2> QED
    BY <1>1, <2>1, <2>2 DEF TypeOK, Accept
<1>2. ASSUME NEW c \in Conns, Join(c) PROVE TypeOK'
  <2>1. /\ room' \in Conns \cup {NoRoom}
        /\ members' \in [Conns -> SUBSET Conns]
        /\ sub' \in [Conns -> {"off", "open", "cancelled"}]
        /\ stream' \in [Conns -> Seq(Events)]
        /\ pump' \in [Conns -> {"off", "running"}]
    <3>1. CASE room = NoRoom
      <4>1. OpenRoom(c)
        BY <1>2, <3>1, Zenon DEF Join
      <4> QED
        BY <4>1 DEF TypeOK, OpenRoom
    <3>2. CASE room # NoRoom
      <4>1. EnterRoom(c)
        BY <1>2, <3>2, Zenon DEF Join
      <4>2. room \in Conns
        BY <3>2 DEF TypeOK
      <4> QED
        BY <4>1, <4>2 DEF TypeOK, EnterRoom
    <3> QED
      BY <3>1, <3>2
  <2>2. /\ chan' \in [Conns -> Seq(Events)]
        /\ \A d \in Conns : Len(chan'[d]) <= SendBuffer
    BY <1>2 DEF TypeOK, Join
  <2>3. closed' \in [Conns -> BOOLEAN]
    BY <1>2 DEF TypeOK, Join
  <2>4. /\ seen' \in [Conns -> 0..MaxEvents]
        /\ pc' \in [Conns -> {"idle", "accepted", "serving", "leaving"}]
    BY <1>2 DEF TypeOK, Join
  <2> QED
    BY <1>2, <2>1, <2>2, <2>3, <2>4 DEF TypeOK, Join
<1>3. ASSUME NEW c \in Conns, JoinFails(c) PROVE TypeOK'
  <2>1. slots' \in [Users -> 0..MaxPerUser]
    BY <1>3, ReleaseTyped DEF JoinFails
  <2>2. faults' \in 0..MaxFaults
    BY <1>3, FaultTyped DEF JoinFails
  <2>3. pc' \in [Conns -> {"idle", "accepted", "serving", "leaving"}]
    BY <1>3 DEF TypeOK, JoinFails
  <2> QED
    BY <1>3, <2>1, <2>2, <2>3 DEF TypeOK, JoinFails
<1>4. ASSUME NEW c \in Conns, WriteFrame(c) PROVE TypeOK'
  <2>1. chan[c] \in Seq(Events) /\ chan[c] # <<>>
    BY <1>4 DEF TypeOK, WriteFrame
  <2>2. Head(chan[c]) \in Events /\ Tail(chan[c]) \in Seq(Events)
        /\ Len(Tail(chan[c])) = Len(chan[c]) - 1
    BY <2>1
  <2>3. /\ chan' \in [Conns -> Seq(Events)]
        /\ \A d \in Conns : Len(chan'[d]) <= SendBuffer
    <3>1. chan' = [chan EXCEPT ![c] = Tail(chan[c])]
      BY <1>4 DEF WriteFrame
    <3>2. Len(chan[c]) \in Nat /\ Len(chan[c]) <= SendBuffer
      BY <2>1 DEF TypeOK
    <3> QED
      BY <3>1, <3>2, <2>2 DEF TypeOK
  <2>4. Later(seen[c], Head(chan[c])) \in 0..MaxEvents
    BY <2>2 DEF TypeOK, Later, Events
  <2>5. seen' \in [Conns -> 0..MaxEvents]
    BY <1>4, <2>4 DEF TypeOK, WriteFrame
  <2> QED
    BY <1>4, <2>3, <2>5 DEF TypeOK, WriteFrame
<1>5. ASSUME NEW c \in Conns, Dropped(c) \/ Gone(c) PROVE TypeOK'
  <2>1. pc' = [pc EXCEPT ![c] = "leaving"]
        /\ UNCHANGED <<roomVars, chan, closed, seen, slots, sent, up, faults>>
    BY <1>5 DEF Dropped, Gone
  <2>2. pc' \in [Conns -> {"idle", "accepted", "serving", "leaving"}]
    BY <2>1 DEF TypeOK
  <2> QED
    BY <2>1, <2>2 DEF TypeOK
<1>6. ASSUME NEW c \in Conns, Leave(c) PROVE TypeOK'
  <2>1. slots' \in [Users -> 0..MaxPerUser]
    BY <1>6, ReleaseTyped DEF Leave
  <2>2. /\ room' \in Conns \cup {NoRoom}
        /\ members' \in [Conns -> SUBSET Conns]
        /\ sub' \in [Conns -> {"off", "open", "cancelled"}]
        /\ closed' \in [Conns -> BOOLEAN]
    BY <1>6, DropTyped DEF Leave
  <2>3. /\ chan' \in [Conns -> Seq(Events)]
        /\ \A d \in Conns : Len(chan'[d]) <= SendBuffer
        /\ seen' \in [Conns -> 0..MaxEvents]
        /\ pc' \in [Conns -> {"idle", "accepted", "serving", "leaving"}]
    BY <1>6 DEF TypeOK, Leave
  <2> QED
    BY <1>6, <2>1, <2>2, <2>3 DEF TypeOK, Leave
<1>7. ASSUME NEW g \in Conns, Relay(g) PROVE TypeOK'
  <2> DEFINE full == {c \in members[g] : Full(c)}
  <2>1. /\ room' \in Conns \cup {NoRoom}
        /\ members' \in [Conns -> SUBSET Conns]
        /\ sub' \in [Conns -> {"off", "open", "cancelled"}]
        /\ closed' \in [Conns -> BOOLEAN]
    BY <1>7, DropTyped DEF Relay
  <2>2. stream[g] \in Seq(Events) /\ stream[g] # <<>>
    BY <1>7 DEF TypeOK, Relay
  <2>3. Head(stream[g]) \in Events /\ Tail(stream[g]) \in Seq(Events)
    BY <2>2
  <2>4. chan' = [c \in Conns |-> IF c \in members[g] \ full
                                   THEN Append(chan[c], Head(stream[g]))
                                   ELSE chan[c]]
    BY <1>7 DEF Relay
  <2>5. ASSUME NEW c \in Conns
        PROVE  chan'[c] \in Seq(Events) /\ Len(chan'[c]) <= SendBuffer
    <3>1. chan[c] \in Seq(Events) /\ Len(chan[c]) \in Nat /\ Len(chan[c]) <= SendBuffer
      BY DEF TypeOK
    <3>2. CASE c \in members[g] \ full
      <4>1. Len(chan[c]) < SendBuffer
        BY <3>1, <3>2 DEF Full
      <4> QED
        BY <2>3, <2>4, <3>1, <3>2, <4>1
    <3>3. CASE c \notin members[g] \ full
      BY <2>4, <3>1, <3>3
    <3> QED
      BY <3>2, <3>3
  <2>6. chan' \in [Conns -> Seq(Events)]
    <3>1. chan' = [c \in Conns |-> chan'[c]]
      BY <2>4
    <3> QED
      BY <2>5, <3>1
  <2>7. stream' \in [Conns -> Seq(Events)]
    BY <1>7, <2>3 DEF TypeOK, Relay
  <2> QED
    BY <1>7, <2>1, <2>5, <2>6, <2>7 DEF TypeOK, Relay
<1>8. ASSUME NEW g \in Conns, PumpEnds(g) PROVE TypeOK'
  <2>1. /\ room' \in Conns \cup {NoRoom}
        /\ members' \in [Conns -> SUBSET Conns]
        /\ sub' \in [Conns -> {"off", "open", "cancelled"}]
        /\ closed' \in [Conns -> BOOLEAN]
    BY <1>8, DropTyped DEF PumpEnds
  <2>2. pump' \in [Conns -> {"off", "running"}]
    BY <1>8 DEF TypeOK, PumpEnds
  <2> QED
    BY <1>8, <2>1, <2>2 DEF TypeOK, PumpEnds
<1>9. ASSUME NEW g \in Conns, SubEnds(g) PROVE TypeOK'
  <2>1. faults' \in 0..MaxFaults
    BY <1>9, FaultTyped DEF SubEnds
  <2>2. sub' \in [Conns -> {"off", "open", "cancelled"}]
    BY <1>9 DEF TypeOK, SubEnds
  <2>3. PICK n \in 0..Len(stream[g]) : stream' = [stream EXCEPT ![g] = SubSeq(@, 1, n)]
    BY <1>9 DEF SubEnds
  <2>4. SubSeq(stream[g], 1, n) \in Seq(Events)
    <3>1. stream[g] \in Seq(Events)
      BY DEF TypeOK
    <3> QED
      BY <3>1, <2>3
  <2>5. stream' \in [Conns -> Seq(Events)]
    BY <2>3, <2>4 DEF TypeOK
  <2> QED
    BY <1>9, <2>1, <2>2, <2>5 DEF TypeOK, SubEnds
<1>10. CASE Publish
  <2>1. PICK lost \in SUBSET {g \in Conns : sub[g] = "open"} :
          /\ IF lost = {} THEN UNCHANGED faults ELSE Fault("gap")
          /\ stream' = [g \in Conns |-> IF sub[g] = "open" /\ g \notin lost
                                          THEN Append(stream[g], sent + 1)
                                          ELSE stream[g]]
    BY <1>10 DEF Publish
  <2>2. faults' \in 0..MaxFaults
    BY <2>1, FaultTyped
  <2>3. sent + 1 \in Events /\ sent' \in 0..MaxEvents
    BY <1>10 DEF TypeOK, Publish, Events
  <2>4. stream' \in [Conns -> Seq(Events)]
    BY <2>1, <2>3 DEF TypeOK
  <2> QED
    BY <1>10, <2>2, <2>3, <2>4 DEF TypeOK, Publish
<1>11. CASE Shutdown
  BY <1>11 DEF TypeOK, Shutdown
<1>12. CASE UNCHANGED hubVars
  BY <1>12 DEF TypeOK, hubVars
<1> QED
  BY <1>1, <1>2, <1>3, <1>4, <1>5, <1>6, <1>7, <1>8, <1>9, <1>10, <1>11, <1>12 DEF Next

\* The hub keeps its types; no send channel ever holds more than its buffer,
\* and no user more slots than the limit.
THEOREM HubTyped == Spec => []TypeOK
<1>1. QED
  BY InitTyped, StepTyped, PTL DEF Spec

-----------------------------------------------------------------------------
(* Rooms.                                                                  *)

RoomInv == RoomIsFed /\ MembersAreOpen

\* What dropLocked does to a hub in order, whatever it is asked to drop: no
\* one is added anywhere, and a room that lost its last member is out of the
\* map.
LEMMA DropKeepsRooms ==
  ASSUME TypeOK, RoomInv, NEW D, Drop(D)
  PROVE  /\ \A g \in Conns : members'[g] \subseteq members[g]
         /\ \A g, c \in Conns : c \in D => c \notin members'[g]
         /\ \A g, c \in Conns : c \in members'[g] => closed'[c] = closed[c]
         /\ room' \in {room, NoRoom}
         /\ \A g \in Conns :
              IF g = room' THEN members'[g] # {} /\ sub'[g] = sub[g]
                           ELSE members'[g] = {} /\ sub'[g] # "open"
<1> DEFINE out == IF room = NoRoom THEN {} ELSE D \cap members[room]
           last == out # {} /\ members[room] = out
<1>1. /\ members' = [g \in Conns |-> IF g = room THEN members[g] \ out ELSE members[g]]
      /\ closed' = [c \in Conns |-> closed[c] \/ c \in out]
      /\ room' = IF last THEN NoRoom ELSE room
      /\ sub' = [g \in Conns |->
                   IF last /\ g = room /\ sub[g] = "open" THEN "cancelled" ELSE sub[g]]
  BY DEF Drop
<1>2. NoRoom \notin Conns /\ room \in Conns \cup {NoRoom}
  BY HubConstants DEF HubConstants, TypeOK
<1>3. \A g \in Conns : g # room => members[g] = {} /\ sub[g] # "open"
  BY DEF RoomInv, RoomIsFed
<1>4. room \in Conns => members[room] # {}
  BY DEF RoomInv, RoomIsFed
<1>5. room \in Conns => out = D \cap members[room]
  BY <1>2
<1>6. room \notin Conns => out = {}
  BY <1>2
<1> HIDE DEF out
<1>7. \A g \in Conns : members'[g] \subseteq members[g]
  BY <1>1
<1>8. \A g, c \in Conns : c \in D => c \notin members'[g]
  BY <1>1, <1>3, <1>5
<1>9. \A g, c \in Conns : c \in members'[g] => closed'[c] = closed[c]
  <2> SUFFICES ASSUME NEW g \in Conns, NEW c \in Conns, c \in members'[g]
               PROVE  closed'[c] = closed[c]
    OBVIOUS
  <2>1. g = room /\ c \notin out
    BY <1>1, <1>3
  <2>2. closed \in [Conns -> BOOLEAN]
    BY DEF TypeOK
  <2> QED
    BY <1>1, <2>1, <2>2, Zenon
<1>10. room' \in {room, NoRoom}
  BY <1>1
<1>11. ASSUME NEW g \in Conns, g = room'
       PROVE  members'[g] # {} /\ sub'[g] = sub[g]
  <2>1. ~last /\ g = room
    BY <1>1, <1>2, <1>11
  <2>2. members'[g] = members[g] \ out /\ sub'[g] = sub[g]
    BY <1>1, <2>1
  <2>3. out \subseteq members[g] /\ members[g] # {}
    BY <1>4, <1>5, <2>1
  <2>4. out # members[g]
    BY <2>1, <2>3
  <2> QED
    BY <2>2, <2>3, <2>4
<1>12. ASSUME NEW g \in Conns, g # room'
       PROVE  members'[g] = {} /\ sub'[g] # "open"
  <2>1. CASE g # room
    BY <1>1, <1>3, <2>1
  <2>2. CASE g = room
    <3>1. last
      BY <1>1, <1>12, <2>2
    <3>2. members'[g] = {} /\ sub'[g] = (IF sub[g] = "open" THEN "cancelled" ELSE sub[g])
      BY <1>1, <2>2, <3>1
    <3> QED
      BY <3>2
  <2> QED
    BY <2>1, <2>2
<1> QED
  BY <1>7, <1>8, <1>9, <1>10, <1>11, <1>12

LEMMA InitRooms == Init => RoomInv
  BY HubConstants DEF HubConstants, Init, RoomInv, RoomIsFed, MembersAreOpen

LEMMA StepRooms == TypeOK /\ RoomInv /\ [Next]_hubVars => RoomInv'
<1> SUFFICES ASSUME TypeOK, RoomInv, [Next]_hubVars PROVE RoomInv'
  OBVIOUS
<1> USE DEF RoomInv, roomVars
<1>1. \A g, c \in Conns : c \in members[g] =>
        ~closed[c] /\ pc[c] \in {"serving", "leaving"}
  BY DEF MembersAreOpen
<1>2. \A g \in Conns : IF g = room
        THEN members[g] # {} /\ pump[g] = "running" /\ sub[g] # "cancelled"
        ELSE members[g] = {} /\ sub[g] # "open"
  BY DEF RoomIsFed
<1>3. NoRoom \notin Conns /\ room \in Conns \cup {NoRoom}
  BY HubConstants DEF HubConstants, TypeOK
<1>4. /\ pc \in [Conns -> {"idle", "accepted", "serving", "leaving"}]
      /\ closed \in [Conns -> BOOLEAN]
      /\ members \in [Conns -> SUBSET Conns]
      /\ sub \in [Conns -> {"off", "open", "cancelled"}]
      /\ pump \in [Conns -> {"off", "running"}]
  BY DEF TypeOK
<1> DEFINE Frame == UNCHANGED <<room, members, sub, pump, closed>>
\* Steps of one handler, and of others that leave the rooms alone.
<1>5. ASSUME NEW c \in Conns, Accept(c) \/ JoinFails(c) PROVE RoomInv'
  <2>1. Frame /\ \A d \in Conns : pc[d] \in {"serving", "leaving"} => pc'[d] = pc[d]
    BY <1>4, <1>5 DEF Accept, JoinFails
  <2> QED
    BY <1>1, <1>2, <2>1 DEF RoomIsFed, MembersAreOpen
<1>6. ASSUME NEW c \in Conns, WriteFrame(c) \/ Dropped(c) \/ Gone(c) PROVE RoomInv'
  <2>1. Frame /\ \A d \in Conns : pc'[d] \in {pc[d], "leaving"}
    BY <1>4, <1>6 DEF WriteFrame, Dropped, Gone
  <2> QED
    BY <1>1, <1>2, <2>1 DEF RoomIsFed, MembersAreOpen
<1>7. ASSUME Publish \/ Shutdown \/ UNCHANGED hubVars PROVE RoomInv'
  <2>1. Frame /\ UNCHANGED pc
    BY <1>7 DEF Publish, Shutdown, hubVars
  <2> QED
    BY <1>1, <1>2, <2>1 DEF RoomIsFed, MembersAreOpen
<1>8. ASSUME NEW c \in Conns, Join(c) PROVE RoomInv'
  <2>1. /\ closed' = [closed EXCEPT ![c] = FALSE]
        /\ pc' = [pc EXCEPT ![c] = "serving"]
        /\ pc[c] = "accepted"
    BY <1>8 DEF Join
  <2>2. \A g \in Conns : c \notin members[g]
    BY <1>1, <2>1
  <2>3. closed'[c] = FALSE /\ pc'[c] = "serving"
        /\ \A d \in Conns \ {c} : closed'[d] = closed[d] /\ pc'[d] = pc[d]
    BY <1>4, <2>1
  <2>4. CASE room = NoRoom
    <3>1. OpenRoom(c)
      BY <1>8, <2>4, Zenon DEF Join
    <3>2. RoomIsFed'
      BY <1>2, <1>3, <1>4, <2>4, <3>1 DEF OpenRoom, RoomIsFed
    <3>3. \A g, d \in Conns : d \in members'[g] => d = c
      BY <1>2, <1>3, <1>4, <2>4, <3>1 DEF OpenRoom
    <3>4. MembersAreOpen'
      BY <2>3, <3>3 DEF MembersAreOpen
    <3> QED
      BY <3>2, <3>4
  <2>5. CASE room # NoRoom
    <3>1. EnterRoom(c)
      BY <1>8, <2>5, Zenon DEF Join
    <3>2. RoomIsFed'
      BY <1>2, <1>3, <1>4, <2>5, <3>1 DEF EnterRoom, RoomIsFed
    <3>3. \A g, d \in Conns : d \in members'[g] => d = c \/ d \in members[g]
      BY <1>4, <3>1 DEF EnterRoom
    <3>4. MembersAreOpen'
      BY <1>1, <2>3, <3>3 DEF MembersAreOpen
    <3> QED
      BY <3>2, <3>4
  <2> QED
    BY <2>4, <2>5
\* Steps that drop.
<1>9. ASSUME NEW D, Drop(D), NEW c \in Conns,
             \A d \in Conns \ {c} : pc'[d] = pc[d],
             pc'[c] = pc[c] \/ c \in D,
             \A g \in Conns : g = room' => pump'[g] = pump[g]
      PROVE  RoomInv'
  <2>1. /\ \A g \in Conns : members'[g] \subseteq members[g]
        /\ \A g, d \in Conns : d \in D => d \notin members'[g]
        /\ \A g, d \in Conns : d \in members'[g] => closed'[d] = closed[d]
        /\ room' \in {room, NoRoom}
        /\ \A g \in Conns :
             IF g = room' THEN members'[g] # {} /\ sub'[g] = sub[g]
                          ELSE members'[g] = {} /\ sub'[g] # "open"
    BY <1>3, <1>9, DropKeepsRooms
  <2>2. \A g \in Conns : g = room' => g = room
    BY <1>3, <2>1
  <2>3. RoomIsFed'
    BY <1>2, <1>9, <2>1, <2>2 DEF RoomIsFed
  <2>4. MembersAreOpen'
    BY <1>1, <1>9, <2>1 DEF MembersAreOpen
  <2> QED
    BY <2>3, <2>4
<1>10. ASSUME NEW c \in Conns, Leave(c) PROVE RoomInv'
  <2>1. Drop({c}) /\ UNCHANGED pump /\ \A d \in Conns \ {c} : pc'[d] = pc[d]
    BY <1>4, <1>10 DEF Leave
  <2> QED
    BY <1>9, <2>1
<1>11. ASSUME NEW g \in Conns, Relay(g) PROVE RoomInv'
  <2>1. Drop({c \in members[g] : Full(c)}) /\ UNCHANGED <<pump, pc>>
    BY <1>11 DEF Relay
  <2> QED
    BY <1>9, <2>1
<1>12. ASSUME NEW g \in Conns, PumpEnds(g) PROVE RoomInv'
  <2>1. Drop(Conns) /\ UNCHANGED pc /\ pump' = [pump EXCEPT ![g] = "off"]
    BY <1>12 DEF PumpEnds
  <2>2. \A h \in Conns : members'[h] \subseteq Conns /\ \A d \in Conns : d \notin members'[h]
    BY <1>3, <1>4, <2>1, DropKeepsRooms
  <2>3. \A h \in Conns : h # room'
    BY <2>1, <2>2, DropKeepsRooms
  <2> QED
    BY <1>9, <2>1, <2>3
<1>13. ASSUME NEW g \in Conns, SubEnds(g) PROVE RoomInv'
  <2>1. sub' = [sub EXCEPT ![g] = "off"] /\ UNCHANGED <<room, members, pump, closed, pc>>
    BY <1>13 DEF SubEnds
  <2> QED
    BY <1>1, <1>2, <1>4, <2>1 DEF RoomIsFed, MembersAreOpen
<1> QED
  BY <1>5, <1>6, <1>7, <1>8, <1>10, <1>11, <1>12, <1>13 DEF Next

\* No room is left without a pump and no subscription without a room,
\* although the hub forgets a room before its goroutines have ended.
THEOREM RoomsAreFed == Spec => []RoomIsFed
<1>1. TypeOK /\ RoomInv /\ [Next]_hubVars => (TypeOK /\ RoomInv)'
  BY StepTyped, StepRooms
<1>2. RoomInv => RoomIsFed
  BY DEF RoomInv
<1> QED
  BY InitTyped, InitRooms, <1>1, <1>2, PTL DEF Spec

\* The hub never sends on a closed channel and never closes one twice.
THEOREM ChannelsAreOpen == Spec => []MembersAreOpen
<1>1. TypeOK /\ RoomInv /\ [Next]_hubVars => (TypeOK /\ RoomInv)'
  BY StepTyped, StepRooms
<1>2. RoomInv => MembersAreOpen
  BY DEF RoomInv
<1> QED
  BY InitTyped, InitRooms, <1>1, <1>2, PTL DEF Spec

-----------------------------------------------------------------------------
(* Slots.                                                                  *)

Held(u) == {c \in Conns : Owner[c] = u /\ pc[c] # "idle"}

LEMMA HeldFinite == ASSUME NEW u PROVE IsFiniteSet(Held(u))
<1>1. IsFiniteSet(Conns) /\ Held(u) \subseteq Conns
  BY HubConstants DEF HubConstants, Held
<1> QED
  BY <1>1, FS_Subset

LEMMA InitSlots == Init => SlotsAreHeld
<1> SUFFICES ASSUME Init, NEW u \in Users
             PROVE  slots[u] = Cardinality(Held(u))
  BY DEF SlotsAreHeld, Held
<1>1. Held(u) = {} /\ slots[u] = 0
  BY DEF Init, Held
<1> QED
  BY <1>1, FS_EmptySet

\* A step that neither starts nor ends a handler.
LEMMA SlotsKept ==
  ASSUME SlotsAreHeld, UNCHANGED slots,
         \A c \in Conns : pc'[c] = "idle" <=> pc[c] = "idle"
  PROVE  SlotsAreHeld'
<1> SUFFICES ASSUME NEW u \in Users PROVE slots'[u] = Cardinality(Held(u)')
  BY DEF SlotsAreHeld, Held
<1>1. Held(u)' = Held(u)
  BY DEF Held
<1> QED
  BY <1>1 DEF SlotsAreHeld, Held

\* A handler that starts takes its owner's slot.
LEMMA SlotTaken ==
  ASSUME TypeOK, SlotsAreHeld, NEW c \in Conns, Accept(c)
  PROVE  SlotsAreHeld'
<1> SUFFICES ASSUME NEW u \in Users PROVE slots'[u] = Cardinality(Held(u)')
  BY DEF SlotsAreHeld, Held
<1>1. slots \in [Users -> 0..MaxPerUser] /\ slots[u] = Cardinality(Held(u))
  BY DEF TypeOK, SlotsAreHeld, Held
<1>2. pc' = [pc EXCEPT ![c] = "accepted"] /\ pc[c] = "idle"
      /\ slots' = [slots EXCEPT ![Owner[c]] = @ + 1]
      /\ pc \in [Conns -> {"idle", "accepted", "serving", "leaving"}]
  BY DEF Accept, TypeOK
<1>3. CASE Owner[c] = u
  <2>1. Held(u)' = Held(u) \cup {c} /\ c \notin Held(u)
    BY <1>2, <1>3 DEF Held
  <2>2. Cardinality(Held(u)') = Cardinality(Held(u)) + 1
    BY <2>1, HeldFinite, FS_AddElement
  <2> QED
    BY <1>1, <1>2, <1>3, <2>2
<1>4. CASE Owner[c] # u
  <2>1. Held(u)' = Held(u)
    BY <1>2, <1>4 DEF Held
  <2> QED
    BY <1>1, <1>2, <1>4, <2>1
<1> QED
  BY <1>3, <1>4

\* A handler that ends gives it back: release's floor is never reached.
LEMMA SlotReturned ==
  ASSUME TypeOK, SlotsAreHeld, NEW c \in Conns, pc[c] # "idle",
         Release(c), pc' = [pc EXCEPT ![c] = "idle"]
  PROVE  SlotsAreHeld'
<1> SUFFICES ASSUME NEW u \in Users PROVE slots'[u] = Cardinality(Held(u)')
  BY DEF SlotsAreHeld, Held
<1>1. slots \in [Users -> 0..MaxPerUser] /\ slots[u] = Cardinality(Held(u))
  BY DEF TypeOK, SlotsAreHeld, Held
<1>2. /\ slots' = [slots EXCEPT ![Owner[c]] = IF @ <= 1 THEN 0 ELSE @ - 1]
      /\ pc \in [Conns -> {"idle", "accepted", "serving", "leaving"}]
  BY DEF Release, TypeOK
<1>3. CASE Owner[c] = u
  <2>1. Held(u)' = Held(u) \ {c} /\ c \in Held(u)
    BY <1>2, <1>3 DEF Held
  <2>2. Cardinality(Held(u)') = Cardinality(Held(u)) - 1
    BY <2>1, HeldFinite, FS_RemoveElement
  <2>3. Cardinality(Held(u)') \in Nat
    <3>1. IsFiniteSet(Held(u)')
      BY <2>1, HeldFinite, FS_RemoveElement
    <3> QED
      BY <3>1, FS_CardinalityType
  <2>4. slots[u] >= 1 /\ slots[u] \in Int
    BY <1>1, <2>2, <2>3
  <2>5. slots'[u] = (IF slots[u] <= 1 THEN 0 ELSE slots[u] - 1)
    BY <1>1, <1>2, <1>3
  <2> QED
    BY <1>1, <2>2, <2>4, <2>5
<1>4. CASE Owner[c] # u
  <2>1. Held(u)' = Held(u)
    BY <1>2, <1>4 DEF Held
  <2> QED
    BY <1>1, <1>2, <1>4, <2>1
<1> QED
  BY <1>3, <1>4

LEMMA StepSlots == TypeOK /\ SlotsAreHeld /\ [Next]_hubVars => SlotsAreHeld'
<1> SUFFICES ASSUME TypeOK, SlotsAreHeld, [Next]_hubVars PROVE SlotsAreHeld'
  OBVIOUS
<1>1. pc \in [Conns -> {"idle", "accepted", "serving", "leaving"}]
  BY DEF TypeOK
<1>2. ASSUME NEW c \in Conns, Accept(c) PROVE SlotsAreHeld'
  BY <1>2, SlotTaken
<1>3. ASSUME NEW c \in Conns, JoinFails(c) \/ Leave(c) PROVE SlotsAreHeld'
  <2>1. pc[c] # "idle" /\ Release(c) /\ pc' = [pc EXCEPT ![c] = "idle"]
    BY <1>3 DEF JoinFails, Leave
  <2> QED
    BY <2>1, SlotReturned
<1>4. ASSUME NEW c \in Conns, Join(c) \/ WriteFrame(c) \/ Dropped(c) \/ Gone(c)
      PROVE  SlotsAreHeld'
  <2>1. UNCHANGED slots /\ \A d \in Conns : pc'[d] = "idle" <=> pc[d] = "idle"
    BY <1>1, <1>4 DEF Join, WriteFrame, Dropped, Gone
  <2> QED
    BY <2>1, SlotsKept
<1>5. ASSUME \/ \E g \in Conns : Relay(g) \/ PumpEnds(g) \/ SubEnds(g)
             \/ Publish \/ Shutdown \/ UNCHANGED hubVars
      PROVE  SlotsAreHeld'
  <2>1. UNCHANGED <<slots, pc>>
    BY <1>5 DEF Relay, PumpEnds, SubEnds, Publish, Shutdown, hubVars
  <2> QED
    BY <2>1, SlotsKept
<1> QED
  BY <1>2, <1>3, <1>4, <1>5 DEF Next

\* A user's slots are exactly the user's running handlers: none leaks and
\* none is given back twice.
THEOREM SlotsAreReturned == Spec => []SlotsAreHeld
<1>1. TypeOK /\ SlotsAreHeld /\ [Next]_hubVars => (TypeOK /\ SlotsAreHeld)'
  BY StepTyped, StepSlots
<1> QED
  BY InitTyped, InitSlots, <1>1, PTL DEF Spec

-----------------------------------------------------------------------------
(* No gaps.                                                                *)

\* What waits, taken apart: the stream ends with the last event published,
\* and a member's channel ends where the stream starts.
StreamRun == \A i \in 1..Len(stream[room]) : stream[room][i] = sent - Len(stream[room]) + i

ChanRun(c) ==
  /\ sent - seen[c] <= Len(chan[c]) + Len(stream[room])
  /\ \A i \in 1..Len(chan[c]) :
       chan[c][i] = sent - Len(stream[room]) - Len(chan[c]) + i

FedInv == room # NoRoom /\ sub[room] = "open" => StreamRun /\ \A c \in members[room] : ChanRun(c)

\* One more event, one more place: the numbering of what waits is kept.
LEMMA Numbering ==
  ASSUME NEW s \in Nat, NEW k \in Nat, NEW n \in Nat, NEW i \in Nat
  PROVE  /\ s - k + i = (s + 1) - (k + 1) + i
         /\ s + 1 = (s + 1) - (k + 1) + (k + 1)
         /\ n + k = (n + 1) + (k - 1)
  OBVIOUS

LEMMA FedSuffices == TypeOK /\ FedInv => FedWithoutGaps
<1> SUFFICES ASSUME TypeOK, FedInv, NEW c \in Conns,
                    room # NoRoom, c \in members[room], sub[room] = "open"
             PROVE  LET waiting == chan[c] \o stream[room]
                    IN /\ sent - seen[c] <= Len(waiting)
                       /\ \A i \in 1..Len(waiting) : waiting[i] = sent - Len(waiting) + i
  BY DEF FedWithoutGaps
<1> DEFINE waiting == chan[c] \o stream[room]
<1>1. room \in Conns /\ chan[c] \in Seq(Events) /\ stream[room] \in Seq(Events)
  BY DEF TypeOK
<1>2. sent \in Nat /\ seen[c] \in Nat
  BY HubConstants DEF HubConstants, TypeOK
<1>3. Len(waiting) = Len(chan[c]) + Len(stream[room])
  BY <1>1
<1>4. StreamRun /\ ChanRun(c)
  BY DEF FedInv
<1>5. ASSUME NEW i \in 1..Len(waiting) PROVE waiting[i] = sent - Len(waiting) + i
  <2>1. PICK n \in Nat : n = Len(chan[c])
    BY <1>1
  <2>2. PICK k \in Nat : k = Len(stream[room])
    BY <1>1
  <2>3. /\ \A j \in 1..k : stream[room][j] = sent - k + j
        /\ \A j \in 1..n : chan[c][j] = sent - k - n + j
    BY <1>4, <2>1, <2>2 DEF StreamRun, ChanRun
  <2>4. Len(waiting) = n + k /\ i \in 1..(n + k)
    BY <1>3, <2>1, <2>2
  <2>5. CASE i <= n
    <3>0. i \in 1..n
      BY <2>4, <2>5
    <3>1. waiting[i] = chan[c][i]
      BY <1>1, <2>1, <2>2, <2>4, <2>5, ConcatProperties
    <3>2. chan[c][i] = sent - k - n + i
      BY <2>3, <3>0
    <3>3. sent - k - n + i = sent - (n + k) + i
      BY <1>2, <2>4
    <3> HIDE DEF waiting
    <3> QED
      BY <2>4, <3>1, <3>2, <3>3
  <2>6. CASE i > n
    <3>0. i - n \in 1..k
      BY <2>4, <2>6
    <3>1. waiting[i] = stream[room][i - n]
      BY <1>1, <2>1, <2>2, <2>4, <2>6, ConcatProperties
    <3>2. stream[room][i - n] = sent - k + (i - n)
      BY <2>3, <3>0
    <3>3. sent - k + (i - n) = sent - (n + k) + i
      BY <1>2, <2>4
    <3> HIDE DEF waiting
    <3> QED
      BY <2>4, <3>1, <3>2, <3>3
  <2> HIDE DEF waiting
  <2> QED
    BY <2>4, <2>5, <2>6
<1> QED
  BY <1>3, <1>4, <1>5 DEF ChanRun

\* The room, its stream and the count of events stay; members only leave.
LEMMA FedKept ==
  ASSUME FedInv, room' \in {room, NoRoom}, UNCHANGED sent,
         room' # NoRoom /\ sub'[room'] = "open" =>
           /\ sub[room] = "open"
           /\ stream'[room] = stream[room]
           /\ members'[room] \subseteq members[room]
           /\ \A c \in members'[room] : chan'[c] = chan[c] /\ seen'[c] = seen[c]
  PROVE  FedInv'
<1> SUFFICES ASSUME room' # NoRoom, sub'[room'] = "open"
             PROVE  StreamRun' /\ \A c \in members'[room] : ChanRun(c)'
  BY DEF FedInv
<1>1. room' = room /\ StreamRun /\ \A c \in members[room] : ChanRun(c)
  BY DEF FedInv
<1>2. StreamRun'
  BY <1>1 DEF StreamRun
<1>3. ASSUME NEW c \in members'[room] PROVE ChanRun(c)'
  BY <1>1, <1>3 DEF ChanRun
<1> QED
  BY <1>2, <1>3

LEMMA FedJoin ==
  ASSUME TypeOK, RoomInv, FedInv, NEW c \in Conns, Join(c)
  PROVE  FedInv'
<1> SUFFICES ASSUME room' # NoRoom, sub'[room'] = "open"
             PROVE  StreamRun' /\ \A d \in members'[room'] : ChanRun(d)'
  BY DEF FedInv
<1>1. /\ chan' = [chan EXCEPT ![c] = <<>>]
      /\ seen' = [seen EXCEPT ![c] = sent]
      /\ UNCHANGED sent
  BY DEF Join
<1>2. /\ sent \in Nat
      /\ members \in [Conns -> SUBSET Conns]
      /\ chan \in [Conns -> Seq(Events)]
      /\ stream \in [Conns -> Seq(Events)]
      /\ sub \in [Conns -> {"off", "open", "cancelled"}]
      /\ seen \in [Conns -> 0..MaxEvents]
  BY HubConstants DEF HubConstants, TypeOK
<1>3. chan'[c] = <<>> /\ Len(chan'[c]) = 0 /\ seen'[c] = sent
      /\ \A d \in Conns \ {c} : chan'[d] = chan[d] /\ seen'[d] = seen[d]
  BY <1>1, <1>2
<1>4. CASE room = NoRoom
  <2>1. OpenRoom(c)
    BY <1>4, Zenon DEF Join
  <2>2. room' = c /\ stream'[c] = <<>> /\ members'[c] = {c}
    BY <1>2, <2>1 DEF OpenRoom
  <2>3. Len(stream'[room']) = 0
    BY <2>2
  <2>4. StreamRun'
    BY <2>3 DEF StreamRun
  <2>5. ChanRun(c)'
    BY <1>1, <1>2, <1>3, <2>3 DEF ChanRun
  <2> QED
    BY <2>2, <2>4, <2>5
<1>5. CASE room # NoRoom
  <2>1. EnterRoom(c)
    BY <1>5, Zenon DEF Join
  <2>2. room \in Conns /\ room' = room /\ stream' = stream /\ sub' = sub
        /\ members'[room] = members[room] \cup {c}
    BY <1>2, <1>5, <2>1 DEF EnterRoom, TypeOK
  <2>3. StreamRun /\ \A d \in members[room] : ChanRun(d)
    BY <1>5, <2>2 DEF FedInv
  <2>4. StreamRun'
    BY <1>1, <2>2, <2>3 DEF StreamRun
  <2>5. ChanRun(c)'
    <3>1. Len(stream[room]) \in Nat
      BY <1>2, <2>2
    <3> QED
      BY <1>1, <1>2, <1>3, <2>2, <3>1 DEF ChanRun
  <2>6. ASSUME NEW d \in members[room], d # c PROVE ChanRun(d)'
    <3>1. d \in Conns /\ chan'[d] = chan[d] /\ seen'[d] = seen[d]
      BY <1>2, <1>3, <2>2, <2>6
    <3> QED
      BY <1>1, <2>2, <2>3, <3>1 DEF ChanRun
  <2> QED
    BY <2>2, <2>4, <2>5, <2>6
<1> QED
  BY <1>4, <1>5

LEMMA FedWrite ==
  ASSUME TypeOK, FedInv, NEW c \in Conns, WriteFrame(c)
  PROVE  FedInv'
<1> SUFFICES ASSUME room # NoRoom, sub[room] = "open"
             PROVE  StreamRun' /\ \A d \in members[room] : ChanRun(d)'
  BY DEF FedInv, WriteFrame, roomVars
<1>1. /\ UNCHANGED <<room, members, sub, stream, sent>>
      /\ chan' = [chan EXCEPT ![c] = Tail(chan[c])]
      /\ seen' = [seen EXCEPT ![c] = Later(seen[c], Head(chan[c]))]
      /\ chan[c] # <<>>
  BY DEF WriteFrame, roomVars
<1>2. /\ sent \in Nat /\ room \in Conns
      /\ members \in [Conns -> SUBSET Conns]
      /\ chan \in [Conns -> Seq(Events)]
      /\ stream[room] \in Seq(Events) /\ Len(stream[room]) \in Nat
      /\ seen \in [Conns -> 0..MaxEvents] /\ seen[c] \in Nat
  BY HubConstants DEF HubConstants, TypeOK
<1>3. StreamRun /\ \A d \in members[room] : ChanRun(d)
  BY DEF FedInv
<1>4. StreamRun'
  BY <1>1, <1>3 DEF StreamRun
<1>5. ASSUME NEW d \in members[room], d # c PROVE ChanRun(d)'
  <2>1. d \in Conns /\ chan'[d] = chan[d] /\ seen'[d] = seen[d]
    BY <1>1, <1>2, <1>5
  <2> QED
    BY <1>1, <1>3, <2>1 DEF ChanRun
<1>6. ASSUME c \in members[room] PROVE ChanRun(c)'
  <2> DEFINE n == Len(chan[c])
             k == Len(stream[room])
  <2>1. n \in Nat /\ n >= 1 /\ chan[c] \in Seq(Events)
    BY <1>1, <1>2
  <2>2. /\ chan'[c] = Tail(chan[c]) /\ Len(chan'[c]) = n - 1
        /\ \A i \in 1..(n - 1) : chan'[c][i] = chan[c][i + 1]
    BY <1>1, <1>2, <2>1
  <2>3. /\ sent - seen[c] <= n + k
        /\ \A i \in 1..n : chan[c][i] = sent - k - n + i
    BY <1>3, <1>6 DEF ChanRun
  <2>4. Head(chan[c]) = sent - k - n + 1
    BY <2>1, <2>3
  <2>5. seen'[c] = Later(seen[c], sent - k - n + 1)
    BY <1>1, <1>2, <2>4
  <2>6. sent - seen'[c] <= (n - 1) + k
    <3>1. sent \in Nat /\ n \in Nat /\ k \in Nat /\ seen[c] \in Nat
      BY <1>2, <2>1
    <3>2. seen'[c] \in Int /\ seen'[c] >= sent - k - n + 1
      <4> HIDE DEF n, k
      <4> QED
        BY <2>5, <3>1 DEF Later
    <3> HIDE DEF n, k
    <3> QED
      BY <3>1, <3>2
  <2>7. ASSUME NEW i \in 1..(n - 1) PROVE chan'[c][i] = sent - k - (n - 1) + i
    <3>1. i + 1 \in 1..n /\ chan'[c][i] = chan[c][i + 1]
      BY <2>1, <2>2
    <3>2. chan[c][i + 1] = sent - k - n + (i + 1)
      BY <2>3, <3>1
    <3> QED
      BY <1>2, <2>1, <3>1, <3>2
  <2> QED
    BY <1>1, <2>2, <2>6, <2>7 DEF ChanRun
<1> QED
  BY <1>4, <1>5, <1>6

\* A step that loses no event between Redis and a subscription.
LosesNone == "gap" \in FaultKinds => faults' = faults

LEMMA PublishedToAll ==
  ASSUME TypeOK, LosesNone, NEW lost,
         IF lost = {} THEN UNCHANGED faults ELSE Fault("gap")
  PROVE  lost = {}
<1>1. faults \in Nat
  BY HubConstants DEF HubConstants, TypeOK
<1> QED
  BY <1>1 DEF LosesNone, Fault

LEMMA FedPublish ==
  ASSUME TypeOK, FedInv, LosesNone, Publish
  PROVE  FedInv'
<1> SUFFICES ASSUME room # NoRoom, sub[room] = "open"
             PROVE  StreamRun' /\ \A d \in members[room] : ChanRun(d)'
  BY DEF FedInv, Publish
<1>1. /\ UNCHANGED <<room, members, sub, chan, seen>>
      /\ sent' = sent + 1
  BY DEF Publish
<1>2. PICK lost \in SUBSET {g \in Conns : sub[g] = "open"} :
        /\ IF lost = {} THEN UNCHANGED faults ELSE Fault("gap")
        /\ stream' = [g \in Conns |-> IF sub[g] = "open" /\ g \notin lost
                                        THEN Append(stream[g], sent + 1)
                                        ELSE stream[g]]
  BY DEF Publish
<1>3. lost = {}
  BY <1>2, PublishedToAll
<1>4. /\ sent \in Nat /\ room \in Conns
      /\ members \in [Conns -> SUBSET Conns]
      /\ chan \in [Conns -> Seq(Events)]
      /\ stream[room] \in Seq(Events) /\ Len(stream[room]) \in Nat
      /\ seen \in [Conns -> 0..MaxEvents]
  BY HubConstants DEF HubConstants, TypeOK
<1>5. stream'[room] = Append(stream[room], sent + 1)
  BY <1>2, <1>3, <1>4
<1> DEFINE k == Len(stream[room])
<1>6. /\ Len(stream'[room]) = k + 1
      /\ stream'[room][k + 1] = sent + 1
      /\ \A i \in 1..k : stream'[room][i] = stream[room][i]
  BY <1>4, <1>5
<1>7. StreamRun /\ \A d \in members[room] : ChanRun(d)
  BY DEF FedInv
<1>8. ASSUME NEW i \in 1..(k + 1) PROVE stream'[room][i] = (sent + 1) - (k + 1) + i
  <2>0. sent \in Nat /\ k \in Nat /\ i \in Nat
    BY <1>4
  <2>1. CASE i = k + 1
    <3>1. stream'[room][i] = sent + 1
      BY <1>6, <2>1
    <3> QED
      BY <2>0, <2>1, <3>1, Numbering
  <2>2. CASE i # k + 1
    <3>1. i \in 1..k
      BY <1>4, <2>2
    <3>2. stream[room][i] = sent - k + i
      BY <1>7, <3>1 DEF StreamRun
    <3>3. stream'[room][i] = stream[room][i]
      BY <1>6, <3>1
    <3> QED
      BY <2>0, <3>2, <3>3, Numbering
  <2> QED
    BY <2>1, <2>2
<1>9. StreamRun'
  BY <1>1, <1>6, <1>8 DEF StreamRun
<1>10. ASSUME NEW d \in members[room] PROVE ChanRun(d)'
  <2>1. d \in Conns /\ seen[d] \in Nat /\ Len(chan[d]) \in Nat
    BY <1>4, HubConstants DEF HubConstants
  <2>2. /\ sent - seen[d] <= Len(chan[d]) + k
        /\ \A i \in 1..Len(chan[d]) : chan[d][i] = sent - k - Len(chan[d]) + i
    BY <1>7 DEF ChanRun
  <2>3. (sent + 1) - seen[d] <= Len(chan[d]) + (k + 1)
    BY <1>4, <2>1, <2>2
  <2>4. ASSUME NEW i \in 1..Len(chan[d])
        PROVE  chan[d][i] = (sent + 1) - (k + 1) - Len(chan[d]) + i
    <3>1. chan[d][i] = sent - k - Len(chan[d]) + i
      BY <2>2
    <3> QED
      BY <1>4, <2>1, <3>1
  <2> QED
    BY <1>1, <1>6, <2>3, <2>4 DEF ChanRun
<1> QED
  BY <1>9, <1>10

LEMMA FedRelay ==
  ASSUME TypeOK, RoomInv, FedInv, NEW g \in Conns, Relay(g)
  PROVE  FedInv'
<1> DEFINE full == {c \in members[g] : Full(c)}
<1>1. /\ Drop(full)
      /\ stream' = [stream EXCEPT ![g] = Tail(stream[g])]
      /\ chan' = [c \in Conns |-> IF c \in members[g] \ full
                                    THEN Append(chan[c], Head(stream[g]))
                                    ELSE chan[c]]
      /\ stream[g] # <<>>
      /\ UNCHANGED <<sent, seen>>
  BY DEF Relay
<1>2. /\ sent \in Nat
      /\ members \in [Conns -> SUBSET Conns]
      /\ chan \in [Conns -> Seq(Events)]
      /\ stream \in [Conns -> Seq(Events)]
      /\ seen \in [Conns -> 0..MaxEvents]
      /\ NoRoom \notin Conns /\ room \in Conns \cup {NoRoom}
  BY HubConstants DEF HubConstants, TypeOK
<1>3. /\ \A h \in Conns : members'[h] \subseteq members[h]
      /\ \A h, c \in Conns : c \in full => c \notin members'[h]
      /\ room' \in {room, NoRoom}
      /\ \A h \in Conns : h = room' => sub'[h] = sub[h]
  BY <1>1, DropKeepsRooms
<1>4. CASE g # room
  <2>1. members[g] = {}
    BY <1>4 DEF RoomInv, RoomIsFed
  <2>2. chan' = chan
    <3>1. \A c \in Conns : chan'[c] = chan[c]
      BY <1>1, <2>1
    <3> QED
      BY <1>1, <1>2, <3>1
  <2>3. room' # NoRoom => room \in Conns /\ sub'[room] = sub[room]
          /\ stream'[room] = stream[room] /\ members'[room] \subseteq members[room]
    BY <1>1, <1>2, <1>3, <1>4
  <2> QED
    BY <1>1, <1>3, <2>2, <2>3, FedKept
<1>5. CASE g = room
  <2> SUFFICES ASSUME room' # NoRoom, sub'[room'] = "open"
               PROVE  StreamRun' /\ \A c \in members'[room] : ChanRun(c)'
    BY <1>3 DEF FedInv
  <2> DEFINE k == Len(stream[room])
  <2>1. room' = room /\ sub[room] = "open" /\ room \in Conns /\ room # NoRoom
    BY <1>2, <1>3
  <2>2. StreamRun /\ \A c \in members[room] : ChanRun(c)
    BY <2>1 DEF FedInv
  <2>3. k \in Nat /\ k >= 1 /\ stream[room] \in Seq(Events)
    BY <1>1, <1>2, <1>5
  <2>4. /\ stream'[room] = Tail(stream[room]) /\ Len(stream'[room]) = k - 1
        /\ \A i \in 1..(k - 1) : stream'[room][i] = stream[room][i + 1]
    BY <1>1, <1>2, <1>5, <2>1, <2>3
  <2>5. Head(stream[room]) = sent - k + 1
    BY <2>2, <2>3 DEF StreamRun
  <2>6. ASSUME NEW i \in 1..(k - 1) PROVE stream'[room][i] = sent - (k - 1) + i
    <3>1. i + 1 \in 1..k /\ stream'[room][i] = stream[room][i + 1]
      BY <2>3, <2>4
    <3>2. stream[room][i + 1] = sent - k + (i + 1)
      BY <2>2, <3>1 DEF StreamRun
    <3> QED
      BY <1>2, <2>3, <3>1, <3>2
  <2>7. StreamRun'
    BY <1>1, <2>1, <2>4, <2>6 DEF StreamRun
  <2>8. ASSUME NEW c \in members'[room] PROVE ChanRun(c)'
    <3> DEFINE n == Len(chan[c])
    <3>1. c \in Conns /\ c \in members[room] \ full
      BY <1>2, <1>3, <2>1, <2>8
    <3>2. n \in Nat /\ chan[c] \in Seq(Events) /\ seen[c] \in Nat
      BY <1>2, <3>1, HubConstants DEF HubConstants
    <3>3. chan'[c] = Append(chan[c], sent - k + 1)
      BY <1>1, <1>5, <2>5, <3>1
    <3>4. /\ Len(chan'[c]) = n + 1 /\ chan'[c][n + 1] = sent - k + 1
          /\ \A i \in 1..n : chan'[c][i] = chan[c][i]
      BY <3>2, <3>3
    <3>5. /\ sent - seen[c] <= n + k
          /\ \A i \in 1..n : chan[c][i] = sent - k - n + i
      BY <2>2, <3>1 DEF ChanRun
    <3>6. sent - seen[c] <= (n + 1) + (k - 1)
      <4>1. sent \in Nat /\ seen[c] \in Nat /\ n \in Nat /\ k \in Nat
        BY <1>2, <2>3, <3>2
      <4>2. n + k = (n + 1) + (k - 1)
        BY <4>1, Numbering
      <4> QED
        BY <3>5, <4>2
    <3>7. ASSUME NEW i \in 1..(n + 1) PROVE chan'[c][i] = sent - (k - 1) - (n + 1) + i
      <4>1. CASE i = n + 1
        <5>1. sent \in Nat /\ n \in Nat /\ k \in Nat
          BY <1>2, <2>3, <3>2
        <5>2. chan'[c][i] = sent - k + 1
          BY <3>4, <4>1
        <5> HIDE DEF n, k
        <5>3. sent - k + 1 = sent - (k - 1) - (n + 1) + (n + 1)
          BY <5>1
        <5> QED
          BY <4>1, <5>2, <5>3
      <4>2. CASE i # n + 1
        <5>1. i \in 1..n
          BY <3>2, <4>2
        <5>2. chan[c][i] = sent - k - n + i /\ chan'[c][i] = chan[c][i]
          BY <3>4, <3>5, <5>1
        <5> QED
          BY <1>2, <2>3, <3>2, <5>1, <5>2
      <4> QED
        BY <4>1, <4>2
    <3>8. sent' = sent /\ seen'[c] = seen[c] /\ Len(stream'[room']) = k - 1
      BY <1>1, <2>1, <2>4
    <3>9. Len(chan'[c]) = n + 1
      BY <3>4
    <3> HIDE DEF n, k
    <3> QED
      BY <3>6, <3>7, <3>8, <3>9 DEF ChanRun
  <2> QED
    BY <2>7, <2>8
<1> QED
  BY <1>4, <1>5

LEMMA StepFed == TypeOK /\ RoomInv /\ FedInv /\ LosesNone /\ [Next]_hubVars => FedInv'
<1> SUFFICES ASSUME TypeOK, RoomInv, FedInv, LosesNone, [Next]_hubVars PROVE FedInv'
  OBVIOUS
<1>1. /\ NoRoom \notin Conns /\ room \in Conns \cup {NoRoom}
      /\ members \in [Conns -> SUBSET Conns]
      /\ chan \in [Conns -> Seq(Events)]
      /\ stream \in [Conns -> Seq(Events)]
      /\ seen \in [Conns -> 0..MaxEvents]
      /\ sub \in [Conns -> {"off", "open", "cancelled"}]
  BY HubConstants DEF HubConstants, TypeOK
<1>2. ASSUME UNCHANGED <<room, members, sub, stream, chan, seen, sent>> PROVE FedInv'
  BY <1>2, FedKept
<1>3. ASSUME NEW c \in Conns, Accept(c) \/ JoinFails(c) \/ Dropped(c) \/ Gone(c) PROVE FedInv'
  BY <1>2, <1>3 DEF Accept, JoinFails, Dropped, Gone, roomVars
<1>4. ASSUME Shutdown \/ UNCHANGED hubVars PROVE FedInv'
  BY <1>2, <1>4 DEF Shutdown, hubVars, roomVars
<1>5. ASSUME NEW c \in Conns, Leave(c) PROVE FedInv'
  <2>1. Drop({c}) /\ UNCHANGED <<stream, sent>>
        /\ \A d \in Conns \ {c} : chan'[d] = chan[d] /\ seen'[d] = seen[d]
    BY <1>1, <1>5 DEF Leave
  <2>2. /\ \A g \in Conns : members'[g] \subseteq members[g] /\ c \notin members'[g]
        /\ room' \in {room, NoRoom}
        /\ \A g \in Conns : g = room' => sub'[g] = sub[g]
    BY <2>1, DropKeepsRooms
  <2>3. room' # NoRoom => room \in Conns /\ sub'[room] = sub[room]
          /\ members'[room] \subseteq members[room]
          /\ \A d \in members'[room] : chan'[d] = chan[d] /\ seen'[d] = seen[d]
    BY <1>1, <2>1, <2>2
  <2> QED
    BY <2>1, <2>2, <2>3, FedKept
<1>6. ASSUME NEW g \in Conns, PumpEnds(g) PROVE FedInv'
  <2>1. Drop(Conns) /\ UNCHANGED <<stream, sent, chan, seen>>
    BY <1>6 DEF PumpEnds
  <2>2. /\ \A h \in Conns : members'[h] \subseteq members[h]
        /\ room' \in {room, NoRoom}
        /\ \A h \in Conns : h = room' => sub'[h] = sub[h]
    BY <2>1, DropKeepsRooms
  <2>3. room' # NoRoom => room \in Conns /\ sub'[room] = sub[room]
          /\ members'[room] \subseteq members[room]
    BY <1>1, <2>2
  <2> QED
    BY <2>1, <2>2, <2>3, FedKept
<1>7. ASSUME NEW g \in Conns, SubEnds(g) PROVE FedInv'
  <2>1. /\ sub' = [sub EXCEPT ![g] = "off"]
        /\ UNCHANGED <<room, members, chan, seen, sent>>
        /\ \E n \in 0..Len(stream[g]) : stream' = [stream EXCEPT ![g] = SubSeq(@, 1, n)]
    BY <1>7 DEF SubEnds
  <2>2. room # NoRoom /\ sub'[room] = "open" =>
          g # room /\ sub[room] = "open" /\ stream'[room] = stream[room]
    BY <1>1, <2>1
  <2> QED
    BY <2>1, <2>2, FedKept
<1> QED
  BY <1>3, <1>4, <1>5, <1>6, <1>7, FedJoin, FedWrite, FedPublish, FedRelay DEF Next

LEMMA InitFed == Init => FedInv
  BY DEF Init, FedInv

\* Faults only become fewer, so a step into a state in which Redis has lost
\* nothing comes from such a state, and loses nothing itself.
LEMMA RedisDelivered ==
  TypeOK /\ [Next]_hubVars /\ RedisDelivers' => RedisDelivers /\ LosesNone
<1> SUFFICES ASSUME TypeOK, [Next]_hubVars, RedisDelivers' PROVE RedisDelivers /\ LosesNone
  OBVIOUS
<1>1. MaxFaults \in Nat /\ faults \in 0..MaxFaults
  BY HubConstants DEF HubConstants, TypeOK
<1>2. faults' = faults \/ faults' = faults - 1
  <2>1. ASSUME NEW c \in Conns,
               Accept(c) \/ Join(c) \/ WriteFrame(c) \/ Dropped(c) \/ Gone(c) \/ Leave(c)
        PROVE  faults' = faults
    BY <2>1 DEF Accept, Join, WriteFrame, Dropped, Gone, Leave
  <2>2. ASSUME NEW c \in Conns, JoinFails(c) \/ SubEnds(c)
        PROVE  faults' = faults \/ faults' = faults - 1
    BY <2>2 DEF JoinFails, SubEnds, Fault
  <2>3. ASSUME NEW g \in Conns, Relay(g) \/ PumpEnds(g) PROVE faults' = faults
    BY <2>3 DEF Relay, PumpEnds
  <2>4. ASSUME Publish PROVE faults' = faults \/ faults' = faults - 1
    BY <2>4 DEF Publish, Fault
  <2>5. ASSUME Shutdown \/ UNCHANGED hubVars PROVE faults' = faults
    BY <2>5 DEF Shutdown, hubVars
  <2> QED
    BY <2>1, <2>2, <2>3, <2>4, <2>5, Zenon DEF Next
<1> QED
  BY <1>1, <1>2 DEF RedisDelivers, LosesNone

\* While Redis delivers, no member of a room ever misses an event: a client
\* that cannot keep up is out of the room before it could.
THEOREM NobodyIsSkipped == Spec => []FedWithoutGaps
<1> DEFINE I == TypeOK /\ RoomInv /\ (RedisDelivers => FedInv)
<1>1. Init => I
  BY InitTyped, InitRooms, InitFed
<1>2. I /\ [Next]_hubVars => I'
  BY StepTyped, StepRooms, StepFed, RedisDelivered
<1>3. I => FedWithoutGaps
  BY FedSuffices DEF FedWithoutGaps
<1> QED
  BY <1>1, <1>2, <1>3, PTL DEF Spec

-----------------------------------------------------------------------------
(* The room page.                                                          *)

\* Whatever the tab does, the hub only sees a client: each step of the two
\* together is a step of the hub, or none of its state changes.
LEMMA TabStepIsHubStep == [TabNext]_vars => [Next]_hubVars
<1> SUFFICES ASSUME [TabNext]_vars PROVE [Next]_hubVars
  OBVIOUS
<1>1. CASE EnsureFreshToken \/ DialFails \/ Opened \/ Retry \/ HandleMessage \/ Closed \/ Unmount
  BY <1>1, Zenon DEF EnsureFreshToken, DialFails, Opened, Retry, HandleMessage, Closed,
    Unmount, quiet
<1>2. CASE TokenExpires \/ Recover \/ Poll \/ Snapshot \/ ShowAnswer \/ FetchFails \/ Solve
  BY <1>2, Zenon DEF TokenExpires, Recover, Poll, Snapshot, ShowAnswer, FetchFails, Solve, quiet
<1>3. ASSUME NEW c \in Conns, Dial(c) \/ Deliver(c) \/ LetIn(c) PROVE [Next]_hubVars
  BY <1>3, Zenon DEF Dial, Deliver, LetIn, Next
<1>4. CASE Broadcast \/ HubStep
  BY <1>4, Zenon DEF Broadcast, HubStep, Next
<1>5. CASE UNCHANGED vars
  BY <1>5 DEF vars
<1> QED
  BY <1>1, <1>2, <1>3, <1>4, <1>5, Zenon DEF TabNext, Connecting

\* The room page and the server together implement the hub, so every theorem
\* about the hub holds of them (useContestEvents, ServeWS).
THEOREM RoomRunsTheHub == TabSpec => Spec
<1>1. TabInit => Init
  BY DEF TabInit
<1> QED
  BY <1>1, TabStepIsHubStep, PTL DEF TabSpec, Spec

LEMMA TabInitTyped == TabInit => TabTypeOK
<1> SUFFICES ASSUME TabInit PROVE TabTypeOK
  OBVIOUS
<1>1. TypeOK
  BY InitTyped DEF TabInit
<1>2. MaxEvents \in Nat /\ MaxFaults \in Nat
  BY HubConstants DEF HubConstants
<1>3. hook = "connect" /\ socket = NoConn /\ wire = <<>> /\ handled = 0
      /\ token = "fresh" /\ guest = FALSE /\ fetch = "asked" /\ answer = 0
      /\ view = NoView /\ solved = 0 /\ tabFaults = 0
  BY DEF TabInit
<1>4. wire \in Seq(Events)
  BY <1>3
<1>5. guest \in BOOLEAN
  BY <1>3, Zenon
<1> QED
  BY <1>1, <1>2, <1>3, <1>4, <1>5 DEF TabTypeOK

\* The parts of TabTypeOK about the tab.
SocketOK ==
  /\ hook \in {"connect", "dial", "stale", "opening", "open", "backoff", "ended", "unmounted"}
  /\ socket \in Conns \cup {NoConn}
  /\ socket # NoConn <=> hook \in {"opening", "open"}

FeedOK == wire \in Seq(Events) /\ handled \in 0..MaxEvents

PageOK ==
  /\ token \in {"none", "new", "fresh", "expired"}
  /\ guest \in BOOLEAN
  /\ fetch \in {"none", "asked", "answered"}
  /\ {answer, solved} \subseteq 0..MaxEvents
  /\ view \in 0..MaxEvents \cup {NoView}

LEMMA StepTabTyped == TabTypeOK /\ [TabNext]_vars => TabTypeOK'
<1> SUFFICES ASSUME TabTypeOK, [TabNext]_vars PROVE TabTypeOK'
  OBVIOUS
<1>1. TypeOK /\ TypeOK'
  BY StepTyped, TabStepIsHubStep DEF TabTypeOK
<1>2. MaxEvents \in Nat /\ MaxFaults \in Nat /\ faults \in 0..MaxFaults /\ faults' \in 0..MaxFaults
      /\ sent \in 0..MaxEvents /\ chan \in [Conns -> Seq(Events)] /\ NoConn \notin Conns
  BY <1>1, HubConstants, TabConstants DEF HubConstants, TabConstants, TypeOK
<1>3. SocketOK /\ FeedOK /\ PageOK /\ tabFaults \in 0..MaxFaults
  BY DEF TabTypeOK, SocketOK, FeedOK, PageOK
<1>4. SocketOK'
  <2> USE <1>3 DEF SocketOK
  <2>1. CASE EnsureFreshToken \/ DialFails \/ Opened \/ Retry
    BY <1>2, <2>1 DEF EnsureFreshToken, DialFails, Opened, Retry
  <2>2. ASSUME NEW c \in Conns, Dial(c) PROVE SocketOK'
    BY <1>2, <2>2 DEF Dial
  <2>3. CASE HandleMessage \/ Closed \/ Unmount
    BY <2>3 DEF HandleMessage, Closed, Unmount
  <2>4. CASE TokenExpires \/ Recover \/ Poll \/ Snapshot \/ ShowAnswer \/ FetchFails
    BY <2>4 DEF TokenExpires, Recover, Poll, Snapshot, ShowAnswer, FetchFails
  <2>5. CASE Solve \/ Broadcast \/ HubStep \/ UNCHANGED vars
    BY <2>5 DEF Solve, Broadcast, HubStep, vars, tabVars
  <2>6. ASSUME NEW c \in Conns, Deliver(c) \/ LetIn(c) PROVE SocketOK'
    BY <2>6 DEF Deliver, LetIn
  <2> QED
    BY <2>1, <2>2, <2>3, <2>4, <2>5, <2>6 DEF TabNext, Connecting
<1>5. FeedOK'
  <2> USE <1>2, <1>3 DEF FeedOK
  <2>1. CASE EnsureFreshToken \/ Opened \/ Retry \/ (\E c \in Conns : Dial(c))
    BY <2>1 DEF EnsureFreshToken, Opened, Retry, Dial, quiet
  <2>2. CASE DialFails \/ Closed \/ Unmount
    <3>1. wire' = <<>> /\ handled' = 0
      BY <2>2 DEF DialFails, Closed, Unmount
    <3>2. wire' \in Seq(Events)
      BY <3>1
    <3> QED
      BY <3>1, <3>2
  <2>3. CASE HandleMessage
    <3>1. wire # <<>> /\ wire' = Tail(wire) /\ handled' = Later(handled, Head(wire))
      BY <2>3 DEF HandleMessage
    <3>2. Head(wire) \in 0..MaxEvents /\ wire' \in Seq(Events)
      BY <3>1 DEF Events
    <3> QED
      BY <3>1, <3>2 DEF Later
  <2>4. CASE TokenExpires \/ Recover \/ Poll \/ Snapshot \/ ShowAnswer \/ FetchFails
    BY <2>4 DEF TokenExpires, Recover, Poll, Snapshot, ShowAnswer, FetchFails, quiet
  <2>5. CASE Solve \/ Broadcast \/ HubStep \/ UNCHANGED vars
    BY <2>5 DEF Solve, Broadcast, HubStep, vars, tabVars
  <2>6. ASSUME NEW c \in Conns, Deliver(c) PROVE FeedOK'
    <3>1. chan[c] # <<>> /\ handled' = handled
          /\ wire' = (IF c = socket THEN Append(wire, Head(chan[c])) ELSE wire)
      BY <2>6 DEF Deliver, WriteFrame
    <3>2. Head(chan[c]) \in Events
      BY <3>1
    <3> QED
      BY <3>1, <3>2
  <2>7. ASSUME NEW c \in Conns, LetIn(c) PROVE FeedOK'
    BY <2>7 DEF LetIn
  <2> QED
    BY <2>1, <2>2, <2>3, <2>4, <2>5, <2>6, <2>7 DEF TabNext, Connecting
<1>6. PageOK'
  <2> USE <1>2, <1>3 DEF PageOK
  <2>0. TokenTried => token' \in {"none", "new", "fresh", "expired"}
    BY DEF TokenTried
  <2>1. CASE EnsureFreshToken \/ Retry \/ (\E c \in Conns : Dial(c))
    BY <2>1 DEF EnsureFreshToken, Retry, Dial
  <2>2. CASE DialFails \/ Opened \/ Closed \/ Unmount
    <3>1. token' \in {"none", "new", "fresh", "expired"}
      BY <2>0, <2>2, Zenon DEF DialFails, Opened, Closed, Unmount
    <3>2. UNCHANGED <<guest, solved, view>> /\ answer' \in {answer, 0} /\ fetch' \in {fetch, "none", "asked"}
      BY <2>2 DEF DialFails, Opened, Closed, Unmount
    <3> QED
      BY <3>1, <3>2
  <2>3. CASE HandleMessage
    <3>1. Head(wire) \in 0..MaxEvents
      BY <2>3 DEF HandleMessage, FeedOK, Events
    <3> QED
      BY <2>3, <3>1 DEF HandleMessage
  <2>4. CASE TokenExpires \/ Recover
    BY <2>4 DEF TokenExpires, Recover
  <2>5. CASE Poll \/ Snapshot \/ ShowAnswer \/ FetchFails
    BY <2>5 DEF Poll, Snapshot, ShowAnswer, FetchFails
  <2>6. CASE Solve \/ Broadcast \/ HubStep \/ UNCHANGED vars
    BY <2>6 DEF Solve, Broadcast, HubStep, vars, tabVars
  <2>7. ASSUME NEW c \in Conns, Deliver(c) \/ LetIn(c) PROVE PageOK'
    BY <2>7 DEF Deliver, LetIn
  <2> QED
    BY <2>1, <2>2, <2>3, <2>4, <2>5, <2>6, <2>7 DEF TabNext, Connecting
<1>7. tabFaults' \in 0..MaxFaults
  <2> USE <1>2, <1>3
  <2>1. CASE EnsureFreshToken \/ DialFails \/ Recover \/ FetchFails
    BY <2>1 DEF EnsureFreshToken, DialFails, Recover, FetchFails, TabFault, NoFault
  <2>2. CASE Opened \/ Retry \/ HandleMessage \/ Closed \/ Unmount
    BY <2>2 DEF Opened, Retry, HandleMessage, Closed, Unmount
  <2>3. CASE TokenExpires \/ Poll \/ Snapshot \/ ShowAnswer
    BY <2>3 DEF TokenExpires, Poll, Snapshot, ShowAnswer
  <2>4. CASE Solve \/ Broadcast \/ HubStep \/ UNCHANGED vars
    BY <2>4 DEF Solve, Broadcast, HubStep, vars, tabVars
  <2>5. ASSUME NEW c \in Conns, Dial(c) \/ Deliver(c) \/ LetIn(c) PROVE tabFaults' \in 0..MaxFaults
    BY <2>5 DEF Dial, Deliver, LetIn
  <2> QED
    BY <2>1, <2>2, <2>3, <2>4, <2>5 DEF TabNext, Connecting
<1> QED
  BY <1>1, <1>4, <1>5, <1>6, <1>7 DEF TabTypeOK, SocketOK, FeedOK, PageOK

\* Type correctness of the page and the hub under it.
THEOREM RoomTyped == TabSpec => []TabTypeOK
<1>1. QED
  BY TabInitTyped, StepTabTyped, PTL DEF TabSpec

\* The connection is in the room, and Redis feeds the room.
IsFed(c) == room # NoRoom /\ c \in members[room] /\ sub[room] = "open"

\* The last event that left the hub towards the connection.
LeftHub(c) == sent - Len(stream[room]) - Len(chan[c])

\* Steps of the hub that neither let the connection in nor write to it.
Aside(c) ==
  \/ Publish
  \/ \E d \in Conns : Accept(d) \/ JoinFails(d) \/ Dropped(d) \/ Gone(d) \/ Leave(d)
  \/ \E d \in Conns : d # c /\ (Join(d) \/ WriteFrame(d))
  \/ \E g \in Conns : Relay(g) \/ PumpEnds(g) \/ SubEnds(g)
  \/ UNCHANGED hubVars

\* Only what is written to a connection leaves the hub towards it: a
\* publication makes the stream longer, the pump moves an event from the
\* stream to the channel, and everything else leaves both alone or puts the
\* connection out of the room.
LEMMA LeftHubKept ==
  ASSUME LosesNone, TypeOK, RoomInv, NEW c \in Conns, Aside(c), IsFed(c)'
  PROVE  IsFed(c) /\ LeftHub(c)' = LeftHub(c)
<1>1. /\ NoRoom \notin Conns /\ room \in Conns \cup {NoRoom} /\ sent \in Nat
      /\ members \in [Conns -> SUBSET Conns]
      /\ chan \in [Conns -> Seq(Events)]
      /\ stream \in [Conns -> Seq(Events)]
      /\ sub \in [Conns -> {"off", "open", "cancelled"}]
  BY HubConstants DEF HubConstants, TypeOK
<1>2. room' # NoRoom /\ c \in members'[room'] /\ sub'[room'] = "open"
  BY DEF IsFed
<1>3. SUFFICES /\ room' = room /\ c \in members[room] /\ sub[room] = "open"
               /\ sent' - Len(stream'[room]) - Len(chan'[c]) = sent - Len(stream[room]) - Len(chan[c])
  BY <1>2 DEF IsFed, LeftHub
<1>4. CASE UNCHANGED <<room, members, sub, stream, chan, sent>>
  BY <1>2, <1>4
<1>5. CASE Publish
  <2>1. UNCHANGED <<room, members, sub, chan>> /\ sent' = sent + 1
    BY <1>5 DEF Publish
  <2>2. stream'[room] = Append(stream[room], sent + 1)
    <3>1. PICK lost \in SUBSET {g \in Conns : sub[g] = "open"} :
            /\ IF lost = {} THEN UNCHANGED faults ELSE Fault("gap")
            /\ stream' = [g \in Conns |-> IF sub[g] = "open" /\ g \notin lost
                                            THEN Append(stream[g], sent + 1)
                                            ELSE stream[g]]
      BY <1>5 DEF Publish
    <3>2. lost = {}
      BY <3>1, PublishedToAll
    <3> QED
      BY <1>1, <1>2, <2>1, <3>1, <3>2
  <2>3. PICK k \in Nat : k = Len(stream[room])
    BY <1>1, <1>2, <2>1
  <2>4. PICK n \in Nat : n = Len(chan[c])
    BY <1>1
  <2>5. Len(stream'[room]) = k + 1 /\ chan'[c] = chan[c]
    BY <1>1, <1>2, <2>1, <2>2, <2>3
  <2> QED
    BY <1>1, <1>2, <2>1, <2>3, <2>4, <2>5
<1>6. ASSUME NEW d \in Conns, Accept(d) \/ JoinFails(d) \/ Dropped(d) \/ Gone(d)
      PROVE  UNCHANGED <<room, members, sub, stream, chan, sent>>
  BY <1>6 DEF Accept, JoinFails, Dropped, Gone, roomVars
<1>7. \A D : Drop(D) => /\ \A g \in Conns : members'[g] \subseteq members[g]
                        /\ \A g, d \in Conns : d \in D => d \notin members'[g]
                        /\ room' = room /\ sub'[room] = sub[room]
  <2> SUFFICES ASSUME NEW D, Drop(D)
               PROVE  /\ \A g \in Conns : members'[g] \subseteq members[g]
                      /\ \A g, d \in Conns : d \in D => d \notin members'[g]
                      /\ room' = room /\ sub'[room] = sub[room]
    OBVIOUS
  <2>1. /\ \A g \in Conns : members'[g] \subseteq members[g]
        /\ \A g, d \in Conns : d \in D => d \notin members'[g]
        /\ room' \in {room, NoRoom}
        /\ \A g \in Conns : g = room' => sub'[g] = sub[g]
    BY DropKeepsRooms
  <2> QED
    BY <1>1, <1>2, <2>1
<1>8. ASSUME NEW d \in Conns, Leave(d)
      PROVE  /\ room' = room /\ c \in members[room] /\ sub[room] = "open"
             /\ sent' = sent /\ stream' = stream /\ chan'[c] = chan[c]
  <2>1. Drop({d}) /\ UNCHANGED <<stream, sent>> /\ chan' = [chan EXCEPT ![d] = <<>>]
    BY <1>8 DEF Leave
  <2>2. room' = room /\ c \in members[room] /\ sub[room] = "open" /\ c # d
    BY <1>1, <1>2, <1>7, <2>1
  <2> QED
    BY <1>1, <2>1, <2>2
<1>9. ASSUME NEW d \in Conns, d # c, Join(d)
      PROVE  /\ room' = room /\ c \in members[room] /\ sub[room] = "open"
             /\ sent' = sent /\ stream' = stream /\ chan'[c] = chan[c]
  <2>1. chan' = [chan EXCEPT ![d] = <<>>] /\ UNCHANGED sent
    BY <1>9 DEF Join
  <2>2. room # NoRoom
    <3> SUFFICES ASSUME room = NoRoom PROVE FALSE
      OBVIOUS
    <3>1. OpenRoom(d)
      BY <1>9, Zenon DEF Join
    <3> QED
      BY <1>1, <1>2, <1>9, <3>1 DEF OpenRoom
  <2>3. EnterRoom(d)
    BY <1>9, <2>2, Zenon DEF Join
  <2> QED
    BY <1>1, <1>2, <1>9, <2>1, <2>3 DEF EnterRoom
<1>10. ASSUME NEW d \in Conns, d # c, WriteFrame(d)
       PROVE  /\ room' = room /\ c \in members[room] /\ sub[room] = "open"
              /\ sent' = sent /\ stream' = stream /\ chan'[c] = chan[c]
  BY <1>1, <1>2, <1>10 DEF WriteFrame, roomVars
<1>11. ASSUME NEW g \in Conns, PumpEnds(g)
       PROVE  FALSE
  BY <1>1, <1>2, <1>7, <1>11 DEF PumpEnds
<1>12. ASSUME NEW g \in Conns, SubEnds(g)
       PROVE  /\ room' = room /\ c \in members[room] /\ sub[room] = "open"
              /\ sent' = sent /\ stream'[room] = stream[room] /\ chan'[c] = chan[c]
  <2>1. /\ sub' = [sub EXCEPT ![g] = "off"]
        /\ UNCHANGED <<room, members, chan, sent>>
        /\ \E n \in 0..Len(stream[g]) : stream' = [stream EXCEPT ![g] = SubSeq(@, 1, n)]
    BY <1>12 DEF SubEnds
  <2>2. g # room /\ sub[room] = "open" /\ stream'[room] = stream[room]
    BY <1>1, <1>2, <2>1
  <2> QED
    BY <1>2, <2>1, <2>2
<1>13. ASSUME NEW g \in Conns, Relay(g)
       PROVE  /\ room' = room /\ c \in members[room] /\ sub[room] = "open"
              /\ sent' - Len(stream'[room]) - Len(chan'[c])
                   = sent - Len(stream[room]) - Len(chan[c])
  <2> DEFINE full == {d \in members[g] : Full(d)}
  <2>1. /\ Drop(full)
        /\ stream' = [stream EXCEPT ![g] = Tail(stream[g])]
        /\ chan' = [d \in Conns |-> IF d \in members[g] \ full
                                      THEN Append(chan[d], Head(stream[g]))
                                      ELSE chan[d]]
        /\ stream[g] # <<>>
        /\ UNCHANGED sent
    BY <1>13 DEF Relay
  <2> HIDE DEF full
  <2>2. room' = room /\ room \in Conns /\ c \in members[room] /\ sub[room] = "open" /\ c \notin full
    BY <1>1, <1>2, <1>7, <2>1
  <2>3. CASE g # room
    <3>1. members[g] = {}
      BY <2>3 DEF RoomInv, RoomIsFed
    <3>2. stream'[room] = stream[room] /\ chan'[c] = chan[c]
      BY <1>1, <2>1, <2>2, <2>3, <3>1
    <3> QED
      BY <2>1, <2>2, <3>2
  <2>4. CASE g = room
    <3>1. PICK k \in Nat : k = Len(stream[room])
      BY <1>1, <2>2
    <3>2. PICK n \in Nat : n = Len(chan[c])
      BY <1>1
    <3>3. stream'[room] = Tail(stream[room]) /\ stream[room] # <<>>
      BY <1>1, <2>1, <2>2, <2>4
    <3>4. k >= 1 /\ Len(stream'[room]) = k - 1
      BY <1>1, <2>2, <3>1, <3>3
    <3>5. chan'[c] = Append(chan[c], Head(stream[room]))
      BY <2>1, <2>2, <2>4
    <3>6. Len(chan'[c]) = n + 1
      BY <1>1, <3>2, <3>5
    <3>7. sent \in Nat /\ sent' = sent
      BY <1>1, <2>1
    <3>8. sent' - (k - 1) - (n + 1) = sent - k - n
      BY <3>7
    <3> QED
      BY <2>2, <3>1, <3>2, <3>4, <3>6, <3>8
  <2> QED
    BY <2>3, <2>4
<1>14. CASE UNCHANGED hubVars
  BY <1>4, <1>14 DEF hubVars
<1> QED
  BY <1>4, <1>5, <1>6, <1>8, <1>9, <1>10, <1>11, <1>12, <1>13, <1>14 DEF Aside

\* What is on the tab's wire is what left the hub last, and reaches back to
\* what the tab has handled.
WireRun ==
  socket # NoConn /\ IsFed(socket) =>
    /\ LeftHub(socket) - handled <= Len(wire)
    /\ \A i \in 1..Len(wire) : wire[i] = LeftHub(socket) - Len(wire) + i

\* Nothing is on the wire before the hub has let the connection in.
WireStarts == socket = NoConn \/ pc[socket] = "accepted" => wire = <<>>

LEMMA StepWireStarts == TabTypeOK /\ WireStarts /\ [TabNext]_vars => WireStarts'
<1> SUFFICES ASSUME TabTypeOK, WireStarts, [TabNext]_vars PROVE WireStarts'
  OBVIOUS
<1>1. /\ socket \in Conns \cup {NoConn} /\ NoConn \notin Conns
      /\ socket # NoConn <=> hook \in {"opening", "open"}
      /\ pc \in [Conns -> {"idle", "accepted", "serving", "leaving"}]
  BY TabConstants DEF TabConstants, TabTypeOK, TypeOK
<1>2. CASE EnsureFreshToken \/ Opened \/ Retry
  BY <1>2 DEF EnsureFreshToken, Opened, Retry, quiet, hubVars, WireStarts
<1>3. CASE DialFails \/ Closed \/ Unmount
  BY <1>3 DEF DialFails, Closed, Unmount, WireStarts
<1>4. ASSUME NEW c \in Conns, Dial(c) PROVE WireStarts'
  BY <1>1, <1>4 DEF Dial, WireStarts
<1>5. CASE HandleMessage
  BY <1>5 DEF HandleMessage, hubVars, WireStarts
<1>6. CASE TokenExpires \/ Recover \/ Poll \/ Snapshot \/ ShowAnswer \/ FetchFails \/ Solve
  BY <1>6 DEF TokenExpires, Recover, Poll, Snapshot, ShowAnswer, FetchFails, Solve, quiet,
    hubVars, tabVars, WireStarts
<1>7. CASE Broadcast
  BY <1>7 DEF Broadcast, Publish, tabVars, WireStarts
<1>8. ASSUME NEW c \in Conns, Deliver(c) PROVE WireStarts'
  BY <1>1, <1>8 DEF Deliver, WriteFrame, WireStarts
<1>9. ASSUME NEW c \in Conns, LetIn(c) PROVE WireStarts'
  BY <1>1, <1>9 DEF LetIn, Join, WireStarts
<1>10. CASE HubStep
  <2>1. \A c \in Conns : pc'[c] = "accepted" => pc[c] = "accepted"
    <3>1. ASSUME NEW d \in Conns, JoinFails(d) \/ Dropped(d) \/ Gone(d) \/ Leave(d)
          PROVE  \A c \in Conns : pc'[c] = "accepted" => pc[c] = "accepted"
      BY <1>1, <3>1 DEF JoinFails, Dropped, Gone, Leave
    <3>2. ASSUME NEW g \in Conns, Relay(g) \/ PumpEnds(g) \/ SubEnds(g)
          PROVE  \A c \in Conns : pc'[c] = "accepted" => pc[c] = "accepted"
      BY <3>2 DEF Relay, PumpEnds, SubEnds
    <3> QED
      BY <1>10, <3>1, <3>2 DEF HubStep
  <2>2. UNCHANGED <<socket, wire>>
    BY <1>10 DEF HubStep, tabVars
  <2> QED
    BY <1>1, <2>1, <2>2 DEF WireStarts
<1>11. CASE UNCHANGED vars
  BY <1>11 DEF vars, tabVars, hubVars, WireStarts
<1> QED
  BY <1>2, <1>3, <1>4, <1>5, <1>6, <1>7, <1>8, <1>9, <1>10, <1>11 DEF TabNext, Connecting

\* A step aside of the socket, by which nothing on the wire moves.
LEMMA WireKept ==
  ASSUME LosesNone, TabTypeOK, RoomInv, WireRun,
         socket # NoConn => Aside(socket), UNCHANGED <<socket, wire, handled>>
  PROVE  WireRun'
<1>1. SUFFICES ASSUME socket # NoConn, IsFed(socket)'
               PROVE  /\ LeftHub(socket)' - handled <= Len(wire)
                      /\ \A i \in 1..Len(wire) : wire[i] = LeftHub(socket)' - Len(wire) + i
  BY DEF WireRun, IsFed, LeftHub
<1>2. PICK c \in Conns : c = socket /\ c = socket'
  BY <1>1 DEF TabTypeOK
<1>3. TypeOK /\ Aside(c) /\ IsFed(c)'
  BY <1>1, <1>2 DEF TabTypeOK, IsFed
<1>4. IsFed(c) /\ LeftHub(c)' = LeftHub(c)
  BY <1>3, LeftHubKept
<1>5. IsFed(socket) /\ LeftHub(socket)' = LeftHub(socket)
  BY <1>2, <1>4 DEF IsFed, LeftHub
<1> QED
  BY <1>1, <1>5 DEF WireRun

LEMMA WireHandled ==
  ASSUME TypeOK, TabTypeOK, WireRun, HandleMessage
  PROVE  WireRun'
<1>1. SUFFICES ASSUME socket # NoConn, IsFed(socket)
               PROVE  /\ LeftHub(socket) - handled' <= Len(wire')
                      /\ \A i \in 1..Len(wire') : wire'[i] = LeftHub(socket) - Len(wire') + i
  BY DEF WireRun, IsFed, LeftHub, HandleMessage, hubVars
<1>2. /\ wire # <<>> /\ wire' = Tail(wire) /\ handled' = Later(handled, Head(wire))
      /\ wire \in Seq(Events) /\ handled \in Nat
  BY HubConstants DEF HubConstants, HandleMessage, TabTypeOK
<1>3. PICK f \in Int : f = LeftHub(socket)
  <2>0. room \in Conns /\ socket \in Conns
    BY <1>1 DEF TypeOK, TabTypeOK, IsFed
  <2>1. /\ sent \in Nat /\ stream[room] \in Seq(Events) /\ chan[socket] \in Seq(Events)
    BY <2>0, HubConstants DEF HubConstants, TypeOK
  <2>2. PICK k \in Nat : k = Len(stream[room])
    BY <2>1
  <2>3. PICK m \in Nat : m = Len(chan[socket])
    BY <2>1
  <2>4. LeftHub(socket) = sent - k - m
    BY <2>2, <2>3 DEF LeftHub
  <2> QED
    BY <2>1, <2>4
<1>4. PICK n \in Nat : n = Len(wire) /\ n >= 1
  BY <1>2
<1>5. \A i \in 1..n : wire[i] = f - n + i
  BY <1>1, <1>3, <1>4 DEF WireRun
<1>6. Len(wire') = n - 1 /\ \A i \in 1..(n - 1) : wire'[i] = wire[i + 1]
  BY <1>2, <1>4
<1>7. Head(wire) = f - n + 1
  BY <1>2, <1>4, <1>5
<1>8. handled' \in Int /\ handled' >= f - n + 1
  BY <1>2, <1>7 DEF Later
<1>9. f - handled' <= n - 1
  BY <1>3, <1>4, <1>8
<1>10. ASSUME NEW i \in 1..(n - 1) PROVE wire'[i] = f - (n - 1) + i
  <2>1. wire'[i] = wire[i + 1] /\ i + 1 \in 1..n
    BY <1>6
  <2>2. wire[i + 1] = f - n + (i + 1)
    BY <1>5, <2>1
  <2> QED
    BY <2>1, <2>2
<1> QED
  BY <1>3, <1>6, <1>9, <1>10

LEMMA WireWritten ==
  ASSUME TypeOK, TabTypeOK, FedInv, WireRun, socket # NoConn, Deliver(socket)
  PROVE  WireRun'
<1>1. /\ UNCHANGED <<socket, handled, room, members, sub, stream, sent>>
      /\ chan[socket] # <<>>
      /\ chan' = [chan EXCEPT ![socket] = Tail(chan[socket])]
      /\ wire' = Append(wire, Head(chan[socket]))
  BY DEF Deliver, WriteFrame, roomVars
<1>2. SUFFICES ASSUME IsFed(socket)
               PROVE  /\ LeftHub(socket)' - handled <= Len(wire')
                      /\ \A i \in 1..Len(wire') : wire'[i] = LeftHub(socket)' - Len(wire') + i
  BY <1>1 DEF WireRun, IsFed
<1>3. /\ sent \in Nat /\ room \in Conns /\ socket \in Conns
      /\ stream \in [Conns -> Seq(Events)] /\ chan \in [Conns -> Seq(Events)]
      /\ wire \in Seq(Events) /\ handled \in Nat
  BY <1>2, HubConstants DEF HubConstants, TypeOK, TabTypeOK, IsFed
<1>4. PICK k \in Nat : k = Len(stream[room])
  BY <1>3
<1>5. PICK m \in Nat : m = Len(chan[socket]) /\ m >= 1
  BY <1>1, <1>3
<1>6. PICK f \in Int : f = sent - k - m
  BY <1>3
<1>7. LeftHub(socket) = f
  BY <1>4, <1>5, <1>6 DEF LeftHub
<1>8. Len(chan'[socket]) = m - 1
  BY <1>1, <1>3, <1>5
<1>9. LeftHub(socket)' = f + 1
  <2>1. sent' = sent /\ socket' = socket /\ Len(stream'[room']) = k
    BY <1>1, <1>4
  <2>2. LeftHub(socket)' = sent - k - (m - 1)
    BY <1>8, <2>1 DEF LeftHub
  <2> QED
    BY <1>3, <1>6, <2>2
<1>10. Head(chan[socket]) = f + 1
  <2>1. \A i \in 1..m : chan[socket][i] = sent - k - m + i
    BY <1>2, <1>4, <1>5 DEF FedInv, IsFed, ChanRun
  <2> QED
    BY <1>3, <1>5, <1>6, <2>1
<1>11. PICK n \in Nat : n = Len(wire)
  BY <1>3
<1>12. f - handled <= n /\ \A i \in 1..n : wire[i] = f - n + i
  BY <1>2, <1>7, <1>11 DEF WireRun
<1>13. /\ Len(wire') = n + 1 /\ wire'[n + 1] = f + 1
       /\ \A i \in 1..n : wire'[i] = wire[i]
  BY <1>1, <1>3, <1>10, <1>11
<1>14. ASSUME NEW i \in 1..(n + 1) PROVE wire'[i] = (f + 1) - (n + 1) + i
  BY <1>12, <1>13
<1>15. (f + 1) - handled <= n + 1
  BY <1>3, <1>12
<1> QED
  BY <1>9, <1>13, <1>14, <1>15

LEMMA WireOpens ==
  ASSUME TypeOK, TabTypeOK, WireStarts, socket # NoConn, LetIn(socket)
  PROVE  WireRun'
<1>1. /\ wire = <<>> /\ wire' = wire /\ socket' = socket /\ handled' = sent /\ sent' = sent
      /\ chan' = [chan EXCEPT ![socket] = <<>>]
  BY DEF LetIn, Join, WireStarts
<1>2. SUFFICES ASSUME IsFed(socket)'
               PROVE  LeftHub(socket)' - sent <= 0
  BY <1>1 DEF WireRun
<1>3. sent \in Nat /\ room' \in Conns /\ socket \in Conns
      /\ stream' \in [Conns -> Seq(Events)] /\ chan' \in [Conns -> Seq(Events)]
  <2>1. TypeOK'
    BY StepTyped DEF LetIn, Next, TabTypeOK
  <2>2. sent \in Nat /\ socket \in Conns
    BY HubConstants DEF HubConstants, TypeOK, TabTypeOK
  <2>3. room' \in Conns
    BY <1>2, <2>1 DEF TypeOK, IsFed
  <2>4. stream' \in [Conns -> Seq(Events)] /\ chan' \in [Conns -> Seq(Events)]
    BY <2>1 DEF TypeOK
  <2> QED
    BY <2>2, <2>3, <2>4
<1>4. PICK k \in Nat : k = Len(stream'[room'])
  BY <1>3
<1>5. PICK n \in Nat : n = Len(chan'[socket])
  BY <1>3
<1>6. LeftHub(socket)' = sent - k - n
  BY <1>1, <1>4, <1>5 DEF LeftHub
<1> QED
  BY <1>3, <1>6

LEMMA StepWireRun ==
  TabTypeOK /\ RoomInv /\ FedInv /\ WireStarts /\ WireRun /\ LosesNone /\ [TabNext]_vars
    => WireRun'
<1> SUFFICES ASSUME TabTypeOK, RoomInv, FedInv, WireStarts, WireRun, LosesNone, [TabNext]_vars
             PROVE  WireRun'
  OBVIOUS
<1>1. /\ TypeOK /\ socket \in Conns \cup {NoConn} /\ NoConn \notin Conns
      /\ pc \in [Conns -> {"idle", "accepted", "serving", "leaving"}]
      /\ members \in [Conns -> SUBSET Conns]
      /\ socket # NoConn <=> hook \in {"opening", "open"}
  BY TabConstants DEF TabConstants, TabTypeOK, TypeOK
<1>2. CASE EnsureFreshToken \/ Opened \/ Retry \/ TokenExpires \/ Recover \/ Poll \/ Snapshot
             \/ ShowAnswer \/ FetchFails \/ Solve \/ UNCHANGED vars
  <2>1. UNCHANGED <<hubVars, handled, socket, wire>>
    <3>1. CASE EnsureFreshToken \/ Opened \/ Retry \/ TokenExpires \/ Recover
      BY <3>1 DEF EnsureFreshToken, Opened, Retry, TokenExpires, Recover, quiet
    <3>2. CASE Poll \/ Snapshot \/ ShowAnswer \/ FetchFails
      BY <3>2 DEF Poll, Snapshot, ShowAnswer, FetchFails, quiet
    <3>3. CASE Solve \/ UNCHANGED vars
      BY <3>3 DEF Solve, vars, tabVars
    <3> QED
      BY <1>2, <3>1, <3>2, <3>3
  <2> QED
    BY <2>1, WireKept DEF Aside
<1>3. CASE DialFails \/ Closed \/ Unmount
  <2>1. socket' = NoConn
    BY <1>3 DEF DialFails, Closed, Unmount
  <2> QED
    BY <2>1 DEF WireRun
<1>4. ASSUME NEW c \in Conns, Dial(c) PROVE WireRun'
  <2>1. socket' = c /\ pc'[c] = "accepted" /\ UNCHANGED members /\ UNCHANGED room
        /\ pc[c] = "idle"
    BY <1>1, <1>4 DEF Dial, Accept, roomVars
  <2>2. room # NoRoom => c \notin members[room]
    BY <1>1, <2>1 DEF RoomInv, MembersAreOpen, TypeOK
  <2>3. ~IsFed(socket)'
    BY <2>1, <2>2 DEF IsFed
  <2> QED
    BY <2>3 DEF WireRun
<1>5. CASE HandleMessage
  BY <1>1, <1>5, WireHandled
<1>6. CASE Broadcast
  BY <1>6, WireKept DEF Broadcast, tabVars, Aside
<1>7. CASE HubStep
  <2>1. UNCHANGED <<socket, wire, handled>>
    BY <1>7 DEF HubStep, tabVars
  <2>2. Aside(socket)
    BY <1>7, Zenon DEF HubStep, Aside
  <2> QED
    BY <2>1, <2>2, WireKept
<1>8. ASSUME NEW c \in Conns, Deliver(c) PROVE WireRun'
  <2>1. CASE c = socket
    BY <1>1, <1>8, <2>1, WireWritten
  <2>2. CASE c # socket
    <3>1. UNCHANGED <<socket, wire, handled>> /\ WriteFrame(c)
      BY <1>8, <2>2 DEF Deliver
    <3> QED
      BY <2>2, <3>1, WireKept DEF Aside
  <2> QED
    BY <2>1, <2>2
<1>9. ASSUME NEW c \in Conns, LetIn(c) PROVE WireRun'
  <2>1. CASE c = socket
    BY <1>1, <1>9, <2>1, WireOpens
  <2>2. CASE c # socket
    <3>1. UNCHANGED <<socket, wire, handled>> /\ Join(c)
      BY <1>9, <2>2 DEF LetIn
    <3> QED
      BY <2>2, <3>1, WireKept DEF Aside
  <2> QED
    BY <2>1, <2>2
<1> QED
  BY <1>2, <1>3, <1>4, <1>5, <1>6, <1>7, <1>8, <1>9 DEF TabNext, Connecting

\* A sequence of events that ends with event e and skips none.
Run(q, e) == \A i \in 1..Len(q) : q[i] = e - Len(q) + i

LEMMA RunsJoin ==
  ASSUME NEW p \in Seq(Events), NEW q \in Seq(Events), NEW e \in Int,
         Run(q, e), Run(p, e - Len(q))
  PROVE  Run(p \o q, e)
<1>1. PICK m \in Nat : m = Len(p)
  OBVIOUS
<1>2. PICK n \in Nat : n = Len(q)
  OBVIOUS
<1>3. Len(p \o q) = m + n
  BY <1>1, <1>2
<1>4. ASSUME NEW i \in 1..(m + n) PROVE (p \o q)[i] = e - (m + n) + i
  <2>1. CASE i <= m
    <3>1. i \in 1..m /\ (p \o q)[i] = p[i]
      BY <1>1, <1>2, <2>1, ConcatProperties
    <3>2. p[i] = e - n - m + i
      BY <1>1, <1>2, <3>1 DEF Run
    <3> QED
      BY <3>1, <3>2
  <2>2. CASE ~(i <= m)
    <3>1. i - m \in 1..n /\ (p \o q)[i] = q[i - m]
      BY <1>1, <1>2, <2>2, ConcatProperties
    <3>2. q[i - m] = e - n + (i - m)
      BY <1>2, <3>1 DEF Run
    <3> QED
      BY <3>1, <3>2
  <2> QED
    BY <2>1, <2>2, Zenon
<1> QED
  BY <1>3, <1>4 DEF Run

LEMMA WireSuffices == TabTypeOK /\ FedInv /\ WireRun => PageMissesNothing
<1> SUFFICES ASSUME TabTypeOK, FedInv, WireRun,
                    socket # NoConn, room # NoRoom, socket \in members[room], sub[room] = "open"
             PROVE  LET coming == wire \o chan[socket] \o stream[room]
                    IN /\ sent - handled <= Len(coming)
                       /\ \A i \in 1..Len(coming) : coming[i] = sent - Len(coming) + i
  BY DEF PageMissesNothing
<1>1. /\ sent \in Nat /\ handled \in Nat /\ wire \in Seq(Events)
      /\ chan[socket] \in Seq(Events) /\ stream[room] \in Seq(Events)
  BY HubConstants DEF HubConstants, TypeOK, TabTypeOK
<1>2. StreamRun /\ ChanRun(socket) /\ IsFed(socket)
  BY DEF FedInv, IsFed
<1>3. PICK k \in Nat : k = Len(stream[room])
  BY <1>1
<1>4. PICK m \in Nat : m = Len(chan[socket])
  BY <1>1
<1>5. PICK n \in Nat : n = Len(wire)
  BY <1>1
<1>6. Run(stream[room], sent)
  BY <1>2 DEF StreamRun, Run
<1>7. Run(chan[socket], sent - k)
  BY <1>2, <1>3 DEF ChanRun, Run
<1>8. LeftHub(socket) = sent - k - m
  BY <1>3, <1>4 DEF LeftHub
<1>9. Run(wire, sent - k - m) /\ (sent - k - m) - handled <= n
  BY <1>2, <1>5, <1>8 DEF WireRun, Run
<1>10. wire \o chan[socket] \in Seq(Events) /\ Len(wire \o chan[socket]) = n + m
  BY <1>1, <1>4, <1>5
<1>11. Run(wire \o chan[socket], sent - k)
  <2>1. PICK e \in Int : e = sent - k
    BY <1>1
  <2>2. Run(chan[socket], e) /\ Run(wire, e - Len(chan[socket]))
    BY <1>4, <1>7, <1>9, <2>1
  <2>3. Run(wire \o chan[socket], e)
    BY <1>1, <2>2, RunsJoin
  <2> QED
    BY <2>1, <2>3
<1>12. PICK p \in Seq(Events) : p = wire \o chan[socket]
  BY <1>10
<1>13. Run(p \o stream[room], sent) /\ Len(p \o stream[room]) = n + m + k
  <2>1. Run(stream[room], sent) /\ Run(p, sent - Len(stream[room])) /\ sent \in Int
    BY <1>1, <1>3, <1>6, <1>11, <1>12
  <2>2. Run(p \o stream[room], sent)
    BY <1>1, <2>1, RunsJoin
  <2>3. Len(p) = n + m
    BY <1>10, <1>12
  <2>4. Len(p \o stream[room]) = Len(p) + Len(stream[room])
    BY <1>1
  <2> QED
    BY <1>3, <2>2, <2>3, <2>4
<1>14. sent - handled <= n + m + k
  BY <1>1, <1>9
<1> QED
  BY <1>12, <1>13, <1>14 DEF Run

\* From Redis to the screen, while Redis delivers: no page skips an event,
\* whatever joins, drops, slow writes, reconnects and token refreshes
\* interleave (pump, ServeWS, useContestEvents).
THEOREM PagesMissNothing == TabSpec => []PageMissesNothing
<1> DEFINE I == TabTypeOK /\ RoomInv /\ WireStarts /\ (RedisDelivers => FedInv /\ WireRun)
<1>1. TabInit => I
  <2>1. TabInit => Init /\ TabTypeOK /\ socket = NoConn /\ wire = <<>>
    BY TabInitTyped DEF TabInit
  <2> QED
    BY <2>1, InitRooms, InitFed DEF WireStarts, WireRun
<1>2. I /\ [TabNext]_vars => I'
  <2>1. TabTypeOK => TypeOK
    BY DEF TabTypeOK
  <2>2. I /\ [TabNext]_vars => TabTypeOK' /\ RoomInv' /\ WireStarts'
    BY <2>1, TabStepIsHubStep, StepRooms, StepTabTyped, StepWireStarts
  <2>3. I /\ [TabNext]_vars /\ RedisDelivers' => LosesNone /\ FedInv /\ WireRun
    BY <2>1, TabStepIsHubStep, RedisDelivered
  <2>4. I /\ [TabNext]_vars /\ RedisDelivers' => FedInv' /\ WireRun'
    BY <2>1, <2>3, TabStepIsHubStep, StepFed, StepWireRun
  <2> QED
    BY <2>2, <2>4
<1>3. I => PageMissesNothing
  BY WireSuffices DEF PageMissesNothing
<1> QED
  BY <1>1, <1>2, <1>3, PTL DEF TabSpec
=============================================================================
