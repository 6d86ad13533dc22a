---------------------------- MODULE SessionProofs ---------------------------
(***************************************************************************)
(* Theorems about Session for every number of browsers, tabs, tokens and   *)
(* logins, and every kind and number of faults.                            *)
(***************************************************************************)
EXTENDS Session, FiniteSetTheorems, TLAPS

-----------------------------------------------------------------------------
(* Type correctness, and how the rows are numbered.                        *)

LEMMA Bounds ==
  /\ IsFiniteSet(Tabs) /\ MaxTokens \in Nat /\ MaxLogins \in Nat /\ MaxFaults \in Nat
  /\ 0 \notin Ids /\ \A k \in Ids : k \in Nat
  BY SessionConstants DEF SessionConstants, Ids

LEMMA UsedIsFinite ==
  /\ IsFiniteSet(Used) /\ Cardinality(Used) \in 0..MaxTokens
<1>1. IsFiniteSet(Ids) /\ Cardinality(Ids) = MaxTokens
  BY Bounds, FS_Interval DEF Ids
<1>2. Used \subseteq Ids
  BY DEF Used
<1> QED
  BY <1>1, <1>2, Bounds, FS_Subset, FS_CardinalityType

\* Rows are numbered without a gap, tokens are known before they are used,
\* and a token is rotated from an older one.
Numbered ==
  /\ Used = 1..Cardinality(Used)
  /\ \A b \in Browsers : cookie[b] \in Used \cup {NoToken}
  /\ \A c \in Calls : sent[c] \in Used \cup {NoToken} /\ next[c] \in Used \cup {NoToken}
  /\ \A j \in Used : parent[j] < j

\* Calls that look a token up have one, and calls are left behind by faults.
Placed ==
  \A c \in Calls :
    /\ pc[c] \in {"select", "purge", "insert", "revoke", "forget"} => sent[c] # NoToken
    /\ c[2] \notin PageCalls /\ pc[c] # "idle" => faults < MaxFaults

Base == TypeOK /\ Numbered /\ Placed

LEMMA CallOf ==
  ASSUME NEW t \in Tabs
  PROVE  /\ \A kind \in PageCalls : <<t, kind>> \in Calls /\ <<t, kind>>[1] = t /\ <<t, kind>>[2] = kind
         /\ "refresh" \in PageCalls /\ "user" \in PageCalls
  BY DEF Calls, PageCalls

LEMMA PairOf ==
  ASSUME NEW c \in Calls
  PROVE  c = <<c[1], c[2]>> /\ c[2] \in PageCalls \cup {"left refresh", "left user"}
<1> DEFINE Kinds == PageCalls \cup {"left refresh", "left user"}
<1>1. c \in Tabs \X Kinds
  BY DEF Calls
<1> HIDE DEF Kinds
<1>2. c = <<c[1], c[2]>> /\ c[2] \in Kinds
  BY <1>1
<1> QED
  BY <1>2 DEF Kinds

LEMMA TabOf ==
  ASSUME TypeOK, NEW c \in Calls
  PROVE  c[1] \in Tabs /\ home[c[1]] \in Browsers /\ Jar(c[1]) \in Ids \cup {NoToken}
  BY DEF TypeOK, Calls, Jar

\* What the steps of a tab have in common, whatever it is told.
Sends(c) ==
  \E place \in {"failed", "select", "issue", "loggedout", "forget"} :
    /\ Send(c, place) /\ logins' \in 0..MaxLogins
    /\ c[2] \in PageCalls
    /\ place \in {"select", "forget"} => Jar(c[1]) # NoToken
    /\ place = "failed" => Jar(c[1]) = NoToken

Ended(c) ==
  /\ pc[c] \in Answered /\ Over(c)
  /\ status' \in [Tabs -> {"restoring", "authenticated", "guest"}]
  /\ \E k \in {Jar(c[1]), NoToken, next[c]} :
       /\ cookie' = [cookie EXCEPT ![home[c[1]]] = k]
       /\ \/ /\ faults' = faults
             /\ k = IF pc[c] \in {"ok", "loggedin"} THEN next[c]
                    ELSE IF pc[c] = "failed" THEN Jar(c[1]) ELSE NoToken
          \/ faults > 0 /\ faults' = faults - 1
  /\ UNCHANGED <<rows, home, logins, parent, purged, spared, overlap>>

LEMMA TabsSend ==
  ASSUME TypeOK, NEW t \in Tabs, RefreshSession(t) \/ Login(t) \/ SignOut(t)
  PROVE  \E c \in Calls : Sends(c)
<1>1. CASE RefreshSession(t)
  <2>1. Sends(<<t, "refresh">>)
    BY <1>1, CallOf DEF RefreshSession, Sends, TypeOK
  <2> QED
    BY <2>1, CallOf
<1>2. CASE Login(t)
  <2>1. logins' \in 0..MaxLogins
    BY <1>2, Bounds DEF Login, TypeOK
  <2>2. Sends(<<t, "user">>)
    BY <1>2, <2>1, CallOf DEF Login, Sends
  <2> QED
    BY <2>2, CallOf
<1>3. CASE SignOut(t)
  <2>1. Sends(<<t, "user">>)
    BY <1>3, CallOf DEF SignOut, Sends, TypeOK
  <2> QED
    BY <2>1, CallOf
<1> QED
  BY <1>1, <1>2, <1>3

LEMMA StatusTyped ==
  ASSUME TypeOK, NEW t \in Tabs, SignedIn(t) \/ NobodyThere(t) \/ SignedOut(t) \/ BecomeGuest(t)
  PROVE  status' \in [Tabs -> {"restoring", "authenticated", "guest"}]
  BY DEF TypeOK, SignedIn, NobodyThere, SignedOut, BecomeGuest

LEMMA CookieStays ==
  ASSUME TypeOK, NEW c \in Calls, UNCHANGED cookie
  PROVE  cookie' = [cookie EXCEPT ![home[c[1]]] = Jar(c[1])]
  BY TabOf DEF TypeOK, Jar

LEMMA TabsReceive ==
  ASSUME TypeOK, NEW t \in Tabs, Receive(t)
  PROVE  \E c \in Calls : Ended(c)
<1>1. CASE ReceiveRefresh(t)
  <2> DEFINE c == <<t, "refresh">>
  <2>1. SignedIn(t) \/ NobodyThere(t) \/ SignedOut(t)
    BY <1>1 DEF ReceiveRefresh
  <2>2. c \in Calls /\ c[1] = t /\ pc[c] \in {"ok", "unauthorized", "failed"} /\ Over(c)
        /\ cookie' = [cookie EXCEPT ![home[t]] = CookieAfter(c)]
        /\ UNCHANGED <<rows, home, logins, faults, parent, purged, spared, overlap>>
    BY <1>1, CallOf DEF ReceiveRefresh, SetCookie, past
  <2>3. CookieAfter(c) = IF pc[c] \in {"ok", "loggedin"} THEN next[c]
                         ELSE IF pc[c] = "failed" THEN Jar(c[1]) ELSE NoToken
    BY <2>2 DEF CookieAfter
  <2>4. Ended(c)
    BY <2>1, <2>2, <2>3, StatusTyped DEF Ended, Answered
  <2> QED
    BY <2>2, <2>4
<1>2. CASE ReceiveLogin(t)
  <2> DEFINE c == <<t, "user">>
  <2>1. SignedIn(t) \/ UNCHANGED status
    BY <1>2 DEF ReceiveLogin
  <2>2. status' \in [Tabs -> {"restoring", "authenticated", "guest"}]
    BY <2>1, StatusTyped DEF TypeOK
  <2>3. c \in Calls /\ c[1] = t /\ pc[c] \in {"loggedin", "failed"} /\ Over(c)
        /\ UNCHANGED <<rows, home, logins, faults, parent, purged, spared, overlap>>
    BY <1>2, CallOf DEF ReceiveLogin, past
  <2>4. cookie' = [cookie EXCEPT ![home[t]] = IF pc[c] = "loggedin" THEN next[c] ELSE Jar(t)]
    BY <1>2, <2>3, CookieStays DEF ReceiveLogin, SetCookie
  <2>5. Ended(c)
    BY <2>2, <2>3, <2>4 DEF Ended, Answered
  <2> QED
    BY <2>3, <2>5
<1>3. CASE ReceiveLogout(t)
  <2> DEFINE c == <<t, "user">>
  <2>1. c \in Calls /\ c[1] = t /\ pc[c] = "loggedout" /\ Over(c)
        /\ cookie' = [cookie EXCEPT ![home[t]] = NoToken] /\ BecomeGuest(t)
        /\ UNCHANGED <<rows, home, logins, faults, parent, purged, spared, overlap>>
    BY <1>3, CallOf DEF ReceiveLogout, SetCookie, past
  <2>2. Ended(c)
    BY <2>1, StatusTyped DEF Ended, Answered
  <2> QED
    BY <2>1, <2>2
<1> QED
  BY <1>1, <1>2, <1>3 DEF Receive

LEMMA AnswersLost ==
  ASSUME TypeOK, NEW t \in Tabs, NEW kind \in PageCalls, AnswerLost(t, kind)
  PROVE  \E c \in Calls : Ended(c)
<1> DEFINE c == <<t, kind>>
<1>1. c \in Calls /\ c[1] = t
  BY CallOf
<1>2. BecomeGuest(t) \/ SignedOut(t) \/ UNCHANGED status
  BY DEF AnswerLost
<1>3. status' \in [Tabs -> {"restoring", "authenticated", "guest"}]
  BY <1>2, StatusTyped DEF TypeOK
<1>4. /\ pc[c] \in Answered /\ Over(c) /\ faults > 0 /\ faults' = faults - 1
      /\ UNCHANGED <<rows, home, cookie, logins, parent, purged, spared, overlap>>
  BY DEF AnswerLost, Fault, past
<1>5. cookie' = [cookie EXCEPT ![home[c[1]]] = Jar(c[1])]
  BY <1>1, <1>4, CookieStays
<1>6. Ended(c)
  BY <1>3, <1>4, <1>5 DEF Ended
<1> QED
  BY <1>1, <1>6

LEMMA PcTyped ==
  /\ {"select", "purge", "insert", "revoke", "mint", "issue", "forget", "ok", "unauthorized",
      "failed", "loggedin", "loggedout", "idle"} = {"idle"} \cup Handling \cup Answered
  /\ {"select", "purge", "insert", "revoke", "forget"} \cap Answered = {}
  BY DEF Handling, Answered

\* The rows keep their numbers when none is inserted.
LEMMA NumbersKept ==
  ASSUME TypeOK, Numbered, UNCHANGED parent,
         \A k \in Ids : rows'[k] = "none" <=> rows[k] = "none",
         \A b \in Browsers : cookie'[b] \in Used \cup {NoToken},
         \A c \in Calls : sent'[c] \in Used \cup {NoToken} /\ next'[c] \in Used \cup {NoToken}
  PROVE  Used' = Used /\ Numbered'
<1>1. Used' = Used
  BY DEF Used
<1> QED
  BY <1>1 DEF Numbered

LEMMA SendBase ==
  ASSUME Base, NEW c \in Calls, Sends(c)
  PROVE  Base' /\ Used' = Used
<1>1. PICK place \in {"failed", "select", "issue", "loggedout", "forget"} :
        /\ Send(c, place) /\ logins' \in 0..MaxLogins
        /\ place \in {"select", "forget"} => Jar(c[1]) # NoToken
        /\ c[2] \in PageCalls
  BY DEF Sends
<1>2. /\ pc' = [pc EXCEPT ![c] = place] /\ sent' = [sent EXCEPT ![c] = Jar(c[1])]
      /\ overlap' = (overlap \/ ~Idle)
      /\ UNCHANGED <<rows, home, cookie, status, next, faults, parent, purged, spared>>
  BY <1>1 DEF Send, Goto, past
<1>j. Jar(c[1]) \in Used \cup {NoToken} /\ Jar(c[1]) \in Ids \cup {NoToken}
  BY TabOf DEF Base, Numbered, Jar
<1>3. overlap' \in BOOLEAN
  BY <1>2 DEF Base, TypeOK, Idle
<1>4. TypeOK'
  BY <1>1, <1>2, <1>3, <1>j, PcTyped DEF Base, TypeOK
<1>5. Used' = Used /\ Numbered'
  <2>1. \A d \in Calls : sent'[d] \in Used \cup {NoToken} /\ next'[d] \in Used \cup {NoToken}
    BY <1>2, <1>j DEF Base, TypeOK, Numbered
  <2> QED
    BY <1>2, <2>1, NumbersKept DEF Base, Numbered
<1>6. Placed'
  BY <1>1, <1>2 DEF Base, Placed, TypeOK
<1> QED
  BY <1>4, <1>5, <1>6 DEF Base

LEMMA EndBase ==
  ASSUME Base, NEW c \in Calls, Ended(c)
  PROVE  Base' /\ Used' = Used
<1>1. PICK k \in {Jar(c[1]), NoToken, next[c]} :
        /\ pc' = [pc EXCEPT ![c] = "idle"] /\ sent' = [sent EXCEPT ![c] = NoToken]
        /\ next' = [next EXCEPT ![c] = NoToken]
        /\ status' \in [Tabs -> {"restoring", "authenticated", "guest"}]
        /\ cookie' = [cookie EXCEPT ![home[c[1]]] = k]
        /\ faults' = faults \/ (faults > 0 /\ faults' = faults - 1)
        /\ UNCHANGED <<rows, home, logins, parent, purged, spared, overlap>>
  BY DEF Ended, Over, Goto
<1>2. faults' \in 0..MaxFaults /\ (faults < MaxFaults => faults' < MaxFaults)
  BY <1>1, Bounds DEF Base, TypeOK
<1>3. k \in Used \cup {NoToken} /\ k \in Ids \cup {NoToken}
  BY TabOf DEF Base, Numbered, TypeOK, Jar
<1>4. TypeOK'
  BY <1>1, <1>2, <1>3, PcTyped DEF Base, TypeOK
<1>5. \A b \in Browsers : cookie'[b] \in Used \cup {NoToken}
  BY <1>1, <1>3 DEF Base, TypeOK, Numbered
<1>6. Used' = Used /\ Numbered'
  BY <1>1, <1>5, NumbersKept DEF Base, TypeOK, Numbered
<1>7. Placed'
  BY <1>1, <1>2 DEF Base, Placed, TypeOK
<1> QED
  BY <1>4, <1>6, <1>7 DEF Base

LEMMA NoticeBase ==
  ASSUME Base, NEW c \in Calls, NoticeCancel(c)
  PROVE  /\ Base' /\ Used' = Used /\ faults' = faults /\ faults < MaxFaults
         /\ pc' = [pc EXCEPT ![c] = "idle"] /\ sent' = [sent EXCEPT ![c] = NoToken]
         /\ UNCHANGED <<rows, parent, purged, spared>>
<1>1. /\ pc' = [pc EXCEPT ![c] = "idle"] /\ sent' = [sent EXCEPT ![c] = NoToken]
      /\ next' = [next EXCEPT ![c] = NoToken] /\ c[2] \notin PageCalls /\ pc[c] # "idle"
      /\ UNCHANGED <<rows, home, cookie, status, logins, faults, parent, purged, spared, overlap>>
  BY DEF NoticeCancel, Over, Goto, past
<1>2. faults < MaxFaults
  BY <1>1 DEF Base, Placed
<1>3. TypeOK'
  BY <1>1, PcTyped DEF Base, TypeOK
<1>4. Used' = Used /\ Numbered'
  BY <1>1, NumbersKept DEF Base, TypeOK, Numbered
<1>5. Placed'
  BY <1>1 DEF Base, Placed, TypeOK
<1> QED
  BY <1>1, <1>2, <1>3, <1>4, <1>5 DEF Base

LEMMA CopyBase ==
  ASSUME Base, NEW a \in Tabs, NEW t \in Tabs, CookieCopied(a, t)
  PROVE  /\ Base' /\ Used' = Used /\ faults' < MaxFaults
         /\ UNCHANGED <<rows, pc, sent, parent, purged, spared>>
<1>1. /\ cookie' = [cookie EXCEPT ![home[t]] = Jar(a)]
      /\ faults > 0 /\ faults' = faults - 1
      /\ UNCHANGED <<rows, home, status, pc, sent, next, logins, parent, purged, spared, overlap>>
  BY DEF CookieCopied, Fault, SetCookie, past
<1>2. faults' \in 0..MaxFaults /\ faults' < MaxFaults
  BY <1>1, Bounds DEF Base, TypeOK
<1>3. Jar(a) \in Used \cup {NoToken} /\ Jar(a) \in Ids \cup {NoToken}
  BY DEF Base, Numbered, TypeOK, Jar
<1>4. TypeOK'
  BY <1>1, <1>2, <1>3 DEF Base, TypeOK
<1>5. \A b \in Browsers : cookie'[b] \in Used \cup {NoToken}
  BY <1>1, <1>3 DEF Base, TypeOK, Numbered
<1>6. Used' = Used /\ Numbered'
  BY <1>1, <1>5, NumbersKept DEF Base, Numbered
<1>7. Placed'
  BY <1>1, <1>2 DEF Base, Placed
<1> QED
  BY <1>1, <1>2, <1>4, <1>6, <1>7 DEF Base

\* The call of the page that a call of the page before was.
Earlier(c) == <<c[1], IF c[2] = "left refresh" THEN "refresh" ELSE "user">>

LEMMA EarlierCall == \A c \in Calls : Earlier(c) \in Calls /\ Earlier(c)[1] = c[1] /\ Earlier(c)[2] \in PageCalls
  BY DEF Earlier, Calls, PageCalls

\* Each call goes on, or is over, or runs for nobody from now on.
Reloaded(t, c) ==
  \/ c[1] # t /\ pc'[c] = pc[c] /\ sent'[c] = sent[c] /\ next'[c] = next[c]
  \/ c[1] = t /\ pc'[c] = "idle" /\ sent'[c] = NoToken /\ next'[c] = NoToken
  \/ /\ c[1] = t /\ c[2] \notin PageCalls /\ pc[Earlier(c)] # "idle"
     /\ pc'[c] = pc[Earlier(c)] /\ sent'[c] = sent[Earlier(c)] /\ next'[c] = next[Earlier(c)]

LEMMA ReloadShape ==
  ASSUME TypeOK, NEW t \in Tabs, Reload(t)
  PROVE  /\ UNCHANGED <<rows, home, cookie, logins, parent, purged, spared, overlap>>
         /\ status' = [status EXCEPT ![t] = "restoring"]
         /\ pc' \in [Calls -> {"idle"} \cup Handling \cup Answered]
         /\ sent' \in [Calls -> Ids \cup {NoToken}] /\ next' \in [Calls -> Ids \cup {NoToken}]
         /\ \A c \in Calls : Reloaded(t, c)
         /\ \/ faults' \in 0..MaxFaults /\ faults' < MaxFaults
            \/ faults' = faults /\ \A c \in Calls : c[1] = t => pc[c] = "idle" /\ pc'[c] = "idle"
<1> DEFINE Leaves(c) == c[2] \notin PageCalls /\ pc[Earlier(c)] \in Handling
           Before(c) == <<t, IF c[2] = "left refresh" THEN "refresh" ELSE "user">>
<1>1. \A c \in Calls : c[1] = t => Before(c) = Earlier(c)
  BY DEF Earlier
<1>2. /\ pc' = [c \in Calls |-> IF c[1] # t THEN pc[c] ELSE IF Leaves(c) THEN pc[Earlier(c)] ELSE "idle"]
      /\ sent' = [c \in Calls |-> IF c[1] # t THEN sent[c] ELSE IF Leaves(c) THEN sent[Earlier(c)] ELSE NoToken]
      /\ next' = [c \in Calls |-> IF c[1] # t THEN next[c] ELSE IF Leaves(c) THEN next[Earlier(c)] ELSE NoToken]
  BY <1>1 DEF Reload
<1>3. /\ UNCHANGED <<rows, home, cookie, logins, parent, purged, spared, overlap>>
      /\ status' = [status EXCEPT ![t] = "restoring"]
      /\ \A c \in Calls : c[1] = t /\ c[2] \notin PageCalls => pc[c] = "idle"
      /\ IF InFlight(t) THEN faults > 0 /\ faults' = faults - 1 ELSE faults' = faults
  BY DEF Reload, Fault, past
<1>4. \A c \in Calls : Reloaded(t, c)
  BY <1>2 DEF Reloaded, Handling
<1>5. /\ pc' \in [Calls -> {"idle"} \cup Handling \cup Answered]
      /\ sent' \in [Calls -> Ids \cup {NoToken}] /\ next' \in [Calls -> Ids \cup {NoToken}]
  BY <1>2, EarlierCall DEF TypeOK
<1>6. CASE InFlight(t)
  <2>1. faults' \in 0..MaxFaults /\ faults' < MaxFaults
    BY <1>3, <1>6, Bounds DEF TypeOK
  <2> QED
    BY <1>3, <1>4, <1>5, <2>1
<1>7. CASE ~InFlight(t)
  <2>1. ASSUME NEW c \in Calls, c[1] = t PROVE pc[c] = "idle"
    <3>1. c = <<t, c[2]>>
      BY <2>1, PairOf
    <3> QED
      BY <1>3, <1>7, <2>1, <3>1 DEF InFlight
  <2>2. ASSUME NEW c \in Calls, c[1] = t PROVE pc'[c] = "idle"
    <3>1. pc[Earlier(c)] = "idle"
      BY <2>1, <2>2, EarlierCall
    <3> QED
      BY <1>2, <2>2, <3>1 DEF Handling
  <2> QED
    BY <1>3, <1>4, <1>5, <1>7, <2>1, <2>2
<1> QED
  BY <1>6, <1>7

LEMMA ReloadBase ==
  ASSUME Base, NEW t \in Tabs, Reload(t)
  PROVE  Base' /\ Used' = Used
<1>1. /\ UNCHANGED <<rows, home, cookie, logins, parent, purged, spared, overlap>>
      /\ status' = [status EXCEPT ![t] = "restoring"]
      /\ pc' \in [Calls -> {"idle"} \cup Handling \cup Answered]
      /\ sent' \in [Calls -> Ids \cup {NoToken}] /\ next' \in [Calls -> Ids \cup {NoToken}]
      /\ \A c \in Calls : Reloaded(t, c)
      /\ \/ faults' \in 0..MaxFaults /\ faults' < MaxFaults
         \/ faults' = faults /\ \A c \in Calls : c[1] = t => pc[c] = "idle" /\ pc'[c] = "idle"
  BY ReloadShape DEF Base
<1>2. TypeOK'
  BY <1>1 DEF Base, TypeOK
<1>3. Used' = Used /\ Numbered'
  <2>1. \A c \in Calls : sent'[c] \in Used \cup {NoToken} /\ next'[c] \in Used \cup {NoToken}
    BY <1>1, EarlierCall DEF Reloaded, Base, Numbered
  <2> QED
    BY <1>1, <2>1, NumbersKept DEF Base, Numbered
<1>4. Placed'
  <2>1. \A c \in Calls : pc'[c] \in {"select", "purge", "insert", "revoke", "forget"} => sent'[c] # NoToken
    BY <1>1, EarlierCall DEF Reloaded, Base, Placed
  <2>2. \A c \in Calls : c[2] \notin PageCalls /\ pc'[c] # "idle" => faults' < MaxFaults
    BY <1>1 DEF Reloaded, Base, Placed
  <2> QED
    BY <2>1, <2>2 DEF Placed
<1> QED
  BY <1>2, <1>3, <1>4 DEF Base

\* A handler that fails or goes on without touching a row.
Moves(c) ==
  \E place \in Handling \cup Answered :
    /\ pc[c] \in Handling /\ Goto(c, place)
    /\ place \in {"purge", "insert"} => pc[c] = "select"
    /\ place = "insert" => rows[sent[c]] # "revoked"
    /\ place = "purge" => rows[sent[c]] = "revoked"
    /\ place = "unauthorized" => pc[c] = "select" /\ rows[sent[c]] = "expired"
    /\ place \notin {"select", "revoke", "forget", "issue", "mint", "loggedin"}
    /\ place = "ok" => pc[c] = "mint"
    /\ place \in {"failed", "loggedout"} => faults' # faults
    /\ faults' = faults \/ (faults > 0 /\ faults' = faults - 1)
    /\ Quietly /\ UNCHANGED <<rows, next, parent, purged, spared>>

LEMMA HandlersMove ==
  ASSUME TypeOK, NEW c \in Calls, Refused(c) \/ DbFails(c) \/ Select(c) \/ MintAccess(c)
  PROVE  Moves(c)
<1>1. faults > 0 /\ faults' = faults - 1 => faults' # faults
  BY Bounds DEF TypeOK
<1>2. CASE Refused(c)
  BY <1>1, <1>2 DEF Refused, Moves, Fault, Handling, Answered, past
<1>3. CASE DbFails(c)
  BY <1>1, <1>3 DEF DbFails, Moves, Fault, Handling, Answered, past
<1>4. CASE Select(c)
  BY <1>4 DEF Select, Moves, Handling, Answered, past
<1>5. CASE MintAccess(c)
  BY <1>5 DEF MintAccess, Moves, Handling, Answered, past
<1> QED
  BY <1>2, <1>3, <1>4, <1>5

LEMMA MoveBase ==
  ASSUME Base, NEW c \in Calls, Moves(c)
  PROVE  Base' /\ Used' = Used
<1>1. PICK place \in Handling \cup Answered :
        /\ pc' = [pc EXCEPT ![c] = place]
        /\ place \in {"purge", "insert"} => pc[c] = "select"
        /\ place \notin {"select", "revoke", "forget"}
        /\ faults' = faults \/ (faults > 0 /\ faults' = faults - 1)
        /\ pc[c] # "idle"
        /\ UNCHANGED <<home, cookie, status, sent, logins, overlap, rows, next, parent, purged, spared>>
  BY DEF Moves, Goto, Quietly, Handling
<1>2. faults' \in 0..MaxFaults /\ (faults < MaxFaults => faults' < MaxFaults)
  BY <1>1, Bounds DEF Base, TypeOK
<1>3. TypeOK'
  BY <1>1, <1>2 DEF Base, TypeOK
<1>4. Used' = Used /\ Numbered'
  BY <1>1, NumbersKept DEF Base, Numbered
<1>5. Placed'
  BY <1>1, <1>2 DEF Base, Placed, TypeOK
<1> QED
  BY <1>3, <1>4, <1>5 DEF Base

LEMMA RotationsFinite == IsFiniteSet(Rotations) /\ Cardinality(Rotations) \in Nat
<1>1. IsFiniteSet(Calls)
  <2>1. Calls = Tabs \X {"refresh", "user", "left refresh", "left user"}
    BY DEF Calls, PageCalls
  <2>2. IsFiniteSet({"refresh", "user", "left refresh", "left user"})
    <3>1. {"refresh", "user", "left refresh", "left user"} =
            (({"refresh"} \cup {"user"}) \cup {"left refresh"}) \cup {"left user"}
      OBVIOUS
    <3>2. IsFiniteSet({"refresh"})
      BY FS_Singleton
    <3>3. IsFiniteSet({"refresh"} \cup {"user"})
      BY <3>2, FS_AddElement
    <3>4. IsFiniteSet(({"refresh"} \cup {"user"}) \cup {"left refresh"})
      BY <3>3, FS_AddElement
    <3>5. IsFiniteSet((({"refresh"} \cup {"user"}) \cup {"left refresh"}) \cup {"left user"})
      BY <3>4, FS_AddElement
    <3> QED
      BY <3>1, <3>5
  <2> QED
    BY <2>1, <2>2, Bounds, FS_Product
<1>2. Rotations \subseteq Calls
  BY DEF Rotations
<1> QED
  BY <1>1, <1>2, FS_Subset, FS_CardinalityType

LEMMA PurgeBase ==
  ASSUME Base, NEW c \in Calls, RevokeAllUserRefreshTokens(c)
  PROVE  Base' /\ Used' = Used
<1>1. /\ rows' = [k \in Ids |-> IF rows[k] = "none" THEN "none" ELSE "revoked"]
      /\ purged' = Cardinality(Used) /\ pc[c] = "purge" /\ pc' = [pc EXCEPT ![c] = "unauthorized"]
      /\ spared' = Cardinality(Rotations)
      /\ UNCHANGED <<home, cookie, status, sent, logins, overlap, next, faults, parent>>
  BY DEF RevokeAllUserRefreshTokens, RevokedFamily, Goto, Quietly
<1>2. purged' \in Ids \cup {NoToken} /\ spared' \in Nat
  BY <1>1, UsedIsFinite, RotationsFinite, Bounds DEF Ids, NoToken
<1>3. TypeOK'
  BY <1>1, <1>2, PcTyped DEF Base, TypeOK
<1>4. Used' = Used /\ Numbered'
  BY <1>1, NumbersKept DEF Base, Numbered
<1>5. Placed'
  BY <1>1 DEF Base, Placed, TypeOK
<1> QED
  BY <1>3, <1>4, <1>5 DEF Base

LEMMA RevokeBase ==
  ASSUME Base, NEW c \in Calls, RevokeRefreshToken(c)
  PROVE  /\ Base' /\ Used' = Used
         /\ sent[c] \in Used /\ rows' = [rows EXCEPT ![sent[c]] = "revoked"]
<1>1. /\ rows' = [rows EXCEPT ![sent[c]] = "revoked"]
      /\ pc[c] \in {"revoke", "forget"}
      /\ pc' = [pc EXCEPT ![c] = IF pc[c] = "revoke" THEN "mint" ELSE "loggedout"]
      /\ UNCHANGED <<home, cookie, status, sent, logins, overlap, next, faults, parent, purged, spared>>
  BY DEF RevokeRefreshToken, RevokedOne, Goto, Quietly, past
<1>2. sent[c] \in Used
  BY <1>1 DEF Base, Placed, Numbered
<1>3. TypeOK'
  BY <1>1, PcTyped DEF Base, TypeOK
<1>4. \A k \in Ids : rows'[k] = "none" <=> rows[k] = "none"
  BY <1>1, <1>2 DEF Used, Base, TypeOK
<1>5. Used' = Used /\ Numbered'
  BY <1>1, <1>4, NumbersKept DEF Base, Numbered
<1>6. Placed'
  BY <1>1 DEF Base, Placed, TypeOK
<1> QED
  BY <1>1, <1>2, <1>3, <1>5, <1>6 DEF Base

LEMMA ExpireBase ==
  ASSUME Base, NEW k \in Ids, TokenExpires(k)
  PROVE  Base' /\ Used' = Used
<1>1. /\ rows[k] = "live" /\ rows' = [rows EXCEPT ![k] = "expired"]
      /\ UNCHANGED <<home, cookie, status, pc, sent, next, logins, faults, parent, purged, spared, overlap>>
  BY DEF TokenExpires, past
<1>2. TypeOK'
  BY <1>1 DEF Base, TypeOK
<1>3. \A j \in Ids : rows'[j] = "none" <=> rows[j] = "none"
  BY <1>1 DEF Base, TypeOK
<1>4. Used' = Used /\ Numbered'
  BY <1>1, <1>3, NumbersKept DEF Base, Numbered
<1>5. Placed'
  BY <1>1 DEF Base, Placed
<1> QED
  BY <1>2, <1>4, <1>5 DEF Base

\* The new row has the next number, a parent that is older, and no child.
Inserts(c, k) ==
  /\ k \in Ids /\ k \notin Used /\ k = Cardinality(Used) + 1 /\ Used' = Used \cup {k}
  /\ rows' = [rows EXCEPT ![k] = "live"] /\ next' = [next EXCEPT ![c] = k]
  /\ \/ /\ pc[c] = "insert" /\ pc' = [pc EXCEPT ![c] = "revoke"]
        /\ sent[c] \in Used /\ parent' = [parent EXCEPT ![k] = sent[c]]
     \/ /\ pc[c] = "issue" /\ pc' = [pc EXCEPT ![c] = "loggedin"]
        /\ parent' = [parent EXCEPT ![k] = NoToken]
  /\ UNCHANGED <<home, cookie, status, sent, logins, overlap, faults, purged, spared>>

LEMMA InsertBase ==
  ASSUME Base, NEW c \in Calls, InsertNext(c) \/ IssueSession(c)
  PROVE  Base' /\ Inserts(c, Cardinality(Used) + 1)
<1>1. PICK k : k = Cardinality(Used) + 1
  OBVIOUS
<1>2. /\ k \in Ids /\ rows' = [rows EXCEPT ![k] = "live"] /\ next' = [next EXCEPT ![c] = k]
      /\ UNCHANGED <<home, cookie, status, sent, logins, overlap, faults, purged, spared>>
  BY <1>1 DEF InsertNext, IssueSession, CreateRefreshToken, Quietly
<1>3. \/ /\ pc[c] = "insert" /\ pc' = [pc EXCEPT ![c] = "revoke"]
         /\ parent' = [parent EXCEPT ![k] = sent[c]]
      \/ /\ pc[c] = "issue" /\ pc' = [pc EXCEPT ![c] = "loggedin"]
         /\ parent' = [parent EXCEPT ![k] = NoToken]
  BY <1>1 DEF InsertNext, IssueSession, CreateRefreshToken, Goto
<1>4. pc[c] = "insert" => sent[c] \in Used /\ sent[c] # NoToken
  BY DEF Base, Placed, Numbered
<1>5. Used = 1..Cardinality(Used) /\ Cardinality(Used) \in Nat
  BY UsedIsFinite, Bounds DEF Base, Numbered
<1>6. k \notin Used /\ k \in Nat /\ \A j \in Used : j \in Nat /\ j < k
  BY <1>1, <1>5
<1>7. Used' = Used \cup {k}
  BY <1>2 DEF Used, Base, TypeOK
<1>8. Cardinality(Used') = k
  BY <1>1, <1>6, <1>7, UsedIsFinite, FS_AddElement
<1>9. Used' = 1..Cardinality(Used')
  <2>1. 1..k = (1..Cardinality(Used)) \cup {k}
    BY <1>1, <1>5
  <2> QED
    BY <1>5, <1>7, <1>8, <2>1
<1>10. \A j \in Used' : parent'[j] < j
  <2>1. TAKE j \in Used'
  <2>2. CASE j = k
    <3>1. parent'[k] = NoToken \/ parent'[k] \in Used
      BY <1>2, <1>3, <1>4 DEF Base, TypeOK
    <3> QED
      BY <2>2, <3>1, <1>1, <1>5, <1>6 DEF NoToken
  <2>3. CASE j # k
    <3>1. j \in Used /\ parent'[j] = parent[j]
      BY <2>3, <1>3, <1>7 DEF Base, TypeOK, Used
    <3> QED
      BY <3>1 DEF Base, Numbered
  <2> QED
    BY <2>2, <2>3
<1>11. Numbered'
  BY <1>2, <1>7, <1>9, <1>10 DEF Base, TypeOK, Numbered
<1>12. parent' \in [Ids -> Ids \cup {NoToken}]
  BY <1>3, <1>4 DEF Base, TypeOK, Used
<1>13. TypeOK'
  BY <1>2, <1>3, <1>12, PcTyped DEF Base, TypeOK
<1>14. Placed'
  BY <1>2, <1>3, <1>4 DEF Base, TypeOK, Placed
<1>15. Inserts(c, k)
  BY <1>1, <1>2, <1>3, <1>4, <1>6, <1>7 DEF Inserts
<1> QED
  BY <1>1, <1>11, <1>13, <1>14, <1>15 DEF Base

-----------------------------------------------------------------------------
(* A rotated token is dead.                                                *)

\* No row comes to life, no child is born, and who would have revoked a live
\* token is still about to.
LEMMA RotatedKept ==
  ASSUME TypeOK, RotatedIsDead, Used' = Used, parent' = parent,
         \A k \in Ids : rows'[k] = "live" => rows[k] = "live",
         faults < MaxFaults => faults' < MaxFaults,
         \/ faults' < MaxFaults
         \/ \A c \in Calls : pc[c] = "revoke" =>
              (pc'[c] = "revoke" /\ sent'[c] = sent[c]) \/ rows'[sent[c]] # "live"
  PROVE  RotatedIsDead'
<1>1. SUFFICES ASSUME NEW k \in Ids, Children(k)' # {}, rows'[k] = "live", ~(faults' < MaxFaults)
               PROVE  \E c \in Calls : pc'[c] = "revoke" /\ sent'[c] = k
  BY DEF RotatedIsDead
<1>2. Children(k)' = Children(k)
  <2>1. Children(k) = {j \in Used : parent[j] = k}
    BY DEF Children, Used
  <2>2. Children(k)' = {j \in Used' : parent'[j] = k}
    BY DEF Children, Used
  <2> QED
    BY <2>1, <2>2
<1>3. PICK c \in Calls : pc[c] = "revoke" /\ sent[c] = k
  BY <1>1, <1>2 DEF RotatedIsDead
<1> QED
  BY <1>1, <1>3

LEMMA InsertRotated ==
  ASSUME Base, RotatedIsDead, NEW c \in Calls, NEW k, Inserts(c, k)
  PROVE  RotatedIsDead'
<1>1. SUFFICES ASSUME NEW i \in Ids, Children(i)' # {}, rows'[i] = "live", ~(faults' < MaxFaults)
               PROVE  \E d \in Calls : pc'[d] = "revoke" /\ sent'[d] = i
  BY DEF RotatedIsDead
<1>2. /\ k \in Ids /\ k \notin Used /\ Used' = Used \cup {k} /\ sent' = sent /\ faults' = faults
      /\ rows' = [rows EXCEPT ![k] = "live"] /\ k = Cardinality(Used) + 1
  BY DEF Inserts
<1>3. PICK j \in Used' : parent'[j] = i
  BY <1>1 DEF Children, Used
<1>4. CASE j = k
  <2>1. parent'[k] # NoToken
    BY <1>3, <1>4, Bounds DEF NoToken
  <2>2. pc[c] = "insert" /\ pc' = [pc EXCEPT ![c] = "revoke"] /\ parent' = [parent EXCEPT ![k] = sent[c]]
    BY <1>2, <2>1 DEF Inserts, Base, TypeOK
  <2>3. pc'[c] = "revoke" /\ sent'[c] = i
    BY <1>2, <1>3, <1>4, <2>2 DEF Base, TypeOK
  <2> QED
    BY <2>3
<1>5. CASE j # k
  <2>1. j \in Used /\ parent[j] = i /\ j \in Ids
    BY <1>2, <1>3, <1>5 DEF Inserts, Base, TypeOK, Used
  <2>2. i # k
    <3>1. i < j /\ j \in 1..Cardinality(Used) /\ Cardinality(Used) \in Nat
      BY <2>1, UsedIsFinite, Bounds DEF Base, Numbered
    <3> QED
      BY <3>1, <1>2, Bounds
  <2>3. rows[i] = "live"
    BY <1>1, <1>2, <2>2 DEF Base, TypeOK
  <2>4. Children(i) # {}
    BY <2>1 DEF Children, Used
  <2>5. PICK d \in Calls : pc[d] = "revoke" /\ sent[d] = i
    BY <1>1, <1>2, <2>3, <2>4 DEF RotatedIsDead
  <2>6. pc'[d] = "revoke" /\ sent'[d] = i
    BY <1>2, <2>5 DEF Inserts, Base, TypeOK
  <2> QED
    BY <2>6
<1> QED
  BY <1>4, <1>5

LEMMA RotatedStep ==
  ASSUME Base, RotatedIsDead, [Next]_vars
  PROVE  RotatedIsDead'
<1>t. TypeOK /\ faults \in 0..MaxFaults /\ MaxFaults \in Nat
  BY Bounds DEF Base, TypeOK
<1>a. ASSUME NEW c \in Calls, Sends(c) PROVE RotatedIsDead'
  <2>1. Used' = Used
    BY <1>a, SendBase
  <2>2. /\ pc[c] = "idle" /\ UNCHANGED <<rows, parent, faults>>
        /\ \A d \in Calls \ {c} : pc'[d] = pc[d] /\ sent'[d] = sent[d]
    BY <1>a, <1>t DEF Sends, Send, Goto, TypeOK, past
  <2> QED
    BY <1>t, <2>1, <2>2, RotatedKept
<1>b. ASSUME NEW c \in Calls, Ended(c) PROVE RotatedIsDead'
  <2>1. Used' = Used
    BY <1>b, EndBase
  <2>2. /\ pc[c] # "revoke" /\ UNCHANGED <<rows, parent>>
        /\ \A d \in Calls \ {c} : pc'[d] = pc[d] /\ sent'[d] = sent[d]
    BY <1>b, <1>t, PcTyped DEF Ended, Over, Goto, TypeOK
  <2>3. faults < MaxFaults => faults' < MaxFaults
    BY <1>b, <1>t DEF Ended
  <2> QED
    BY <1>t, <2>1, <2>2, <2>3, RotatedKept
<1>c. ASSUME NEW t \in Tabs, Reload(t) PROVE RotatedIsDead'
  <2>1. Used' = Used
    BY <1>c, ReloadBase
  <2>2. /\ UNCHANGED <<rows, parent>>
        /\ \A c \in Calls : Reloaded(t, c)
        /\ \/ faults' < MaxFaults
           \/ faults' = faults /\ \A c \in Calls : c[1] = t => pc[c] = "idle"
    BY <1>c, <1>t, ReloadShape
  <2>3. CASE faults' < MaxFaults
    BY <1>t, <2>1, <2>2, <2>3, RotatedKept
  <2>4. CASE faults' = faults /\ \A c \in Calls : c[1] = t => pc[c] = "idle"
    <3>1. \A c \in Calls : pc[c] = "revoke" => pc'[c] = "revoke" /\ sent'[c] = sent[c]
      BY <2>2, <2>4 DEF Reloaded
    <3> QED
      BY <1>t, <2>1, <2>2, <2>4, <3>1, RotatedKept
  <2> QED
    BY <2>2, <2>3, <2>4
<1>j. ASSUME NEW c \in Calls, NoticeCancel(c) PROVE RotatedIsDead'
  <2>1. Used' = Used /\ UNCHANGED <<rows, parent>> /\ faults' < MaxFaults
    BY <1>j, NoticeBase
  <2> QED
    BY <1>t, <2>1, RotatedKept
<1>k. ASSUME NEW a \in Tabs, NEW t \in Tabs, CookieCopied(a, t) PROVE RotatedIsDead'
  <2>1. Used' = Used /\ UNCHANGED <<rows, parent>> /\ faults' < MaxFaults
    BY <1>k, CopyBase
  <2> QED
    BY <1>t, <2>1, RotatedKept
<1>d. ASSUME NEW c \in Calls, Moves(c) PROVE RotatedIsDead'
  <2>1. Used' = Used
    BY <1>d, MoveBase
  <2>2. PICK place : /\ pc' = [pc EXCEPT ![c] = place] /\ UNCHANGED <<rows, parent, sent>>
                     /\ faults' = faults \/ (faults > 0 /\ faults' = faults - 1)
    BY <1>d DEF Moves, Goto, Quietly
  <2>3. pc[c] = "revoke" => faults' < MaxFaults
    <3>1. pc[c] = "revoke" => faults' # faults
      BY <1>d DEF Moves, Handling, Answered
    <3> QED
      BY <2>2, <3>1, <1>t
  <2>4. faults < MaxFaults => faults' < MaxFaults
    BY <2>2, <1>t
  <2>5. \A e \in Calls \ {c} : pc'[e] = pc[e] /\ sent'[e] = sent[e]
    BY <2>2, <1>t DEF TypeOK
  <2> QED
    BY <1>t, <2>1, <2>2, <2>3, <2>4, <2>5, RotatedKept
<1>e. ASSUME NEW c \in Calls, RevokeAllUserRefreshTokens(c) PROVE RotatedIsDead'
  <2>1. \A k \in Ids : rows'[k] # "live"
    BY <1>e DEF RevokeAllUserRefreshTokens, RevokedFamily
  <2> QED
    BY <2>1 DEF RotatedIsDead
<1>f. ASSUME NEW c \in Calls, InsertNext(c) \/ IssueSession(c) PROVE RotatedIsDead'
  BY <1>f, InsertBase, InsertRotated
<1>g. ASSUME NEW c \in Calls, RevokeRefreshToken(c) PROVE RotatedIsDead'
  <2>1. Used' = Used /\ sent[c] \in Used /\ rows' = [rows EXCEPT ![sent[c]] = "revoked"]
    BY <1>g, RevokeBase
  <2>2. /\ UNCHANGED <<parent, faults, sent>> /\ \A d \in Calls \ {c} : pc'[d] = pc[d]
    BY <1>g, <1>t DEF RevokeRefreshToken, Quietly, Goto, TypeOK, past
  <2>3. rows'[sent[c]] # "live" /\ \A k \in Ids : rows'[k] = "live" => rows[k] = "live"
    BY <2>1, <1>t DEF TypeOK, Used
  <2> QED
    BY <1>t, <2>1, <2>2, <2>3, RotatedKept
<1>h. ASSUME NEW k \in Ids, TokenExpires(k) PROVE RotatedIsDead'
  <2>1. Used' = Used
    BY <1>h, ExpireBase
  <2>2. UNCHANGED <<parent, faults, sent, pc>> /\ \A j \in Ids : rows'[j] = "live" => rows[j] = "live"
    BY <1>h, <1>t DEF TokenExpires, TypeOK, past
  <2> QED
    BY <1>t, <2>1, <2>2, RotatedKept
<1>i. ASSUME UNCHANGED vars PROVE RotatedIsDead'
  BY <1>i DEF vars, past, RotatedIsDead, Children
<1> QED
  BY <1>a, <1>b, <1>c, <1>d, <1>e, <1>f, <1>g, <1>h, <1>i, <1>j, <1>k, <1>t, TabsSend, TabsReceive, AnswersLost,
     HandlersMove DEF Next, Handle

-----------------------------------------------------------------------------
(* Reuse ends the family, but for the rotations that were in flight.       *)

\* The rotations that have seen a token of the revoked family alive.
Rotating == {c \in Rotations : sent[c] \in 1..purged}

\* An escape uses up a rotation that was in flight at the revocation.
FamilyEnded ==
  /\ purged \in Used \cup {NoToken}
  /\ \A k \in 1..purged : rows[k] = "revoked"
  /\ purged # NoToken => Cardinality(Escaped) + Cardinality(Rotating) <= spared

LEMMA FiniteParts ==
  /\ IsFiniteSet(Escaped) /\ IsFiniteSet(Rotating)
  /\ Cardinality(Escaped) \in Nat /\ Cardinality(Rotating) \in Nat
<1>1. Escaped \subseteq Used
  BY DEF Escaped, Used
<1>2. Rotating \subseteq Rotations
  BY DEF Rotating
<1> QED
  BY <1>1, <1>2, UsedIsFinite, RotationsFinite, FS_Subset, FS_CardinalityType

LEMMA EscapedUsed == Escaped = {j \in Used : j > purged /\ parent[j] \in 1..purged}
  BY DEF Escaped, Used

\* No row is inserted, none comes back, and no more rotations have seen one.
LEMMA FamilyKept ==
  ASSUME Base, Base', FamilyEnded, Used' = Used, UNCHANGED <<parent, purged, spared>>,
         \A k \in Ids : rows[k] = "revoked" => rows'[k] = "revoked",
         Cardinality(Rotating') <= Cardinality(Rotating), Cardinality(Rotating') \in Nat
  PROVE  FamilyEnded'
<1>1. Escaped' = Escaped
  BY DEF Escaped, Used
<1>2. purged # NoToken => Cardinality(Escaped') + Cardinality(Rotating') <= spared
  <2>1. Cardinality(Escaped) \in Nat /\ Cardinality(Rotating) \in Nat /\ spared \in Nat
    BY FiniteParts DEF Base, TypeOK
  <2> QED
    BY <1>1, <2>1 DEF FamilyEnded
<1>3. \A k \in 1..purged : k \in Ids
  BY Bounds DEF Base, TypeOK, Ids, NoToken
<1>4. \A k \in 1..purged : rows'[k] = "revoked"
  BY <1>3 DEF FamilyEnded
<1> QED
  BY <1>2, <1>4 DEF FamilyEnded

LEMMA RotatingKept ==
  ASSUME UNCHANGED purged,
         \A c \in Calls : pc'[c] = "insert" /\ sent'[c] \in 1..purged =>
            pc[c] = "insert" /\ sent[c] \in 1..purged
  PROVE  Cardinality(Rotating') <= Cardinality(Rotating) /\ Cardinality(Rotating') \in Nat
<1>1. Rotating' \subseteq Rotating
  BY DEF Rotating, Rotations
<1> QED
  BY <1>1, FiniteParts, FS_Subset, FS_CardinalityType

\* A reload only hands its calls over.
LEMMA RotatingReloaded ==
  ASSUME TypeOK, NEW t \in Tabs, Reload(t)
  PROVE  Cardinality(Rotating') <= Cardinality(Rotating) /\ Cardinality(Rotating') \in Nat
<1> DEFINE g == [c \in Rotating' |-> IF c[1] = t THEN Earlier(c) ELSE c]
<1>1. UNCHANGED purged /\ \A c \in Calls : Reloaded(t, c)
  BY ReloadShape
<1>2. \A c \in Rotating' : c \in Calls /\ pc'[c] = "insert" /\ sent'[c] \in 1..purged
  BY <1>1 DEF Rotating, Rotations
<1>3. \A c \in Rotating' : g[c] \in Rotating
  BY <1>1, <1>2, EarlierCall DEF Reloaded, Rotating, Rotations
<1>4. \A c \in Rotating' : c[1] = t => c[2] \notin PageCalls
  BY <1>1, <1>2 DEF Reloaded
<1>5. ASSUME NEW c \in Rotating', NEW d \in Rotating', g[c] = g[d] PROVE c = d
  <2>1. c[1] = d[1]
    BY <1>2, <1>5, EarlierCall
  <2>2. CASE c[1] = t
    <3>1. Earlier(c) = Earlier(d)
      BY <1>5, <2>1, <2>2
    <3>2. c \in Calls /\ d \in Calls /\ c[2] \in {"left refresh", "left user"} /\ d[2] \in {"left refresh", "left user"}
      BY <1>2, <1>4, <2>1, <2>2 DEF Calls
    <3>3. c[2] = d[2]
      <4>1. (IF c[2] = "left refresh" THEN "refresh" ELSE "user")
              = (IF d[2] = "left refresh" THEN "refresh" ELSE "user")
        BY <3>1 DEF Earlier
      <4>2. "refresh" # "user" /\ "left refresh" # "left user"
        OBVIOUS
      <4>3. CASE c[2] = "left refresh"
        BY <3>2, <4>1, <4>2, <4>3, Zenon
      <4>4. CASE c[2] = "left user"
        BY <3>2, <4>1, <4>2, <4>4, Zenon
      <4> QED
        BY <3>2, <4>3, <4>4
    <3> QED
      BY <2>1, <3>2, <3>3, PairOf
  <2>3. CASE c[1] # t
    BY <1>5, <2>1, <2>3
  <2> QED
    BY <2>2, <2>3
<1> HIDE DEF g
<1>6. g \in [Rotating' -> Rotating]
  BY <1>3 DEF g
<1>7. g \in Injection(Rotating', Rotating)
  BY <1>5, <1>6 DEF Injection, IsInjective
<1> QED
  BY <1>7, FiniteParts, FS_Injection, FS_CardinalityType

LEMMA PurgeEnds ==
  ASSUME Base, Base', Used' = Used, NEW c \in Calls, RevokeAllUserRefreshTokens(c)
  PROVE  FamilyEnded'
<1>1. /\ rows' = [k \in Ids |-> IF rows[k] = "none" THEN "none" ELSE "revoked"]
      /\ purged' = Cardinality(Used) /\ pc' = [pc EXCEPT ![c] = "unauthorized"] /\ pc[c] = "purge"
      /\ spared' = Cardinality(Rotations)
  BY DEF RevokeAllUserRefreshTokens, RevokedFamily, Goto
<1>2. Used = 1..purged' /\ purged' \in Nat
  BY <1>1, UsedIsFinite, Bounds DEF Base, Numbered
<1>3. Escaped' = {}
  <2>1. Escaped' = {j \in Used' : j > purged' /\ parent'[j] \in 1..purged'}
    BY DEF Escaped, Used
  <2> QED
    BY <1>2, <2>1
<1>4. Rotating' \subseteq Rotations
  <2>1. \A d \in Calls : pc'[d] = "insert" => pc[d] = "insert"
    BY <1>1 DEF Base, TypeOK
  <2> QED
    BY <2>1 DEF Rotating, Rotations
<1>5. Cardinality(Rotating') <= Cardinality(Rotations) /\ Cardinality(Rotating') \in Nat
  BY <1>4, RotationsFinite, FS_Subset, FS_CardinalityType
<1>6. Cardinality(Escaped') + Cardinality(Rotating') <= spared'
  BY <1>1, <1>3, <1>5, RotationsFinite, FS_EmptySet
<1>7. \A k \in 1..purged' : rows'[k] = "revoked"
  BY <1>1, <1>2 DEF Used
<1>8. purged' \in Used' \cup {NoToken}
  BY <1>2 DEF NoToken
<1> QED
  BY <1>6, <1>7, <1>8 DEF FamilyEnded

\* A rotation that inserts moves from the one count to the other.
LEMMA InsertEscapes ==
  ASSUME Base, Base', FamilyEnded, NEW c \in Calls, NEW k, Inserts(c, k)
  PROVE  FamilyEnded'
<1>1. /\ k \in Ids /\ k \notin Used /\ k = Cardinality(Used) + 1 /\ Used' = Used \cup {k}
      /\ rows' = [rows EXCEPT ![k] = "live"] /\ UNCHANGED <<sent, purged, spared>>
  BY DEF Inserts
<1>2. Used = 1..Cardinality(Used) /\ Cardinality(Used) \in Nat /\ purged \in 0..Cardinality(Used)
  BY UsedIsFinite, Bounds DEF Base, Numbered, FamilyEnded, NoToken
<1>3. \A i \in 1..purged : rows'[i] = "revoked"
  BY <1>1, <1>2 DEF FamilyEnded, Base, TypeOK, Ids
<1>4. \A j \in Used : parent'[j] = parent[j]
  BY <1>1 DEF Inserts, Base, TypeOK, Used
<1>5. k > purged
  BY <1>1, <1>2
<1>6. Escaped' \subseteq Escaped \cup {k} /\ (parent'[k] \notin 1..purged => Escaped' = Escaped)
  <2>1. Escaped' = {j \in Used' : j > purged /\ parent'[j] \in 1..purged}
    BY <1>1 DEF Escaped, Used
  <2> QED
    BY <1>1, <1>4, <2>1, EscapedUsed
<1>7. Rotating' = Rotating \ {c}
  <2>1. pc'[c] # "insert" /\ \A d \in Calls \ {c} : pc'[d] = pc[d]
    BY DEF Inserts, Base, TypeOK
  <2> QED
    BY <1>1, <2>1 DEF Rotating, Rotations
<1>8. /\ Cardinality(Escaped') <= Cardinality(Escaped) + 1 /\ Cardinality(Escaped') \in Nat
      /\ (parent'[k] \notin 1..purged => Cardinality(Escaped') = Cardinality(Escaped))
  <2>1. IsFiniteSet(Escaped) /\ Cardinality(Escaped) \in Nat
    BY FiniteParts
  <2>2. IsFiniteSet(Escaped \cup {k}) /\ Cardinality(Escaped \cup {k}) <= Cardinality(Escaped) + 1
    <3>1. /\ IsFiniteSet(Escaped \cup {k})
          /\ Cardinality(Escaped \cup {k}) =
               IF k \in Escaped THEN Cardinality(Escaped) ELSE Cardinality(Escaped) + 1
      BY <2>1, FS_AddElement
    <3> QED
      BY <2>1, <3>1
  <2>3. IsFiniteSet(Escaped') /\ Cardinality(Escaped') <= Cardinality(Escaped \cup {k})
    BY <1>6, <2>2, FS_Subset
  <2>4. Cardinality(Escaped') \in Nat /\ Cardinality(Escaped \cup {k}) \in Nat
    BY <2>2, <2>3, FS_CardinalityType
  <2>5. Cardinality(Escaped') <= Cardinality(Escaped) + 1
    BY <2>1, <2>2, <2>3, <2>4
  <2>6. ASSUME parent'[k] \notin 1..purged
        PROVE  Cardinality(Escaped') = Cardinality(Escaped)
    <3>1. Escaped' = Escaped
      BY <1>6, <2>6
    <3> QED
      BY <3>1
  <2> QED
    BY <2>4, <2>5, <2>6
<1>9. /\ Cardinality(Rotating') <= Cardinality(Rotating) /\ Cardinality(Rotating') \in Nat
      /\ (c \in Rotating => Cardinality(Rotating') = Cardinality(Rotating) - 1)
  <2>1. IsFiniteSet(Rotating) /\ Cardinality(Rotating) \in Nat
    BY FiniteParts
  <2>2. /\ IsFiniteSet(Rotating \ {c})
        /\ Cardinality(Rotating \ {c}) =
             IF c \in Rotating THEN Cardinality(Rotating) - 1 ELSE Cardinality(Rotating)
    BY <2>1, FS_RemoveElement
  <2>3. Cardinality(Rotating \ {c}) \in Nat
    BY <2>2, FS_CardinalityType
  <2> QED
    BY <1>7, <2>1, <2>2, <2>3
<1>10. parent'[k] \in 1..purged => c \in Rotating
  <2>1. parent'[k] = NoToken \/ (pc[c] = "insert" /\ parent'[k] = sent[c])
    BY <1>1 DEF Inserts, Base, TypeOK
  <2>2. NoToken \notin 1..purged
    BY <1>2 DEF NoToken
  <2> QED
    BY <2>1, <2>2 DEF Rotating, Rotations
<1>11. Cardinality(Escaped') + Cardinality(Rotating') <= Cardinality(Escaped) + Cardinality(Rotating)
  BY <1>8, <1>9, <1>10, FiniteParts
<1>12. purged # NoToken => Cardinality(Escaped') + Cardinality(Rotating') <= spared
  <2>1. spared \in Nat
    BY DEF Base, TypeOK
  <2> QED
    BY <1>8, <1>9, <1>11, <2>1, FiniteParts DEF FamilyEnded
<1> QED
  BY <1>1, <1>3, <1>12 DEF FamilyEnded

LEMMA FamilyStep ==
  ASSUME Base, Base', FamilyEnded, [Next]_vars
  PROVE  FamilyEnded'
<1>t. TypeOK /\ \A k \in 1..purged : k \in Ids /\ rows[k] = "revoked"
  BY Bounds DEF Base, TypeOK, FamilyEnded, Ids, NoToken
<1>a. ASSUME NEW c \in Calls, Sends(c) PROVE FamilyEnded'
  <2>1. Used' = Used
    BY <1>a, SendBase
  <2>2. /\ UNCHANGED <<rows, parent, purged, spared>> /\ pc'[c] # "insert"
        /\ \A d \in Calls \ {c} : pc'[d] = pc[d] /\ sent'[d] = sent[d]
    BY <1>a, <1>t DEF Sends, Send, Goto, TypeOK, past
  <2>3. Cardinality(Rotating') <= Cardinality(Rotating) /\ Cardinality(Rotating') \in Nat
    BY <2>2, RotatingKept
  <2> QED
    BY <2>1, <2>2, <2>3, FamilyKept
<1>b. ASSUME NEW c \in Calls, Ended(c) PROVE FamilyEnded'
  <2>1. Used' = Used
    BY <1>b, EndBase
  <2>2. /\ UNCHANGED <<rows, parent, purged, spared>> /\ pc'[c] # "insert"
        /\ \A d \in Calls \ {c} : pc'[d] = pc[d] /\ sent'[d] = sent[d]
    BY <1>b, <1>t DEF Ended, Over, Goto, TypeOK
  <2>3. Cardinality(Rotating') <= Cardinality(Rotating) /\ Cardinality(Rotating') \in Nat
    BY <2>2, RotatingKept
  <2> QED
    BY <2>1, <2>2, <2>3, FamilyKept
<1>c. ASSUME NEW t \in Tabs, Reload(t) PROVE FamilyEnded'
  <2>1. Used' = Used
    BY <1>c, ReloadBase
  <2>2. UNCHANGED <<rows, parent, purged, spared>>
    BY <1>c, <1>t, ReloadShape
  <2>3. Cardinality(Rotating') <= Cardinality(Rotating) /\ Cardinality(Rotating') \in Nat
    BY <1>c, <1>t, RotatingReloaded
  <2> QED
    BY <2>1, <2>2, <2>3, FamilyKept
<1>j. ASSUME NEW c \in Calls, NoticeCancel(c) PROVE FamilyEnded'
  <2>1. /\ Used' = Used /\ UNCHANGED <<rows, parent, purged, spared>>
        /\ pc' = [pc EXCEPT ![c] = "idle"] /\ sent' = [sent EXCEPT ![c] = NoToken]
    BY <1>j, NoticeBase
  <2>2. pc'[c] = "idle" /\ \A d \in Calls \ {c} : pc'[d] = pc[d] /\ sent'[d] = sent[d]
    BY <2>1, <1>t DEF TypeOK
  <2>3. Cardinality(Rotating') <= Cardinality(Rotating) /\ Cardinality(Rotating') \in Nat
    BY <2>1, <2>2, RotatingKept
  <2> QED
    BY <2>1, <2>3, FamilyKept
<1>k. ASSUME NEW a \in Tabs, NEW t \in Tabs, CookieCopied(a, t) PROVE FamilyEnded'
  <2>1. Used' = Used /\ UNCHANGED <<rows, parent, purged, spared, pc, sent>>
    BY <1>k, CopyBase
  <2>2. Cardinality(Rotating') <= Cardinality(Rotating) /\ Cardinality(Rotating') \in Nat
    BY <2>1, RotatingKept
  <2> QED
    BY <2>1, <2>2, FamilyKept
<1>d. ASSUME NEW c \in Calls, Moves(c) PROVE FamilyEnded'
  <2>1. Used' = Used
    BY <1>d, MoveBase
  <2>2. PICK place : /\ pc' = [pc EXCEPT ![c] = place] /\ UNCHANGED <<rows, parent, sent, purged, spared>>
                     /\ place = "insert" => rows[sent[c]] # "revoked"
    BY <1>d DEF Moves, Goto, Quietly
  <2>3. pc'[c] = "insert" => sent[c] \notin 1..purged
    BY <2>2, <1>t DEF TypeOK
  <2>4. \A d \in Calls \ {c} : pc'[d] = pc[d]
    BY <2>2, <1>t DEF TypeOK
  <2>5. Cardinality(Rotating') <= Cardinality(Rotating) /\ Cardinality(Rotating') \in Nat
    BY <2>2, <2>3, <2>4, RotatingKept
  <2> QED
    BY <2>1, <2>2, <2>5, FamilyKept
<1>e. ASSUME NEW c \in Calls, RevokeAllUserRefreshTokens(c) PROVE FamilyEnded'
  BY <1>e, PurgeBase, PurgeEnds
<1>f. ASSUME NEW c \in Calls, InsertNext(c) \/ IssueSession(c) PROVE FamilyEnded'
  BY <1>f, InsertBase, InsertEscapes
<1>g. ASSUME NEW c \in Calls, RevokeRefreshToken(c) PROVE FamilyEnded'
  <2>1. Used' = Used /\ sent[c] \in Used /\ rows' = [rows EXCEPT ![sent[c]] = "revoked"]
    BY <1>g, RevokeBase
  <2>2. /\ UNCHANGED <<parent, purged, spared, sent>> /\ pc'[c] # "insert"
        /\ \A d \in Calls \ {c} : pc'[d] = pc[d]
    BY <1>g, <1>t DEF RevokeRefreshToken, Quietly, Goto, TypeOK, past
  <2>3. \A k \in Ids : rows[k] = "revoked" => rows'[k] = "revoked"
    BY <2>1, <1>t DEF TypeOK
  <2>4. Cardinality(Rotating') <= Cardinality(Rotating) /\ Cardinality(Rotating') \in Nat
    BY <2>2, RotatingKept
  <2> QED
    BY <2>1, <2>2, <2>3, <2>4, FamilyKept
<1>h. ASSUME NEW k \in Ids, TokenExpires(k) PROVE FamilyEnded'
  <2>1. Used' = Used
    BY <1>h, ExpireBase
  <2>2. /\ UNCHANGED <<parent, purged, spared, sent, pc>>
        /\ \A j \in Ids : rows[j] = "revoked" => rows'[j] = "revoked"
    BY <1>h, <1>t DEF TokenExpires, TypeOK, past
  <2>3. Cardinality(Rotating') <= Cardinality(Rotating) /\ Cardinality(Rotating') \in Nat
    BY <2>2, RotatingKept
  <2> QED
    BY <2>1, <2>2, <2>3, FamilyKept
<1>i. ASSUME UNCHANGED vars PROVE FamilyEnded'
  <2>1. Used' = Used /\ UNCHANGED <<rows, parent, purged, spared, pc, sent>>
    BY <1>i DEF vars, past, Used
  <2>2. Cardinality(Rotating') <= Cardinality(Rotating) /\ Cardinality(Rotating') \in Nat
    BY <2>1, RotatingKept
  <2> QED
    BY <2>1, <2>2, FamilyKept
<1> QED
  BY <1>a, <1>b, <1>c, <1>d, <1>e, <1>f, <1>g, <1>h, <1>i, <1>j, <1>k, <1>t, TabsSend, TabsReceive, AnswersLost,
     HandlersMove DEF Next, Handle

-----------------------------------------------------------------------------
(* Browsers that make one call at a time are never mistaken for thieves.   *)

Works(k) == k # NoToken => rows[k] \in {"live", "expired"}

\* No two browsers have the same token.
Apart == \A a, b \in Browsers : a # b /\ cookie[a] = cookie[b] => cookie[a] = NoToken

\* Where the only call is, what it knows of its token and of the next one;
\* the other browsers' cookies work meanwhile.
QuietCall(c) ==
  /\ pc[c] # "purge"
  /\ pc[c] # "idle" => \A d \in Calls \ {c} : pc[d] = "idle"
  /\ pc[c] # "idle" => \A b \in Browsers \ {home[c[1]]} : Works(cookie[b])
  /\ pc[c] \in {"select", "insert"} => Works(sent[c])
  /\ pc[c] \in {"select", "insert", "revoke", "forget"} => sent[c] = Jar(c[1])
  /\ pc[c] \in {"revoke", "mint", "ok", "loggedin"} =>
       Works(next[c]) /\ next[c] # NoToken /\ \A b \in Browsers : cookie[b] # next[c]
  /\ pc[c] = "failed" => Jar(c[1]) = NoToken

QuietOK ==
  Quiet => /\ \A c \in Calls : QuietCall(c)
           /\ Apart
           /\ Idle => \A b \in Browsers : Works(cookie[b])

LEMMA QuietBefore ==
  ASSUME TypeOK, [Next]_vars, Quiet'
  PROVE  Quiet /\ faults' = faults
<1>1. faults' = faults \/ (faults > 0 /\ faults' = faults - 1)
  BY DEF Next, vars, RefreshSession, Login, SignOut, Send, Receive, ReceiveRefresh, ReceiveLogin,
     ReceiveLogout, Reload, Fault, Handle, Select, RevokeAllUserRefreshTokens, InsertNext,
     IssueSession, CreateRefreshToken, RevokeRefreshToken, MintAccess, Refused, DbFails, AnswerLost,
     TokenExpires, NoticeCancel, CookieCopied
<1>2. ~overlap' => ~overlap
  BY DEF Next, vars, RefreshSession, Login, SignOut, Send, Receive, ReceiveRefresh, ReceiveLogin,
     ReceiveLogout, Reload, Quietly, Handle, Select, RevokeAllUserRefreshTokens, InsertNext,
     IssueSession, CreateRefreshToken, RevokeRefreshToken, MintAccess, Refused, DbFails, AnswerLost,
     TokenExpires, NoticeCancel, CookieCopied
<1>3. faults' = MaxFaults /\ faults' = faults
  BY <1>1, Bounds DEF Quiet, TypeOK
<1> QED
  BY <1>2, <1>3 DEF Quiet

\* Nothing but the call c goes on: the others were idle and stay so.
LEMMA QuietAlone ==
  ASSUME NEW c \in Calls, TypeOK, QuietCall(c), pc[c] # "idle",
         \A d \in Calls \ {c} : pc'[d] = pc[d],
         pc'[c] # "idle", QuietCall(c)'
  PROVE  (\A d \in Calls : QuietCall(d)') /\ ~Idle'
<1>1. \A d \in Calls \ {c} : pc'[d] = "idle"
  BY DEF QuietCall
<1> QED
  BY <1>1 DEF QuietCall, Idle

LEMMA QuietStep ==
  ASSUME Base, QuietOK, [Next]_vars
  PROVE  QuietOK'
<1> DEFINE Goal == /\ \A c \in Calls : QuietCall(c)'
                   /\ Apart'
                   /\ Idle' => \A b \in Browsers : Works(cookie[b])'
<1> SUFFICES ASSUME Quiet' PROVE Goal
  BY DEF QuietOK
<1>q. Quiet /\ faults' = faults
  BY QuietBefore DEF Base
<1>t. /\ TypeOK /\ Apart /\ faults \in Nat /\ faults = MaxFaults
      /\ \A c \in Calls : QuietCall(c)
      /\ Idle => \A b \in Browsers : Works(cookie[b])
  BY <1>q, Bounds DEF Base, TypeOK, QuietOK, Quiet
<1>a. ASSUME NEW c \in Calls, Sends(c) PROVE Goal
  <2>1. PICK place \in {"failed", "select", "issue", "loggedout", "forget"} :
          /\ pc' = [pc EXCEPT ![c] = place] /\ sent' = [sent EXCEPT ![c] = Jar(c[1])]
          /\ overlap' = (overlap \/ ~Idle) /\ UNCHANGED <<rows, home, cookie, next>>
          /\ place = "failed" => Jar(c[1]) = NoToken
    BY <1>a DEF Sends, Send, Goto
  <2>2. Idle /\ \A b \in Browsers : Works(cookie[b])
    BY <2>1, <1>t DEF Quiet
  <2>3. /\ pc'[c] = place /\ sent'[c] = Jar(c[1])
        /\ \A d \in Calls \ {c} : pc'[d] = "idle"
    BY <2>1, <2>2, <1>t DEF TypeOK, Idle
  <2>4. /\ \A b \in Browsers : Works(cookie[b])'
        /\ Jar(c[1])' = Jar(c[1]) /\ Apart'
    BY <2>1, <2>2, <1>t DEF Works, Jar, Apart
  <2>5. Works(sent[c])'
    BY <2>3, <2>4, <1>t, TabOf, <2>2, <2>1 DEF Works, Jar
  <2>6. \A d \in Calls : QuietCall(d)'
    BY <2>1, <2>3, <2>4, <2>5 DEF QuietCall
  <2> QED
    BY <2>4, <2>6
<1>b. ASSUME NEW c \in Calls, Ended(c) PROVE Goal
  <2>0. ~(faults > 0 /\ faults' = faults - 1)
    BY <1>q, <1>t
  <2>1. PICK k :
          /\ pc' = [pc EXCEPT ![c] = "idle"] /\ UNCHANGED <<rows, home>>
          /\ cookie' = [cookie EXCEPT ![home[c[1]]] = k]
          /\ k = IF pc[c] \in {"ok", "loggedin"} THEN next[c]
                 ELSE IF pc[c] = "failed" THEN Jar(c[1]) ELSE NoToken
    BY <1>b, <2>0, Zenon DEF Ended, Over, Goto
  <2>2. pc[c] # "idle" /\ QuietCall(c)
    BY <1>b, <1>t DEF Ended, Answered
  <2>3. \A d \in Calls : pc'[d] = "idle"
    <3>1. \A d \in Calls \ {c} : pc[d] = "idle"
      BY <2>2 DEF QuietCall
    <3>2. pc'[c] = "idle" /\ \A d \in Calls \ {c} : pc'[d] = pc[d]
      BY <2>1, <1>t DEF TypeOK
    <3> QED
      BY <3>1, <3>2
  <2>4. Works(k) /\ (k # NoToken => \A b \in Browsers : cookie[b] # k)
    BY <2>1, <2>2 DEF QuietCall, Works
  <2>5. /\ home[c[1]] \in Browsers /\ cookie'[home[c[1]]] = k
        /\ \A b \in Browsers \ {home[c[1]]} : cookie'[b] = cookie[b] /\ Works(cookie[b])
    BY <2>1, <2>2, <1>t, TabOf DEF TypeOK, QuietCall
  <2>6. \A b \in Browsers : Works(cookie[b])'
    BY <2>1, <2>4, <2>5 DEF Works
  <2>7. Apart'
    BY <2>4, <2>5, <1>t DEF Apart
  <2> QED
    BY <2>3, <2>6, <2>7 DEF QuietCall
<1>c. ASSUME NEW t \in Tabs, Reload(t) PROVE Goal
  <2>1. /\ UNCHANGED <<rows, home, cookie>>
        /\ \A c \in Calls : Reloaded(t, c)
        /\ \A c \in Calls : c[1] = t => pc[c] = "idle" /\ pc'[c] = "idle"
    BY <1>c, <1>q, <1>t, ReloadShape
  <2>2. \A c \in Calls : pc'[c] = pc[c] /\ (c[1] # t => sent'[c] = sent[c] /\ next'[c] = next[c])
    BY <2>1 DEF Reloaded
  <2>3. \A c \in Calls : Jar(c[1])' = Jar(c[1])
    BY <2>1 DEF Jar
  <2>4. \A c \in Calls : c[1] = t => QuietCall(c)'
    BY <2>1 DEF QuietCall
  <2>5. \A c \in Calls : c[1] # t => QuietCall(c)'
    BY <2>1, <2>2, <2>3, <1>t DEF QuietCall, Works
  <2> QED
    BY <2>1, <2>2, <2>4, <2>5, <1>t DEF Idle, Apart, Works
<1>d. ASSUME NEW c \in Calls, Moves(c) PROVE Goal
  <2>1. PICK place \in Handling \cup Answered :
          /\ pc[c] \in Handling /\ pc' = [pc EXCEPT ![c] = place]
          /\ UNCHANGED <<rows, home, cookie, sent, next>>
          /\ place \in {"purge", "insert"} => pc[c] = "select"
          /\ place = "purge" => rows[sent[c]] = "revoked"
          /\ place = "ok" => pc[c] = "mint"
          /\ place \notin {"select", "revoke", "forget", "issue", "mint", "loggedin", "failed", "idle"}
    BY <1>d, <1>q, PcTyped DEF Moves, Goto, Quietly, Handling, Answered
  <2>2. /\ pc[c] # "idle" /\ pc'[c] = place /\ place # "idle" /\ next'[c] = next[c] /\ sent'[c] = sent[c]
        /\ \A d \in Calls \ {c} : pc'[d] = pc[d]
    BY <2>1, <1>t DEF TypeOK, Handling
  <2>3. QuietCall(c) /\ \A d \in Calls \ {c} : pc'[d] = "idle"
    BY <2>2, <1>t DEF QuietCall
  <2>4. pc[c] = "select" => sent[c] # NoToken /\ rows[sent[c]] # "revoked"
    BY <2>3 DEF QuietCall, Works, Base, Placed
  <2>5. Jar(c[1])' = Jar(c[1]) /\ Apart'
    BY <2>1, <1>t DEF Jar, Apart
  <2>6. QuietCall(c)'
    BY <2>1, <2>2, <2>3, <2>4, <2>5 DEF QuietCall, Works
  <2> QED
    BY <2>2, <2>3, <2>5, <2>6, <1>t, QuietAlone
<1>e. ASSUME NEW c \in Calls, RevokeAllUserRefreshTokens(c) PROVE Goal
  BY <1>e, <1>t DEF RevokeAllUserRefreshTokens, QuietCall
<1>f. ASSUME NEW c \in Calls, InsertNext(c) \/ IssueSession(c) PROVE Goal
  <2>1. PICK k : Inserts(c, k)
    BY <1>f, InsertBase
  <2>2. /\ k \in Ids /\ k \notin Used /\ k # NoToken
        /\ rows'[k] = "live" /\ next'[c] = k /\ sent'[c] = sent[c]
        /\ UNCHANGED <<home, cookie>> /\ \A d \in Calls \ {c} : pc'[d] = pc[d]
        /\ (pc[c] = "insert" /\ pc'[c] = "revoke") \/ (pc[c] = "issue" /\ pc'[c] = "loggedin")
    BY <2>1, <1>t, Bounds DEF Inserts, TypeOK, NoToken
  <2>3. \A b \in Browsers : cookie[b] # k
    BY <2>2 DEF Base, Numbered
  <2>4. \A j \in Used : rows'[j] = rows[j]
    BY <2>1, <2>2, <1>t DEF Inserts, TypeOK, Used
  <2>5. QuietCall(c) /\ \A d \in Calls \ {c} : pc'[d] = "idle"
    BY <2>2, <1>t DEF QuietCall
  <2>6. \A b \in Browsers : Works(cookie[b]) => Works(cookie[b])'
    BY <2>2, <2>4 DEF Works, Base, Numbered
  <2>7. Jar(c[1])' = Jar(c[1]) /\ Apart'
    BY <2>2, <1>t DEF Jar, Apart
  <2>8. QuietCall(c)'
    BY <2>2, <2>3, <2>5, <2>6, <2>7 DEF QuietCall, Works
  <2> QED
    BY <2>2, <2>5, <2>7, <2>8, <1>t, QuietAlone
<1>g. ASSUME NEW c \in Calls, RevokeRefreshToken(c) PROVE Goal
  <2>1. sent[c] \in Used /\ rows' = [rows EXCEPT ![sent[c]] = "revoked"] /\ sent[c] # NoToken
    BY <1>g, RevokeBase DEF RevokeRefreshToken, Base, Placed
  <2>2. /\ UNCHANGED <<next, sent, home, cookie>> /\ \A d \in Calls \ {c} : pc'[d] = pc[d]
        /\ (pc[c] = "revoke" /\ pc'[c] = "mint") \/ (pc[c] = "forget" /\ pc'[c] = "loggedout")
    BY <1>g, <1>t DEF RevokeRefreshToken, Quietly, Goto, TypeOK
  <2>3. QuietCall(c) /\ \A d \in Calls \ {c} : pc'[d] = "idle"
    BY <2>2, <1>t DEF QuietCall
  <2>4. \A j \in Ids : j # sent[c] => rows'[j] = rows[j]
    BY <2>1, <1>t DEF TypeOK
  <2>5. sent[c] = Jar(c[1]) /\ home[c[1]] \in Browsers
    BY <2>2, <2>3, <1>t, TabOf DEF QuietCall
  <2>6. pc[c] = "revoke" => Works(next[c])' /\ \A b \in Browsers : cookie'[b] # next'[c]
    <3>1. pc[c] = "revoke" => next[c] # sent[c] /\ Works(next[c]) /\ \A b \in Browsers : cookie[b] # next[c]
      BY <2>3, <2>5 DEF QuietCall, Jar
    <3>2. next[c] \in Ids \cup {NoToken}
      BY <1>t DEF TypeOK
    <3> QED
      BY <2>2, <2>4, <3>1, <3>2 DEF Works
  <2>7. \A b \in Browsers \ {home[c[1]]} : Works(cookie[b])'
    <3>1. ASSUME NEW b \in Browsers \ {home[c[1]]} PROVE Works(cookie[b])'
      <4>1. cookie[b] # sent[c]
        BY <2>1, <2>5, <1>t DEF Apart, Jar
      <4>2. Works(cookie[b]) /\ cookie[b] \in Ids \cup {NoToken}
        BY <2>2, <2>3, <1>t DEF QuietCall, TypeOK
      <4> QED
        BY <2>2, <2>4, <4>1, <4>2 DEF Works
    <3> QED
      BY <3>1
  <2>8. QuietCall(c)' /\ Apart'
    BY <2>2, <2>3, <2>6, <2>7, <1>t DEF QuietCall, Apart
  <2> QED
    BY <2>2, <2>3, <2>8, <1>t, QuietAlone
<1>h. ASSUME NEW k \in Ids, TokenExpires(k) PROVE Goal
  <2>1. /\ UNCHANGED <<home, cookie, pc, sent, next>>
        /\ \A j \in Ids : rows[j] \in {"live", "expired"} => rows'[j] \in {"live", "expired"}
    BY <1>h, <1>t DEF TokenExpires, TypeOK
  <2>2. \A c \in Calls : (Works(sent[c]) => Works(sent[c])') /\ (Works(next[c]) => Works(next[c])')
    BY <2>1, <1>t DEF TypeOK, Works
  <2>3. \A b \in Browsers : Works(cookie[b]) => Works(cookie[b])'
    BY <2>1, <1>t DEF TypeOK, Works
  <2>4. Apart' /\ \A c \in Calls : Jar(c[1])' = Jar(c[1])
    BY <2>1, <1>t DEF Apart, Jar
  <2>5. \A c \in Calls : QuietCall(c)'
    BY <2>1, <2>2, <2>3, <2>4, <1>t DEF QuietCall
  <2> QED
    BY <2>1, <2>3, <2>4, <2>5, <1>t DEF Idle
<1>i. ASSUME UNCHANGED vars PROVE Goal
  BY <1>i, <1>t DEF vars, QuietCall, Works, Idle, Jar, Apart
<1>j. ASSUME NEW c \in Calls, NoticeCancel(c) PROVE Goal
  BY <1>j, <1>t, NoticeBase, Bounds
<1>k. ASSUME NEW a \in Tabs, NEW t \in Tabs, CookieCopied(a, t) PROVE Goal
  BY <1>k, <1>q, <1>t, CopyBase, Bounds
<1> QED
  BY <1>a, <1>b, <1>c, <1>d, <1>e, <1>f, <1>g, <1>h, <1>i, <1>j, <1>k, <1>t, TabsSend, TabsReceive, AnswersLost,
     HandlersMove DEF Next, Handle

-----------------------------------------------------------------------------
(* The theorems.                                                           *)

Inv == Base /\ RotatedIsDead /\ FamilyEnded /\ QuietOK

LEMMA InvInit == Init => Inv
<1> SUFFICES ASSUME Init PROVE Inv
  OBVIOUS
<1>1. TypeOK
  <2>1. logins \in 0..MaxLogins /\ faults \in 0..MaxFaults
    BY Bounds DEF Init
  <2>2. "idle" \in {"idle"} \cup Handling \cup Answered
    OBVIOUS
  <2> QED
    BY <2>1, <2>2 DEF Init, TypeOK
<1>2. Used = {} /\ Cardinality(Used) = 0
  BY FS_EmptySet DEF Init, Used
<1>3. Base
  BY <1>1, <1>2 DEF Base, Init, Numbered, Placed
<1>4. RotatedIsDead
  BY DEF Init, RotatedIsDead
<1>5. FamilyEnded
  BY DEF Init, FamilyEnded, NoToken
<1>6. QuietOK
  BY DEF Init, QuietOK, QuietCall, Works, Apart
<1> QED
  BY <1>3, <1>4, <1>5, <1>6 DEF Inv

LEMMA BaseStep ==
  ASSUME Base, [Next]_vars
  PROVE  Base'
<1>t. TypeOK
  BY DEF Base
<1>1. ASSUME UNCHANGED vars PROVE Base'
  BY <1>1 DEF vars, past, Base, TypeOK, Numbered, Placed, Used
<1> QED
  BY <1>t, <1>1, TabsSend, TabsReceive, AnswersLost, HandlersMove, SendBase, EndBase, ReloadBase, NoticeBase, CopyBase,
     MoveBase, PurgeBase, RevokeBase, ExpireBase, InsertBase DEF Next, Handle

LEMMA InvStep == Inv /\ [Next]_vars => Inv'
<1> SUFFICES ASSUME Inv, [Next]_vars PROVE Inv'
  OBVIOUS
<1>1. Base /\ RotatedIsDead /\ FamilyEnded /\ QuietOK
  BY DEF Inv
<1>2. Base'
  BY <1>1, BaseStep
<1>3. RotatedIsDead' /\ QuietOK'
  BY <1>1, RotatedStep, QuietStep
<1>4. FamilyEnded'
  BY <1>1, <1>2, FamilyStep
<1> QED
  BY <1>2, <1>3, <1>4 DEF Inv

LEMMA InvHolds == Spec => []Inv
  BY InvInit, InvStep, PTL DEF Spec

\* Type correctness of the rows, the cookie and all calls, under every fault.
THEOREM SessionTyped == Spec => []TypeOK
<1>1. Inv => TypeOK
  BY DEF Inv, Base
<1> QED
  BY <1>1, InvHolds, PTL

\* The two statements of a rotation, with any number of tabs in between.
THEOREM RotationKills == Spec => []RotatedIsDead
<1>1. Inv => RotatedIsDead
  BY DEF Inv
<1> QED
  BY <1>1, InvHolds, PTL

\* After reuse no token from before is live in any browser, and new ones come
\* from logins, but for one successor for each rotation that was between its
\* SELECT and its INSERT when the family was revoked.
THEOREM ReuseIsContained == Spec => []ReuseEndsFamily
<1>1. Inv => ReuseEndsFamily
  <2>1. SUFFICES ASSUME Inv, purged # NoToken PROVE ReuseEndsFamily
    BY DEF ReuseEndsFamily
  <2>2. \A k \in 1..purged : rows[k] # "live"
    BY <2>1 DEF Inv, FamilyEnded
  <2>3. Cardinality(Escaped) + Cardinality(Rotating) <= spared /\ spared \in Nat
    BY <2>1 DEF Inv, FamilyEnded, Base, TypeOK
  <2>4. Cardinality(Escaped) <= spared
    BY <2>3, FiniteParts
  <2> QED
    BY <2>2, <2>4 DEF ReuseEndsFamily
<1> QED
  BY <1>1, InvHolds, PTL

\* Rotation itself never looks like reuse, however often and long it goes on.
THEOREM QuietBrowserKeepsItsSession == Spec => []QuietSession
<1>1. Inv => QuietSession
  BY DEF Inv, QuietOK, QuietSession, QuietCall, Works
<1> QED
  BY <1>1, InvHolds, PTL
=============================================================================
