------------------------ MODULE AccountConnectionProofs ------------------------
(***************************************************************************)
(* Proofs about module AccountConnection, for any connections, rooms and   *)
(* number of retries, in two parts that do not need each other.            *)
(*                                                                         *)
(* The connection: the rooms never decide about it, say the first lemmas.  *)
(* Stream errors, which call onDisconnect() twice, are part of it: what is *)
(* proved holds through them, up to a sign-in with the timer armed.        *)
(*                                                                         *)
(* The rooms: whatever the connection does, stream errors included. What   *)
(* onDisconnect()'s loop leaves in a list is found by induction over it.   *)
(***************************************************************************)
EXTENDS AccountConnection, SequenceTheorems, WellFoundedInduction, TLAPS

Fields == {"connection", "connected", "connecting", "connectionInitialized",
           "initConnectionState", "userDisconnect", "reconnectStep", "reconnectTimeout",
           "notices", "deck", "conferences", "rejoining", "room"}

\* b differs from a in the rooms at most.
RoomsOnly(a, b) ==
  /\ DOMAIN b = DOMAIN a
  /\ b.connection = a.connection /\ b.connected = a.connected
  /\ b.connecting = a.connecting /\ b.connectionInitialized = a.connectionInitialized
  /\ b.initConnectionState = a.initConnectionState
  /\ b.userDisconnect = a.userDisconnect /\ b.reconnectStep = a.reconnectStep
  /\ b.reconnectTimeout = a.reconnectTimeout
  /\ b.notices = a.notices /\ b.deck = a.deck

-----------------------------------------------------------------------------
(* What the methods change                                                 *)

\* Any change of the rooms' fields is one of the rooms only.
LEMMA RoomFields ==
  ASSUME NEW a, NEW x, NEW y, NEW z, DOMAIN a = Fields
  PROVE  /\ RoomsOnly(a, [a EXCEPT !.room = x])
         /\ RoomsOnly(a, [a EXCEPT !.conferences = y])
         /\ RoomsOnly(a, [a EXCEPT !.conferences = y, !.room = x])
         /\ RoomsOnly(a, [a EXCEPT !.conferences = y, !.rejoining = z, !.room = x])
         /\ RoomsOnly(a, [a EXCEPT !.rejoining = z, !.conferences = y, !.room = x])
  BY DEF RoomsOnly, Fields

\* The rooms' methods leave the connection alone.
LEMMA RoomMethods ==
  ASSUME NEW a, NEW r, NEW x, DOMAIN a = Fields
  PROVE  /\ RoomsOnly(a, UpdateRoom(a, r, x))
         /\ RoomsOnly(a, JoinRoom(a, r))
         /\ RoomsOnly(a, ExitRoomCleanup(a, r))
         /\ RoomsOnly(a, SendPresenceToRooms(a))
         /\ RoomsOnly(a, RejoinRooms(a))
         /\ RoomsOnly(a, CleanRooms(a))
<1>1. ASSUME NEW b, NEW s, NEW y, DOMAIN b = Fields PROVE RoomsOnly(b, UpdateRoom(b, s, y))
  BY <1>1, RoomFields DEF UpdateRoom
<1>2. RoomsOnly(a, a)
  BY DEF RoomsOnly
<1>3. ASSUME NEW y, NEW z PROVE RoomsOnly(a, UpdateRoom([a EXCEPT !.conferences = y], r, z))
  <2> DEFINE b == [a EXCEPT !.conferences = y]
  <2>1. RoomsOnly(a, b)
    BY RoomFields
  <2>2. DOMAIN b = Fields
    OBVIOUS
  <2> HIDE DEF b
  <2>3. RoomsOnly(b, UpdateRoom(b, r, z))
    BY <1>1, <2>2
  <2>4. RoomsOnly(a, UpdateRoom(b, r, z))
    BY <2>1, <2>3 DEF RoomsOnly
  <2> QED
    BY <2>4, SMTT(60) DEF b
<1>4. RoomsOnly(a, JoinRoom(a, r))
  BY <1>2, <1>3, SMTT(60) DEF JoinRoom
<1>5. RoomsOnly(a, ExitRoomCleanup(a, r))
  BY <1>3 DEF ExitRoomCleanup
<1>6. RoomsOnly(a, SendPresenceToRooms(a))
  BY RoomFields DEF SendPresenceToRooms
<1>7. RoomsOnly(a, RejoinRooms(a))
  BY RoomFields DEF RejoinRooms
<1>8. RoomsOnly(a, CleanRooms(a))
  BY RoomFields DEF CleanRooms
<1> QED
  BY <1>1, <1>4, <1>5, <1>6, <1>7, <1>8, SMTT(60)

\* onDisconnect() leaves the stub behind; what it shows says whether the timer is armed, and
\* it is not when the disconnect was intended or the attempts are used up.
LEMMA Disconnected ==
  ASSUME NEW a, DOMAIN a = Fields, a.reconnectTimeout = FALSE, a.userDisconnect \in BOOLEAN
  PROVE  LET d == OnDisconnect(a) IN
         /\ DOMAIN d = Fields
         /\ d.connection = Stub /\ d.connected = FALSE /\ d.connecting = FALSE
         /\ d.connectionInitialized = FALSE /\ d.initConnectionState = {}
         /\ d.userDisconnect = FALSE
         /\ d.reconnectTimeout \in BOOLEAN
         /\ d.deck = IF d.reconnectTimeout THEN "progress" ELSE "form"
         /\ a.userDisconnect => d.reconnectTimeout = FALSE
         /\ "tried" \notin a.notices /\ "tried" \in d.notices => d.reconnectTimeout = FALSE
<1> DEFINE b == [CleanRooms(a) EXCEPT
                  !.connection = Stub, !.connected = FALSE, !.connecting = FALSE,
                  !.connectionInitialized = FALSE, !.initConnectionState = {},
                  !.userDisconnect = FALSE, !.deck = "form"]
           l == [b EXCEPT !.notices = @ \cup {"lost"}]
<1>1. /\ DOMAIN b = Fields
      /\ b.connection = Stub /\ b.connected = FALSE /\ b.connecting = FALSE
      /\ b.connectionInitialized = FALSE /\ b.initConnectionState = {}
      /\ b.userDisconnect = FALSE /\ b.deck = "form"
      /\ b.reconnectTimeout = FALSE /\ b.notices = a.notices
  BY RoomMethods DEF RoomsOnly, Fields
<1>2. OnDisconnect(a) = IF a.userDisconnect THEN b ELSE IF AutoReconnect THEN Reconnect(b) ELSE l
  BY DEF OnDisconnect
<1> HIDE DEF b
<1>3. CASE a.userDisconnect
  BY <1>1, <1>2, <1>3
<1>4. CASE ~a.userDisconnect /\ AutoReconnect
  <2> DEFINE again == [b EXCEPT !.reconnectStep = @ + 1, !.reconnectTimeout = TRUE,
                         !.deck = "progress",
                         !.notices = IF b.reconnectStep = 0 THEN @ \cup {"reconnecting"} ELSE @]
             tried == [b EXCEPT !.reconnectStep = 0, !.notices = @ \cup {"tried"}]
  <2>1. OnDisconnect(a) = tried \/ OnDisconnect(a) = again
    BY <1>1, <1>2, <1>4 DEF Reconnect
  <2>2. /\ DOMAIN tried = Fields /\ tried.connection = Stub /\ tried.connected = FALSE
        /\ tried.connecting = FALSE /\ tried.connectionInitialized = FALSE
        /\ tried.initConnectionState = {} /\ tried.userDisconnect = FALSE
        /\ tried.reconnectTimeout = FALSE /\ tried.deck = "form"
    BY <1>1 DEF Fields
  <2>3. /\ DOMAIN again = Fields /\ again.connection = Stub /\ again.connected = FALSE
        /\ again.connecting = FALSE /\ again.connectionInitialized = FALSE
        /\ again.initConnectionState = {} /\ again.userDisconnect = FALSE
        /\ again.reconnectTimeout = TRUE /\ again.deck = "progress"
        /\ "tried" \in again.notices => "tried" \in a.notices
    BY <1>1 DEF Fields
  <2> HIDE DEF again, tried
  <2> QED
    BY <1>4, <2>1, <2>2, <2>3
<1>5. CASE ~a.userDisconnect /\ ~AutoReconnect
  <2>1. /\ DOMAIN l = Fields /\ l.connection = Stub /\ l.connected = FALSE
        /\ l.connecting = FALSE /\ l.connectionInitialized = FALSE
        /\ l.initConnectionState = {} /\ l.userDisconnect = FALSE
        /\ l.reconnectTimeout = FALSE /\ l.deck = "form"
    BY <1>1 DEF Fields
  <2> QED
    BY <1>2, <1>5, <2>1
<1> QED
  BY <1>3, <1>4, <1>5

\* onDisconnect() with the timer armed leaves it armed and shows the form.
LEMMA DisconnectedArmed ==
  ASSUME NEW a, DOMAIN a = Fields, a.reconnectTimeout = TRUE, a.userDisconnect = FALSE
  PROVE  LET d == OnDisconnect(a) IN
         /\ DOMAIN d = Fields
         /\ d.connection = Stub /\ d.connected = FALSE /\ d.connecting = FALSE
         /\ d.connectionInitialized = FALSE /\ d.initConnectionState = {}
         /\ d.userDisconnect = FALSE
         /\ d.reconnectTimeout = TRUE
         /\ d.deck = "form"
<1> DEFINE b == [CleanRooms(a) EXCEPT
                  !.connection = Stub, !.connected = FALSE, !.connecting = FALSE,
                  !.connectionInitialized = FALSE, !.initConnectionState = {},
                  !.userDisconnect = FALSE, !.deck = "form"]
           l == [b EXCEPT !.notices = @ \cup {"lost"}]
<1>1. /\ DOMAIN b = Fields
      /\ b.connection = Stub /\ b.connected = FALSE /\ b.connecting = FALSE
      /\ b.connectionInitialized = FALSE /\ b.initConnectionState = {}
      /\ b.userDisconnect = FALSE /\ b.deck = "form"
      /\ b.reconnectTimeout = TRUE
  BY RoomMethods DEF RoomsOnly, Fields
<1>2. OnDisconnect(a) = IF AutoReconnect THEN Reconnect(b) ELSE l
  BY DEF OnDisconnect
<1> HIDE DEF b
<1>3. Reconnect(b) = b
  BY <1>1 DEF Reconnect
<1>4. /\ DOMAIN l = Fields /\ l.connection = Stub /\ l.connected = FALSE
      /\ l.connecting = FALSE /\ l.connectionInitialized = FALSE
      /\ l.initConnectionState = {} /\ l.userDisconnect = FALSE
      /\ l.reconnectTimeout = TRUE /\ l.deck = "form"
  BY <1>1 DEF Fields
<1> HIDE DEF l
<1> QED
  BY <1>1, <1>2, <1>3, <1>4

\* A step of the initialisation adds bits; the last one finishes it.
LEMMA Initialised ==
  ASSUME NEW a, DOMAIN a = Fields, NEW flags \in SUBSET InitFlags,
         a.initConnectionState \subseteq InitFlags,
         a.connectionInitialized \in BOOLEAN, a.connecting \in BOOLEAN,
         a.connectionInitialized => a.initConnectionState = InitFlags
  PROVE  LET d == InitConnectionStep(a, flags) IN
         /\ DOMAIN d = Fields
         /\ d.connection = a.connection /\ d.connected = a.connected
         /\ d.connecting \in BOOLEAN /\ d.connectionInitialized \in BOOLEAN
         /\ d.initConnectionState = a.initConnectionState \cup flags
         /\ d.connectionInitialized => d.initConnectionState = InitFlags
         /\ d.userDisconnect = a.userDisconnect /\ d.notices = a.notices
         /\ d.reconnectTimeout = a.reconnectTimeout /\ d.deck = a.deck
<1> DEFINE done == a.initConnectionState \cup flags
           more == [a EXCEPT !.initConnectionState = done]
           last == [a EXCEPT !.initConnectionState = done, !.connectionInitialized = TRUE,
                             !.connecting = FALSE]
           sent == SendPresenceToRooms(last)
           end == RejoinRooms(sent)
<1>1. CASE a.initConnectionState = InitFlags
  BY <1>1 DEF InitConnectionStep
<1>2. CASE a.initConnectionState # InitFlags /\ done # InitFlags
  <2>1. InitConnectionStep(a, flags) = more
    BY <1>2 DEF InitConnectionStep
  <2>2. /\ DOMAIN more = Fields /\ more.initConnectionState = done
        /\ more.connection = a.connection /\ more.connected = a.connected
        /\ more.connecting = a.connecting
        /\ more.connectionInitialized = a.connectionInitialized
        /\ more.userDisconnect = a.userDisconnect /\ more.notices = a.notices
        /\ more.reconnectTimeout = a.reconnectTimeout /\ more.deck = a.deck
    BY DEF Fields
  <2> HIDE DEF more
  <2> QED
    BY <1>2, <2>1, <2>2
<1>3. CASE a.initConnectionState # InitFlags /\ done = InitFlags
  <2>1. InitConnectionStep(a, flags) = end
    BY <1>3 DEF InitConnectionStep
  <2>2. /\ DOMAIN last = Fields /\ last.initConnectionState = done
        /\ last.connection = a.connection /\ last.connected = a.connected
        /\ last.connecting = FALSE /\ last.connectionInitialized = TRUE
        /\ last.userDisconnect = a.userDisconnect /\ last.notices = a.notices
        /\ last.reconnectTimeout = a.reconnectTimeout /\ last.deck = a.deck
    BY DEF Fields
  <2> HIDE DEF last
  <2>3. RoomsOnly(last, sent)
    BY <2>2, RoomMethods
  <2>4. DOMAIN sent = Fields
    BY <2>2, <2>3 DEF RoomsOnly
  <2> HIDE DEF sent
  <2>5. RoomsOnly(sent, end)
    BY <2>4, RoomMethods
  <2> HIDE DEF end
  <2> QED
    BY <1>3, <2>1, <2>2, <2>3, <2>5 DEF RoomsOnly
<1> QED
  BY <1>1, <1>2, <1>3

-----------------------------------------------------------------------------
(* The inductive invariant                                                 *)

\* The part of the type invariant the proofs need.
Shape ==
  /\ DOMAIN account = Fields
  /\ account.connection \in Conns \cup {Nobody, Stub}
  /\ account.connecting \in BOOLEAN /\ account.connected \in BOOLEAN
  /\ account.connectionInitialized \in BOOLEAN /\ account.reconnectTimeout \in BOOLEAN
  /\ account.initConnectionState \subseteq InitFlags
  /\ conns \in [Conns -> {"closed", "opening", "online"}]
  /\ asked \in [Conns -> SUBSET InitFlags]
  /\ trouble \in {"none", "error"}

\* The connection the account holds is alive, and no flag that onDisconnect() reads is
\* left over from an earlier one.
Held ==
  /\ account.connection \in Conns => account.connection \in Alive
  /\ account.userDisconnect = FALSE
  /\ account.reconnectTimeout => account.connection = Stub /\ ~account.connecting
  /\ \A c \in Conns : asked[c] # {} => conns[c] = "online"

Inv ==
  /\ Shape /\ Held /\ GivenUpForGood
  /\ OneConnection /\ SignedOutStaysOut /\ DeckHonest /\ InitOfThisConnection

\* Once the user signs in although the timer is armed, nothing is promised.
UntilOverlap == trouble = "overlap" \/ Inv

-----------------------------------------------------------------------------
(* The invariant is kept                                                   *)

\* Nothing of the invariant is about the rooms.
LEMMA RoomStep ==
  ASSUME Inv, RoomsOnly(account, account'), UNCHANGED <<conns, asked, wanted, trouble>>
  PROVE  Inv'
<1>1. Alive' = Alive
  BY DEF Alive
<1>2. Shape' /\ Held' /\ GivenUpForGood'
  BY <1>1 DEF Inv, Shape, Held, GivenUpForGood, RoomsOnly
<1>3. OneConnection' /\ SignedOutStaysOut' /\ DeckHonest' /\ InitOfThisConnection'
  BY <1>1 DEF Inv, OneConnection, SignedOutStaysOut, DeckHonest, InitOfThisConnection, RoomsOnly
<1> QED
  BY <1>2, <1>3 DEF Inv

\* Closing the only connection leaves none.
LEMMA NothingAlive ==
  ASSUME Inv, account.connection \in Alive, Close(account.connection)
  PROVE  /\ Alive' = {}
         /\ conns' \in [Conns -> {"closed", "opening", "online"}]
         /\ asked' \in [Conns -> SUBSET InitFlags]
         /\ \A c \in Conns : conns'[c] = "closed" /\ asked'[c] = {}
<1>1. /\ conns \in [Conns -> {"closed", "opening", "online"}]
      /\ asked \in [Conns -> SUBSET InitFlags]
      /\ Alive \subseteq {account.connection}
  BY DEF Inv, Shape, OneConnection
<1>2. account.connection \in Conns
  BY DEF Alive
<1>3. \A c \in Conns : conns'[c] = "closed" /\ asked'[c] = {}
  BY <1>1, <1>2 DEF Close, Alive, Inv, Held
<1>4. conns' \in [Conns -> {"closed", "opening", "online"}]
  BY <1>1, <1>2 DEF Close
<1>5. asked' \in [Conns -> SUBSET InitFlags]
  BY <1>1, <1>2 DEF Close
<1> QED
  BY <1>3, <1>4, <1>5 DEF Alive

\* However the one connection ends, by the network, the server or the user.
LEMMA ConnectionEnds ==
  ASSUME Inv, account.connection \in Alive, Close(account.connection),
         NEW a, DOMAIN a = Fields, a.userDisconnect \in BOOLEAN,
         a.reconnectTimeout = account.reconnectTimeout, a.notices = account.notices,
         account' = OnDisconnect(a), a.userDisconnect \/ wanted' = wanted,
         trouble' = trouble
  PROVE  Inv'
<1> DEFINE d == OnDisconnect(a)
<1>1. account.reconnectTimeout = FALSE /\ account.connection \in Conns
  BY AccountAssumption DEF Inv, Shape, Held, Alive
<1>2. wanted' \/ a.userDisconnect
  BY DEF Inv, Shape, SignedOutStaysOut
<1>3. trouble = "none" => "tried" \notin a.notices
  BY DEF Inv, GivenUpForGood
<1>4. /\ DOMAIN d = Fields
      /\ d.connection = Stub /\ d.connected = FALSE /\ d.connecting = FALSE
      /\ d.connectionInitialized = FALSE /\ d.initConnectionState = {}
      /\ d.userDisconnect = FALSE
      /\ d.reconnectTimeout \in BOOLEAN
      /\ d.deck = IF d.reconnectTimeout THEN "progress" ELSE "form"
      /\ a.userDisconnect => d.reconnectTimeout = FALSE
      /\ trouble = "none" /\ "tried" \in d.notices => d.reconnectTimeout = FALSE
  BY <1>1, <1>3, Disconnected
<1>5. account' = d
  OBVIOUS
<1> HIDE DEF d
<1>6. Shape'
  BY <1>4, <1>5, NothingAlive DEF Inv, Shape
<1>7. Held' /\ GivenUpForGood'
  BY <1>4, <1>5, NothingAlive, AccountAssumption DEF Held, GivenUpForGood
<1>8. OneConnection'
  BY <1>4, <1>5, NothingAlive DEF OneConnection
<1>9. SignedOutStaysOut'
  BY <1>2, <1>4, <1>5, NothingAlive DEF SignedOutStaysOut
<1>10. DeckHonest'
  BY <1>4, <1>5, NothingAlive DEF DeckHonest
<1>11. InitOfThisConnection'
  BY <1>4, <1>5, NothingAlive DEF InitOfThisConnection
<1> QED
  BY <1>6, <1>7, <1>8, <1>9, <1>10, <1>11 DEF Inv

\* The same with onDisconnect() run twice: the timer may stay armed behind the form.
LEMMA ConnectionErrs ==
  ASSUME Inv, account.connection \in Alive, Close(account.connection),
         NEW a, DOMAIN a = Fields, a.userDisconnect \in BOOLEAN,
         a.reconnectTimeout = account.reconnectTimeout,
         account' = OnDisconnect(OnDisconnect(a)), wanted' = wanted, trouble' = "error"
  PROVE  Inv'
<1> DEFINE d == OnDisconnect(a)
           e == OnDisconnect(d)
<1>1. account.reconnectTimeout = FALSE /\ account.connection \in Conns /\ wanted
  BY AccountAssumption DEF Inv, Shape, Held, Alive, SignedOutStaysOut
<1>2. DOMAIN d = Fields /\ d.userDisconnect = FALSE /\ d.reconnectTimeout \in BOOLEAN
  BY <1>1, Disconnected
<1>3. account' = e
  OBVIOUS
<1> HIDE DEF d
<1>4. /\ DOMAIN e = Fields
      /\ e.connection = Stub /\ e.connected = FALSE /\ e.connecting = FALSE
      /\ e.connectionInitialized = FALSE /\ e.initConnectionState = {}
      /\ e.userDisconnect = FALSE
      /\ e.reconnectTimeout \in BOOLEAN
      /\ e.deck \in {"form", "progress"} /\ (e.deck = "progress" => e.reconnectTimeout)
  <2>1. CASE d.reconnectTimeout = TRUE
    BY <1>2, <2>1, DisconnectedArmed
  <2>2. CASE d.reconnectTimeout = FALSE
    BY <1>2, <2>2, Disconnected
  <2> QED
    BY <1>2, <2>1, <2>2
<1> HIDE DEF e
<1>5. Shape'
  BY <1>3, <1>4, NothingAlive DEF Shape
<1>6. Held' /\ GivenUpForGood'
  BY <1>3, <1>4, NothingAlive, AccountAssumption DEF Held, GivenUpForGood
<1>7. OneConnection' /\ SignedOutStaysOut' /\ InitOfThisConnection'
  BY <1>1, <1>3, <1>4, NothingAlive DEF OneConnection, SignedOutStaysOut, InitOfThisConnection
<1>8. DeckHonest'
  BY <1>3, <1>4, NothingAlive DEF DeckHonest
<1> QED
  BY <1>5, <1>6, <1>7, <1>8 DEF Inv

\* A connection is opened while there is none and no timer would open another.
LEMMA ConnectionOpens ==
  ASSUME Inv, NEW c \in Conns, Open(c), Alive = {},
         NEW a, DOMAIN a = Fields, a.reconnectTimeout = FALSE,
         a.connected = account.connected,
         a.connectionInitialized = account.connectionInitialized,
         a.initConnectionState = account.initConnectionState,
         a.userDisconnect = account.userDisconnect,
         account' = Connect(a, c), wanted',
         trouble' \in {"none", "error"}, trouble' = "none" => "tried" \notin a.notices
  PROVE  Inv'
<1> DEFINE d == Connect(a, c)
<1>1. /\ DOMAIN d = Fields
      /\ d.connection = c /\ d.connected = account.connected /\ d.connecting = TRUE
      /\ d.connectionInitialized = account.connectionInitialized
      /\ d.initConnectionState = account.initConnectionState
      /\ d.userDisconnect = account.userDisconnect /\ d.notices = a.notices
      /\ d.reconnectTimeout = FALSE /\ d.deck = "progress"
  BY DEF Connect, Fields
<1>2. account' = d
  OBVIOUS
<1> HIDE DEF d
<1>3. /\ conns \in [Conns -> {"closed", "opening", "online"}]
      /\ asked \in [Conns -> SUBSET InitFlags]
      /\ \A b \in Conns : conns[b] = "closed" /\ asked[b] = {}
  BY DEF Inv, Shape, Alive, Held
<1>4. /\ conns' \in [Conns -> {"closed", "opening", "online"}]
      /\ conns'[c] = "opening" /\ \A b \in Conns \ {c} : conns'[b] = "closed"
      /\ asked' = asked
  BY <1>3 DEF Open
<1>5. Alive' = {c}
  BY <1>4 DEF Alive
<1>6. ~account.connected
  BY <1>3 DEF Inv, Shape, OneConnection
<1>7. account.connectionInitialized = FALSE /\ account.initConnectionState = {}
  BY <1>6 DEF Inv, InitOfThisConnection, Shape, InitFlags
<1>8. Shape'
  BY <1>1, <1>2, <1>3, <1>4 DEF Inv, Shape
<1>9. Held' /\ GivenUpForGood'
  BY <1>1, <1>2, <1>3, <1>4, <1>5 DEF Inv, Held, GivenUpForGood
<1>10. OneConnection'
  BY <1>1, <1>2, <1>4, <1>5, <1>6 DEF OneConnection
<1>11. SignedOutStaysOut' /\ DeckHonest'
  BY <1>1, <1>2, <1>4, <1>6 DEF SignedOutStaysOut, DeckHonest
<1>12. InitOfThisConnection'
  BY <1>1, <1>2, <1>4, <1>7 DEF InitOfThisConnection
<1> QED
  BY <1>8, <1>9, <1>10, <1>11, <1>12 DEF Inv

\* "Stop Connecting" and "Disconnect" find either the one connection or the timer.
LEMMA DisconnectKeeps ==
  ASSUME Inv, Disconnect, account.connected \/ account.deck = "progress", wanted' = FALSE,
         trouble' = trouble
  PROVE  Inv'
<1>1. CASE account.connection \in Conns
  <2> DEFINE a == [account EXCEPT !.userDisconnect = TRUE]
  <2>1. account.connection \in Alive
    BY <1>1 DEF Inv, Held
  <2>2. Close(account.connection) /\ account' = OnDisconnect(a)
    BY <1>1, <2>1, AccountAssumption DEF Disconnect
  <2>3. /\ DOMAIN a = Fields /\ a.userDisconnect = TRUE
        /\ a.reconnectTimeout = account.reconnectTimeout /\ a.notices = account.notices
    BY DEF Inv, Shape, Fields
  <2>4. Inv /\ wanted' = FALSE /\ trouble' = trouble
    OBVIOUS
  <2> HIDE DEF a
  <2> QED
    BY <2>1, <2>2, <2>3, <2>4, ConnectionEnds
<1>2. CASE account.connection \notin Conns
  <2> DEFINE d == [account EXCEPT !.userDisconnect = TRUE]
             e == AbortReconnect(d)
  <2>1. Alive = {} /\ ~account.connected
    BY <1>2 DEF Inv, Shape, OneConnection, Alive
  <2>2. account.reconnectTimeout = TRUE /\ account.connecting = FALSE /\ account.connection = Stub
    BY <2>1 DEF Inv, DeckHonest, Alive, Held, Shape
  <2>3. account' = e /\ UNCHANGED <<conns, asked>>
    BY <1>2, <2>2 DEF Disconnect
  <2>4. /\ DOMAIN e = Fields /\ e.connection = Stub /\ e.connected = account.connected
        /\ e.connecting = account.connecting
        /\ e.connectionInitialized = account.connectionInitialized
        /\ e.initConnectionState = account.initConnectionState
        /\ e.userDisconnect = FALSE /\ e.reconnectTimeout = FALSE
        /\ e.notices = account.notices /\ e.deck = "form"
    BY <2>1, <2>2 DEF AbortReconnect, Inv, Shape, Fields
  <2> HIDE DEF e
  <2>5. Alive' = {}
    BY <2>1, <2>3 DEF Alive
  <2>6. Shape' /\ Held' /\ GivenUpForGood'
    BY <2>2, <2>3, <2>4, <2>5, AccountAssumption DEF Inv, Shape, Held, GivenUpForGood
  <2>7. OneConnection' /\ SignedOutStaysOut' /\ DeckHonest' /\ InitOfThisConnection'
    BY <2>1, <2>3, <2>4, <2>5
       DEF Inv, OneConnection, SignedOutStaysOut, DeckHonest, InitOfThisConnection, Alive
  <2> QED
    BY <2>6, <2>7 DEF Inv
<1> QED
  BY <1>1, <1>2

\* The user's actions and the timer's.
LEMMA UserKeeps == Inv /\ (User \/ TimerTicks \/ TimerFires) => UntilOverlap'
<1> SUFFICES ASSUME Inv, User \/ TimerTicks \/ TimerFires, trouble' # "overlap" PROVE Inv'
  BY DEF UntilOverlap
<1>1. DOMAIN account = Fields
  BY DEF Inv, Shape
<1>2. CASE SignIn
  <2> DEFINE a == [account EXCEPT !.notices = {}]
  <2>1. Alive = {} /\ account.reconnectTimeout = FALSE /\ trouble' = "none"
    BY <1>2 DEF SignIn, Inv, DeckHonest, Shape
  <2>2. PICK c \in Conns : Open(c) /\ account' = Connect(a, c)
    BY <1>2 DEF SignIn
  <2>3. wanted' = TRUE
    BY <1>2 DEF SignIn
  <2>4. /\ DOMAIN a = Fields /\ a.reconnectTimeout = FALSE
        /\ a.connected = account.connected
        /\ a.connectionInitialized = account.connectionInitialized
        /\ a.initConnectionState = account.initConnectionState
        /\ a.userDisconnect = account.userDisconnect /\ "tried" \notin a.notices
    BY <1>1, <2>1 DEF Fields
  <2> HIDE DEF a
  <2> QED
    BY <2>1, <2>2, <2>3, <2>4, ConnectionOpens
<1>3. CASE TimerFires
  <2> DEFINE a == [account EXCEPT !.reconnectTimeout = FALSE]
  <2>1. /\ Alive = {} /\ wanted' = wanted /\ wanted /\ trouble' = trouble
        /\ trouble \in {"none", "error"}
        /\ trouble = "none" => "tried" \notin account.notices
    BY <1>3 DEF TimerFires, Inv, Shape, OneConnection, GivenUpForGood, SignedOutStaysOut
  <2>2. PICK c \in Conns : Open(c) /\ account' = [Connect(account, c) EXCEPT !.reconnectTimeout = FALSE]
    BY <1>3 DEF TimerFires
  <2>3. [Connect(account, c) EXCEPT !.reconnectTimeout = FALSE] = Connect(a, c)
    BY <1>1 DEF Connect, Fields
  <2>4. /\ DOMAIN a = Fields /\ a.reconnectTimeout = FALSE
        /\ a.connected = account.connected
        /\ a.connectionInitialized = account.connectionInitialized
        /\ a.initConnectionState = account.initConnectionState
        /\ a.userDisconnect = account.userDisconnect /\ a.notices = account.notices
    BY <1>1, <2>1 DEF Fields
  <2> HIDE DEF a
  <2> QED
    BY <2>1, <2>2, <2>3, <2>4, ConnectionOpens
<1>4. CASE TimerTicks
  <2> DEFINE d == [account EXCEPT !.deck = "progress"]
  <2>1. account' = d /\ account.reconnectTimeout /\ UNCHANGED <<conns, asked, wanted, trouble>>
    BY <1>4 DEF TimerTicks
  <2>2. /\ DOMAIN d = Fields /\ d.deck = "progress" /\ d.connection = account.connection
        /\ d.connected = account.connected /\ d.connecting = account.connecting
        /\ d.connectionInitialized = account.connectionInitialized
        /\ d.initConnectionState = account.initConnectionState
        /\ d.userDisconnect = account.userDisconnect
        /\ d.reconnectTimeout = account.reconnectTimeout /\ d.notices = account.notices
    BY <1>1 DEF Fields
  <2> HIDE DEF d
  <2>3. Alive' = Alive /\ Alive = {} /\ ~account.connected
    BY <2>1 DEF Inv, OneConnection, Alive
  <2>4. Shape' /\ Held' /\ GivenUpForGood'
    BY <2>1, <2>2, <2>3 DEF Inv, Shape, Held, GivenUpForGood
  <2>5. OneConnection' /\ SignedOutStaysOut' /\ DeckHonest' /\ InitOfThisConnection'
    BY <2>1, <2>2, <2>3
       DEF Inv, OneConnection, SignedOutStaysOut, DeckHonest, InitOfThisConnection
  <2> QED
    BY <2>4, <2>5 DEF Inv
<1>5. CASE StopConnecting
  BY <1>5, DisconnectKeeps DEF StopConnecting
<1>6. CASE SignOut
  BY <1>6, DisconnectKeeps DEF SignOut
<1>7. CASE ChangePresence
  BY <1>1, <1>7, RoomMethods, RoomStep DEF ChangePresence
<1>8. ASSUME NEW r \in Rooms, EnterRoom(r) PROVE Inv'
  <2> DEFINE a == JoinRoom(account, r)
             b == UpdateRoom(a, r, [a.room[r] EXCEPT !.inside = TRUE])
  <2>1. RoomsOnly(account, a)
    BY <1>1, RoomMethods
  <2>2. RoomsOnly(a, b)
    BY <1>1, <2>1, RoomMethods DEF RoomsOnly
  <2>3. RoomsOnly(account, b)
    BY <2>1, <2>2 DEF RoomsOnly
  <2>4. account' = b /\ UNCHANGED <<conns, asked, wanted, trouble>>
    BY <1>8 DEF EnterRoom
  <2> QED
    BY <2>3, <2>4, RoomStep
<1>9. ASSUME NEW r \in Rooms, ExitRoom(r) PROVE Inv'
  <2> DEFINE a == IF account.room[r].joined \/ account.room[r].requested
                  THEN ExitRoomCleanup(account, r) ELSE account
             b == UpdateRoom(a, r, [a.room[r] EXCEPT !.inside = FALSE])
  <2>1. RoomsOnly(account, a)
    BY <1>1, RoomMethods DEF RoomsOnly
  <2>2. RoomsOnly(a, b)
    BY <1>1, <2>1, RoomMethods DEF RoomsOnly
  <2>3. RoomsOnly(account, b)
    BY <2>1, <2>2 DEF RoomsOnly
  <2>4. account' = b /\ UNCHANGED <<conns, asked, wanted, trouble>>
    BY <1>9 DEF ExitRoom
  <2> QED
    BY <2>3, <2>4, RoomStep
<1> QED
  BY <1>2, <1>3, <1>4, <1>5, <1>6, <1>7, <1>8, <1>9 DEF User

\* The server answers a query of the connection it belongs to.
LEMMA AnswerKeeps ==
  ASSUME Inv, NEW c \in Conns, conns[c] = "online", NEW query \in InitFlags,
         NEW flags \in SUBSET InitFlags, Answer(c, query, flags),
         flags \ {"profiles"} = {query} \ {"profiles"}
  PROVE  Inv'
<1> DEFINE d == InitConnectionStep(account, flags)
<1>1. /\ account' = d /\ UNCHANGED <<conns, wanted, trouble>>
      /\ asked' = [asked EXCEPT ![c] = asked[c] \ {query}] /\ query \in asked[c]
  BY DEF Answer
<1>2. /\ DOMAIN d = Fields
      /\ d.connection = account.connection /\ d.connected = account.connected
      /\ d.connecting \in BOOLEAN /\ d.connectionInitialized \in BOOLEAN
      /\ d.initConnectionState = account.initConnectionState \cup flags
      /\ d.connectionInitialized => d.initConnectionState = InitFlags
      /\ d.userDisconnect = account.userDisconnect /\ d.notices = account.notices
      /\ d.reconnectTimeout = account.reconnectTimeout /\ d.deck = account.deck
  BY Initialised DEF Inv, Shape, InitOfThisConnection
<1> HIDE DEF d
<1>3. /\ asked \in [Conns -> SUBSET InitFlags] /\ asked' \in [Conns -> SUBSET InitFlags]
      /\ \A q \in InitFlags \ {query} : q \in asked'[c] <=> q \in asked[c]
      /\ query \notin asked'[c] /\ \A b \in Conns \ {c} : asked'[b] = asked[b]
  BY <1>1 DEF Inv, Shape
<1>4. /\ Alive' = Alive /\ c \in Alive /\ Alive \subseteq {c} /\ account.connected
      /\ ~account.reconnectTimeout /\ (trouble = "none" => "tried" \notin account.notices)
  BY <1>1 DEF Inv, Shape, OneConnection, GivenUpForGood, Alive
<1>5. Shape'
  BY <1>1, <1>2, <1>3 DEF Inv, Shape
<1>6. Held' /\ GivenUpForGood'
  BY <1>1, <1>2, <1>4 DEF Inv, Held, GivenUpForGood
<1>7. OneConnection' /\ SignedOutStaysOut' /\ DeckHonest'
  BY <1>1, <1>2, <1>4 DEF Inv, OneConnection, SignedOutStaysOut, DeckHonest
<1>8. InitOfThisConnection'
  <2>1. \A b \in Conns : conns[b] = "online" => b = c
    BY <1>4 DEF Alive
  <2>2. \A q \in {"roster", "presence"} : q \in flags <=> q = query
    BY DEF InitFlags
  <2>3. \A q \in {"roster", "presence"} : q \in account.initConnectionState <=> q \notin asked[c]
    BY DEF Inv, Shape, InitOfThisConnection
  <2>4. \A q \in {"roster", "presence"} : q \in account'.initConnectionState <=> q \notin asked'[c]
    BY <1>1, <1>2, <1>3, <2>2, <2>3 DEF InitFlags
  <2> QED
    BY <1>1, <1>2, <1>4, <2>1, <2>4 DEF InitOfThisConnection
<1> QED
  BY <1>5, <1>6, <1>7, <1>8 DEF Inv

\* What the server and the network do.
LEMMA ServerKeeps == Inv /\ (\E c \in Conns : Server(c)) => Inv'
<1> SUFFICES ASSUME Inv, NEW c \in Conns, Server(c) PROVE Inv'
  OBVIOUS
<1>1. DOMAIN account = Fields
  BY DEF Inv, Shape
<1>3. ASSUME conns[c] # "closed" PROVE c = account.connection /\ account.connection \in Alive
  BY <1>3 DEF Inv, Shape, OneConnection, Alive
<1>4. CASE Connected(c)
  <2> DEFINE d == [account EXCEPT !.reconnectStep = 0, !.connected = TRUE, !.deck = "roster",
                     !.notices = {}]
  <2>1. c = account.connection /\ conns[c] = "opening" /\ Alive \subseteq {c}
    BY <1>3, <1>4 DEF Connected, Inv, Shape, OneConnection
  <2>2. /\ account' = d /\ conns' = [conns EXCEPT ![c] = "online"]
        /\ asked' = [asked EXCEPT ![c] = InitFlags] /\ wanted' = wanted
        /\ trouble' = "none"
    BY <1>4, <2>1, AccountAssumption DEF Connected, OnConnect, Inv, Shape
  <2>3. /\ DOMAIN d = Fields /\ d.deck = "roster" /\ d.connection = account.connection
        /\ d.connected = TRUE /\ d.connecting = account.connecting
        /\ d.connectionInitialized = account.connectionInitialized
        /\ d.initConnectionState = account.initConnectionState
        /\ d.userDisconnect = account.userDisconnect
        /\ d.reconnectTimeout = account.reconnectTimeout /\ d.notices = {}
    BY <1>1 DEF Fields
  <2> HIDE DEF d
  <2>4. /\ conns' \in [Conns -> {"closed", "opening", "online"}]
        /\ asked' \in [Conns -> SUBSET InitFlags]
        /\ conns'[c] = "online" /\ asked'[c] = InitFlags
        /\ \A b \in Conns \ {c} : conns'[b] = conns[b] /\ asked'[b] = asked[b]
    BY <2>2 DEF Inv, Shape
  <2>5. Alive' = Alive /\ c \in Alive /\ account.connected = FALSE
        /\ \A b \in Conns \ {c} : conns[b] = "closed"
    BY <2>1, <2>4 DEF Alive, Inv, OneConnection, Shape
  <2>6. account.initConnectionState = {} /\ account.connectionInitialized = FALSE
        /\ account.reconnectTimeout = FALSE
    BY <2>5 DEF Inv, InitOfThisConnection, OneConnection, Shape, InitFlags
  <2>7. Shape' /\ Held' /\ GivenUpForGood'
    BY <2>1, <2>2, <2>3, <2>4, <2>5, <2>6 DEF Inv, Shape, Held, GivenUpForGood
  <2>8. OneConnection' /\ SignedOutStaysOut'
    BY <2>1, <2>2, <2>3, <2>4, <2>5, <2>6 DEF Inv, Shape, OneConnection, SignedOutStaysOut
  <2>9. DeckHonest' /\ InitOfThisConnection'
    BY <2>2, <2>3, <2>4, <2>5, <2>6 DEF DeckHonest, InitOfThisConnection, InitFlags
  <2> QED
    BY <2>7, <2>8, <2>9 DEF Inv
<1>5. CASE Lost(c)
  <2>1. conns[c] # "closed" /\ Close(c) /\ account' = OnDisconnect(account)
        /\ wanted' = wanted /\ trouble' = trouble
    BY <1>5 DEF Lost, Alive
  <2> QED
    BY <1>1, <1>3, <2>1, ConnectionEnds DEF Inv, Held
<1>6. CASE AuthenticationFails(c)
  <2> DEFINE a == [account EXCEPT !.userDisconnect = TRUE]
  <2>1. conns[c] # "closed" /\ Close(c) /\ account' = OnDisconnect(a) /\ trouble' = trouble
    BY <1>6 DEF AuthenticationFails
  <2>2. /\ DOMAIN a = Fields /\ a.userDisconnect = TRUE
        /\ a.reconnectTimeout = account.reconnectTimeout /\ a.notices = account.notices
    BY <1>1 DEF Fields
  <2> HIDE DEF a
  <2> QED
    BY <1>3, <2>1, <2>2, ConnectionEnds
<1>7. ASSUME NEW query \in InitFlags, NEW flags \in SUBSET InitFlags, Answer(c, query, flags)
      PROVE  conns[c] = "online"
  BY <1>7 DEF Answer, Inv, Held
<1>8. CASE RosterFetched(c)
  <2>1. Answer(c, "roster", {"roster"}) /\ "roster" \in InitFlags
    BY <1>8 DEF RosterFetched, InitFlags
  <2>2. conns[c] = "online" /\ {"roster"} \in SUBSET InitFlags
    BY <1>7, <2>1
  <2> QED
    BY <2>1, <2>2, AnswerKeeps
<1>9. CASE GotSavedPresence(c)
  <2>1. PICK flags \in {{"presence"}, {"presence", "profiles"}} : Answer(c, "presence", flags)
    BY <1>9 DEF GotSavedPresence
  <2>2. "presence" \in InitFlags /\ flags \in SUBSET InitFlags
        /\ flags \ {"profiles"} = {"presence"} \ {"profiles"}
    BY <2>1 DEF InitFlags
  <2> QED
    BY <1>7, <2>1, <2>2, AnswerKeeps
<1>10. CASE GotPresenceProfiles(c)
  <2>1. PICK flags \in {{"profiles"}, {}} : Answer(c, "profiles", flags)
    BY <1>10 DEF GotPresenceProfiles
  <2>2. "profiles" \in InitFlags /\ flags \in SUBSET InitFlags
        /\ flags \ {"profiles"} = {"profiles"} \ {"profiles"}
    BY <2>1 DEF InitFlags
  <2> QED
    BY <1>7, <2>1, <2>2, AnswerKeeps
<1>11. CASE StreamError(c)
  <2>1. /\ conns[c] # "closed" /\ Close(c) /\ account' = OnDisconnect(OnDisconnect(account))
        /\ wanted' = wanted /\ trouble' = "error"
    BY <1>11 DEF StreamError, Alive, Inv, Shape
  <2> QED
    BY <1>1, <1>3, <2>1, ConnectionErrs DEF Inv, Held
<1>12. CASE Conflict(c)
  <2> DEFINE a == [account EXCEPT !.userDisconnect = TRUE]
  <2>1. /\ conns[c] # "closed" /\ Close(c) /\ account' = OnDisconnect(OnDisconnect(a))
        /\ wanted' = wanted /\ trouble' = "error"
    BY <1>12 DEF Conflict, Inv, Shape
  <2>2. /\ DOMAIN a = Fields /\ a.userDisconnect = TRUE
        /\ a.reconnectTimeout = account.reconnectTimeout
    BY <1>1 DEF Fields
  <2> HIDE DEF a
  <2> QED
    BY <1>3, <2>1, <2>2, ConnectionErrs
<1> QED
  BY <1>4, <1>5, <1>6, <1>8, <1>9, <1>10, <1>11, <1>12 DEF Server

\* What the rooms answer.
LEMMA ChatKeeps == Inv /\ (\E r \in Rooms : Chat(r)) => Inv'
<1> SUFFICES ASSUME Inv, NEW r \in Rooms, Chat(r) PROVE Inv'
  OBVIOUS
<1>1. DOMAIN account = Fields
  BY DEF Inv, Shape
<1>2. ASSUME NEW a, RoomsOnly(account, a), NEW x, account' = UpdateRoom(a, r, x),
             UNCHANGED <<conns, asked, wanted, trouble>>
      PROVE  Inv'
  <2>1. RoomsOnly(a, UpdateRoom(a, r, x))
    BY <1>1, <1>2, RoomMethods DEF RoomsOnly
  <2>2. RoomsOnly(account, account')
    BY <1>2, <2>1 DEF RoomsOnly
  <2> QED
    BY <1>2, <2>2, RoomStep
<1>3. RoomsOnly(account, account) /\ RoomsOnly(account, ExitRoomCleanup(account, r))
      /\ \A x : RoomsOnly(account, UpdateRoom(account, r, x))
  BY <1>1, RoomMethods DEF RoomsOnly
<1>4. CASE RoomEntered(r)
  BY <1>2, <1>3, <1>4 DEF RoomEntered
<1>5. CASE RoomRefused(r)
  BY <1>2, <1>3, <1>5 DEF RoomRefused
<1>6. CASE RoomLeft(r)
  BY <1>2, <1>3, <1>6 DEF RoomLeft
<1> QED
  BY <1>4, <1>5, <1>6 DEF Chat

-----------------------------------------------------------------------------
(* Theorems                                                                *)

\* No step takes back what the sign-in beside an armed timer has done.
LEMMA OverlapStays == trouble = "overlap" /\ [Next]_vars => trouble' = "overlap"
<1> SUFFICES ASSUME trouble = "overlap", [Next]_vars PROVE trouble' = "overlap"
  OBVIOUS
<1>1. CASE UNCHANGED vars
  BY <1>1 DEF vars
<1>2. CASE User \/ TimerTicks \/ TimerFires
  BY <1>2 DEF User, SignIn, StopConnecting, SignOut, ChangePresence, EnterRoom, ExitRoom,
              TimerTicks, TimerFires
<1>3. ASSUME NEW c \in Conns, Server(c) PROVE trouble' = "overlap"
  BY <1>3 DEF Server, Connected, Lost, AuthenticationFails, StreamError, Conflict,
              RosterFetched, GotSavedPresence, GotPresenceProfiles, Answer
<1>4. ASSUME NEW r \in Rooms, Chat(r) PROVE trouble' = "overlap"
  BY <1>4 DEF Chat, RoomEntered, RoomRefused, RoomLeft
<1> QED
  BY <1>1, <1>2, <1>3, <1>4 DEF Next

LEMMA AccountInvariant == Spec => []UntilOverlap
<1>1. Init => UntilOverlap
  <2> SUFFICES ASSUME Init PROVE Inv
    BY DEF UntilOverlap
  <2>1. Alive = {}
    BY DEF Init, Alive
  <2>2. Shape
    BY DEF Init, Shape, Fields, InitFlags
  <2>3. Held /\ GivenUpForGood
    BY <2>1, AccountAssumption DEF Init, Held, GivenUpForGood
  <2>4. OneConnection /\ SignedOutStaysOut /\ DeckHonest /\ InitOfThisConnection
    BY <2>1 DEF Init, OneConnection, SignedOutStaysOut, DeckHonest, InitOfThisConnection
  <2> QED
    BY <2>2, <2>3, <2>4 DEF Inv
<1>2. UntilOverlap /\ [Next]_vars => UntilOverlap'
  <2> SUFFICES ASSUME UntilOverlap, [Next]_vars PROVE UntilOverlap'
    OBVIOUS
  <2>1. CASE trouble = "overlap"
    BY <2>1, OverlapStays DEF UntilOverlap
  <2>2. CASE Inv /\ UNCHANGED vars
    <3>1. UNCHANGED <<account, conns, asked, wanted, trouble>>
      BY <2>2 DEF vars
    <3> QED
      BY <2>2, <3>1, RoomStep DEF RoomsOnly, UntilOverlap
  <2>3. CASE Inv /\ Next
    BY <2>3, UserKeeps, ServerKeeps, ChatKeeps DEF Next, UntilOverlap
  <2> QED
    BY <2>1, <2>2, <2>3 DEF UntilOverlap
<1> QED
  BY <1>1, <1>2, PTL DEF Spec

\* Whatever the user clicks and the network does, there is at most one connection to the
\* server, and a waiting timer only while there is none: connect(), onDisconnect() and the
\* timer's function keep the account's fields and the connection objects together. Only
\* "Sign In" while onDisconnect(), run twice, has left the timer behind the form ends this.
THEOREM NeverTwoConnections == Spec => []OneConnection
<1>1. UntilOverlap => OneConnection
  BY DEF UntilOverlap, Inv, OneConnection
<1> QED
  BY <1>1, AccountInvariant, PTL

\* disconnect() ends whatever is under way, the connection or the timer, and nothing else
\* than the user's "Sign In" starts it again; stream errors make no difference.
THEOREM SigningOutIsFinal == Spec => []SignedOutStaysOut
<1>1. UntilOverlap => SignedOutStaysOut
  BY DEF UntilOverlap, Inv, SignedOutStaysOut
<1> QED
  BY <1>1, AccountInvariant, PTL

\* The window's deck tells what is under way, after every event and for every preference;
\* a timer behind the form is always the work of onDisconnect() run twice.
THEOREM WindowTellsTheTruth == Spec => []DeckHonest
<1>1. UntilOverlap => DeckHonest
  BY DEF UntilOverlap, Inv, DeckHonest
<1> QED
  BY <1>1, AccountInvariant, PTL

\* No bit of _initConnectionState survives the connection that set it, stream errors or not.
THEOREM InitialisedAnew == Spec => []InitOfThisConnection
<1>1. UntilOverlap => InitOfThisConnection
  BY DEF UntilOverlap, Inv, InitOfThisConnection
<1> QED
  BY <1>1, AccountInvariant, PTL

\* Once reconnect() has given up, the timer is not armed again before the user signs in,
\* unless onDisconnect() ran twice for a stream error.
THEOREM GivingUpIsFinal == Spec => []GivenUpForGood
<1>1. UntilOverlap => GivenUpForGood
  BY DEF UntilOverlap, Inv, GivenUpForGood
<1> QED
  BY <1>1, AccountInvariant, PTL

-----------------------------------------------------------------------------
(* The elements of a sequence that are kept                                *)

\* No infinite descent in the natural numbers, as a relation the provers can read.
LEMMA NoDescent == IsWellFoundedOn({p \in Nat \X Nat : p[1] < p[2]}, Nat)
  BY NatLessThanWellFounded DEF OpToRel

\* The least element of a set of natural numbers.
LEMMA Least ==
  ASSUME NEW T \in SUBSET Nat, T # {}
  PROVE  \E x \in T : \A y \in T : x <= y
<1> DEFINE R == {p \in Nat \X Nat : p[1] < p[2]}
<1>1. \E x \in T : \A y \in T : ~(<<y, x>> \in R)
  <2>1. IsWellFoundedOn(R, Nat)
    BY NoDescent
  <2> HIDE DEF R
  <2> QED
    BY <2>1, WFMin
<1>2. PICK x \in T : \A y \in T : ~(<<y, x>> \in R)
  BY <1>1
<1>3. ASSUME NEW y \in T PROVE x <= y
  <2>1. x \in Nat /\ y \in Nat /\ ~(<<y, x>> \in R)
    BY <1>2
  <2>2. ~(y < x)
    BY <2>1
  <2> QED
    BY <2>1, <2>2
<1> QED
  BY <1>3

\* Induction over the numbers in a set: the library has it for an operator, which no prover
\* here can instantiate.
LEMMA SetInduction ==
  ASSUME NEW T \in SUBSET Nat, 0 \in T, \A n \in T : n + 1 \in T
  PROVE  T = Nat
<1> SUFFICES ASSUME Nat \ T # {} PROVE FALSE
  OBVIOUS
<1>1. PICK x \in Nat \ T : \A y \in Nat \ T : x <= y
  BY Least
<1>2. x # 0 /\ x - 1 \in Nat
  BY <1>1
<1>3. x - 1 \in T
  BY <1>1, <1>2
<1> QED
  BY <1>1, <1>2, <1>3

\* What is repeated n times is defined.
LEMMA Iteration ==
  ASSUME NEW S, NEW a \in S, NEW N \in Nat, NEW step \in [1..N -> [S -> S]]
  PROVE  \E f \in [0..N -> S] : f[0] = a /\ \A n \in 1..N : f[n] = step[n][f[n - 1]]
<1> DEFINE Is(f, m) == f[0] = a /\ \A n \in 1..m : f[n] = step[n][f[n - 1]]
           T == {m \in Nat : m <= N => \E f \in [0..m -> S] : Is(f, m)}
<1>1. 0 \in T
  <2>1. [n \in 0..0 |-> a] \in [0..0 -> S] /\ Is([n \in 0..0 |-> a], 0)
    OBVIOUS
  <2> QED
    BY <2>1
<1>2. ASSUME NEW m \in T PROVE m + 1 \in T
  <2> SUFFICES ASSUME m + 1 <= N PROVE \E f \in [0..m+1 -> S] : Is(f, m + 1)
    OBVIOUS
  <2>1. PICK g \in [0..m -> S] : Is(g, m)
    BY <1>2
  <2>2. step[m + 1] \in [S -> S] /\ g[m] \in S
    BY <2>1
  <2> DEFINE x == step[m + 1][g[m]]
             h == [n \in 0..m+1 |-> IF n = m + 1 THEN x ELSE g[n]]
  <2>3. x \in S
    BY <2>2
  <2> HIDE DEF x
  <2>4. h \in [0..m+1 -> S] /\ h[m + 1] = x /\ h[0] = a /\ \A n \in 0..m : h[n] = g[n]
    BY <2>1, <2>3
  <2> HIDE DEF h
  <2>5. ASSUME NEW n \in 1..m+1 PROVE h[n] = step[n][h[n - 1]]
    <3>1. CASE n = m + 1
      BY <2>4, <3>1 DEF x
    <3>2. CASE n # m + 1
      BY <2>1, <2>4, <3>2
    <3> QED
      BY <3>1, <3>2
  <2> QED
    BY <2>4, <2>5
<1>3. T = Nat
  <2> HIDE DEF T
  <2>1. T \in SUBSET Nat
    BY DEF T
  <2> QED
    BY <1>1, <1>2, <2>1, SetInduction
<1> QED
  BY <1>3

\* Kept is a sequence again, and has the elements that it should.
LEMMA KeptRange ==
  ASSUME NEW S, NEW s \in Seq(S), NEW keep
  PROVE  /\ Kept(s, keep) \in Seq(S)
         /\ Range(Kept(s, keep)) = Range(s) \cap keep
<1> DEFINE step == [n \in 1..Len(s) |->
                      [b \in Seq(S) |-> IF s[n] \in keep THEN Append(b, s[n]) ELSE b]]
           k == CHOOSE k : k = [n \in 0..Len(s) |->
                  IF n = 0 THEN <<>>
                  ELSE IF s[n] \in keep THEN Append(k[n - 1], s[n]) ELSE k[n - 1]]
           T == {m \in Nat : m <= Len(s) =>
                   k[m] \in Seq(S) /\ Range(k[m]) = {s[i] : i \in 1..m} \cap keep}
<1>1. step \in [1..Len(s) -> [Seq(S) -> Seq(S)]]
  OBVIOUS
<1>2. PICK g \in [0..Len(s) -> Seq(S)] :
        g[0] = <<>> /\ \A n \in 1..Len(s) : g[n] = step[n][g[n - 1]]
  <2> DEFINE Q == Seq(S)
             N == Len(s)
             e == <<>>
  <2>1. e \in Q /\ N \in Nat /\ step \in [1..N -> [Q -> Q]]
    BY <1>1
  <2> HIDE DEF step, Q, N, e
  <2>2. \E f \in [0..N -> Q] : f[0] = e /\ \A n \in 1..N : f[n] = step[n][f[n - 1]]
    BY <2>1, Iteration
  <2> QED
    BY <2>2 DEF Q, N, e
<1>3. g = [n \in 0..Len(s) |->
             IF n = 0 THEN <<>>
             ELSE IF s[n] \in keep THEN Append(g[n - 1], s[n]) ELSE g[n - 1]]
  <2>1. ASSUME NEW n \in 1..Len(s)
        PROVE  g[n] = IF s[n] \in keep THEN Append(g[n - 1], s[n]) ELSE g[n - 1]
    <3>1. g[n] = step[n][g[n - 1]] /\ g[n - 1] \in Seq(S)
      <4> HIDE DEF step
      <4> QED
        BY <1>2
    <3>2. \A b \in Seq(S) : step[n][b] = IF s[n] \in keep THEN Append(b, s[n]) ELSE b
      OBVIOUS
    <3> QED
      BY <3>1, <3>2
  <2> DEFINE B(n) == IF n = 0 THEN <<>>
                     ELSE IF s[n] \in keep THEN Append(g[n - 1], s[n]) ELSE g[n - 1]
  <2> HIDE DEF step
  <2>2. ASSUME NEW n \in 0..Len(s) PROVE g[n] = B(n)
    <3>1. g[0] = <<>>
      BY <1>2
    <3>2. CASE n = 0
      BY <3>1, <3>2
    <3>3. CASE n # 0
      BY <2>1, <3>3, n \in 1..Len(s)
    <3> QED
      BY <3>2, <3>3
  <2> HIDE DEF B
  <2>3. g = [n \in 0..Len(s) |-> B(n)]
    BY <2>2
  <2> QED
    BY <2>3 DEF B
<1>4. k = [n \in 0..Len(s) |->
             IF n = 0 THEN <<>>
             ELSE IF s[n] \in keep THEN Append(k[n - 1], s[n]) ELSE k[n - 1]]
  BY <1>3
<1>5. Kept(s, keep) = k[Len(s)]
  BY DEF Kept
<1> HIDE DEF k
<1>6. 0 \in T
  BY <1>4 DEF Range
<1>7. ASSUME NEW m \in T PROVE m + 1 \in T
  <2> SUFFICES ASSUME m + 1 <= Len(s)
               PROVE  /\ k[m + 1] \in Seq(S)
                      /\ Range(k[m + 1]) = {s[i] : i \in 1..(m + 1)} \cap keep
    BY <1>7
  <2>1. /\ s[m + 1] \in S /\ k[m] \in Seq(S)
        /\ Range(k[m]) = {s[i] : i \in 1..m} \cap keep
    BY <1>7
  <2>2. k[m + 1] = IF s[m + 1] \in keep THEN Append(k[m], s[m + 1]) ELSE k[m]
    BY <1>4, m + 1 \in 0..Len(s), m + 1 # 0, (m + 1) - 1 = m
  <2>3. {s[i] : i \in 1..(m + 1)} = {s[i] : i \in 1..m} \cup {s[m + 1]}
    OBVIOUS
  <2>4. ASSUME NEW b \in Seq(S), NEW e \in S
        PROVE  Range(Append(b, e)) = Range(b) \cup {e}
    <3>1. /\ Len(Append(b, e)) = Len(b) + 1 /\ Append(b, e) \in Seq(S) /\ Len(b) \in Nat
          /\ \A i \in 1..Len(b) : Append(b, e)[i] = b[i]
          /\ Append(b, e)[Len(b) + 1] = e
      BY AppendProperties
    <3>2. DOMAIN Append(b, e) = 1..(Len(b) + 1) /\ DOMAIN b = 1..Len(b)
      BY <3>1
    <3> DEFINE c == Append(b, e)
               l == Len(b)
    <3>3. /\ l \in Nat /\ c[l + 1] = e /\ \A i \in 1..l : c[i] = b[i]
          /\ Range(c) = {c[i] : i \in 1..(l + 1)} /\ Range(b) = {b[i] : i \in 1..l}
      BY <3>1, <3>2 DEF Range
    <3> HIDE DEF c, l
    <3>4. ASSUME NEW i \in 1..(l + 1) PROVE c[i] \in {b[j] : j \in 1..l} \cup {e}
      <4>1. i = l + 1 \/ i \in 1..l
        BY <3>3
      <4>2. i \in 1..l => c[i] = b[i]
        BY <3>3
      <4> QED
        BY <3>3, <4>1, <4>2
    <3>5. (\A j \in 1..l : b[j] \in {c[i] : i \in 1..(l + 1)}) /\ e \in {c[i] : i \in 1..(l + 1)}
      <4>1. \A j \in 1..l : j \in 1..(l + 1) /\ c[j] = b[j]
        BY <3>3
      <4>2. l + 1 \in 1..(l + 1) /\ c[l + 1] = e
        BY <3>3
      <4> QED
        BY <4>1, <4>2
    <3> QED
      <4>1. {c[i] : i \in 1..(l + 1)} = {b[j] : j \in 1..l} \cup {e}
        BY <3>4, <3>5
      <4>2. Range(c) = Range(b) \cup {e}
        BY <3>3, <4>1
      <4> QED
        BY <4>2 DEF c
  <2> QED
    BY <2>1, <2>2, <2>3, <2>4
<1>8. T = Nat
  <2> HIDE DEF T
  <2>1. T \in SUBSET Nat
    BY DEF T
  <2> QED
    BY <1>6, <1>7, <2>1, SetInduction
<1>9. /\ k[Len(s)] \in Seq(S)
      /\ Range(k[Len(s)]) = {s[i] : i \in 1..Len(s)} \cap keep
  <2>1. Len(s) \in Nat /\ Len(s) <= Len(s)
    OBVIOUS
  <2> HIDE DEF Range
  <2> QED
    BY <1>8, <2>1
<1> QED
  BY <1>5, <1>9 DEF Range

-----------------------------------------------------------------------------
(* The rooms, whatever the connection does                                 *)

RoomFieldsTyped(a) ==
  /\ DOMAIN a = Fields
  /\ a.room \in [Rooms -> Room] /\ a.conferences \in Seq(Rooms) /\ a.rejoining \in Seq(Rooms)

\* A room that has heard of us, or will be told, listens to presence changes; one the user
\* is in does so, or waits to be entered again.
Listens(a) ==
  \A r \in Rooms :
    /\ a.room[r].joined \/ a.room[r].requested \/ a.room[r].server # "out" => a.room[r].token
    /\ a.room[r].inside => a.room[r].token \/ r \in Range(a.rejoining)

Present(a) == \A r \in Rooms : a.room[r].inside => a.room[r].server # "out"

RoomsInv(a) ==
  RoomFieldsTyped(a) /\ Listens(a) /\ (a.connectionInitialized => Present(a))

\* The connection's part of the account does not matter.
LEMMA RoomsAlone ==
  ASSUME NEW a, RoomsInv(a), NEW b, DOMAIN b = Fields,
         b.room = a.room, b.conferences = a.conferences, b.rejoining = a.rejoining,
         b.connectionInitialized => a.connectionInitialized
  PROVE  RoomsInv(b)
  BY DEF RoomsInv, RoomFieldsTyped, Listens, Present

\* One room changes.
LEMMA OneRoom ==
  ASSUME NEW a, RoomsInv(a), NEW r \in Rooms, NEW x \in Room, NEW q \in Seq(Rooms),
         x.joined \/ x.requested \/ x.server # "out" => x.token,
         x.inside => x.token \/ r \in Range(a.rejoining),
         a.connectionInitialized /\ x.inside => x.server # "out",
         NEW b, DOMAIN b = Fields, b.room = [a.room EXCEPT ![r] = x], b.conferences = q,
         b.rejoining = a.rejoining, b.connectionInitialized = a.connectionInitialized
  PROVE  RoomsInv(b)
<1>1. b.room \in [Rooms -> Room] /\ b.room[r] = x /\ \A p \in Rooms \ {r} : b.room[p] = a.room[p]
  BY DEF RoomsInv, RoomFieldsTyped
<1>2. RoomFieldsTyped(b)
  BY <1>1 DEF RoomsInv, RoomFieldsTyped
<1>3. Listens(b)
  BY <1>1 DEF RoomsInv, Listens
<1>4. b.connectionInitialized => Present(b)
  BY <1>1 DEF RoomsInv, Present
<1> QED
  BY <1>2, <1>3, <1>4 DEF RoomsInv

\* Every second room is cleaned and waits; the others keep their token.
LEMMA CleanRoomsKeeps ==
  ASSUME NEW a, RoomsInv(a)
  PROVE  RoomFieldsTyped(CleanRooms(a)) /\ Listens(CleanRooms(a))
<1> DEFINE n == Len(a.conferences)
           visited == [i \in 1..((n + 1) \div 2) |-> a.conferences[2 * i - 1]]
           queue == a.rejoining \o Kept(visited, Rooms \ Range(a.rejoining))
           room == [r \in Rooms |-> IF r \in Range(visited) THEN Cleaned(a.room[r])
                                    ELSE [a.room[r] EXCEPT !.server = "out"]]
           q == Kept(a.conferences, Rooms \ Range(visited))
           b == [a EXCEPT !.conferences = q, !.rejoining = queue, !.room = room]
<1>1. /\ a.conferences \in Seq(Rooms) /\ a.rejoining \in Seq(Rooms) /\ a.room \in [Rooms -> Room]
      /\ DOMAIN a = Fields
  BY DEF RoomsInv, RoomFieldsTyped
<1>2. visited \in Seq(Rooms)
  <2> DEFINE s == a.conferences
  <2>0. s \in Seq(Rooms) /\ n = Len(s)
    BY <1>1
  <2> HIDE DEF s, n
  <2>1. n \in Nat /\ (n + 1) \div 2 \in Nat
    BY <2>0
  <2>2. ASSUME NEW i \in 1..((n + 1) \div 2) PROVE s[2 * i - 1] \in Rooms
    <3>1. 2 * i - 1 \in 1..n
      BY <2>1
    <3> QED
      BY <2>0, <3>1
  <2> DEFINE m == (n + 1) \div 2
  <2>3. m \in Nat /\ \A i \in 1..m : s[2 * i - 1] \in Rooms
    BY <2>1, <2>2
  <2>4. visited = [i \in 1..m |-> s[2 * i - 1]]
    BY DEF s
  <2> HIDE DEF m, visited
  <2> QED
    BY <2>3, <2>4
<1> HIDE DEF visited
<1>3. /\ q \in Seq(Rooms) /\ Kept(visited, Rooms \ Range(a.rejoining)) \in Seq(Rooms)
      /\ Range(Kept(visited, Rooms \ Range(a.rejoining)))
           = Range(visited) \cap (Rooms \ Range(a.rejoining))
  BY <1>1, <1>2, KeptRange
<1>4. queue \in Seq(Rooms) /\ Range(visited) \cap Rooms \subseteq Range(queue)
      /\ Range(a.rejoining) \subseteq Range(queue)
  <2> DEFINE e == Kept(visited, Rooms \ Range(a.rejoining))
  <2>1. e \in Seq(Rooms)
    BY <1>3
  <2>2. Range(e) = Range(visited) \cap (Rooms \ Range(a.rejoining))
    BY <1>3
  <2> HIDE DEF e
  <2>3. queue = a.rejoining \o e
    BY DEF e
  <2> HIDE DEF queue
  <2>4. queue \in Seq(Rooms) /\ Range(queue) = Range(a.rejoining) \cup Range(e)
    BY <1>1, <2>1, <2>3, RangeConcatenation
  <2> QED
    BY <2>2, <2>4
<1> HIDE DEF queue, q
<1>5. room \in [Rooms -> Room]
  BY <1>1 DEF Room, Cleaned
<1>6. CleanRooms(a) = b
  BY DEF CleanRooms, visited, queue, q
<1>7. b.room = room /\ b.conferences = q /\ b.rejoining = queue /\ DOMAIN b = Fields
  BY <1>1 DEF Fields
<1>8. \A r \in Rooms :
        /\ r \in Range(visited) => r \in Range(queue)
        /\ r \notin Range(visited) =>
             /\ room[r].joined = a.room[r].joined /\ room[r].requested = a.room[r].requested
             /\ room[r].token = a.room[r].token /\ room[r].inside = a.room[r].inside
             /\ room[r].server = "out"
        /\ r \in Range(visited) =>
             ~room[r].joined /\ ~room[r].requested /\ room[r].server = "out"
  BY <1>1, <1>4 DEF Room, Cleaned
<1> HIDE DEF b, room
<1>9. RoomFieldsTyped(b)
  BY <1>3, <1>4, <1>5, <1>7 DEF RoomFieldsTyped
<1>10. Listens(b)
  BY <1>4, <1>7, <1>8 DEF Listens, RoomsInv
<1> QED
  BY <1>6, <1>9, <1>10

\* onDisconnect() leaves every room the user is in with a token or in the queue.
LEMMA OnDisconnectRooms ==
  ASSUME NEW a, RoomsInv(a)
  PROVE  RoomsInv(OnDisconnect(a))
<1> DEFINE c == CleanRooms(a)
           b == [c EXCEPT !.connection = Stub, !.connected = FALSE, !.connecting = FALSE,
                          !.connectionInitialized = FALSE, !.initConnectionState = {},
                          !.userDisconnect = FALSE, !.deck = "form"]
           l == [b EXCEPT !.notices = @ \cup {"lost"}]
<1>1. RoomFieldsTyped(c) /\ Listens(c)
  BY CleanRoomsKeeps
<1>2. OnDisconnect(a) = IF a.userDisconnect THEN b ELSE IF AutoReconnect THEN Reconnect(b) ELSE l
  BY DEF OnDisconnect
<1> HIDE DEF c
<1>3. RoomsInv(b)
  BY <1>1 DEF RoomsInv, RoomFieldsTyped, Listens, Fields
<1>4. DOMAIN b = Fields
  BY <1>3 DEF RoomsInv, RoomFieldsTyped
<1> HIDE DEF b
<1>5. RoomsInv(Reconnect(b))
  <2> DEFINE d == Reconnect(b)
  <2>1. /\ DOMAIN d = Fields /\ d.room = b.room /\ d.conferences = b.conferences
        /\ d.rejoining = b.rejoining /\ d.connectionInitialized = b.connectionInitialized
    BY <1>4 DEF Reconnect, Fields
  <2> HIDE DEF d
  <2>2. RoomsInv(d)
    BY <1>3, <2>1, RoomsAlone
  <2> QED
    BY <2>2 DEF d
<1>6. RoomsInv(l)
  <2>1. /\ DOMAIN l = Fields /\ l.room = b.room /\ l.conferences = b.conferences
        /\ l.rejoining = b.rejoining /\ l.connectionInitialized = b.connectionInitialized
    BY <1>4 DEF Fields
  <2> HIDE DEF l
  <2> QED
    BY <1>3, <2>1, RoomsAlone
<1> QED
  BY <1>2, <1>3, <1>5, <1>6

\* Presence goes to every room that listens, and the rooms in the queue are entered: then the
\* user is present wherever he is.
LEMMA InitConnectionStepRooms ==
  ASSUME NEW a, RoomsInv(a), NEW flags
  PROVE  RoomsInv(InitConnectionStep(a, flags))
<1> DEFINE done == a.initConnectionState \cup flags
           bits == [a EXCEPT !.initConnectionState = done]
           init == [a EXCEPT !.initConnectionState = done, !.connectionInitialized = TRUE,
                             !.connecting = FALSE]
           sent == SendPresenceToRooms(init)
           room == [r \in Rooms |-> IF a.room[r].token /\ a.room[r].server = "out"
                                    THEN [a.room[r] EXCEPT !.server = "asked"] ELSE a.room[r]]
           again == Kept(sent.rejoining,
                         {r \in Rooms : ~sent.room[r].joined /\ ~sent.room[r].requested})
           last == [r \in Rooms |-> IF r \notin Range(again) THEN sent.room[r]
                      ELSE [sent.room[r] EXCEPT !.requested = TRUE, !.token = TRUE,
                                                !.server = "asked"]]
           end == RejoinRooms(sent)
<1>0. /\ a.conferences \in Seq(Rooms) /\ a.rejoining \in Seq(Rooms) /\ a.room \in [Rooms -> Room]
      /\ DOMAIN a = Fields
  BY DEF RoomsInv, RoomFieldsTyped
<1>1. InitConnectionStep(a, flags) = IF a.initConnectionState = InitFlags THEN a
                                     ELSE IF done # InitFlags THEN bits ELSE end
  BY DEF InitConnectionStep
<1>2. RoomsInv(bits)
  BY <1>0, RoomsAlone DEF Fields
<1>3. /\ init.room = a.room /\ init.conferences = a.conferences /\ init.rejoining = a.rejoining
      /\ DOMAIN init = Fields
  BY <1>0 DEF Fields
<1> HIDE DEF init
<1>4. /\ sent.room = room /\ sent.conferences = a.conferences /\ sent.rejoining = a.rejoining
      /\ DOMAIN sent = Fields
  BY <1>3 DEF SendPresenceToRooms, Fields
<1> HIDE DEF sent
<1>5. /\ room \in [Rooms -> Room]
      /\ \A r \in Rooms :
           /\ room[r].joined = a.room[r].joined /\ room[r].requested = a.room[r].requested
           /\ room[r].token = a.room[r].token /\ room[r].inside = a.room[r].inside
           /\ room[r].token => room[r].server # "out"
           /\ room[r].server # "out" => room[r].token
  BY <1>0 DEF Room, RoomsInv, Listens
<1> HIDE DEF room
<1>6. /\ again \in Seq(Rooms)
      /\ \A r \in Rooms : r \in Range(again) <=>
           r \in Range(a.rejoining) /\ ~room[r].joined /\ ~room[r].requested
  <2> DEFINE idle == {r \in Rooms : ~sent.room[r].joined /\ ~sent.room[r].requested}
             s == sent.rejoining
  <2>1. s \in Seq(Rooms)
    BY <1>0, <1>4
  <2>2. again = Kept(s, idle)
    OBVIOUS
  <2> HIDE DEF s, idle
  <2>3. Kept(s, idle) \in Seq(Rooms) /\ Range(Kept(s, idle)) = Range(s) \cap idle
    BY <2>1, KeptRange
  <2> HIDE DEF again
  <2> QED
    BY <1>4, <2>2, <2>3 DEF s, idle
<1>7. /\ end.room = last /\ end.conferences = sent.conferences \o again
      /\ end.rejoining = <<>> /\ DOMAIN end = Fields
  BY <1>4 DEF RejoinRooms, Fields
<1> HIDE DEF again
<1>8. /\ last \in [Rooms -> Room]
      /\ \A r \in Rooms :
           /\ r \notin Range(again) => last[r] = room[r]
           /\ r \in Range(again) => last[r].token /\ last[r].server = "asked"
           /\ last[r].inside = room[r].inside
  <2>1. last = [r \in Rooms |-> IF r \notin Range(again) THEN room[r]
                 ELSE [room[r] EXCEPT !.requested = TRUE, !.token = TRUE, !.server = "asked"]]
    BY <1>4
  <2> HIDE DEF last
  <2>2. ASSUME NEW x \in Room
        PROVE  [x EXCEPT !.requested = TRUE, !.token = TRUE, !.server = "asked"]
                 \in {y \in Room : y.token /\ y.server = "asked" /\ y.inside = x.inside}
    BY DEF Room
  <2> QED
    BY <1>5, <2>1, <2>2
<1> HIDE DEF last, end
<1>9. RoomFieldsTyped(end)
  BY <1>0, <1>4, <1>6, <1>7, <1>8 DEF RoomFieldsTyped
<1>10. Present(end) /\ \A r \in Rooms : end.room[r].server # "out" => end.room[r].token
  BY <1>5, <1>6, <1>7, <1>8 DEF Present, RoomsInv, Listens
<1>11. \A r \in Rooms : end.room[r].joined \/ end.room[r].requested => end.room[r].token
  BY <1>5, <1>7, <1>8 DEF RoomsInv, Listens
<1>12. Listens(end)
  BY <1>10, <1>11 DEF Listens, Present
<1>13. RoomsInv(end)
  BY <1>9, <1>10, <1>12 DEF RoomsInv
<1> QED
  BY <1>1, <1>2, <1>13

\* What updateRoom changes.
LEMMA UpdateRoomFields ==
  ASSUME NEW a, DOMAIN a = Fields, NEW r, NEW x
  PROVE  LET b == UpdateRoom(a, r, x) IN
         /\ DOMAIN b = Fields /\ b.room = [a.room EXCEPT ![r] = x]
         /\ b.conferences = a.conferences /\ b.rejoining = a.rejoining
         /\ b.connectionInitialized = a.connectionInitialized
  BY DEF UpdateRoom, Fields

\* What _exitRoomCleanup() changes.
LEMMA ExitRoomFields ==
  ASSUME NEW a, RoomFieldsTyped(a), NEW r \in Rooms
  PROVE  LET b == ExitRoomCleanup(a, r) IN
         /\ DOMAIN b = Fields /\ b.room = [a.room EXCEPT ![r] = Cleaned(a.room[r])]
         /\ b.conferences \in Seq(Rooms) /\ b.rejoining = a.rejoining
         /\ b.connectionInitialized = a.connectionInitialized
<1> DEFINE q == Kept(a.conferences, Rooms \ {r})
           c == [a EXCEPT !.conferences = q]
<1>1. a.conferences \in Seq(Rooms) /\ DOMAIN a = Fields
  BY DEF RoomFieldsTyped
<1>2. q \in Seq(Rooms)
  BY <1>1, KeptRange
<1>3. /\ DOMAIN c = Fields /\ c.room = a.room /\ c.conferences = q
      /\ c.rejoining = a.rejoining /\ c.connectionInitialized = a.connectionInitialized
  BY <1>1 DEF Fields
<1>4. ExitRoomCleanup(a, r) = UpdateRoom(c, r, Cleaned(a.room[r]))
  BY DEF ExitRoomCleanup
<1> HIDE DEF c, q
<1> QED
  BY <1>2, <1>3, <1>4, UpdateRoomFields

\* A room that is left: after a cleanup or without one the user is out of it.
LEMMA LeavesRoom ==
  ASSUME NEW a, RoomsInv(a), NEW r \in Rooms, NEW c, DOMAIN c = Fields,
         c.conferences \in Seq(Rooms), c.rejoining = a.rejoining,
         c.connectionInitialized = a.connectionInitialized,
         NEW x \in Room, c.room = [a.room EXCEPT ![r] = x],
         x.joined \/ x.requested \/ x.server # "out" => x.token
  PROVE  RoomsInv(UpdateRoom(c, r, [c.room[r] EXCEPT !.inside = FALSE]))
<1> DEFINE y == [x EXCEPT !.inside = FALSE]
           b == UpdateRoom(c, r, y)
<1>1. /\ y \in Room /\ y.inside = FALSE
      /\ y.joined \/ y.requested \/ y.server # "out" => y.token
  BY DEF Room
<1>2. a.room \in [Rooms -> Room]
  BY DEF RoomsInv, RoomFieldsTyped
<1>3. c.room[r] = x
  BY <1>2
<1> HIDE DEF y
<1>4. /\ DOMAIN b = Fields /\ b.room = [c.room EXCEPT ![r] = y]
      /\ b.conferences = c.conferences /\ b.rejoining = c.rejoining
      /\ b.connectionInitialized = c.connectionInitialized
  BY UpdateRoomFields
<1>5. b.room = [a.room EXCEPT ![r] = y]
  BY <1>2, <1>4
<1> HIDE DEF b
<1>6. RoomsInv(b)
  BY <1>1, <1>4, <1>5, OneRoom
<1> QED
  BY <1>3, <1>6 DEF b, y

\* The user and the server move one room.
LEMMA RoomActionsKeep ==
  ASSUME RoomsInv(account), NEW r \in Rooms, EnterRoom(r) \/ ExitRoom(r) \/ Chat(r)
  PROVE  RoomsInv(account')
<1> DEFINE R == account.room[r]
<1>1. /\ account.room \in [Rooms -> Room] /\ R \in Room /\ DOMAIN account = Fields
      /\ account.conferences \in Seq(Rooms) /\ RoomFieldsTyped(account)
      /\ R.joined \/ R.requested \/ R.server # "out" => R.token
      /\ R.inside => R.token \/ r \in Range(account.rejoining)
  BY DEF RoomsInv, RoomFieldsTyped, Listens
<1>2. Cleaned(R) \in Room /\ ~Cleaned(R).joined /\ ~Cleaned(R).requested
      /\ Cleaned(R).server = "out"
  BY <1>1 DEF Cleaned, Room
<1>3. RoomsInv(UpdateRoom(ExitRoomCleanup(account, r), r,
                          [ExitRoomCleanup(account, r).room[r] EXCEPT !.inside = FALSE]))
  <2> DEFINE c == ExitRoomCleanup(account, r)
             x == Cleaned(R)
  <2>1. /\ DOMAIN c = Fields /\ c.room = [account.room EXCEPT ![r] = x]
        /\ c.conferences \in Seq(Rooms) /\ c.rejoining = account.rejoining
        /\ c.connectionInitialized = account.connectionInitialized
    BY <1>1, ExitRoomFields
  <2>2. x \in Room /\ (x.joined \/ x.requested \/ x.server # "out" => x.token)
    BY <1>2
  <2> HIDE DEF c, x
  <2> QED
    <3>1. RoomsInv(UpdateRoom(c, r, [c.room[r] EXCEPT !.inside = FALSE]))
      BY <2>1, <2>2, LeavesRoom
    <3> QED
      BY <3>1 DEF c
<1>4. ASSUME NEW x \in Room, x.joined \/ x.requested \/ x.server # "out" => x.token
      PROVE  RoomsInv(UpdateRoom(UpdateRoom(account, r, x), r,
                                 [UpdateRoom(account, r, x).room[r] EXCEPT !.inside = FALSE]))
  <2> DEFINE c == UpdateRoom(account, r, x)
  <2>1. /\ DOMAIN c = Fields /\ c.room = [account.room EXCEPT ![r] = x]
        /\ c.conferences \in Seq(Rooms) /\ c.rejoining = account.rejoining
        /\ c.connectionInitialized = account.connectionInitialized
    BY <1>1, UpdateRoomFields
  <2> HIDE DEF c
  <2> QED
    <3>1. RoomsInv(UpdateRoom(c, r, [c.room[r] EXCEPT !.inside = FALSE]))
      BY <1>4, <2>1, LeavesRoom
    <3> QED
      BY <3>1 DEF c
<1>5. CASE EnterRoom(r)
  <2> DEFINE q == Append(account.conferences, r)
             c == [account EXCEPT !.conferences = q]
             x == [R EXCEPT !.requested = TRUE, !.token = TRUE, !.server = "asked"]
             d == UpdateRoom(c, r, x)
             y == [x EXCEPT !.inside = TRUE]
             b == UpdateRoom(d, r, y)
  <2>1. JoinRoom(account, r) = d
    BY <1>5 DEF EnterRoom, JoinRoom
  <2>2. /\ x \in Room /\ y \in Room /\ y.token /\ y.server = "asked" /\ y.inside
    BY <1>1 DEF Room
  <2>3. q \in Seq(Rooms)
    BY <1>1
  <2>4. /\ DOMAIN c = Fields /\ c.room = account.room /\ c.conferences = q
        /\ c.rejoining = account.rejoining
        /\ c.connectionInitialized = account.connectionInitialized
    BY <1>1 DEF Fields
  <2> HIDE DEF c, q, x
  <2>5. /\ DOMAIN d = Fields /\ d.room = [account.room EXCEPT ![r] = x] /\ d.conferences = q
        /\ d.rejoining = account.rejoining
        /\ d.connectionInitialized = account.connectionInitialized
    BY <2>4, UpdateRoomFields
  <2>6. d.room[r] = x
    BY <1>1, <2>5
  <2> HIDE DEF d, y
  <2>7. /\ DOMAIN b = Fields /\ b.room = [d.room EXCEPT ![r] = y] /\ b.conferences = q
        /\ b.rejoining = account.rejoining
        /\ b.connectionInitialized = account.connectionInitialized
    BY <2>5, UpdateRoomFields
  <2>8. b.room = [account.room EXCEPT ![r] = y]
    BY <1>1, <2>5, <2>7
  <2>9. account' = b
    BY <1>5, <2>1, <2>6 DEF EnterRoom, y
  <2> HIDE DEF b
  <2>10. RoomsInv(b)
    BY <2>2, <2>3, <2>7, <2>8, OneRoom
  <2> QED
    BY <2>9, <2>10
<1>6. CASE ExitRoom(r)
  <2>1. CASE R.joined \/ R.requested
    BY <1>3, <1>6, <2>1 DEF ExitRoom
  <2>2. CASE ~(R.joined \/ R.requested)
    <3> DEFINE x == R
    <3>1. account.room = [account.room EXCEPT ![r] = x] /\ x \in Room
      BY <1>1
    <3> HIDE DEF x
    <3>2. RoomsInv(UpdateRoom(account, r, [account.room[r] EXCEPT !.inside = FALSE]))
      BY <1>1, <3>1, LeavesRoom DEF x
    <3> QED
      BY <1>6, <2>2, <3>2 DEF ExitRoom
  <2> QED
    BY <2>1, <2>2
<1>7. CASE RoomEntered(r)
  <2> DEFINE x == [R EXCEPT !.joined = TRUE, !.requested = FALSE, !.server = "in"]
             b == UpdateRoom(account, r, x)
  <2>1. x \in Room /\ x.token /\ x.server = "in"
    BY <1>1, <1>7 DEF RoomEntered, Room
  <2> HIDE DEF x
  <2>2. /\ DOMAIN b = Fields /\ b.room = [account.room EXCEPT ![r] = x]
        /\ b.conferences = account.conferences /\ b.rejoining = account.rejoining
        /\ b.connectionInitialized = account.connectionInitialized
    BY <1>1, UpdateRoomFields
  <2>3. account' = b
    BY <1>7 DEF RoomEntered, x
  <2> HIDE DEF b
  <2>4. RoomsInv(b)
    BY <1>1, <2>1, <2>2, OneRoom
  <2> QED
    BY <2>3, <2>4
<1>8. CASE RoomRefused(r)
  <2> DEFINE x == [R EXCEPT !.server = "out"]
  <2>1. x \in Room /\ (x.joined \/ x.requested \/ x.server # "out" => x.token)
    BY <1>1 DEF Room
  <2>2. RoomsInv(UpdateRoom(UpdateRoom(account, r, x), r,
                            [UpdateRoom(account, r, x).room[r] EXCEPT !.inside = FALSE]))
    BY <1>4, <2>1
  <2> QED
    BY <1>3, <1>8, <2>2 DEF RoomRefused
<1>9. CASE RoomLeft(r)
  BY <1>3, <1>9 DEF RoomLeft
<1> QED
  BY <1>5, <1>6, <1>7, <1>8, <1>9 DEF Chat

\* What is done to the connection alone.
SameRooms(a, b) ==
  /\ DOMAIN b = Fields
  /\ b.room = a.room /\ b.conferences = a.conferences /\ b.rejoining = a.rejoining
  /\ b.connectionInitialized = a.connectionInitialized

\* The methods that leave the rooms alone.
LEMMA ConnectionFields ==
  ASSUME NEW a, DOMAIN a = Fields, NEW x, NEW y
  PROVE  /\ SameRooms(a, [a EXCEPT !.userDisconnect = x])
         /\ SameRooms(a, AbortReconnect(a))
         /\ SameRooms(a, OnConnect(a))
         /\ SameRooms(a, [a EXCEPT !.deck = x])
         /\ SameRooms(a, [a EXCEPT !.notices = x])
         /\ SameRooms(a, Connect(a, x))
         /\ SameRooms(a, [Connect(a, x) EXCEPT !.reconnectTimeout = y])
<1>1. SameRooms(a, [a EXCEPT !.userDisconnect = x])
  BY DEF SameRooms, Fields
<1>2. SameRooms(a, AbortReconnect(a))
  BY DEF SameRooms, Fields, AbortReconnect
<1>3. SameRooms(a, OnConnect(a))
  BY DEF SameRooms, Fields, OnConnect
<1>4. SameRooms(a, [a EXCEPT !.deck = x]) /\ SameRooms(a, [a EXCEPT !.notices = x])
  BY DEF SameRooms, Fields
<1>5. SameRooms(a, Connect(a, x))
  BY DEF SameRooms, Fields, Connect
<1>6. SameRooms(a, [Connect(a, x) EXCEPT !.reconnectTimeout = y])
  BY DEF SameRooms, Fields, Connect
<1> QED
  BY <1>1, <1>2, <1>3, <1>4, <1>5, <1>6

\* ... keep what is said about them.
LEMMA SameRoomsKeep ==
  ASSUME NEW a, RoomsInv(a), NEW b, SameRooms(a, b)
  PROVE  RoomsInv(b)
  BY RoomsAlone DEF SameRooms

\* A change of presence tells the rooms that had not heard of us.
LEMMA PresenceKeeps ==
  ASSUME NEW a, RoomsInv(a)
  PROVE  RoomsInv(SendPresenceToRooms(a))
<1> DEFINE room == [r \in Rooms |-> IF a.room[r].token /\ a.room[r].server = "out"
                                    THEN [a.room[r] EXCEPT !.server = "asked"] ELSE a.room[r]]
           b == SendPresenceToRooms(a)
<1>1. a.room \in [Rooms -> Room] /\ DOMAIN a = Fields /\ RoomFieldsTyped(a) /\ Listens(a)
  BY DEF RoomsInv, RoomFieldsTyped
<1>2. /\ b.room = room /\ b.conferences = a.conferences /\ b.rejoining = a.rejoining
      /\ b.connectionInitialized = a.connectionInitialized /\ DOMAIN b = Fields
  BY <1>1 DEF SendPresenceToRooms, Fields
<1>3. /\ room \in [Rooms -> Room]
      /\ \A r \in Rooms :
           /\ room[r].joined = a.room[r].joined /\ room[r].requested = a.room[r].requested
           /\ room[r].token = a.room[r].token /\ room[r].inside = a.room[r].inside
           /\ room[r].server = "out" => a.room[r].server = "out"
           /\ room[r].server # "out" => room[r].token
  BY <1>1 DEF Room, Listens
<1> HIDE DEF room, b
<1>4. RoomFieldsTyped(b)
  BY <1>1, <1>2, <1>3 DEF RoomFieldsTyped
<1>5. Listens(b)
  BY <1>1, <1>2, <1>3 DEF Listens
<1>6. b.connectionInitialized => Present(b)
  BY <1>2, <1>3 DEF RoomsInv, Present
<1> QED
  BY <1>4, <1>5, <1>6 DEF RoomsInv, b

\* Every step keeps what is said about the rooms.
LEMMA RoomsStep == RoomsInv(account) /\ [Next]_vars => RoomsInv(account')
<1> SUFFICES ASSUME RoomsInv(account), [Next]_vars PROVE RoomsInv(account')
  OBVIOUS
<1> DEFINE leaving == [account EXCEPT !.userDisconnect = TRUE]
<1>1. DOMAIN account = Fields
  BY DEF RoomsInv, RoomFieldsTyped
<1>2. RoomsInv(leaving) /\ DOMAIN leaving = Fields
  <2>1. SameRooms(account, leaving)
    BY <1>1, ConnectionFields
  <2> HIDE DEF leaving
  <2> QED
    BY <2>1, SameRoomsKeep DEF SameRooms
<1>3. /\ RoomsInv(OnDisconnect(account)) /\ RoomsInv(OnDisconnect(leaving))
      /\ RoomsInv(OnDisconnect(OnDisconnect(account)))
      /\ RoomsInv(OnDisconnect(OnDisconnect(leaving)))
      /\ RoomsInv(AbortReconnect(leaving))
  <2>1. RoomsInv(OnDisconnect(account)) /\ RoomsInv(OnDisconnect(leaving))
    BY <1>2, OnDisconnectRooms
  <2>2. SameRooms(leaving, AbortReconnect(leaving))
    BY <1>2, ConnectionFields
  <2> HIDE DEF leaving
  <2>3. RoomsInv(AbortReconnect(leaving))
    BY <1>2, <2>2, SameRoomsKeep
  <2> QED
    BY <2>1, <2>3, OnDisconnectRooms
<1>4. Disconnect => RoomsInv(account')
  BY <1>2, <1>3 DEF Disconnect
<1> HIDE DEF leaving
<1>5. CASE SignIn
  <2> DEFINE a == [account EXCEPT !.notices = {}]
  <2>1. PICK c \in Conns : account' = Connect(a, c)
    BY <1>5 DEF SignIn
  <2>2. SameRooms(account, a)
    BY <1>1, ConnectionFields
  <2> HIDE DEF a
  <2>3. RoomsInv(a) /\ SameRooms(a, Connect(a, c))
    BY <2>2, SameRoomsKeep, ConnectionFields DEF SameRooms
  <2> QED
    BY <2>1, <2>3, SameRoomsKeep
<1>6. CASE StopConnecting \/ SignOut
  BY <1>4, <1>6 DEF StopConnecting, SignOut
<1>7. CASE ChangePresence
  BY <1>7, PresenceKeeps DEF ChangePresence
<1>8. CASE TimerTicks
  BY <1>1, <1>8, ConnectionFields, SameRoomsKeep DEF TimerTicks
<1>9. CASE TimerFires
  <2>1. PICK c \in Conns : account' = [Connect(account, c) EXCEPT !.reconnectTimeout = FALSE]
    BY <1>9 DEF TimerFires
  <2> QED
    BY <1>1, <2>1, ConnectionFields, SameRoomsKeep
<1>10. ASSUME NEW c \in Conns, Server(c) PROVE RoomsInv(account')
  <2>1. CASE Connected(c)
    BY <1>1, <2>1, ConnectionFields, SameRoomsKeep DEF Connected
  <2>2. CASE Lost(c) \/ AuthenticationFails(c) \/ StreamError(c) \/ Conflict(c)
    BY <1>3, <2>2 DEF Lost, AuthenticationFails, StreamError, Conflict, leaving
  <2>3. ASSUME NEW query, NEW flags, Answer(c, query, flags) PROVE RoomsInv(account')
    BY <2>3, InitConnectionStepRooms DEF Answer
  <2>4. CASE RosterFetched(c) \/ GotSavedPresence(c) \/ GotPresenceProfiles(c)
    BY <2>3, <2>4 DEF RosterFetched, GotSavedPresence, GotPresenceProfiles
  <2> QED
    BY <1>10, <2>1, <2>2, <2>4 DEF Server
<1>11. ASSUME NEW r \in Rooms, EnterRoom(r) \/ ExitRoom(r) \/ Chat(r) PROVE RoomsInv(account')
  BY <1>11, RoomActionsKeep
<1>12. CASE UNCHANGED vars
  BY <1>12 DEF vars
<1> QED
  BY <1>5, <1>6, <1>7, <1>8, <1>9, <1>10, <1>11, <1>12 DEF Next, User

\* However often the connection is lost, with stream errors too: once the presence is out,
\* every room the user is in has got it on this connection, although the loop of
\* onDisconnect() steps over every second room (RoomsComeBack).
THEOREM NoRoomLeftOut == Spec => []RoomsComeBack
<1>1. Init => RoomsInv(account)
  <2>1. Range(<<>>) = {} /\ <<>> \in Seq(Rooms)
    BY DEF Range
  <2>2. [r \in Rooms |-> NoRoom] \in [Rooms -> Room]
    BY DEF NoRoom, Room
  <2> QED
    BY <2>1, <2>2 DEF Init, RoomsInv, RoomFieldsTyped, Listens, Present, NoRoom, Fields
<1>2. RoomsInv(account) => RoomsComeBack
  BY DEF RoomsInv, Present, RoomsComeBack
<1> DEFINE Ok == RoomsInv(account)
<1>3. Ok /\ [Next]_vars => Ok'
  BY RoomsStep
<1>4. Init => Ok
  BY <1>1
<1>5. Ok => RoomsComeBack
  BY <1>2
<1> HIDE DEF Ok
<1> QED
  BY <1>3, <1>4, <1>5, PTL DEF Spec
==============================================================================
