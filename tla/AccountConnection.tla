-------------------------- MODULE AccountConnection ---------------------------
(***************************************************************************)
(* Signing in and out, and what happens when the connection to the server  *)
(* is lost: the Account object, the connection objects it creates, the     *)
(* reconnect timer, the initialisation that waits for three answers of the *)
(* server, the chat rooms that are to be entered again, and the login form *)
(* of the main window, which decides what the user can click.              *)
(*                                                                         *)
(* A connection object belongs to the JSJaC library; it is modelled by the *)
(* events it hands to the account.  Handlers run on the main thread and an *)
(* action is one event with every handler it calls, synchronously.         *)
(***************************************************************************)
EXTENDS Naturals, SequencesExt

CONSTANTS
  Conns,          \* the connection objects in use; a closed one can be reused
  Nobody,         \* account.connection before the first connect()
  Stub,           \* account.connection after onDisconnect()
  Rooms,          \* the chat rooms the user may enter
  RetryLimit,     \* how often reconnect() tries again, 4 in the code
  AutoReconnect,  \* connectionInfo.reconnect, the user's preference
  StreamErrors,   \* may the server end a stream with an error?
  ProfileErrors   \* may the query for the presence profiles fail?

ASSUME AccountAssumption ==
  /\ Nobody \notin Conns /\ Stub \notin Conns /\ Nobody # Stub
  /\ RetryLimit \in Nat
  /\ {AutoReconnect, StreamErrors, ProfileErrors} \subseteq BOOLEAN

VARIABLES
  account,   \* the fields of the Account object and of the main window
  conns,     \* [Conns -> {"closed", "opening", "online"}]
  asked,     \* [Conns -> SUBSET InitFlags], queries without an answer yet
  wanted,    \* history: the user has signed in and not out again
  trouble    \* history: what stream errors have led to, see Trouble

vars == <<account, conns, asked, wanted, trouble>>

\* "error": onDisconnect() ran twice since the last connection or sign-in; "overlap":
\* after that the user signed in while the reconnect timer was armed.
Trouble == {"none", "error", "overlap"}

\* The bits of _initConnectionState.
InitFlags == {"roster", "presence", "profiles"}

\* A conference. It reacts to presence changes and is in account.conferences
\* exactly while it holds its token (_cpToken).
Room ==
  [ joined : BOOLEAN,
    requested : BOOLEAN,    \* _joinRequested
    token : BOOLEAN,
    server : {"out", "asked", "in"},   \* what the room knows of us
    inside : BOOLEAN ]      \* history: the user entered it and has not left it

Account ==
  [ connection : Conns \cup {Nobody, Stub},
    connected : BOOLEAN,
    connecting : BOOLEAN,
    connectionInitialized : BOOLEAN,
    initConnectionState : SUBSET InitFlags,
    userDisconnect : BOOLEAN,        \* the next onDisconnect() is intended
    reconnectStep : 0..RetryLimit,
    reconnectTimeout : BOOLEAN,      \* the timer is armed
    notices : SUBSET {"reconnecting", "tried", "lost"},  \* shown since sign-in
    deck : {"form", "progress", "roster"},     \* what the main window shows
    conferences : Seq(Rooms),                  \* the rooms the user is in
    rejoining : Seq(Rooms),          \* wait for connectionInitialized to be joined
    room : [Rooms -> Room] ]

NoRoom == [ joined |-> FALSE, requested |-> FALSE, token |-> FALSE,
            server |-> "out", inside |-> FALSE ]

Init ==
  /\ account = [ connection |-> Nobody, connected |-> FALSE, connecting |-> FALSE,
                 connectionInitialized |-> FALSE, initConnectionState |-> {},
                 userDisconnect |-> FALSE, reconnectStep |-> 0,
                 reconnectTimeout |-> FALSE, notices |-> {}, deck |-> "form",
                 conferences |-> <<>>, rejoining |-> <<>>,
                 room |-> [r \in Rooms |-> NoRoom] ]
  /\ conns = [c \in Conns |-> "closed"]
  /\ asked = [c \in Conns |-> {}]
  /\ wanted = FALSE
  /\ trouble = "none"

Alive == {c \in Conns : conns[c] # "closed"}

-----------------------------------------------------------------------------
(* Rooms                                                                   *)

\* The elements of s that are in keep, in their order.
Kept(s, keep) ==
  LET k[n \in 0..Len(s)] ==
        IF n = 0 THEN <<>>
        ELSE IF s[n] \in keep THEN Append(k[n - 1], s[n]) ELSE k[n - 1]
  IN  k[Len(s)]

UpdateRoom(a, r, x) == [a EXCEPT !.room = [@ EXCEPT ![r] = x]]

\* joinRoom, which ignores a room that is joined or being joined.
JoinRoom(a, r) ==
  IF a.room[r].joined \/ a.room[r].requested THEN a
  ELSE UpdateRoom([a EXCEPT !.conferences = Append(@, r)], r,
                  [a.room[r] EXCEPT !.requested = TRUE, !.token = TRUE, !.server = "asked"])

\* _exitRoomCleanup() of one room
Cleaned(x) == [x EXCEPT !.joined = FALSE, !.requested = FALSE, !.token = FALSE,
                        !.server = "out"]

ExitRoomCleanup(a, r) ==
  UpdateRoom([a EXCEPT !.conferences = Kept(@, Rooms \ {r})], r,
             Cleaned(a.room[r]))

\* The view of "currentPresence": every room with a token gets our presence.
SendPresenceToRooms(a) ==
  [a EXCEPT !.room = [r \in Rooms |->
     IF a.room[r].token /\ a.room[r].server = "out"
     THEN [@[r] EXCEPT !.server = "asked"] ELSE @[r]]]

\* The callbacks that waited for connectionInitialized, oldest first; a room that
\* waits twice is joined once.
RejoinRooms(a) ==
  LET again == Kept(a.rejoining,
                    {r \in Rooms : ~a.room[r].joined /\ ~a.room[r].requested})
  IN  [a EXCEPT !.rejoining = <<>>,
                !.conferences = @ \o again,
                !.room = [r \in Rooms |->
                  IF r \notin Range(again) THEN @[r]
                  ELSE [@[r] EXCEPT !.requested = TRUE, !.token = TRUE, !.server = "asked"]]]

\* Mutant: the rooms are left as after a click on "exit".
CleanRoomsForGood(a) ==
  [a EXCEPT !.conferences = <<>>, !.room = [r \in Rooms |-> Cleaned(@[r])]]

\* The loop of onDisconnect() over account.conferences. Each cleanup removes the
\* room from the array the loop walks along, so the loop steps over the next one.
CleanRooms(a) ==
  LET n == Len(a.conferences)
      visited == [i \in 1..((n + 1) \div 2) |-> a.conferences[2 * i - 1]]
  IN  [a EXCEPT
        !.conferences = Kept(@, Rooms \ Range(visited)),
        !.rejoining = @ \o Kept(visited, Rooms \ Range(a.rejoining)),
        !.room = [r \in Rooms |-> IF r \in Range(visited) THEN Cleaned(@[r])
                                  ELSE [@[r] EXCEPT !.server = "out"]]]

-----------------------------------------------------------------------------
(* The account's methods                                                   *)

\* connect(), with a new connection object.
Connect(a, c) ==
  [a EXCEPT !.connection = c, !.connecting = TRUE, !.deck = "progress"]

\* Mutants: no attempt is counted; the notice that all attempts failed does not end the
\* function.
ReconnectForever(a) ==
  [a EXCEPT !.reconnectTimeout = TRUE, !.deck = "progress"]

ReconnectAfterAll(a) ==
  IF a.reconnectTimeout THEN a
  ELSE IF a.reconnectStep >= RetryLimit
  THEN [a EXCEPT !.reconnectStep = 1, !.notices = @ \cup {"tried"},
                 !.reconnectTimeout = TRUE, !.deck = "progress"]
  ELSE [a EXCEPT !.reconnectStep = @ + 1, !.reconnectTimeout = TRUE, !.deck = "progress"]

\* reconnect(): the first call of the timer's function shows the waiting time.
Reconnect(a) ==
  IF a.reconnectTimeout THEN a
  ELSE IF a.reconnectStep >= RetryLimit
  THEN [a EXCEPT !.reconnectStep = 0, !.notices = @ \cup {"tried"}]
  ELSE [a EXCEPT !.reconnectStep = @ + 1, !.reconnectTimeout = TRUE,
                 !.deck = "progress",
                 !.notices = IF a.reconnectStep = 0 THEN @ \cup {"reconnecting"} ELSE @]

\* Mutants: the timer runs on; the message stays.
AbortReconnectTimerRuns(a) ==
  IF ~a.reconnectTimeout THEN a
  ELSE [a EXCEPT !.reconnectStep = 0, !.userDisconnect = FALSE, !.deck = "form"]

AbortReconnectUnshown(a) ==
  IF ~a.reconnectTimeout THEN a
  ELSE [a EXCEPT !.reconnectTimeout = FALSE, !.reconnectStep = 0, !.userDisconnect = FALSE]

\* abortReconnect(), called through the stub's disconnect().
AbortReconnect(a) ==
  IF ~a.reconnectTimeout THEN a
  ELSE [a EXCEPT !.reconnectTimeout = FALSE, !.reconnectStep = 0,
                 !.userDisconnect = FALSE,
                 !.deck = IF a.connecting THEN "progress"
                          ELSE IF a.connected THEN "roster" ELSE "form"]

\* Mutant: the bits of the last connection are kept.
OnDisconnectKeepsBits(a) ==
  LET b == [CleanRooms(a) EXCEPT
              !.connection = Stub, !.connected = FALSE, !.connecting = FALSE,
              !.connectionInitialized = FALSE, !.userDisconnect = FALSE, !.deck = "form"]
  IN  IF a.userDisconnect \/ ~AutoReconnect THEN b ELSE Reconnect(b)

\* onDisconnect(): the window falls back to the login form before anything else.
OnDisconnect(a) ==
  LET b == [CleanRooms(a) EXCEPT
              !.connection = Stub, !.connected = FALSE, !.connecting = FALSE,
              !.connectionInitialized = FALSE, !.initConnectionState = {},
              !.userDisconnect = FALSE, !.deck = "form"]
  IN  IF a.userDisconnect THEN b
      ELSE IF AutoReconnect THEN Reconnect(b)
      ELSE [b EXCEPT !.notices = @ \cup {"lost"}]

\* onConnect(). Without a connection it has no JID to read and throws.
OnConnect(a) ==
  IF a.connection = Stub THEN a
  ELSE [a EXCEPT !.reconnectStep = 0, !.connected = TRUE, !.deck = "roster",
                 !.notices = {}]

\* Mutant: the bits replace each other.
InitConnectionStepOverwrites(a, flags) ==
  IF flags # InitFlags THEN [a EXCEPT !.initConnectionState = flags]
  ELSE RejoinRooms([a EXCEPT !.connectionInitialized = TRUE, !.connecting = FALSE])

\* _initConnectionStep(flags): with the last bit presence goes out, to the rooms
\* that still listen to it too, and the rooms that wait are entered.
InitConnectionStep(a, flags) ==
  LET done == a.initConnectionState \cup flags
  IN  IF a.initConnectionState = InitFlags THEN a
      ELSE IF done # InitFlags THEN [a EXCEPT !.initConnectionState = done]
      ELSE RejoinRooms(SendPresenceToRooms(
             [a EXCEPT !.initConnectionState = done, !.connectionInitialized = TRUE,
                       !.connecting = FALSE]))

-----------------------------------------------------------------------------
(* Connections                                                             *)

\* A connection object that was closed stays silent, even if its socket is not.
Close(c) ==
  /\ conns' = [conns EXCEPT ![c] = "closed"]
  /\ asked' = [asked EXCEPT ![c] = {}]

Open(c) ==
  /\ conns[c] = "closed"
  /\ conns' = [conns EXCEPT ![c] = "opening"]
  /\ UNCHANGED asked

\* The server has accepted us.
Connected(c) ==
  /\ conns[c] = "opening"
  /\ conns' = [conns EXCEPT ![c] = "online"]
  /\ account' = OnConnect(account)
  /\ asked' = IF account.connection \in Conns
              THEN [asked EXCEPT ![account.connection] = InitFlags] ELSE asked
  /\ trouble' = IF trouble = "error" THEN "none" ELSE trouble
  /\ UNCHANGED wanted

\* The socket is closed, or the server ends the stream: one ondisconnect.
Lost(c) ==
  /\ c \in Alive
  /\ Close(c)
  /\ account' = OnDisconnect(account)
  /\ UNCHANGED <<wanted, trouble>>

\* A 401 while signing in: onerror, then the library closes the connection.
AuthenticationFails(c) ==
  /\ conns[c] = "opening"
  /\ Close(c)
  /\ account' = OnDisconnect([account EXCEPT !.userDisconnect = TRUE])
  /\ UNCHANGED <<wanted, trouble>>

\* A stream error: onerror calls onDisconnect(), and so does the ondisconnect
\* that follows it.
StreamError(c) ==
  /\ StreamErrors
  /\ c \in Alive
  /\ Close(c)
  /\ account' = OnDisconnect(OnDisconnect(account))
  /\ trouble' = IF trouble = "none" THEN "error" ELSE trouble
  /\ UNCHANGED wanted

\* Another client took over the resource: the status event comes first.
Conflict(c) ==
  /\ StreamErrors
  /\ conns[c] = "online"
  /\ Close(c)
  /\ account' = OnDisconnect(OnDisconnect([account EXCEPT !.userDisconnect = TRUE]))
  /\ trouble' = IF trouble = "none" THEN "error" ELSE trouble
  /\ UNCHANGED wanted

-----------------------------------------------------------------------------
(* Initialisation                                                          *)

Answer(c, query, flags) ==
  /\ query \in asked[c]
  /\ asked' = [asked EXCEPT ![c] = @ \ {query}]
  /\ account' = InitConnectionStep(account, flags)
  /\ UNCHANGED <<conns, wanted, trouble>>

\* _initialRosterFetch
RosterFetched(c) == Answer(c, "roster", {"roster"})

\* _gotSavedPresence: a saved profile makes it wait for the list of profiles.
GotSavedPresence(c) ==
  \/ Answer(c, "presence", {"presence"})
  \/ Answer(c, "presence", {"presence", "profiles"})

\* _onPresenceProfiles: the callback is called only for a result.
GotPresenceProfiles(c) ==
  \/ Answer(c, "profiles", {"profiles"})
  \/ ProfileErrors /\ Answer(c, "profiles", {})

-----------------------------------------------------------------------------
(* The user and the timer                                                  *)

\* "Sign In" of the login form, or the automatic connect at startup.
SignIn ==
  /\ account.deck = "form"
  /\ \E c \in Conns :
       /\ Open(c)
       /\ account' = Connect([account EXCEPT !.notices = {}], c)
  /\ wanted' = TRUE
  /\ trouble' = IF trouble # "error" THEN trouble
                ELSE IF account.reconnectTimeout THEN "overlap" ELSE "none"

\* Mutant: the reconnect timer is left alone.
DisconnectStubIdle ==
  \/ /\ account.connection \in Conns
     /\ Close(account.connection)
     /\ account' = IF account.connection \in Alive
                   THEN OnDisconnect([account EXCEPT !.userDisconnect = TRUE])
                   ELSE [account EXCEPT !.userDisconnect = TRUE]
  \/ /\ account.connection = Stub
     /\ account' = [account EXCEPT !.userDisconnect = TRUE]
     /\ UNCHANGED <<conns, asked>>

\* disconnect(): the library answers with ondisconnect at once, the stub
\* aborts the reconnecting.
Disconnect ==
  \/ /\ account.connection \in Conns
     /\ Close(account.connection)
     /\ account' = IF account.connection \in Alive
                   THEN OnDisconnect([account EXCEPT !.userDisconnect = TRUE])
                   ELSE [account EXCEPT !.userDisconnect = TRUE]
  \/ /\ account.connection = Stub
     /\ account' = AbortReconnect([account EXCEPT !.userDisconnect = TRUE])
     /\ UNCHANGED <<conns, asked>>

\* "Stop Connecting"
StopConnecting ==
  /\ account.deck = "progress"
  /\ Disconnect
  /\ wanted' = FALSE
  /\ UNCHANGED trouble

\* The menu's "Disconnect" and the ad-hoc command, both only while connected.
SignOut ==
  /\ account.connected
  /\ Disconnect
  /\ wanted' = FALSE
  /\ UNCHANGED trouble

\* _reconnectTimeoutFun, every second: the seconds left are shown.
TimerTicks ==
  /\ account.reconnectTimeout
  /\ account.deck # "progress"
  /\ account' = [account EXCEPT !.deck = "progress"]
  /\ UNCHANGED <<conns, asked, wanted, trouble>>

\* _reconnectTimeoutFun, when no seconds are left.
TimerFires ==
  /\ account.reconnectTimeout
  /\ \E c \in Conns :
       /\ Open(c)
       /\ account' = [Connect(account, c) EXCEPT !.reconnectTimeout = FALSE]
  /\ UNCHANGED <<wanted, trouble>>

-----------------------------------------------------------------------------
(* Rooms, as the user and the server move them                             *)

\* The user enters a room; the code ignores it for one that is joined already.
EnterRoom(r) ==
  /\ account.connected
  /\ ~account.room[r].joined /\ ~account.room[r].requested
  /\ LET a == JoinRoom(account, r)
     IN  account' = UpdateRoom(a, r, [a.room[r] EXCEPT !.inside = TRUE])
  /\ UNCHANGED <<conns, asked, wanted, trouble>>

\* exitRoom, through the menu, a command or by closing the tab. It does nothing
\* for a room that is neither joined nor being joined.
ExitRoom(r) ==
  /\ account.room[r].inside
  /\ LET a == IF account.room[r].joined \/ account.room[r].requested
              THEN ExitRoomCleanup(account, r) ELSE account
     IN  account' = UpdateRoom(a, r, [a.room[r] EXCEPT !.inside = FALSE])
  /\ UNCHANGED <<conns, asked, wanted, trouble>>

\* The user, or the idle timer, changes the presence.
ChangePresence ==
  /\ account.connected
  /\ account' = SendPresenceToRooms(account)
  /\ UNCHANGED <<conns, asked, wanted, trouble>>

\* onPresence: the room answers our presence with our own.
RoomEntered(r) ==
  /\ account.connected /\ account.room[r].server = "asked"
  /\ account' = UpdateRoom(account, r, [account.room[r] EXCEPT
                  !.joined = TRUE, !.requested = FALSE, !.server = "in"])
  /\ UNCHANGED <<conns, asked, wanted, trouble>>

\* onPresence: the room refuses us, which a room that is joined does not notice.
RoomRefused(r) ==
  /\ account.connected /\ account.room[r].server = "asked"
  /\ LET a == IF account.room[r].joined
              THEN UpdateRoom(account, r, [account.room[r] EXCEPT !.server = "out"])
              ELSE ExitRoomCleanup(account, r)
     IN  account' = UpdateRoom(a, r, [a.room[r] EXCEPT !.inside = FALSE])
  /\ UNCHANGED <<conns, asked, wanted, trouble>>

\* onPresence: the room sends us away.
RoomLeft(r) ==
  /\ account.connected /\ account.room[r].server = "in"
  /\ LET a == ExitRoomCleanup(account, r)
     IN  account' = UpdateRoom(a, r, [a.room[r] EXCEPT !.inside = FALSE])
  /\ UNCHANGED <<conns, asked, wanted, trouble>>

-----------------------------------------------------------------------------
User == \/ SignIn \/ StopConnecting \/ SignOut \/ ChangePresence
        \/ \E r \in Rooms : EnterRoom(r) \/ ExitRoom(r)

Chat(r) == RoomEntered(r) \/ RoomRefused(r) \/ RoomLeft(r)

Server(c) ==
  \/ Connected(c) \/ Lost(c) \/ AuthenticationFails(c) \/ StreamError(c) \/ Conflict(c)
  \/ RosterFetched(c) \/ GotSavedPresence(c) \/ GotPresenceProfiles(c)

Next ==
  \/ User \/ TimerTicks \/ TimerFires
  \/ \E c \in Conns : Server(c)
  \/ \E r \in Rooms : Chat(r)

Spec == Init /\ [][Next]_vars

\* An opening connection succeeds or fails, online queries are answered, and the
\* timer runs: the network and the clock, not the user, owe the program these.
Fairness ==
  /\ WF_vars(TimerFires)
  /\ \A c \in Conns : /\ WF_vars(conns[c] = "opening" /\ Server(c))
                      /\ WF_vars(RosterFetched(c))
                      /\ WF_vars(GotSavedPresence(c))
                      /\ WF_vars(GotPresenceProfiles(c))

FairSpec == Spec /\ Fairness

-----------------------------------------------------------------------------
(* Properties                                                              *)

\* Every variable holds a value of its kind.
TypeOK ==
  /\ account \in Account
  /\ conns \in [Conns -> {"closed", "opening", "online"}]
  /\ asked \in [Conns -> SUBSET InitFlags]
  /\ wanted \in BOOLEAN
  /\ trouble \in Trouble

\* There is never a second connection to the server, nor a timer that would open
\* one: what the account believes (connection, connected, reconnectTimeout) and
\* the connection objects agree, whoever started what. Stream errors included: the
\* one way to a second connection is "Sign In" before the re-armed timer ticks.
OneConnection ==
  trouble # "overlap" =>
    /\ Alive \subseteq {account.connection}
    /\ account.reconnectTimeout => Alive = {}
    /\ account.connected <=> \E c \in Conns : conns[c] = "online"

\* Whoever has signed out stays out: no connection is being opened and no timer
\* is left that would open one, wherever the reconnecting stood at the click.
SignedOutStaysOut ==
  trouble # "overlap" /\ ~wanted => Alive = {} /\ ~account.reconnectTimeout

\* The window shows what is going on, so every state offers the click it needs: the
\* roster exactly when connected, the form only when nothing is under way. Only the
\* second onDisconnect() of a stream error leaves the timer armed behind the form.
DeckHonest ==
  trouble # "overlap" =>
    /\ account.deck = "form" => Alive = {} /\ (account.reconnectTimeout => trouble = "error")
    /\ account.deck = "progress" =>
         account.reconnectTimeout \/ \E c \in Conns : conns[c] = "opening"
    /\ account.deck = "roster" <=> account.connected

\* The bits of the initialisation state come from the connection they describe:
\* presence is announced only after its roster and its saved presence arrived.
InitOfThisConnection ==
  trouble # "overlap" =>
    /\ account.connectionInitialized => account.initConnectionState = InitFlags
    /\ account.initConnectionState # {} => account.connected
    /\ \A c \in Conns :
         conns[c] = "online" => \A q \in {"roster", "presence"} :
           q \in account.initConnectionState <=> q \notin asked[c]

\* After "Reconnecting was not successfull, please try to connect manually" nothing
\* is tried again before the user signs in (notificationScheme.onDisconnect(true)),
\* unless a stream error has made onDisconnect() run twice.
GivenUpForGood ==
  trouble = "none" /\ "tried" \in account.notices => Alive = {} /\ ~account.reconnectTimeout

\* Once presence is out, every room the user is in has got it on this connection:
\* no room is forgotten by the disconnects and retries in between, although the
\* loop of onDisconnect() skips rooms and some wait for callbacks.
RoomsComeBack ==
  account.connectionInitialized =>
    \A r \in Rooms : account.room[r].inside => account.room[r].server # "out"

\* The window does not say "Connecting" forever: the attempts come to an end. A stream
\* error does not end them; it counts as two attempts, the second past the limit.
EventuallySettled ==
  account.deck = "progress" ~> account.deck # "progress" \/ trouble # "none"

\* The server has refused the list of profiles that the saved presence waits for.
ProfilesRefused ==
  \E c \in Conns : /\ account.connection = c /\ asked[c] = {}
                   /\ account.initConnectionState = InitFlags \ {"profiles"}

\* A connection that lasts gets initialised: presence is sent. The one exception is
\* that the saved presence names a profile and the query for the profiles failed.
EventuallyInitialized ==
  account.connected ~> \/ account.connectionInitialized \/ ~account.connected
                       \/ ProfilesRefused \/ trouble = "overlap"
==============================================================================
