------------------------------- MODULE Jingle --------------------------------
(***************************************************************************)
(* Voice calls: the JingleSession objects, the JingleService that          *)
(* registers them and dispatches stanzas to them, and what they wait for:  *)
(* STUN server discovery, a relay channel from Jingle nodes, the ICE       *)
(* session (whose thread posts its callbacks to the main thread, where     *)
(* they may arrive after the call is over), the answers to the IQs they    *)
(* sent, the peer's stanzas and the two people's clicks.                   *)
(*                                                                         *)
(* All JavaScript runs on the main thread, so each handler is one action.  *)
(* A session is one record; the methods of the code are operators from     *)
(* record to record and an action composes the methods its handler calls.  *)
(***************************************************************************)
EXTENDS Naturals, Sequences

CONSTANTS
  Calls,           \* the calls that can take place, named by their sid
  None,            \* no session (JavaScript's undefined and null)
  MaxTries,        \* how many relays and trackers one channel request may ask
  MaxEvents,       \* bound: ICE callbacks waiting for the main thread, per call
  SilentTrackers   \* may a tracker answer with an error?

ASSUME JingleAssumption ==
  /\ None \notin Calls
  /\ MaxTries \in Nat
  /\ MaxEvents \in Nat
  /\ SilentTrackers \in BOOLEAN

VARIABLES
  call,            \* [Calls -> Session], the JingleSession objects
  sessions,        \* jingleService._sessions, the registered sids
  activeSession,   \* jingleService.activeSession
  stun,            \* how far the search for a STUN server has come
  stunQueue,       \* jingleService._discoverStunCallback, sessions waiting for it
  jnRequest,       \* jingleNodesService._request, the session it is for
  jnTries,         \* relays and trackers asked for that request
  jnAsks           \* IQs to relays and trackers that are not answered yet

service == <<sessions, activeSession>>
stunVars == <<stun, stunQueue>>
jnVars == <<jnRequest, jnTries, jnAsks>>
vars == <<call, service, stunVars, jnVars>>

-----------------------------------------------------------------------------
(* One session                                                             *)

Actions == {"session-initiate", "session-accept", "transport-info",
            "session-terminate"}

Session ==
  [ role : {"none", "initiator", "responder", "busy"},
    state : {"none", "needAccept", "waitingForAccept",
             "connectionEstabilishing", "callinprogress", "terminated"},
    terminated : BOOLEAN,
    sessionStarted : BOOLEAN,        \* this side wants to talk
    candidatesGathered : BOOLEAN,
    sessionInititateSent : BOOLEAN,
    peerMedia : BOOLEAN,             \* a codec was agreed on with the peer
    remoteCreds : BOOLEAN,           \* the peer's ICE credentials are known
    remoteCandidates : BOOLEAN,      \* its candidates are still buffered here
    connectionEstabilished : BOOLEAN,
    jnRelay : BOOLEAN,               \* a channel answer waits for the ICE session
    ice : {"none", "created", "gathering", "ready"},
    events : Seq({"gathered", "selected", "failed"}),  \* posted ICE callbacks
    audioInput : BOOLEAN,            \* the microphone feeds the ICE session
    canceler : {"none", "live", "spent"},  \* of the "incoming call" notifications
    missed : Nat,                    \* missed-call notifications shown
    handled : BOOLEAN,               \* the user reacted to the ringing
    dialog : BOOLEAN,                \* the call window is open
    acks : Nat,                      \* sent IQs whose answer may end the session
    sent : Seq(Actions) ]            \* history: the Jingle actions sent

NewCall ==
  [ role |-> "none", state |-> "none", terminated |-> FALSE,
    sessionStarted |-> FALSE, candidatesGathered |-> FALSE,
    sessionInititateSent |-> FALSE, peerMedia |-> FALSE, remoteCreds |-> FALSE,
    remoteCandidates |-> TRUE, connectionEstabilished |-> FALSE,
    jnRelay |-> FALSE, ice |-> "none", events |-> <<>>, audioInput |-> FALSE,
    canceler |-> "none", missed |-> 0, handled |-> FALSE, dialog |-> FALSE,
    acks |-> 0, sent |-> <<>> ]

\* new JingleSession(to): the user calls, the call window shows it.
Outgoing == [NewCall EXCEPT !.role = "initiator", !.state = "waitingForAccept",
                            !.dialog = TRUE]

\* new JingleSession(from, sid), with its ring notifications.
Incoming == [NewCall EXCEPT !.role = "responder", !.state = "needAccept",
                            !.canceler = "live"]

\* The same with dontRegister set: the line is taken.
Busy == [NewCall EXCEPT !.role = "busy", !.state = "needAccept", !.missed = 1,
                        !.sent = <<"session-terminate">>]

\* Mutant: the result of canceler.cancel() is ignored.
SessionTerminatedAlwaysMissed(c) ==
  [c EXCEPT !.terminated = TRUE, !.state = "terminated",
            !.ice = "none", !.audioInput = FALSE,
            !.missed = IF c.canceler # "none" THEN @ + 1 ELSE @,
            !.canceler = IF @ = "live" THEN "spent" ELSE @]

\* _sessionTerminated: whatever the reason, and however often it is called.
SessionTerminated(c) ==
  [c EXCEPT !.terminated = TRUE, !.state = "terminated",
            !.ice = "none", !.audioInput = FALSE,
            !.missed = IF c.canceler = "live" THEN @ + 1 ELSE @,
            !.canceler = IF @ = "live" THEN "spent" ELSE @]

\* Mutant: the early return for a terminated session is gone.
TerminateSessionAgain(c) ==
  SessionTerminated([c EXCEPT !.sent = Append(@, "session-terminate")])

\* terminateSession
TerminateSession(c) ==
  IF c.terminated THEN c
  ELSE SessionTerminated([c EXCEPT !.sent = Append(@, "session-terminate")])

\* A packet handler that ends the session and answers with a terminate.
TerminatedWithReply(c) ==
  SessionTerminated([c EXCEPT !.sent = Append(@, "session-terminate")])

\* _sendTransports(startSession): nothing leaves before candidates are gathered.
SendTransports(c, startSession) ==
  LET d == [c EXCEPT !.sessionStarted = @ \/ startSession]
      action == CASE d.role = "initiator" /\ ~d.sessionInititateSent -> "session-initiate"
                  [] d.role # "initiator" /\ d.sessionStarted        -> "session-accept"
                  [] OTHER                                           -> "transport-info"
  IN  IF ~d.candidatesGathered THEN d
      ELSE [d EXCEPT !.sent = Append(@, action), !.acks = @ + 1,
                     !.sessionInititateSent = @ \/ d.role = "initiator"]

\* _startMediaSession: audioOk is FALSE when the codec or audio service throws,
\* which the code catches after it has already announced "callinprogress".
StartMediaSession(c, audioOk) ==
  IF ~(c.peerMedia /\ c.sessionStarted) THEN c
  ELSE IF ~c.connectionEstabilished
  THEN [c EXCEPT !.state = "connectionEstabilishing"]
  ELSE [c EXCEPT !.state = "callinprogress",
                 !.audioInput = @ \/ (audioOk /\ c.ice # "none")]

\* acceptSession
AcceptSession(c, audioOk) ==
  StartMediaSession(
    SendTransports([c EXCEPT !.state = "connectionEstabilishing"], TRUE), audioOk)

\* Mutant: the buffered candidates are not handed over.
InitIceOnly(c) ==
  [c EXCEPT !.ice = IF c.jnRelay THEN "gathering" ELSE "created"]

\* The part of _sessionInit that runs once a STUN server is known or given up
\* on: what arrived before the ICE session existed is handed to it now.
InitIce(c) ==
  [c EXCEPT !.ice = IF c.jnRelay THEN "gathering" ELSE "created",
            !.remoteCandidates = @ /\ ~c.remoteCreds]

\* _onJingleNodesChannel, with a channel or without one. The ICE session
\* reports the end of gathering once, so a later gatherCandidates changes nothing.
OnJingleNodesChannel(c) ==
  IF c.ice = "none" THEN [c EXCEPT !.jnRelay = TRUE]
  ELSE [c EXCEPT !.ice = IF @ = "created" THEN "gathering" ELSE @]

\* _sessionInit, called for the first time: STUN is ready or not, and the
\* channel request is under way or was answered "no relay" at once.
SessionInit(c, stunReady, asking) ==
  LET d == IF stunReady THEN InitIce(c) ELSE c
  IN  IF asking THEN d ELSE OnJingleNodesChannel(d)

\* parseTranportCandidates of a stanza with or without credentials. It throws
\* when it has something to hand over and there is no ICE session yet.
ParseThrows(c, creds) ==
  c.remoteCandidates /\ (c.remoteCreds \/ creds) /\ c.ice = "none"

ParseTransportCandidates(c, creds) ==
  [c EXCEPT !.remoteCreds = @ \/ creds,
            !.remoteCandidates = @ /\ (~(c.remoteCreds \/ creds) \/ c.ice = "none")]

-----------------------------------------------------------------------------
(* The service                                                             *)

Init ==
  /\ call = [s \in Calls |-> NewCall]
  /\ sessions = {}
  /\ activeSession = None
  /\ stun = "untried"
  /\ stunQueue = {}
  /\ jnRequest = None
  /\ jnTries = 0
  /\ jnAsks = 0

Update(s, c) == call' = [call EXCEPT ![s] = c]

RegisterSession(s) ==
  /\ sessions' = sessions \cup {s}
  /\ activeSession' = s

\* Mutant: the active slot is not emptied.
UnregisterSessionOnly(s) ==
  /\ sessions' = sessions \ {s}
  /\ UNCHANGED activeSession

\* unregisterSession empties the active slot whoever is in it.
UnregisterSession(s) ==
  /\ sessions' = sessions \ {s}
  /\ activeSession' = None

\* _discoverStun, returning ready: a server is known, the search was given up
\* (now, if there is nobody to ask), or the session has to wait.
DiscoverStun(s, ready) ==
  \/ /\ ready
     /\ stun \in {"named", "done"}
     /\ UNCHANGED stunVars
  \/ /\ ready
     /\ stun = "untried"
     /\ stun' = "done"
     /\ UNCHANGED stunQueue
  \/ /\ ~ready
     /\ stun \in {"untried", "searching"}
     /\ stun' = "searching"
     /\ stunQueue' = stunQueue \cup {s}

\* requestChannel: there is one request slot and the newest request takes it.
RequestChannel(s, asking) ==
  \/ /\ asking
     /\ MaxTries > 0
     /\ jnRequest' = s
     /\ jnTries' = 1
     /\ jnAsks' = jnAsks + 1
  \/ /\ ~asking
     /\ jnRequest' = None
     /\ jnTries' = 0
     /\ UNCHANGED jnAsks

-----------------------------------------------------------------------------
(* The user                                                                *)

\* The call window creates a session, whatever other sessions there are.
CreateSession(s) ==
  /\ call[s].role = "none"
  /\ \E stunReady, asking \in BOOLEAN :
       /\ DiscoverStun(s, stunReady)
       /\ RequestChannel(s, asking)
       /\ Update(s, SendTransports(SessionInit(Outgoing, stunReady, asking), TRUE))
  /\ RegisterSession(s)

\* A click on the ring notification or on the contact's event opens the window.
OpenCall(s) ==
  /\ call[s].canceler = "live"
  /\ Update(s, [call[s] EXCEPT !.canceler = "spent", !.handled = TRUE, !.dialog = TRUE])
  /\ UNCHANGED <<service, stunVars, jnVars>>

\* "Accept call" in the notification.
AcceptFromNotification(s) ==
  /\ call[s].canceler = "live"
  /\ \E audioOk \in BOOLEAN :
       Update(s, AcceptSession([call[s] EXCEPT !.canceler = "spent", !.handled = TRUE,
                                               !.dialog = TRUE], audioOk))
  /\ UNCHANGED <<service, stunVars, jnVars>>

\* "Reject call" in the notification.
RejectFromNotification(s) ==
  /\ call[s].canceler = "live"
  /\ Update(s, TerminateSession([call[s] EXCEPT !.canceler = "spent", !.handled = TRUE]))
  /\ UnregisterSession(s)
  /\ UNCHANGED <<stunVars, jnVars>>

\* The window offers "Accept" only while the session's state is "needAccept".
AcceptInDialog(s) ==
  /\ call[s].dialog
  /\ call[s].state = "needAccept"
  /\ \E audioOk \in BOOLEAN : Update(s, AcceptSession(call[s], audioOk))
  /\ UNCHANGED <<service, stunVars, jnVars>>

\* "Reject", "End call", or the window is closed.
EndInDialog(s) ==
  /\ call[s].dialog
  /\ Update(s, [TerminateSession(call[s]) EXCEPT !.dialog = FALSE])
  /\ IF call[s].terminated THEN UNCHANGED service ELSE UnregisterSession(s)
  /\ UNCHANGED <<stunVars, jnVars>>

-----------------------------------------------------------------------------
(* The peer                                                                *)

\* session-initiate with a sid that is not registered.
SessionInitiateBusy(s) ==
  /\ call[s].role = "none"
  /\ activeSession # None
  /\ Update(s, Busy)
  /\ UNCHANGED <<service, stunVars, jnVars>>

\* Neither one transport nor one audio description.
SessionInitiateBad(s) ==
  /\ call[s].role = "none"
  /\ activeSession = None
  /\ Update(s, TerminatedWithReply(Incoming))
  /\ UnregisterSession(s)
  /\ UNCHANGED <<stunVars, jnVars>>

\* A well-formed offer: the session starts to look for a path at once, before
\* the user has answered; an offer without a known codec ends it again.
SessionInitiate(s) ==
  /\ call[s].role = "none"
  /\ activeSession = None
  /\ \E stunReady, asking, mediaOk, creds \in BOOLEAN :
       LET c == SessionInit(Incoming, stunReady, asking)
       IN  /\ DiscoverStun(s, stunReady)
           /\ RequestChannel(s, asking)
           /\ IF mediaOk
              THEN /\ Update(s, ParseTransportCandidates([c EXCEPT !.peerMedia = TRUE], creds))
                   /\ RegisterSession(s)
              ELSE /\ Update(s, TerminatedWithReply(c))
                   /\ UnregisterSession(s)

TransportInfo(s) ==
  /\ s \in sessions
  /\ call[s].role = "initiator" => call[s].sessionInititateSent
  /\ \E creds \in BOOLEAN : Update(s, ParseTransportCandidates(call[s], creds))
  /\ UNCHANGED <<service, stunVars, jnVars>>

\* session-accept, which only the callee sends, to a call it was offered.
SessionAccept(s) ==
  /\ s \in sessions
  /\ call[s].role = "initiator"
  /\ call[s].sessionInititateSent
  /\ \/ /\ \E creds, audioOk \in BOOLEAN :
             LET c == ParseTransportCandidates([call[s] EXCEPT !.peerMedia = TRUE], creds)
             IN  Update(s, IF ParseThrows(call[s], creds) THEN c
                           ELSE StartMediaSession(c, audioOk))
        /\ UNCHANGED service
     \/ /\ ~call[s].peerMedia
        /\ Update(s, TerminatedWithReply(call[s]))
        /\ UnregisterSession(s)
  /\ UNCHANGED <<stunVars, jnVars>>

ContentRemove(s) ==
  /\ s \in sessions
  /\ call[s].role = "initiator" => call[s].sessionInititateSent
  /\ Update(s, TerminatedWithReply(call[s]))
  /\ UnregisterSession(s)
  /\ UNCHANGED <<stunVars, jnVars>>

PeerTerminates(s) ==
  /\ s \in sessions
  /\ call[s].role = "initiator" => call[s].sessionInititateSent
  /\ Update(s, SessionTerminated(call[s]))
  /\ UnregisterSession(s)
  /\ UNCHANGED <<stunVars, jnVars>>

\* _ackHandler and _sessionAcceptAckHandler: an IQ of the session is answered,
\* perhaps long after the session is over; an error ends the session (again).
Acknowledged(s) ==
  /\ call[s].acks > 0
  /\ LET c == [call[s] EXCEPT !.acks = @ - 1]
     IN  \/ Update(s, c) /\ UNCHANGED service
         \/ Update(s, SessionTerminated(c)) /\ UnregisterSession(s)
  /\ UNCHANGED <<stunVars, jnVars>>

-----------------------------------------------------------------------------
(* STUN discovery and Jingle nodes                                         *)

\* A server's name is known but not its address: later sessions do not wait.
StunServerNamed ==
  /\ stun = "searching"
  /\ stun' = "named"
  /\ UNCHANGED <<call, service, stunQueue, jnVars>>

\* Mutant: the sessions that waited are forgotten.
StunDiscoveredUnheard ==
  /\ stun \in {"searching", "named"}
  /\ stun' = "done"
  /\ stunQueue' = {}
  /\ UNCHANGED <<call, service, jnVars>>

\* The address is known or the search was given up: every session that waited
\* is initialised, the ones that have ended in the meantime included.
StunDiscovered ==
  /\ stun \in {"searching", "named"}
  /\ stun' = "done"
  /\ stunQueue' = {}
  /\ call' = [s \in Calls |-> IF s \in stunQueue THEN InitIce(call[s]) ELSE call[s]]
  /\ UNCHANGED <<service, jnVars>>

\* The request's callback: the slot is emptied.
AnswerRequest ==
  /\ Update(jnRequest, OnJingleNodesChannel(call[jnRequest]))
  /\ jnRequest' = None
  /\ jnTries' = 0

\* _requestChannel for the request in the slot: ask somebody else or give up.
NextRelay ==
  \/ /\ jnTries < MaxTries
     /\ jnTries' = jnTries + 1
     /\ jnAsks' = jnAsks + 1
     /\ UNCHANGED <<call, jnRequest>>
  \/ /\ AnswerRequest
     /\ UNCHANGED jnAsks

\* _onChannelResponse, _onServicesResponse: an IQ is answered, for whichever
\* request it was sent. A channel goes to the request in the slot, a refusal or
\* a list of services makes it ask the next one, a tracker's error does nothing.
RelayAnswers ==
  /\ jnAsks > 0
  /\ \/ /\ jnRequest = None
        /\ jnAsks' = jnAsks - 1
        /\ UNCHANGED <<call, jnRequest, jnTries>>
     \/ /\ jnRequest # None
        /\ AnswerRequest
        /\ jnAsks' = jnAsks - 1
     \/ /\ jnRequest # None
        /\ jnTries < MaxTries
        /\ jnTries' = jnTries + 1
        /\ UNCHANGED <<call, jnRequest, jnAsks>>
     \/ /\ jnRequest # None
        /\ SilentTrackers
        /\ jnAsks' = jnAsks - 1
        /\ UNCHANGED <<call, jnRequest, jnTries>>
  /\ UNCHANGED <<service, stunVars>>

\* _onNodeContact, _onNodeChannelContact: a node shows up while a request waits. An
\* IQ that times out does the same, and its answer may still come.
NodeAppears ==
  /\ jnRequest # None
  /\ NextRelay
  /\ UNCHANGED <<service, stunVars>>

-----------------------------------------------------------------------------
(* The ICE session's thread and the callbacks it posts to the main thread  *)

Post(s, event) == [call[s] EXCEPT !.events = Append(@, event)]

\* cgdCallback
CandidatesGathered(s) ==
  /\ call[s].ice = "gathering"
  /\ Update(s, [Post(s, "gathered") EXCEPT !.ice = "ready"])
  /\ UNCHANGED <<service, stunVars, jnVars>>

\* npsCallback and cscCallback, once the peer's candidates are known: a pair of
\* candidates is selected, perhaps repeatedly, or every pair has failed.
ConnectivityChecked(s) ==
  /\ call[s].ice = "ready"
  /\ ~call[s].remoteCandidates
  /\ Len(call[s].events) < MaxEvents
  /\ \E event \in {"selected", "failed"} : Update(s, Post(s, event))
  /\ UNCHANGED <<service, stunVars, jnVars>>

\* The main thread takes the oldest callback; a terminated session ignores it.
Taken(s) == [call[s] EXCEPT !.events = Tail(@)]

OnIgnored(s) ==
  /\ call[s].events # <<>>
  /\ call[s].terminated
  /\ Update(s, Taken(s))
  /\ UNCHANGED <<service, stunVars, jnVars>>

\* Mutant: the terminated check is gone.
OnCandidatesGatheringDoneLate(s) ==
  /\ call[s].events # <<>>
  /\ Head(call[s].events) = "gathered"
  /\ Update(s, SendTransports([Taken(s) EXCEPT !.candidatesGathered = TRUE], FALSE))
  /\ UNCHANGED <<service, stunVars, jnVars>>

OnCandidatesGatheringDone(s) ==
  /\ call[s].events # <<>>
  /\ Head(call[s].events) = "gathered"
  /\ ~call[s].terminated
  /\ Update(s, SendTransports([Taken(s) EXCEPT !.candidatesGathered = TRUE], FALSE))
  /\ UNCHANGED <<service, stunVars, jnVars>>

\* Mutant: the terminated check is gone.
OnCandidateSelectedLate(s) ==
  /\ call[s].events # <<>>
  /\ Head(call[s].events) = "selected"
  /\ \E audioOk \in BOOLEAN :
       Update(s, StartMediaSession([Taken(s) EXCEPT !.connectionEstabilished = TRUE], audioOk))
  /\ UNCHANGED <<service, stunVars, jnVars>>

OnCandidateSelected(s) ==
  /\ call[s].events # <<>>
  /\ Head(call[s].events) = "selected"
  /\ ~call[s].terminated
  /\ \E audioOk \in BOOLEAN :
       Update(s, StartMediaSession([Taken(s) EXCEPT !.connectionEstabilished = TRUE], audioOk))
  /\ UNCHANGED <<service, stunVars, jnVars>>

OnConnectionFail(s) ==
  /\ call[s].events # <<>>
  /\ Head(call[s].events) = "failed"
  /\ ~call[s].terminated
  /\ Update(s, TerminateSession(Taken(s)))
  /\ UnregisterSession(s)
  /\ UNCHANGED <<stunVars, jnVars>>

-----------------------------------------------------------------------------
User(s) == \/ CreateSession(s) \/ OpenCall(s) \/ AcceptFromNotification(s)
           \/ RejectFromNotification(s) \/ AcceptInDialog(s) \/ EndInDialog(s)

Peer(s) == \/ SessionInitiateBusy(s) \/ SessionInitiateBad(s) \/ SessionInitiate(s)
           \/ TransportInfo(s) \/ SessionAccept(s) \/ ContentRemove(s)
           \/ PeerTerminates(s) \/ Acknowledged(s)

IceThread(s) == CandidatesGathered(s) \/ ConnectivityChecked(s)

Callback(s) == \/ OnIgnored(s) \/ OnCandidatesGatheringDone(s)
               \/ OnCandidateSelected(s) \/ OnConnectionFail(s)

Discovery == StunServerNamed \/ StunDiscovered \/ RelayAnswers \/ NodeAppears

Next ==
  \/ \E s \in Calls : User(s) \/ Peer(s) \/ IceThread(s) \/ Callback(s)
  \/ Discovery

Spec == Init /\ [][Next]_vars

\* The searches end, the ICE thread finishes gathering and the main thread
\* takes what was posted to it; nobody has to click or to answer.
Fairness ==
  /\ WF_vars(StunDiscovered)
  /\ WF_vars(RelayAnswers)
  /\ \A s \in Calls : WF_vars(CandidatesGathered(s)) /\ WF_vars(Callback(s))

FairSpec == Spec /\ Fairness

-----------------------------------------------------------------------------
(* Properties                                                              *)

\* Every variable holds a value of its kind.
TypeOK ==
  /\ call \in [Calls -> Session]
  /\ sessions \subseteq Calls
  /\ activeSession \in Calls \cup {None}
  /\ stun \in {"untried", "searching", "named", "done"}
  /\ stunQueue \subseteq Calls
  /\ jnRequest \in Calls \cup {None}
  /\ jnTries \in Nat
  /\ jnAsks \in Nat

\* The service's table and the sessions agree: exactly the sessions that were
\* begun and have not ended receive stanzas (onPacket looks them up there), and
\* the active slot never names a session that has ended.
RegisteredIffLive ==
  /\ sessions = {s \in Calls : call[s].role \in {"initiator", "responder"}
                               /\ ~call[s].terminated}
  /\ activeSession \in sessions \cup {None}

\* An incoming call is never forgotten and never reported twice: once it is
\* over the user has either reacted to it or got one missed-call notification,
\* never both, and until then it keeps ringing (the canceler that the click
\* handlers, _sessionTerminated and the busy answer share).
MissedXorHandled ==
  \A s \in Calls :
    /\ call[s].missed <= 1
    /\ call[s].handled => call[s].missed = 0
    /\ call[s].role = "responder" /\ ~call[s].handled =>
         IF call[s].terminated THEN call[s].missed = 1 ELSE call[s].canceler = "live"

\* What arrives while STUN discovery keeps the ICE session from being created
\* is handed over when it is: the peer's candidates and the relay channel.
NothingLeftBuffered ==
  \A s \in Calls :
    /\ ~(call[s].ice # "none" /\ call[s].remoteCreds /\ call[s].remoteCandidates)
    /\ ~(call[s].ice = "created" /\ call[s].jnRelay)

Sent(s, action) == {i \in DOMAIN call[s].sent : call[s].sent[i] = action}

\* What the peer sees of a session is a legal sequence, whatever the order in
\* which candidates are gathered, the user clicks and stanzas arrive: at most one
\* offer and before any transport-info, at most one accept, and a terminate only
\* as the last message, and once.
SignallingOrder ==
  \A s \in Calls :
    /\ \A a \in {"session-initiate", "session-accept", "session-terminate"} :
         \A i, j \in Sent(s, a) : i = j
    /\ call[s].role = "initiator" =>
         \A i \in Sent(s, "transport-info") : \E j \in Sent(s, "session-initiate") : j < i
    /\ \A i \in Sent(s, "session-terminate") : i = Len(call[s].sent)

\* A session that has ended stays silent: no late ICE callback, deferred STUN
\* initialisation or relay channel makes it send another Jingle action.
SilentAfterEnd ==
  [][\A s \in Calls : call[s].terminated => call'[s].sent = call[s].sent]_vars

\* A call one of our people wants to make or has accepted gets its offer or its
\* answer out, or ends: waiting for STUN, the relay channel and the candidates
\* comes to an end (checked for one call; a second one can take the slot).
EventuallySignalled ==
  \A s \in Calls :
    call[s].sessionStarted
      ~> \/ call[s].terminated
         \/ Sent(s, "session-initiate") \cup Sent(s, "session-accept") # {}

-----------------------------------------------------------------------------
(* Refinement                                                              *)

phase ==
  [s \in Calls |->
    IF call[s].role = "none" THEN "new"
    ELSE IF call[s].role = "busy" THEN "refused"
    ELSE CASE call[s].state = "needAccept"              -> "ringing"
           [] call[s].state = "waitingForAccept"        -> "calling"
           [] call[s].state = "connectionEstabilishing" -> "connecting"
           [] call[s].state = "callinprogress"          -> "active"
           [] OTHER                                     -> "ended"]

\* The callee agrees with session-accept, or with a click if that is us.
agreed == {s \in Calls : IF call[s].role = "initiator" THEN call[s].peerMedia
                         ELSE call[s].sessionStarted}

path == {s \in Calls : call[s].connectionEstabilished}

Lifecycle == INSTANCE CallLifecycle

\* The sessions implement the life of a call: nobody talks before the callee has
\* agreed and a path was found, and no late event revives a call that has ended
\* (the state changes of _startMediaSession, acceptSession, _sessionTerminated).
LifecycleSpec == Lifecycle!Spec
==============================================================================
