----------------------------- MODULE JingleProofs -----------------------------
(***************************************************************************)
(* Proofs about module Jingle, for any set of calls and any bounds.        *)
(*                                                                         *)
(* A session is a record of twenty fields, so the proofs go field by field *)
(* once, in the lemmas about sessions and their methods; the steps of the  *)
(* specification then use what the lemmas say and never expand Session.    *)
(***************************************************************************)
EXTENDS Jingle, TLAPS

-----------------------------------------------------------------------------
(* Sessions                                                                *)

States == {"none", "needAccept", "waitingForAccept",
           "connectionEstabilishing", "callinprogress", "terminated"}
IceStates == {"none", "created", "gathering", "ready"}
Events == {"gathered", "selected", "failed"}
Cancelers == {"none", "live", "spent"}

\* What the fields of a session range over.
LEMMA SessionFields ==
  ASSUME NEW c \in Session
  PROVE  /\ c.terminated \in BOOLEAN /\ c.sessionStarted \in BOOLEAN
         /\ c.sessionInititateSent \in BOOLEAN /\ c.peerMedia \in BOOLEAN
         /\ c.remoteCreds \in BOOLEAN /\ c.remoteCandidates \in BOOLEAN
         /\ c.audioInput \in BOOLEAN /\ c.handled \in BOOLEAN
         /\ c.ice \in IceStates /\ c.canceler \in Cancelers
         /\ c.missed \in Nat /\ c.acks \in Nat
         /\ c.events \in Seq(Events)
  BY DEF Session, IceStates, Cancelers, Events

\* A session stays one when a field gets another value of its kind.
LEMMA SessionUpdates ==
  ASSUME NEW c \in Session
  PROVE  /\ \A b \in BOOLEAN : [c EXCEPT !.terminated = b] \in Session
         /\ \A b \in BOOLEAN : [c EXCEPT !.sessionStarted = b] \in Session
         /\ \A b \in BOOLEAN : [c EXCEPT !.candidatesGathered = b] \in Session
         /\ \A b \in BOOLEAN : [c EXCEPT !.sessionInititateSent = b] \in Session
         /\ \A b \in BOOLEAN : [c EXCEPT !.peerMedia = b] \in Session
         /\ \A b \in BOOLEAN : [c EXCEPT !.remoteCreds = b] \in Session
         /\ \A b \in BOOLEAN : [c EXCEPT !.remoteCandidates = b] \in Session
         /\ \A b \in BOOLEAN : [c EXCEPT !.connectionEstabilished = b] \in Session
         /\ \A b \in BOOLEAN : [c EXCEPT !.jnRelay = b] \in Session
         /\ \A b \in BOOLEAN : [c EXCEPT !.audioInput = b] \in Session
         /\ \A b \in BOOLEAN : [c EXCEPT !.handled = b] \in Session
         /\ \A b \in BOOLEAN : [c EXCEPT !.dialog = b] \in Session
         /\ \A x \in States : [c EXCEPT !.state = x] \in Session
         /\ \A x \in IceStates : [c EXCEPT !.ice = x] \in Session
         /\ \A x \in Cancelers : [c EXCEPT !.canceler = x] \in Session
         /\ \A x \in Seq(Events) : [c EXCEPT !.events = x] \in Session
         /\ \A n \in Nat : [c EXCEPT !.missed = n] \in Session
         /\ \A n \in Nat : [c EXCEPT !.acks = n] \in Session
         /\ \A a \in Actions : [c EXCEPT !.sent = Append(@, a)] \in Session
<1>1. \A b \in BOOLEAN : [c EXCEPT !.terminated = b] \in Session
  BY DEF Session
<1>2. \A b \in BOOLEAN : [c EXCEPT !.sessionStarted = b] \in Session
  BY DEF Session
<1>3. \A b \in BOOLEAN : [c EXCEPT !.candidatesGathered = b] \in Session
  BY DEF Session
<1>4. \A b \in BOOLEAN : [c EXCEPT !.sessionInititateSent = b] \in Session
  BY DEF Session
<1>5. \A b \in BOOLEAN : [c EXCEPT !.peerMedia = b] \in Session
  BY DEF Session
<1>6. \A b \in BOOLEAN : [c EXCEPT !.remoteCreds = b] \in Session
  BY DEF Session
<1>7. \A b \in BOOLEAN : [c EXCEPT !.remoteCandidates = b] \in Session
  BY DEF Session
<1>8. \A b \in BOOLEAN : [c EXCEPT !.connectionEstabilished = b] \in Session
  BY DEF Session
<1>9. \A b \in BOOLEAN : [c EXCEPT !.jnRelay = b] \in Session
  BY DEF Session
<1>10. \A b \in BOOLEAN : [c EXCEPT !.audioInput = b] \in Session
  BY DEF Session
<1>11. \A b \in BOOLEAN : [c EXCEPT !.handled = b] \in Session
  BY DEF Session
<1>12. \A b \in BOOLEAN : [c EXCEPT !.dialog = b] \in Session
  BY DEF Session
<1>13. \A x \in States : [c EXCEPT !.state = x] \in Session
  BY DEF Session, States
<1>14. \A x \in IceStates : [c EXCEPT !.ice = x] \in Session
  BY DEF Session, IceStates
<1>15. \A x \in Cancelers : [c EXCEPT !.canceler = x] \in Session
  BY DEF Session, Cancelers
<1>16. \A x \in Seq(Events) : [c EXCEPT !.events = x] \in Session
  BY DEF Session, Events
<1>17. \A n \in Nat : [c EXCEPT !.missed = n] \in Session
  BY DEF Session
<1>18. \A n \in Nat : [c EXCEPT !.acks = n] \in Session
  BY DEF Session
<1>19. ASSUME NEW a \in Actions
       PROVE  [c EXCEPT !.sent = Append(@, a)] \in Session
  <2>1. c.sent \in Seq(Actions)
    BY DEF Session
  <2>2. Append(c.sent, a) \in Seq(Actions)
    BY <2>1
  <2>3. ASSUME NEW x \in Seq(Actions) PROVE [c EXCEPT !.sent = x] \in Session
    BY DEF Session
  <2> QED
    BY <2>2, <2>3
<1> QED
  BY <1>1, <1>2, <1>3, <1>4, <1>5, <1>6, <1>7, <1>8, <1>9, <1>10, <1>11, <1>12, <1>13, <1>14,
     <1>15, <1>16, <1>17, <1>18, <1>19

\* The new sessions are sessions.
LEMMA NewSessions ==
  NewCall \in Session /\ Outgoing \in Session /\ Incoming \in Session /\ Busy \in Session
<1>1. NewCall \in Session
  <2>1. <<>> \in Seq(Actions) /\ <<>> \in Seq({"gathered", "selected", "failed"})
    OBVIOUS
  <2> QED
    BY <2>1 DEF NewCall, Session
<1>2. Outgoing \in Session
  BY <1>1 DEF Outgoing, Session
<1>3. Incoming \in Session
  BY <1>1 DEF Incoming, Session
<1>4. Busy \in Session
  <2>1. <<"session-terminate">> \in Seq(Actions)
    BY DEF Actions
  <2> QED
    BY <1>1, <2>1 DEF Busy, Session
<1> QED
  BY <1>1, <1>2, <1>3, <1>4

-----------------------------------------------------------------------------
(* What the methods return                                                 *)

\* The fields that say who a session belongs to and whether it rings.
Ring(c) == <<c.role, c.terminated, c.missed, c.handled, c.canceler>>

\* _sessionTerminated keeps the role and turns a live ringing into one missed call.
LEMMA SessionTerminatedFacts ==
  ASSUME NEW c \in Session
  PROVE  /\ SessionTerminated(c) \in Session
         /\ SessionTerminated(c).role = c.role
         /\ SessionTerminated(c).terminated
         /\ SessionTerminated(c).handled = c.handled
         /\ c.canceler = "live" =>
              /\ SessionTerminated(c).missed = c.missed + 1
              /\ SessionTerminated(c).canceler = "spent"
         /\ c.canceler # "live" =>
              /\ SessionTerminated(c).missed = c.missed
              /\ SessionTerminated(c).canceler = c.canceler
<1> DEFINE d == [c EXCEPT !.terminated = TRUE, !.state = "terminated",
                          !.ice = "none", !.audioInput = FALSE]
           n == IF c.canceler = "live" THEN d.missed + 1 ELSE d.missed
           k == IF d.canceler = "live" THEN "spent" ELSE d.canceler
<1>1. d \in Session
  BY DEF Session
<1>2. /\ d.role = c.role /\ d.terminated = TRUE /\ d.handled = c.handled
      /\ d.missed = c.missed /\ d.canceler = c.canceler
  BY DEF Session
<1>3. n \in Nat /\ k \in Cancelers
  BY <1>1, SessionFields DEF Cancelers
<1>4. SessionTerminated(c) = [d EXCEPT !.missed = n, !.canceler = k]
  BY <1>2 DEF Session, SessionTerminated
<1> HIDE DEF d, n, k
<1>5. [d EXCEPT !.missed = n] \in Session
  BY <1>1, <1>3, SessionUpdates
<1>6. [d EXCEPT !.missed = n, !.canceler = k] \in Session
  BY <1>3, <1>5, SessionUpdates
<1>7. LET e == [d EXCEPT !.missed = n, !.canceler = k]
      IN  /\ e.role = d.role /\ e.terminated = d.terminated /\ e.handled = d.handled
          /\ e.missed = n /\ e.canceler = k
  BY <1>1 DEF Session
<1> QED
  BY <1>2, <1>4, <1>6, <1>7 DEF n, k

\* The other fields do not matter to that.
LEMMA QuietUpdates ==
  ASSUME NEW c \in Session
  PROVE  /\ \A b \in BOOLEAN : [c EXCEPT !.dialog = b] \in Session
                               /\ Ring([c EXCEPT !.dialog = b]) = Ring(c)
         /\ \A b \in BOOLEAN : [c EXCEPT !.peerMedia = b] \in Session
                               /\ Ring([c EXCEPT !.peerMedia = b]) = Ring(c)
         /\ \A b \in BOOLEAN : [c EXCEPT !.candidatesGathered = b] \in Session
                               /\ Ring([c EXCEPT !.candidatesGathered = b]) = Ring(c)
         /\ \A b \in BOOLEAN : [c EXCEPT !.connectionEstabilished = b] \in Session
                               /\ Ring([c EXCEPT !.connectionEstabilished = b]) = Ring(c)
         /\ \A x \in IceStates : [c EXCEPT !.ice = x] \in Session
                                 /\ Ring([c EXCEPT !.ice = x]) = Ring(c)
         /\ \A x \in Seq(Events) : [c EXCEPT !.events = x] \in Session
                                   /\ Ring([c EXCEPT !.events = x]) = Ring(c)
         /\ \A n \in Nat : [c EXCEPT !.acks = n] \in Session
                          /\ Ring([c EXCEPT !.acks = n]) = Ring(c)
<1>1. /\ \A b \in BOOLEAN : Ring([c EXCEPT !.dialog = b]) = Ring(c)
      /\ \A b \in BOOLEAN : Ring([c EXCEPT !.peerMedia = b]) = Ring(c)
      /\ \A b \in BOOLEAN : Ring([c EXCEPT !.candidatesGathered = b]) = Ring(c)
      /\ \A b \in BOOLEAN : Ring([c EXCEPT !.connectionEstabilished = b]) = Ring(c)
  BY DEF Session, Ring
<1>2. \A x : Ring([c EXCEPT !.ice = x]) = Ring(c)
  BY DEF Session, Ring
<1>3. \A x : Ring([c EXCEPT !.events = x]) = Ring(c)
  BY DEF Session, Ring
<1>4. \A n : Ring([c EXCEPT !.acks = n]) = Ring(c)
  BY DEF Session, Ring
<1> QED
  BY <1>1, <1>2, <1>3, <1>4, SessionUpdates

\* Sending "session-terminate" adds to the history only.
LEMMA SayTerminateFacts ==
  ASSUME NEW c \in Session
  PROVE  LET d == [c EXCEPT !.sent = Append(@, "session-terminate")]
         IN  d \in Session /\ Ring(d) = Ring(c)
<1>1. "session-terminate" \in Actions
  BY DEF Actions
<1>2. [c EXCEPT !.sent = Append(@, "session-terminate")] \in Session
  BY <1>1, SessionUpdates
<1>3. Ring([c EXCEPT !.sent = Append(@, "session-terminate")]) = Ring(c)
  BY DEF Session, Ring
<1> QED
  BY <1>2, <1>3

\* A reply with "session-terminate" ends the session as _sessionTerminated does.
LEMMA TerminatedWithReplyFacts ==
  ASSUME NEW c \in Session
  PROVE  /\ TerminatedWithReply(c) \in Session
         /\ Ring(TerminatedWithReply(c)) = Ring(SessionTerminated(c))
<1> DEFINE d == [c EXCEPT !.sent = Append(@, "session-terminate")]
<1>1. d \in Session /\ Ring(d) = Ring(c)
  BY SayTerminateFacts
<1>2. SessionTerminated(d) \in Session /\ SessionTerminated(c) \in Session
  BY <1>1, SessionTerminatedFacts
<1>3. TerminatedWithReply(c) = SessionTerminated(d)
  BY DEF TerminatedWithReply
<1>4. Ring(SessionTerminated(d)) = Ring(SessionTerminated(c))
  <2> HIDE DEF d
  <2>1. /\ d.role = c.role /\ d.handled = c.handled /\ d.missed = c.missed
        /\ d.canceler = c.canceler
    BY <1>1 DEF Ring
  <2> QED
    BY <1>1, <1>2, <2>1, SessionTerminatedFacts, SessionFields DEF Ring
<1> QED
  BY <1>2, <1>3, <1>4

\* _sendTransports leaves alone who the session belongs to and whether it rings.
LEMMA SendTransportsFacts ==
  ASSUME NEW c \in Session, NEW start \in BOOLEAN
  PROVE  SendTransports(c, start) \in Session /\ Ring(SendTransports(c, start)) = Ring(c)
<1> DEFINE d == [c EXCEPT !.sessionStarted = @ \/ start]
           e(a) == [d EXCEPT !.sent = Append(@, a), !.acks = @ + 1,
                             !.sessionInititateSent = @ \/ d.role = "initiator"]
<1>1. d \in Session /\ Ring(d) = Ring(c)
  BY DEF Session, Ring
<1>2. ASSUME NEW a \in Actions
      PROVE  e(a) \in Session /\ Ring(e(a)) = Ring(d)
  <2> DEFINE d1 == [d EXCEPT !.sent = Append(@, a)]
             d2 == [d1 EXCEPT !.acks = @ + 1]
             b == d.sessionInititateSent \/ d.role = "initiator"
  <2> HIDE DEF d
  <2>1. d1 \in Session
    BY <1>1, SessionUpdates
  <2>2. /\ Ring(d1) = Ring(d) /\ d1.acks = d.acks
        /\ d1.sessionInititateSent = d.sessionInititateSent
    BY <1>1 DEF Session, Ring
  <2> HIDE DEF d1
  <2>3. /\ d2 \in Session /\ Ring(d2) = Ring(d1)
        /\ d2.sessionInititateSent = d1.sessionInititateSent
    <3>1. d2 \in Session
      BY <2>1, SessionFields, SessionUpdates, SMTT(60)
    <3>2. Ring(d2) = Ring(d1) /\ d2.sessionInititateSent = d1.sessionInititateSent
      BY <2>1 DEF Session, Ring
    <3> QED
      BY <3>1, <3>2
  <2>4. b \in BOOLEAN
    BY <1>1, SessionFields
  <2>5. [d2 EXCEPT !.sessionInititateSent = b] \in Session
    BY <2>3, <2>4, SessionUpdates
  <2>6. Ring([d2 EXCEPT !.sessionInititateSent = b]) = Ring(d2)
    <3> HIDE DEF b, d2
    <3>1. ASSUME NEW f \in Session, NEW x \in BOOLEAN
          PROVE  Ring([f EXCEPT !.sessionInititateSent = x]) = Ring(f)
      BY DEF Session, Ring
    <3> QED
      BY <2>3, <2>4, <3>1
  <2>7. e(a) = [d2 EXCEPT !.sessionInititateSent = b]
    BY <2>2, <2>3 DEF d1
  <2> QED
    BY <2>2, <2>3, <2>5, <2>6, <2>7
<1>3. {"session-initiate", "session-accept", "transport-info"} \subseteq Actions
  BY DEF Actions
<1>4. SendTransports(c, start) = d \/ \E a \in Actions : SendTransports(c, start) = e(a)
  BY <1>3 DEF SendTransports
<1> HIDE DEF d, e
<1> QED
  BY <1>1, <1>2, <1>4

\* So does _startMediaSession.
LEMMA StartMediaSessionFacts ==
  ASSUME NEW c \in Session, NEW audioOk \in BOOLEAN
  PROVE  /\ StartMediaSession(c, audioOk) \in Session
         /\ Ring(StartMediaSession(c, audioOk)) = Ring(c)
<1>1. [c EXCEPT !.state = "connectionEstabilishing"] \in Session
  BY SessionUpdates DEF States
<1>2. Ring([c EXCEPT !.state = "connectionEstabilishing"]) = Ring(c)
  BY DEF Session, Ring
<1>3. ASSUME NEW b \in BOOLEAN
      PROVE  LET d == [c EXCEPT !.state = "callinprogress", !.audioInput = @ \/ b]
             IN  d \in Session /\ Ring(d) = Ring(c)
  BY DEF Session, Ring
<1> QED
  BY <1>1, <1>2, <1>3 DEF StartMediaSession

\* So do acceptSession, the parts of _sessionInit and the candidates' parser.
LEMMA AcceptSessionFacts ==
  ASSUME NEW c \in Session, NEW audioOk \in BOOLEAN
  PROVE  AcceptSession(c, audioOk) \in Session /\ Ring(AcceptSession(c, audioOk)) = Ring(c)
<1> DEFINE d == [c EXCEPT !.state = "connectionEstabilishing"]
<1>1. d \in Session
  BY SessionUpdates DEF States
<1>2. Ring(d) = Ring(c)
  BY DEF Session, Ring
<1> HIDE DEF d
<1>3. SendTransports(d, TRUE) \in Session /\ Ring(SendTransports(d, TRUE)) = Ring(d)
  BY <1>1, SendTransportsFacts
<1>4. AcceptSession(c, audioOk) = StartMediaSession(SendTransports(d, TRUE), audioOk)
  BY DEF AcceptSession, d
<1> QED
  BY <1>2, <1>3, <1>4, StartMediaSessionFacts

LEMMA SessionInitFacts ==
  ASSUME NEW c \in Session, NEW ready \in BOOLEAN, NEW asking \in BOOLEAN
  PROVE  /\ InitIce(c) \in Session /\ Ring(InitIce(c)) = Ring(c)
         /\ OnJingleNodesChannel(c) \in Session /\ Ring(OnJingleNodesChannel(c)) = Ring(c)
         /\ SessionInit(c, ready, asking) \in Session
         /\ Ring(SessionInit(c, ready, asking)) = Ring(c)
<1>1. ASSUME NEW d \in Session
      PROVE  InitIce(d) \in Session /\ Ring(InitIce(d)) = Ring(d)
  <2> DEFINE x == IF d.jnRelay THEN "gathering" ELSE "created"
             e == [d EXCEPT !.ice = x]
             v == d.remoteCandidates /\ ~d.remoteCreds
  <2>1. x \in IceStates /\ v \in BOOLEAN
    BY SessionFields DEF IceStates
  <2>2. InitIce(d) = [e EXCEPT !.remoteCandidates = v]
    BY DEF Session, InitIce
  <2> HIDE DEF x, v
  <2>3. e \in Session /\ Ring(e) = Ring(d)
    BY <2>1, SessionUpdates DEF Session, Ring
  <2> HIDE DEF e
  <2>4. [e EXCEPT !.remoteCandidates = v] \in Session
    BY <2>1, <2>3, SessionUpdates
  <2>5. Ring([e EXCEPT !.remoteCandidates = v]) = Ring(e)
    BY <2>3 DEF Session, Ring
  <2> QED
    BY <2>2, <2>3, <2>4, <2>5
<1>2. ASSUME NEW d \in Session
      PROVE  OnJingleNodesChannel(d) \in Session /\ Ring(OnJingleNodesChannel(d)) = Ring(d)
  <2>1. OnJingleNodesChannel(d) \in Session
    BY SessionFields, SessionUpdates DEF OnJingleNodesChannel, IceStates
  <2>2. Ring(OnJingleNodesChannel(d)) = Ring(d)
    BY DEF Session, OnJingleNodesChannel, Ring
  <2> QED
    BY <2>1, <2>2
<1> QED
  BY <1>1, <1>2 DEF SessionInit

LEMMA ParseFacts ==
  ASSUME NEW c \in Session, NEW creds \in BOOLEAN
  PROVE  /\ ParseTransportCandidates(c, creds) \in Session
         /\ Ring(ParseTransportCandidates(c, creds)) = Ring(c)
<1> DEFINE v == c.remoteCreds \/ creds
           w == c.remoteCandidates /\ (~v \/ c.ice = "none")
           d == [c EXCEPT !.remoteCreds = v]
<1>1. v \in BOOLEAN /\ w \in BOOLEAN
  BY SessionFields
<1>2. ParseTransportCandidates(c, creds) = [d EXCEPT !.remoteCandidates = w]
  BY DEF Session, ParseTransportCandidates
<1> HIDE DEF v, w
<1>3. d \in Session /\ Ring(d) = Ring(c)
  BY <1>1 DEF Session, Ring
<1> HIDE DEF d
<1>4. [d EXCEPT !.remoteCandidates = w] \in Session
  BY <1>1, <1>3, SessionUpdates
<1>5. Ring([d EXCEPT !.remoteCandidates = w]) = Ring(d)
  BY <1>3 DEF Session, Ring
<1> QED
  BY <1>2, <1>3, <1>4, <1>5

\* terminateSession either does nothing or ends the session.
LEMMA TerminateSessionFacts ==
  ASSUME NEW c \in Session
  PROVE  /\ TerminateSession(c) \in Session
         /\ IF c.terminated THEN Ring(TerminateSession(c)) = Ring(c)
            ELSE Ring(TerminateSession(c)) = Ring(SessionTerminated(c))
<1>1. TerminateSession(c) = IF c.terminated THEN c ELSE TerminatedWithReply(c)
  BY DEF TerminateSession, TerminatedWithReply
<1> QED
  BY <1>1, TerminatedWithReplyFacts

-----------------------------------------------------------------------------
(* The inductive invariant                                                 *)

\* MissedXorHandled for one session, strengthened by what a live canceler means:
\* only a call that rings has one, so cancelling it is reported at most once.
RingInv(c) ==
  /\ c.missed <= 1
  /\ c.handled => c.missed = 0
  /\ c.canceler = "live" =>
       c.role = "responder" /\ c.missed = 0 /\ ~c.handled /\ ~c.terminated
  /\ c.role = "responder" /\ ~c.handled =>
       IF c.terminated THEN c.missed = 1 ELSE c.canceler = "live"

\* A session that is registered.
Live(c) == c.role \in {"initiator", "responder"} /\ ~c.terminated

IInv == TypeOK /\ RegisteredIffLive /\ \A s \in Calls : RingInv(call[s])

\* RingInv looks at the fields in Ring only.
LEMMA RingInvByRing ==
  ASSUME NEW c, NEW d, Ring(c) = Ring(d), RingInv(c)
  PROVE  RingInv(d)
<1>1. /\ c.role = d.role /\ c.terminated = d.terminated /\ c.missed = d.missed
      /\ c.handled = d.handled /\ c.canceler = d.canceler
  BY DEF Ring
<1> QED
  BY <1>1 DEF RingInv

\* Ending a session keeps it, whether the session rings or not.
LEMMA RingInvTerminated ==
  ASSUME NEW c \in Session, RingInv(c)
  PROVE  /\ RingInv(SessionTerminated(c))
         /\ RingInv(TerminatedWithReply(c))
         /\ RingInv(TerminateSession(c))
<1>1. RingInv(SessionTerminated(c))
  BY SessionTerminatedFacts, SessionFields DEF RingInv, Cancelers
<1>2. RingInv(TerminatedWithReply(c))
  BY <1>1, TerminatedWithReplyFacts, RingInvByRing
<1>3. RingInv(TerminateSession(c))
  BY <1>1, TerminateSessionFacts, RingInvByRing
<1> QED
  BY <1>1, <1>2, <1>3

\* A reaction to the ringing: the canceler is spent and the user has reacted.
LEMMA RingInvHandled ==
  ASSUME NEW c \in Session, c.canceler = "live", RingInv(c), NEW b \in BOOLEAN
  PROVE  LET d == [c EXCEPT !.canceler = "spent", !.handled = TRUE]
             e == [d EXCEPT !.dialog = b]
         IN  /\ d \in Session /\ RingInv(d)
             /\ d.role = c.role /\ d.terminated = c.terminated /\ ~c.terminated
             /\ e \in Session /\ Ring(e) = Ring(d)
<1> DEFINE d == [c EXCEPT !.canceler = "spent", !.handled = TRUE]
<1>1. d \in Session
  BY DEF Session
<1>2. /\ d.role = c.role /\ d.terminated = c.terminated /\ d.missed = c.missed
      /\ d.handled = TRUE /\ d.canceler = "spent"
  BY DEF Session
<1> HIDE DEF d
<1>3. [d EXCEPT !.dialog = b] \in Session /\ Ring([d EXCEPT !.dialog = b]) = Ring(d)
  BY <1>1, QuietUpdates
<1>4. RingInv(d) /\ ~c.terminated
  BY <1>2 DEF RingInv
<1> QED
  BY <1>1, <1>2, <1>3, <1>4 DEF d

-----------------------------------------------------------------------------
(* Three ways to update a session and the service                          *)

\* What a step that concerns one session leaves true of all of them.
Kept == /\ call' \in [Calls -> Session]
        /\ sessions' \subseteq Calls
        /\ activeSession' \in Calls \cup {None}
        /\ RegisteredIffLive'
        /\ \A s \in Calls : RingInv(call'[s])

\* The session changes, but not whether it is to be registered.
LEMMA CalmStep ==
  ASSUME IInv, NEW s \in Calls, NEW d \in Session, RingInv(d),
         Live(d) <=> Live(call[s]), Update(s, d), UNCHANGED service
  PROVE  Kept
<1>1. call' = [call EXCEPT ![s] = d] /\ call \in [Calls -> Session]
  BY DEF Update, IInv, TypeOK
<1>2. \A t \in Calls : call'[t] = IF t = s THEN d ELSE call[t]
  BY <1>1
<1>3. call' \in [Calls -> Session] /\ \A t \in Calls : RingInv(call'[t])
  BY <1>1, <1>2 DEF IInv
<1>4. \A t \in Calls : Live(call'[t]) <=> Live(call[t])
  BY <1>2
<1>5. RegisteredIffLive'
  BY <1>4 DEF IInv, RegisteredIffLive, service, Live
<1> QED
  BY <1>3, <1>5 DEF Kept, IInv, TypeOK, service

\* Nothing changes that has to do with ringing.
LEMMA QuietStep ==
  ASSUME IInv, NEW s \in Calls, NEW d \in Session, Ring(d) = Ring(call[s]),
         Update(s, d), UNCHANGED service
  PROVE  Kept
<1>1. RingInv(d)
  BY RingInvByRing DEF IInv
<1>2. Live(d) <=> Live(call[s])
  BY DEF Ring, Live
<1> QED
  BY <1>1, <1>2, CalmStep

\* The session ends and is unregistered.
LEMMA EndStep ==
  ASSUME IInv, NEW s \in Calls, NEW d \in Session, RingInv(d), d.terminated,
         Update(s, d), UnregisterSession(s)
  PROVE  Kept
<1>1. call' = [call EXCEPT ![s] = d] /\ call \in [Calls -> Session]
  BY DEF Update, IInv, TypeOK
<1>2. \A t \in Calls : call'[t] = IF t = s THEN d ELSE call[t]
  BY <1>1
<1>3. call' \in [Calls -> Session] /\ \A t \in Calls : RingInv(call'[t])
  BY <1>1, <1>2 DEF IInv
<1> QED
  BY <1>2, <1>3 DEF Kept, IInv, TypeOK, RegisteredIffLive, UnregisterSession

\* A session begins and is registered.
LEMMA BeginStep ==
  ASSUME IInv, NEW s \in Calls, NEW d \in Session, RingInv(d), ~d.terminated,
         d.role \in {"initiator", "responder"}, Update(s, d), RegisterSession(s)
  PROVE  Kept
<1>1. call' = [call EXCEPT ![s] = d] /\ call \in [Calls -> Session]
  BY DEF Update, IInv, TypeOK
<1>2. \A t \in Calls : call'[t] = IF t = s THEN d ELSE call[t]
  BY <1>1
<1>3. call' \in [Calls -> Session] /\ \A t \in Calls : RingInv(call'[t])
  BY <1>1, <1>2 DEF IInv
<1> QED
  BY <1>2, <1>3 DEF Kept, IInv, TypeOK, RegisteredIffLive, RegisterSession

-----------------------------------------------------------------------------
(* The steps                                                               *)

\* The searches keep their types.
SearchOK == /\ stun \in {"untried", "searching", "named", "done"}
            /\ stunQueue \subseteq Calls
            /\ jnRequest \in Calls \cup {None}
            /\ jnTries \in Nat
            /\ jnAsks \in Nat

\* Both searches a new session starts keep them.
LEMMA SearchStarted ==
  ASSUME SearchOK, NEW s \in Calls, NEW ready \in BOOLEAN, NEW asking \in BOOLEAN,
         DiscoverStun(s, ready), RequestChannel(s, asking)
  PROVE  SearchOK'
<1>1. (stun \in {"untried", "searching", "named", "done"} /\ stunQueue \subseteq Calls)'
  BY DEF SearchOK, DiscoverStun, stunVars
<1>2. (jnRequest \in Calls \cup {None} /\ jnTries \in Nat /\ jnAsks \in Nat)'
  BY DEF SearchOK, RequestChannel
<1> QED
  BY <1>1, <1>2 DEF SearchOK

\* The user's clicks.
LEMMA UserStep ==
  ASSUME IInv, NEW s \in Calls, User(s)
  PROVE  Kept /\ SearchOK'
<1> DEFINE c == call[s]
<1>a. c \in Session /\ RingInv(c) /\ SearchOK
  BY DEF IInv, TypeOK, SearchOK
<1>b. ASSUME UNCHANGED <<stunVars, jnVars>> PROVE SearchOK'
  BY <1>a, <1>b DEF SearchOK, stunVars, jnVars
<1>1. CASE CreateSession(s)
  <2>1. PICK ready \in BOOLEAN, asking \in BOOLEAN :
          /\ DiscoverStun(s, ready) /\ RequestChannel(s, asking)
          /\ Update(s, SendTransports(SessionInit(Outgoing, ready, asking), TRUE))
    BY <1>1 DEF CreateSession
  <2> DEFINE d == SendTransports(SessionInit(Outgoing, ready, asking), TRUE)
  <2>2. d \in Session /\ Ring(d) = Ring(Outgoing)
    <3> DEFINE i == SessionInit(Outgoing, ready, asking)
    <3>1. i \in Session /\ Ring(i) = Ring(Outgoing)
      BY NewSessions, SessionInitFacts
    <3> HIDE DEF i
    <3>2. SendTransports(i, TRUE) \in Session /\ Ring(SendTransports(i, TRUE)) = Ring(i)
      BY <3>1, SendTransportsFacts
    <3> QED
      BY <3>1, <3>2 DEF i
  <2>3. Ring(Outgoing) = <<"initiator", FALSE, 0, FALSE, "none">>
    BY DEF Ring, Outgoing, NewCall
  <2> HIDE DEF d
  <2>4. RingInv(d) /\ ~d.terminated /\ d.role = "initiator"
    BY <2>2, <2>3 DEF Ring, RingInv
  <2>5. Update(s, d) /\ RegisterSession(s)
    BY <1>1, <2>1 DEF CreateSession, d
  <2> QED
    BY <1>a, <2>1, <2>2, <2>4, <2>5, BeginStep, SearchStarted
<1>2. CASE OpenCall(s)
  <2> DEFINE d == [c EXCEPT !.canceler = "spent", !.handled = TRUE]
             e == [d EXCEPT !.dialog = TRUE]
  <2>1. Update(s, e) /\ UNCHANGED service /\ c.canceler = "live"
    BY <1>2 DEF OpenCall
  <2>2. /\ d \in Session /\ RingInv(d) /\ d.role = c.role /\ d.terminated = c.terminated
        /\ e \in Session /\ Ring(e) = Ring(d)
    BY <1>a, <2>1, RingInvHandled
  <2> HIDE DEF d, e
  <2>3. RingInv(e) /\ (Live(e) <=> Live(c))
    BY <2>2, RingInvByRing DEF Ring, Live
  <2> QED
    BY <1>2, <1>b, <2>1, <2>2, <2>3, CalmStep DEF OpenCall
<1>3. CASE AcceptFromNotification(s)
  <2> DEFINE d == [c EXCEPT !.canceler = "spent", !.handled = TRUE]
             e == [d EXCEPT !.dialog = TRUE]
  <2>1. PICK audioOk \in BOOLEAN : Update(s, AcceptSession(e, audioOk))
    BY <1>3 DEF AcceptFromNotification
  <2>2. /\ d \in Session /\ RingInv(d) /\ d.role = c.role /\ d.terminated = c.terminated
        /\ e \in Session /\ Ring(e) = Ring(d)
    BY <1>3, <1>a, RingInvHandled DEF AcceptFromNotification
  <2> HIDE DEF d, e
  <2>3. AcceptSession(e, audioOk) \in Session /\ Ring(AcceptSession(e, audioOk)) = Ring(d)
    BY <2>2, AcceptSessionFacts
  <2>4. RingInv(AcceptSession(e, audioOk)) /\ (Live(AcceptSession(e, audioOk)) <=> Live(c))
    BY <2>2, <2>3, RingInvByRing DEF Ring, Live
  <2> QED
    BY <1>3, <1>b, <2>1, <2>3, <2>4, CalmStep DEF AcceptFromNotification
<1>4. CASE RejectFromNotification(s)
  <2> DEFINE d == [c EXCEPT !.canceler = "spent", !.handled = TRUE]
  <2>1. d \in Session /\ RingInv(d) /\ d.terminated = c.terminated /\ ~c.terminated
    BY <1>4, <1>a, RingInvHandled DEF RejectFromNotification
  <2>2. Update(s, TerminateSession(d)) /\ UnregisterSession(s)
    BY <1>4 DEF RejectFromNotification
  <2> HIDE DEF d
  <2>3. /\ TerminateSession(d) \in Session /\ RingInv(TerminateSession(d))
        /\ TerminateSession(d).terminated
    BY <2>1, TerminateSessionFacts, RingInvTerminated, SessionTerminatedFacts DEF Ring
  <2> QED
    BY <1>4, <1>b, <2>2, <2>3, EndStep DEF RejectFromNotification
<1>5. CASE AcceptInDialog(s)
  <2>1. PICK audioOk \in BOOLEAN : Update(s, AcceptSession(c, audioOk))
    BY <1>5 DEF AcceptInDialog
  <2>2. /\ AcceptSession(c, audioOk) \in Session
        /\ Ring(AcceptSession(c, audioOk)) = Ring(c)
    BY <1>a, AcceptSessionFacts
  <2> QED
    BY <1>5, <1>b, <2>1, <2>2, QuietStep DEF AcceptInDialog
<1>6. CASE EndInDialog(s)
  <2> DEFINE d == TerminateSession(c)
             e == [d EXCEPT !.dialog = FALSE]
  <2>1. d \in Session /\ RingInv(d)
    BY <1>a, TerminateSessionFacts, RingInvTerminated
  <2>2. Update(s, e) /\ IF c.terminated THEN UNCHANGED service ELSE UnregisterSession(s)
    BY <1>6 DEF EndInDialog
  <2>3. IF c.terminated THEN Ring(d) = Ring(c) ELSE d.terminated
    BY <1>a, TerminateSessionFacts, SessionTerminatedFacts DEF Ring
  <2> HIDE DEF d
  <2>4. e \in Session /\ Ring(e) = Ring(d)
    BY <2>1, QuietUpdates
  <2> HIDE DEF e
  <2>5. RingInv(e)
    BY <2>1, <2>4, RingInvByRing
  <2>6. Kept
    <3>1. CASE c.terminated
      <4> QED
        BY <2>2, <2>3, <2>4, <3>1, QuietStep
    <3>2. CASE ~c.terminated
      <4>1. e.terminated
        BY <2>3, <2>4, <3>2 DEF Ring
      <4> QED
        BY <2>2, <2>4, <2>5, <3>2, <4>1, EndStep
    <3> QED
      BY <3>1, <3>2
  <2> QED
    BY <1>6, <1>b, <2>6 DEF EndInDialog
<1> QED
  BY <1>1, <1>2, <1>3, <1>4, <1>5, <1>6 DEF User

\* The peer's stanzas and its answers.
LEMMA PeerStep ==
  ASSUME IInv, NEW s \in Calls, Peer(s)
  PROVE  Kept /\ SearchOK'
<1> DEFINE c == call[s]
<1>a. c \in Session /\ RingInv(c) /\ SearchOK
  BY DEF IInv, TypeOK, SearchOK
<1>b. ASSUME UNCHANGED <<stunVars, jnVars>> PROVE SearchOK'
  BY <1>a, <1>b DEF SearchOK, stunVars, jnVars
\* What a handler that ends the session writes.
<1>c. ASSUME NEW d \in Session, RingInv(d)
      PROVE  /\ SessionTerminated(d) \in Session /\ RingInv(SessionTerminated(d))
             /\ SessionTerminated(d).terminated
             /\ TerminatedWithReply(d) \in Session /\ RingInv(TerminatedWithReply(d))
             /\ TerminatedWithReply(d).terminated
  BY <1>c, SessionTerminatedFacts, TerminatedWithReplyFacts, RingInvTerminated DEF Ring
\* A session that has just come in.
<1>d. ASSUME NEW d \in Session, Ring(d) = Ring(Incoming)
      PROVE  RingInv(d) /\ ~d.terminated /\ d.role = "responder"
  <2>1. Ring(Incoming) = <<"responder", FALSE, 0, FALSE, "live">>
    BY DEF Ring, Incoming, NewCall
  <2> QED
    BY <1>d, <2>1 DEF Ring, RingInv
<1>1. CASE SessionInitiateBusy(s)
  <2>1. RingInv(Busy) /\ ~Live(Busy)
    BY DEF RingInv, Live, Busy, NewCall
  <2>2. ~Live(c)
    BY <1>1 DEF SessionInitiateBusy, Live
  <2> QED
    BY <1>1, <1>b, <2>1, <2>2, NewSessions, CalmStep DEF SessionInitiateBusy
<1>2. CASE SessionInitiateBad(s)
  <2>1. RingInv(Incoming)
    BY <1>d, NewSessions
  <2> QED
    BY <1>2, <1>b, <1>c, <2>1, NewSessions, EndStep DEF SessionInitiateBad
<1>3. CASE SessionInitiate(s)
  <2>1. PICK ready, asking, mediaOk, creds \in BOOLEAN :
          LET i == SessionInit(Incoming, ready, asking)
          IN  /\ DiscoverStun(s, ready)
              /\ RequestChannel(s, asking)
              /\ IF mediaOk
                 THEN /\ Update(s, ParseTransportCandidates([i EXCEPT !.peerMedia = TRUE], creds))
                      /\ RegisterSession(s)
                 ELSE /\ Update(s, TerminatedWithReply(i))
                      /\ UnregisterSession(s)
    BY <1>3 DEF SessionInitiate
  <2> DEFINE i == SessionInit(Incoming, ready, asking)
             p == [i EXCEPT !.peerMedia = TRUE]
             d == ParseTransportCandidates(p, creds)
  <2>2. i \in Session /\ Ring(i) = Ring(Incoming)
    BY NewSessions, SessionInitFacts
  <2>3. SearchOK'
    BY <1>a, <2>1, SearchStarted
  <2>4. /\ mediaOk => Update(s, d) /\ RegisterSession(s)
        /\ ~mediaOk => Update(s, TerminatedWithReply(i)) /\ UnregisterSession(s)
    BY <2>1
  <2> HIDE DEF i
  <2>5. p \in Session /\ Ring(p) = Ring(i)
    BY <2>2, QuietUpdates
  <2> HIDE DEF p
  <2>6. d \in Session /\ Ring(d) = Ring(p)
    BY <2>5, ParseFacts
  <2> HIDE DEF d
  <2>7. CASE mediaOk
    BY <1>d, <2>2, <2>3, <2>4, <2>5, <2>6, <2>7, BeginStep
  <2>8. CASE ~mediaOk
    BY <1>c, <1>d, <2>2, <2>3, <2>4, <2>8, EndStep
  <2> QED
    BY <2>7, <2>8
<1>4. CASE TransportInfo(s)
  <2>1. PICK creds \in BOOLEAN : Update(s, ParseTransportCandidates(c, creds))
    BY <1>4 DEF TransportInfo
  <2> QED
    BY <1>4, <1>a, <1>b, <2>1, ParseFacts, QuietStep DEF TransportInfo
<1>5. CASE SessionAccept(s)
  <2>1. CASE UNCHANGED service
             /\ \E creds, audioOk \in BOOLEAN :
                  LET d == ParseTransportCandidates([c EXCEPT !.peerMedia = TRUE], creds)
                  IN  Update(s, IF ParseThrows(c, creds) THEN d
                                ELSE StartMediaSession(d, audioOk))
    <3>1. PICK creds, audioOk \in BOOLEAN :
            LET d == ParseTransportCandidates([c EXCEPT !.peerMedia = TRUE], creds)
            IN  Update(s, d) \/ Update(s, StartMediaSession(d, audioOk))
      BY <2>1
    <3> DEFINE p == [c EXCEPT !.peerMedia = TRUE]
               d == ParseTransportCandidates(p, creds)
    <3>2. p \in Session /\ Ring(p) = Ring(c)
      BY <1>a, QuietUpdates
    <3>3. Update(s, d) \/ Update(s, StartMediaSession(d, audioOk))
      BY <3>1
    <3> HIDE DEF p
    <3>4. d \in Session /\ Ring(d) = Ring(c)
      BY <3>2, ParseFacts
    <3> HIDE DEF d
    <3>5. StartMediaSession(d, audioOk) \in Session
          /\ Ring(StartMediaSession(d, audioOk)) = Ring(c)
      BY <3>4, StartMediaSessionFacts
    <3>6. Kept
      BY <2>1, <3>3, <3>4, <3>5, QuietStep
    <3> QED
      BY <1>5, <1>b, <3>6 DEF SessionAccept
  <2>2. CASE Update(s, TerminatedWithReply(c)) /\ UnregisterSession(s)
    BY <1>5, <1>a, <1>b, <1>c, <2>2, EndStep DEF SessionAccept
  <2> QED
    BY <1>5, <2>1, <2>2 DEF SessionAccept
<1>6. CASE ContentRemove(s)
  BY <1>6, <1>a, <1>b, <1>c, EndStep DEF ContentRemove
<1>7. CASE PeerTerminates(s)
  BY <1>7, <1>a, <1>b, <1>c, EndStep DEF PeerTerminates
<1>8. CASE Acknowledged(s)
  <2> DEFINE n == c.acks - 1
             d == [c EXCEPT !.acks = n]
  <2>1. n \in Nat
    BY <1>8, <1>a, SessionFields DEF Acknowledged
  <2>2. \/ Update(s, d) /\ UNCHANGED service
        \/ Update(s, SessionTerminated(d)) /\ UnregisterSession(s)
    BY <1>8 DEF Acknowledged
  <2> HIDE DEF n
  <2>3. d \in Session /\ Ring(d) = Ring(c)
    BY <1>a, <2>1, QuietUpdates
  <2> HIDE DEF d
  <2>4. RingInv(d)
    BY <1>a, <2>3, RingInvByRing
  <2>5. Kept
    BY <1>c, <2>2, <2>3, <2>4, QuietStep, EndStep
  <2> QED
    BY <1>8, <1>b, <2>5 DEF Acknowledged
<1> QED
  BY <1>1, <1>2, <1>3, <1>4, <1>5, <1>6, <1>7, <1>8 DEF Peer

\* What the ICE thread posts and the main thread takes.
LEMMA IceStep ==
  ASSUME IInv, NEW s \in Calls, IceThread(s) \/ Callback(s)
  PROVE  Kept /\ SearchOK'
<1> DEFINE c == call[s]
           k == Taken(s)
<1>a. c \in Session /\ RingInv(c) /\ SearchOK
  BY DEF IInv, TypeOK, SearchOK
<1>b. ASSUME UNCHANGED <<stunVars, jnVars>> PROVE SearchOK'
  BY <1>a, <1>b DEF SearchOK, stunVars, jnVars
<1>c. ASSUME NEW e \in Events PROVE Post(s, e) \in Session /\ Ring(Post(s, e)) = Ring(c)
  <2>1. Append(c.events, e) \in Seq(Events)
    BY <1>a, SessionFields
  <2> QED
    BY <1>a, <2>1, QuietUpdates DEF Post
<1>d. ASSUME c.events # <<>> PROVE k \in Session /\ Ring(k) = Ring(c)
  <2>1. Tail(c.events) \in Seq(Events)
    BY <1>a, <1>d, SessionFields
  <2> QED
    BY <1>a, <2>1, QuietUpdates DEF Taken
<1>1. CASE CandidatesGathered(s)
  <2> DEFINE d == Post(s, "gathered")
  <2>1. Update(s, [d EXCEPT !.ice = "ready"])
    BY <1>1 DEF CandidatesGathered
  <2>2. d \in Session /\ Ring(d) = Ring(c)
    BY <1>c DEF Events
  <2> HIDE DEF d
  <2>3. [d EXCEPT !.ice = "ready"] \in Session /\ Ring([d EXCEPT !.ice = "ready"]) = Ring(c)
    BY <2>2, QuietUpdates DEF IceStates
  <2> QED
    BY <1>1, <1>b, <2>1, <2>3, QuietStep DEF CandidatesGathered
<1>2. CASE ConnectivityChecked(s)
  <2>1. PICK e \in Events : Update(s, Post(s, e))
    BY <1>2 DEF ConnectivityChecked, Events
  <2> QED
    BY <1>2, <1>b, <1>c, <2>1, QuietStep DEF ConnectivityChecked
<1>3. CASE OnIgnored(s)
  BY <1>3, <1>b, <1>d, QuietStep DEF OnIgnored
<1>4. CASE OnCandidatesGatheringDone(s)
  <2> DEFINE d == [k EXCEPT !.candidatesGathered = TRUE]
  <2>1. Update(s, SendTransports(d, FALSE))
    BY <1>4 DEF OnCandidatesGatheringDone
  <2>2. k \in Session /\ Ring(k) = Ring(c)
    BY <1>4, <1>d DEF OnCandidatesGatheringDone
  <2>3. d \in Session /\ Ring(d) = Ring(c)
    BY <2>2, QuietUpdates
  <2> HIDE DEF d
  <2>4. SendTransports(d, FALSE) \in Session /\ Ring(SendTransports(d, FALSE)) = Ring(c)
    BY <2>3, SendTransportsFacts
  <2> QED
    BY <1>4, <1>b, <2>1, <2>4, QuietStep DEF OnCandidatesGatheringDone
<1>5. CASE OnCandidateSelected(s)
  <2> DEFINE d == [k EXCEPT !.connectionEstabilished = TRUE]
  <2>1. PICK audioOk \in BOOLEAN : Update(s, StartMediaSession(d, audioOk))
    BY <1>5 DEF OnCandidateSelected
  <2>2. k \in Session /\ Ring(k) = Ring(c)
    BY <1>5, <1>d DEF OnCandidateSelected
  <2>3. d \in Session /\ Ring(d) = Ring(c)
    BY <2>2, QuietUpdates
  <2> HIDE DEF d
  <2>4. /\ StartMediaSession(d, audioOk) \in Session
        /\ Ring(StartMediaSession(d, audioOk)) = Ring(c)
    BY <2>3, StartMediaSessionFacts
  <2> QED
    BY <1>5, <1>b, <2>1, <2>4, QuietStep DEF OnCandidateSelected
<1>6. CASE OnConnectionFail(s)
  <2>1. k \in Session /\ Ring(k) = Ring(c) /\ ~c.terminated
    BY <1>6, <1>d DEF OnConnectionFail
  <2>2. Update(s, TerminateSession(k)) /\ UnregisterSession(s)
    BY <1>6 DEF OnConnectionFail
  <2>3. RingInv(k) /\ ~k.terminated
    BY <1>a, <2>1, RingInvByRing DEF Ring
  <2> HIDE DEF k
  <2>4. /\ TerminateSession(k) \in Session /\ RingInv(TerminateSession(k))
        /\ TerminateSession(k).terminated
    BY <2>1, <2>3, TerminateSessionFacts, RingInvTerminated, SessionTerminatedFacts DEF Ring
  <2> QED
    BY <1>6, <1>b, <2>2, <2>4, EndStep DEF OnConnectionFail
<1> QED
  BY <1>1, <1>2, <1>3, <1>4, <1>5, <1>6 DEF IceThread, Callback

\* The searches' own steps, which may touch the sessions that wait for them.
LEMMA DiscoveryStep ==
  ASSUME IInv, Discovery
  PROVE  Kept /\ SearchOK'
<1>a. call \in [Calls -> Session] /\ SearchOK
  BY DEF IInv, TypeOK, SearchOK
<1>b. ASSUME UNCHANGED <<call, service>> PROVE Kept
  BY <1>b DEF Kept, IInv, TypeOK, RegisteredIffLive, service
<1>c. ASSUME AnswerRequest, jnRequest # None, UNCHANGED service PROVE Kept
  <2>1. jnRequest \in Calls
    BY <1>a, <1>c DEF SearchOK
  <2>2. call[jnRequest] \in Session
    BY <1>a, <2>1
  <2>3. /\ OnJingleNodesChannel(call[jnRequest]) \in Session
        /\ Ring(OnJingleNodesChannel(call[jnRequest])) = Ring(call[jnRequest])
    BY <2>2, SessionInitFacts
  <2> QED
    BY <1>c, <2>1, <2>3, QuietStep DEF AnswerRequest
<1>1. CASE StunServerNamed
  BY <1>1, <1>a, <1>b DEF StunServerNamed, SearchOK, jnVars
<1>2. CASE StunDiscovered
  <2>1. call' = [s \in Calls |-> IF s \in stunQueue THEN InitIce(call[s]) ELSE call[s]]
    BY <1>2 DEF StunDiscovered
  <2>2. \A s \in Calls : call'[s] \in Session /\ Ring(call'[s]) = Ring(call[s])
    BY <1>a, <2>1, SessionInitFacts
  <2>3. call' \in [Calls -> Session]
    BY <2>1, <2>2
  <2>4. \A s \in Calls : RingInv(call'[s])
    BY <2>2, RingInvByRing DEF IInv
  <2>5. \A s \in Calls : Live(call'[s]) <=> Live(call[s])
    BY <2>2 DEF Ring, Live
  <2>6. UNCHANGED service /\ SearchOK'
    BY <1>2, <1>a DEF StunDiscovered, SearchOK, jnVars
  <2>7. RegisteredIffLive'
    BY <2>5, <2>6 DEF IInv, RegisteredIffLive, Live, service
  <2> QED
    BY <2>3, <2>4, <2>6, <2>7 DEF Kept, IInv, TypeOK, service
<1>3. CASE RelayAnswers
  <2>1. SearchOK'
    BY <1>3, <1>a, JingleAssumption DEF RelayAnswers, AnswerRequest, SearchOK, stunVars
  <2>2. UNCHANGED service /\ (UNCHANGED call \/ (AnswerRequest /\ jnRequest # None))
    BY <1>3 DEF RelayAnswers
  <2> QED
    BY <1>b, <1>c, <2>1, <2>2
<1>4. CASE NodeAppears
  <2>1. SearchOK'
    BY <1>4, <1>a DEF NodeAppears, NextRelay, AnswerRequest, SearchOK, stunVars
  <2>2. UNCHANGED service /\ (UNCHANGED call \/ (AnswerRequest /\ jnRequest # None))
    BY <1>4 DEF NodeAppears, NextRelay
  <2> QED
    BY <1>b, <1>c, <2>1, <2>2
<1> QED
  BY <1>1, <1>2, <1>3, <1>4 DEF Discovery

-----------------------------------------------------------------------------
(* The theorems                                                            *)

LEMMA InvariantBegins == Init => IInv
<1> SUFFICES ASSUME Init PROVE IInv
  OBVIOUS
<1>1. NewCall.role = "none" /\ RingInv(NewCall)
  BY DEF NewCall, RingInv
<1>2. call = [s \in Calls |-> NewCall] /\ sessions = {} /\ activeSession = None
  BY DEF Init
<1>3. TypeOK
  BY <1>2, NewSessions DEF Init, TypeOK
<1> QED
  BY <1>1, <1>2, <1>3 DEF IInv, RegisteredIffLive

LEMMA InvariantKept == IInv /\ [Next]_vars => IInv'
<1> SUFFICES ASSUME IInv, [Next]_vars PROVE IInv'
  OBVIOUS
<1>1. ASSUME Kept, SearchOK' PROVE IInv'
  BY <1>1 DEF Kept, SearchOK, IInv, TypeOK
<1>2. CASE \E s \in Calls : User(s) \/ Peer(s) \/ IceThread(s) \/ Callback(s)
  BY <1>1, <1>2, UserStep, PeerStep, IceStep
<1>3. CASE Discovery
  BY <1>1, <1>3, DiscoveryStep
<1>4. CASE UNCHANGED vars
  BY <1>4 DEF vars, service, stunVars, jnVars, IInv, TypeOK, RegisteredIffLive
<1> QED
  BY <1>2, <1>3, <1>4 DEF Next

\* The inductive invariant holds in every state of every behaviour: the handlers
\* keep the sessions, the service's table and the ringing consistent.
THEOREM Inductive == Spec => []IInv
  BY InvariantBegins, InvariantKept, PTL DEF Spec

\* Every variable keeps its type, whatever the handlers do to the sessions.
THEOREM TypeCorrect == Spec => []TypeOK
<1>1. IInv => TypeOK
  BY DEF IInv
<1> QED
  BY <1>1, Inductive, PTL

\* registerSession and unregisterSession keep the table of sessions in step with
\* the sessions' own flags, and the active slot empty or in the table.
THEOREM Registered == Spec => []RegisteredIffLive
<1>1. IInv => RegisteredIffLive
  BY DEF IInv
<1> QED
  BY <1>1, Inductive, PTL

\* An incoming call is reacted to or reported missed, once (the canceler shared
\* by onPacket's notifications and _sessionTerminated).
THEOREM MissedOnce == Spec => []MissedXorHandled
<1>1. IInv => MissedXorHandled
  BY DEF IInv, RingInv, MissedXorHandled
<1> QED
  BY <1>1, Inductive, PTL

-----------------------------------------------------------------------------
(* What the peer and the two people see                                    *)

\* Where a session stands: what its state says about it, and what nobody has begun or was
\* refused has nothing left that could speak later.
Standing(c) ==
  /\ c.role \in {"none", "busy"} =>
       /\ ~c.sessionStarted /\ ~c.connectionEstabilished /\ ~c.terminated /\ ~c.dialog
       /\ c.events = <<>> /\ c.ice = "none" /\ c.acks = 0
  /\ c.role \in {"initiator", "responder"} => c.state # "none"
  /\ c.role = "initiator" =>
       c.sessionStarted /\ c.state # "needAccept" /\ (c.state = "waitingForAccept" => ~c.peerMedia)
  /\ c.role = "responder" => c.state # "waitingForAccept" /\ (c.terminated \/ c.peerMedia)
  /\ c.role # "initiator" /\ c.state = "needAccept" => ~c.sessionStarted
  /\ c.terminated <=> c.state = "terminated"
  /\ c.canceler = "live" => c.role = "responder" /\ c.state = "needAccept" /\ ~c.dialog
  /\ c.state \in {"connectionEstabilishing", "callinprogress"} => c.peerMedia /\ c.sessionStarted
  /\ c.state = "connectionEstabilishing" => ~c.connectionEstabilished
  /\ c.state = "callinprogress" => c.connectionEstabilished

\* Gathering ends once, and nothing is sent before that.
Gathering(c) ==
  /\ c.sessionInititateSent => c.candidatesGathered
  /\ ~c.terminated =>
       /\ c.candidatesGathered => c.ice = "ready"
       /\ c.candidatesGathered \/ c.ice # "ready" => \A i \in DOMAIN c.events : c.events[i] # "gathered"
       /\ \A i, j \in DOMAIN c.events : c.events[i] = "gathered" /\ c.events[j] = "gathered" => i = j

\* NothingLeftBuffered of one session
Handed(c) ==
  /\ ~(c.ice # "none" /\ c.remoteCreds /\ c.remoteCandidates)
  /\ ~(c.ice = "created" /\ c.jnRelay)

\* SignallingOrder of one session, and what the flags tell of its history
Legal(c) ==
  /\ \A a \in {"session-initiate", "session-accept", "session-terminate"} :
       \A i, j \in DOMAIN c.sent : c.sent[i] = a /\ c.sent[j] = a => i = j
  /\ c.role = "initiator" =>
       \A i \in DOMAIN c.sent : c.sent[i] = "transport-info" =>
         \E j \in DOMAIN c.sent : c.sent[j] = "session-initiate" /\ j < i
  /\ \A i \in DOMAIN c.sent : c.sent[i] = "session-terminate" =>
       i = Len(c.sent) /\ (c.terminated \/ c.role = "busy")

Flags(c) ==
  /\ \A i \in DOMAIN c.sent : c.sent[i] = "session-initiate" =>
       c.role = "initiator" /\ c.sessionInititateSent
  /\ c.role = "initiator" /\ c.sessionInititateSent =>
       \E i \in DOMAIN c.sent : c.sent[i] = "session-initiate"
  /\ \A i \in DOMAIN c.sent : c.sent[i] = "session-accept" =>
       c.role # "initiator" /\ c.sessionStarted /\ c.candidatesGathered

Good(c) == Standing(c) /\ Gathering(c) /\ Handed(c) /\ Legal(c) /\ Flags(c)

\* The searches know only sessions that were begun, and one that still waits for STUN has
\* no ICE session.
Waiting ==
  /\ \A s \in stunQueue : /\ call[s].role \in {"initiator", "responder"}
                          /\ ~call[s].terminated => call[s].ice = "none"
  /\ jnRequest # None => call[jnRequest].role \in {"initiator", "responder"}

AllGood == IInv /\ Waiting /\ \A s \in Calls : Good(call[s])

-----------------------------------------------------------------------------
(* What the methods do to the other fields                                 *)

\* The fields that neither sending nor starting the media changes.
Fixed(c) ==
  <<c.role, c.terminated, c.candidatesGathered, c.peerMedia, c.remoteCreds,
    c.remoteCandidates, c.connectionEstabilished, c.jnRelay, c.ice, c.events,
    c.canceler, c.dialog>>

\* The fields that say what was sent and agreed on.
Spoken(c) ==
  <<c.role, c.state, c.terminated, c.sessionStarted, c.candidatesGathered,
    c.sessionInititateSent, c.connectionEstabilished, c.events, c.canceler,
    c.dialog, c.acks, c.sent>>

LEMMA SessionTerminatedFields ==
  ASSUME NEW c \in Session
  PROVE  LET d == SessionTerminated(c) IN
         /\ d.role = c.role /\ d.state = "terminated" /\ d.terminated = TRUE
         /\ d.sessionStarted = c.sessionStarted
         /\ d.candidatesGathered = c.candidatesGathered
         /\ d.sessionInititateSent = c.sessionInititateSent
         /\ d.peerMedia = c.peerMedia /\ d.ice = "none" /\ d.canceler # "live"
         /\ d.connectionEstabilished = c.connectionEstabilished /\ d.sent = c.sent
  BY DEF SessionTerminated, Session

LEMMA SendTransportsFields ==
  ASSUME NEW c \in Session, NEW start \in BOOLEAN
  PROVE  LET d == SendTransports(c, start)
             action == IF c.role = "initiator" /\ ~c.sessionInititateSent
                       THEN "session-initiate"
                       ELSE IF c.role # "initiator" /\ (c.sessionStarted \/ start)
                       THEN "session-accept" ELSE "transport-info"
         IN  /\ Fixed(d) = Fixed(c) /\ d.state = c.state
             /\ d.sessionStarted = (c.sessionStarted \/ start)
             /\ ~c.candidatesGathered =>
                  /\ d.sent = c.sent /\ d.sessionInititateSent = c.sessionInititateSent
                  /\ d.acks = c.acks
             /\ c.candidatesGathered =>
                  /\ d.sent = Append(c.sent, action)
                  /\ d.sessionInititateSent = (c.sessionInititateSent \/ c.role = "initiator")
<1> DEFINE b == c.sessionStarted \/ start
           d == [c EXCEPT !.sessionStarted = b]
           e(a) == [d EXCEPT !.sent = Append(@, a), !.acks = @ + 1,
                             !.sessionInititateSent = @ \/ d.role = "initiator"]
           action == IF c.role = "initiator" /\ ~c.sessionInititateSent
                     THEN "session-initiate"
                     ELSE IF c.role # "initiator" /\ (c.sessionStarted \/ start)
                     THEN "session-accept" ELSE "transport-info"
<1>1. /\ Fixed(d) = Fixed(c) /\ d.state = c.state /\ d.sessionStarted = b
      /\ d.sent = c.sent /\ d.sessionInititateSent = c.sessionInititateSent
      /\ d.acks = c.acks /\ d.role = c.role /\ d.candidatesGathered = c.candidatesGathered
  BY DEF Session, Fixed
<1>2. DOMAIN d = DOMAIN c
  OBVIOUS
<1>3. [c EXCEPT !.sessionStarted = @ \/ start] = d
  BY DEF Session
<1>4. SendTransports(c, start) = IF ~c.candidatesGathered THEN d ELSE e(action)
  BY <1>1, <1>3 DEF SendTransports
<1>5. ASSUME NEW a
      PROVE  /\ Fixed(e(a)) = Fixed(d) /\ e(a).state = d.state
             /\ e(a).sessionStarted = d.sessionStarted /\ e(a).sent = Append(d.sent, a)
             /\ e(a).sessionInititateSent = (d.sessionInititateSent \/ d.role = "initiator")
  <2> HIDE DEF d
  <2> QED
    BY <1>2 DEF Session, Fixed
<1> HIDE DEF d, e, action
<1>6. CASE ~c.candidatesGathered
  BY <1>1, <1>4, <1>6 DEF b
<1>7. CASE c.candidatesGathered
  BY <1>1, <1>4, <1>5, <1>7 DEF b, action
<1> QED
  BY <1>6, <1>7

LEMMA StartMediaSessionFields ==
  ASSUME NEW c \in Session, NEW audioOk \in BOOLEAN
  PROVE  LET d == StartMediaSession(c, audioOk) IN
         /\ Fixed(d) = Fixed(c) /\ d.sessionStarted = c.sessionStarted
         /\ d.sent = c.sent /\ d.sessionInititateSent = c.sessionInititateSent
         /\ d.acks = c.acks
         /\ d.state = IF ~(c.peerMedia /\ c.sessionStarted) THEN c.state
                      ELSE IF ~c.connectionEstabilished THEN "connectionEstabilishing"
                      ELSE "callinprogress"
<1>1. CASE ~(c.peerMedia /\ c.sessionStarted)
  BY <1>1 DEF StartMediaSession
<1>2. CASE c.peerMedia /\ c.sessionStarted /\ ~c.connectionEstabilished
  <2>1. StartMediaSession(c, audioOk) = [c EXCEPT !.state = "connectionEstabilishing"]
    BY <1>2 DEF StartMediaSession
  <2> QED
    BY <1>2, <2>1 DEF Session, Fixed
<1>3. CASE c.peerMedia /\ c.sessionStarted /\ c.connectionEstabilished
  <2>1. StartMediaSession(c, audioOk) =
          [c EXCEPT !.state = "callinprogress",
                    !.audioInput = @ \/ (audioOk /\ c.ice # "none")]
    BY <1>3 DEF StartMediaSession
  <2> QED
    BY <1>3, <2>1 DEF Session, Fixed
<1> QED
  BY <1>1, <1>2, <1>3

LEMMA SearchFields ==
  ASSUME NEW c \in Session
  PROVE  /\ LET d == InitIce(c) IN
            /\ Spoken(d) = Spoken(c) /\ d.peerMedia = c.peerMedia
            /\ d.remoteCreds = c.remoteCreds /\ d.jnRelay = c.jnRelay
            /\ d.remoteCandidates = (c.remoteCandidates /\ ~c.remoteCreds)
            /\ d.ice = IF c.jnRelay THEN "gathering" ELSE "created"
         /\ LET d == OnJingleNodesChannel(c) IN
            /\ Spoken(d) = Spoken(c) /\ d.peerMedia = c.peerMedia
            /\ d.remoteCreds = c.remoteCreds /\ d.remoteCandidates = c.remoteCandidates
            /\ d.jnRelay = IF c.ice = "none" THEN TRUE ELSE c.jnRelay
            /\ d.ice = IF c.ice = "created" THEN "gathering" ELSE c.ice
<1>1. LET d == InitIce(c) IN
      /\ Spoken(d) = Spoken(c) /\ d.peerMedia = c.peerMedia
      /\ d.remoteCreds = c.remoteCreds /\ d.jnRelay = c.jnRelay
      /\ d.remoteCandidates = (c.remoteCandidates /\ ~c.remoteCreds)
      /\ d.ice = IF c.jnRelay THEN "gathering" ELSE "created"
  BY DEF Session, Spoken, InitIce
<1>2. LET d == OnJingleNodesChannel(c) IN
      /\ Spoken(d) = Spoken(c) /\ d.peerMedia = c.peerMedia
      /\ d.remoteCreds = c.remoteCreds /\ d.remoteCandidates = c.remoteCandidates
      /\ d.jnRelay = IF c.ice = "none" THEN TRUE ELSE c.jnRelay
      /\ d.ice = IF c.ice = "created" THEN "gathering" ELSE c.ice
  <2>1. CASE c.ice = "none"
    BY <2>1 DEF Session, Spoken, OnJingleNodesChannel
  <2>2. CASE c.ice # "none"
    BY <2>2 DEF Session, Spoken, OnJingleNodesChannel
  <2> QED
    BY <2>1, <2>2
<1> QED
  BY <1>1, <1>2

LEMMA ParseFields ==
  ASSUME NEW c \in Session, NEW creds \in BOOLEAN
  PROVE  LET d == ParseTransportCandidates(c, creds) IN
         /\ Spoken(d) = Spoken(c) /\ d.peerMedia = c.peerMedia
         /\ d.ice = c.ice /\ d.jnRelay = c.jnRelay
         /\ d.remoteCreds = (c.remoteCreds \/ creds)
         /\ d.remoteCandidates =
              (c.remoteCandidates /\ (~(c.remoteCreds \/ creds) \/ c.ice = "none"))
  BY DEF Session, Spoken, ParseTransportCandidates

-----------------------------------------------------------------------------
(* How a session may change                                                *)

Phase(c) ==
  IF c.role = "none" THEN "new"
  ELSE IF c.role = "busy" THEN "refused"
  ELSE CASE c.state = "needAccept"              -> "ringing"
         [] c.state = "waitingForAccept"        -> "calling"
         [] c.state = "connectionEstabilishing" -> "connecting"
         [] c.state = "callinprogress"          -> "active"
         [] OTHER                               -> "ended"
Agreed(c) == IF c.role = "initiator" THEN c.peerMedia ELSE c.sessionStarted
Life(c) == <<Phase(c), Agreed(c), c.connectionEstabilished>>

\* One step of the abstract life of a call, or none.
LifeStep(c, d) ==
  \/ Life(d) = Life(c)
  \/ /\ Phase(c) = "new" /\ Phase(d) \in {"calling", "ringing", "refused", "ended"}
     /\ Agreed(d) = Agreed(c) /\ d.connectionEstabilished = c.connectionEstabilished
  \/ /\ Phase(c) \in {"calling", "ringing"}
     /\ Phase(d) = IF c.connectionEstabilished THEN "active" ELSE "connecting"
     /\ Agreed(d) /\ d.connectionEstabilished = c.connectionEstabilished
  \/ /\ Phase(c) \in {"calling", "ringing", "connecting", "active"}
     /\ Phase(d) = IF Agreed(c) THEN "active" ELSE Phase(c)
     /\ Agreed(d) = Agreed(c) /\ d.connectionEstabilished
  \/ /\ Phase(c) \in {"calling", "ringing", "connecting", "active"} /\ Phase(d) = "ended"
     /\ Agreed(d) = Agreed(c) /\ d.connectionEstabilished = c.connectionEstabilished

\* What is shown of every change of a session.
Moves(c, d) == Good(d) /\ LifeStep(c, d) /\ (c.terminated => d.sent = c.sent)

\* Nothing is sent.
LEMMA SaysNothing ==
  ASSUME NEW c \in Session, NEW d \in Session, Legal(c), Flags(c),
         d.sent = c.sent, d.role = c.role, c.terminated => d.terminated,
         d.sessionInititateSent = c.sessionInititateSent,
         c.sessionStarted => d.sessionStarted,
         c.candidatesGathered => d.candidatesGathered
  PROVE  Legal(d) /\ Flags(d)
<1>1. Legal(d)
  BY DEF Legal
<1>2. Flags(d)
  BY DEF Flags
<1> QED
  BY <1>1, <1>2

\* One action more is sent by a session that has not ended.
LEMMA SaysMore ==
  ASSUME NEW c \in Session, NEW d \in Session, Legal(c), Flags(c), NEW a \in Actions,
         d.sent = Append(c.sent, a), d.role = c.role, ~c.terminated, c.role # "busy",
         a = "session-terminate" => d.terminated,
         a = "session-initiate" =>
           c.role = "initiator" /\ ~c.sessionInititateSent /\ d.sessionInititateSent,
         a = "session-accept" => /\ c.role # "initiator"
                                 /\ ~(c.sessionStarted /\ c.candidatesGathered)
                                 /\ d.sessionStarted /\ d.candidatesGathered,
         a = "transport-info" /\ c.role = "initiator" => c.sessionInititateSent,
         c.sessionInititateSent => d.sessionInititateSent,
         d.role = "initiator" /\ d.sessionInititateSent =>
           c.sessionInititateSent \/ a = "session-initiate",
         c.sessionStarted => d.sessionStarted,
         c.candidatesGathered => d.candidatesGathered
  PROVE  Legal(d) /\ Flags(d)
<1> DEFINE n == Len(c.sent)
<1>1. c.sent \in Seq(Actions)
  BY DEF Session
<1>2. /\ n \in Nat /\ DOMAIN c.sent = 1..n /\ DOMAIN d.sent = 1..(n + 1)
      /\ Len(d.sent) = n + 1 /\ d.sent[n + 1] = a
      /\ \A i \in 1..n : d.sent[i] = c.sent[i]
  BY <1>1
<1>3. \A i \in DOMAIN d.sent : i \in DOMAIN c.sent \/ (i = n + 1 /\ d.sent[i] = a)
  BY <1>2
<1>4. \A i \in DOMAIN c.sent : i \in DOMAIN d.sent /\ d.sent[i] = c.sent[i] /\ i < n + 1
  BY <1>2
<1>5. n + 1 \in DOMAIN d.sent
  BY <1>2
<1>6. \A i \in DOMAIN c.sent : c.sent[i] # "session-terminate"
  BY DEF Legal
<1> HIDE DEF n
<1>7. ASSUME NEW x \in {"session-initiate", "session-accept", "session-terminate"},
             NEW i \in DOMAIN d.sent, NEW j \in DOMAIN d.sent,
             d.sent[i] = x, d.sent[j] = x
      PROVE  i = j
  <2>1. a = x => \A k \in DOMAIN c.sent : c.sent[k] # x
    BY <1>6 DEF Flags
  <2>2. CASE i \in DOMAIN c.sent /\ j \in DOMAIN c.sent
    BY <1>4, <1>7, <2>2 DEF Legal
  <2>3. CASE ~(i \in DOMAIN c.sent /\ j \in DOMAIN c.sent)
    BY <1>3, <1>4, <1>7, <2>1, <2>3
  <2> QED
    BY <2>2, <2>3
<1>8. ASSUME d.role = "initiator", NEW i \in DOMAIN d.sent, d.sent[i] = "transport-info"
      PROVE  \E j \in DOMAIN d.sent : d.sent[j] = "session-initiate" /\ j < i
  <2>1. CASE i \in DOMAIN c.sent
    <3>1. PICK j \in DOMAIN c.sent : c.sent[j] = "session-initiate" /\ j < i
      BY <1>4, <1>8, <2>1 DEF Legal
    <3> QED
      BY <1>4, <3>1
  <2>2. CASE i = n + 1 /\ a = "transport-info"
    <3>1. PICK j \in DOMAIN c.sent : c.sent[j] = "session-initiate"
      BY <1>8, <2>2 DEF Flags
    <3> QED
      BY <1>4, <2>2, <3>1
  <2> QED
    BY <1>3, <1>8, <2>1, <2>2
<1>9. \A i \in DOMAIN d.sent : d.sent[i] = "session-terminate" => i = n + 1 /\ d.terminated
  BY <1>3, <1>4, <1>6
<1>10. Legal(d)
  BY <1>2, <1>7, <1>8, <1>9 DEF Legal, n
<1>11. Flags(d)
  <2>1. \A i \in DOMAIN d.sent : d.sent[i] = "session-initiate" =>
          d.role = "initiator" /\ d.sessionInititateSent
    BY <1>3, <1>4 DEF Flags
  <2>2. d.role = "initiator" /\ d.sessionInititateSent =>
          \E i \in DOMAIN d.sent : d.sent[i] = "session-initiate"
    BY <1>2, <1>4, <1>5 DEF Flags, n
  <2>3. \A i \in DOMAIN d.sent : d.sent[i] = "session-accept" =>
          d.role # "initiator" /\ d.sessionStarted /\ d.candidatesGathered
    BY <1>3, <1>4 DEF Flags
  <2> QED
    BY <2>1, <2>2, <2>3 DEF Flags
<1> QED
  BY <1>10, <1>11

Begun(c) == c.role \in {"initiator", "responder"}

\* Nothing changes but the ringing, the window, the answers awaited, and what was
\* taken from the posted callbacks.
LEMMA Touched ==
  ASSUME NEW c \in Session, NEW d \in Session, Good(c), Begun(c),
         d.role = c.role, d.state = c.state, d.terminated = c.terminated,
         d.sessionStarted = c.sessionStarted,
         d.candidatesGathered = c.candidatesGathered,
         d.sessionInititateSent = c.sessionInititateSent, d.peerMedia = c.peerMedia,
         d.remoteCreds = c.remoteCreds, d.remoteCandidates = c.remoteCandidates,
         d.connectionEstabilished = c.connectionEstabilished,
         d.jnRelay = c.jnRelay, d.ice = c.ice, d.sent = c.sent,
         d.canceler \in {c.canceler, "spent"}, d.canceler = "live" => d.dialog = c.dialog,
         d.events = c.events \/ (c.events # <<>> /\ d.events = Tail(c.events))
  PROVE  Good(d) /\ Life(d) = Life(c)
<1>1. Legal(d) /\ Flags(d)
  BY SaysNothing DEF Good
<1>2. Standing(d)
  BY DEF Good, Standing, Begun
<1>3. Handed(d)
  BY DEF Good, Handed
<1>4. Gathering(d)
  <2>1. CASE d.events = c.events
    BY <2>1 DEF Good, Gathering
  <2>2. CASE c.events # <<>> /\ d.events = Tail(c.events)
    <3>1. c.events \in Seq(Events)
      BY SessionFields
    <3>2. \A i \in DOMAIN d.events : i \in Nat /\ i + 1 \in DOMAIN c.events
                                     /\ d.events[i] = c.events[i + 1]
      BY <2>2, <3>1
    <3>3. ASSUME ~d.terminated
          PROVE  /\ d.candidatesGathered => d.ice = "ready"
                 /\ d.candidatesGathered \/ d.ice # "ready" =>
                      \A i \in DOMAIN d.events : d.events[i] # "gathered"
      BY <3>2, <3>3 DEF Good, Gathering
    <3>4. ASSUME ~d.terminated, NEW i \in DOMAIN d.events, NEW j \in DOMAIN d.events,
                 d.events[i] = "gathered", d.events[j] = "gathered"
          PROVE  i = j
      <4>1. i + 1 = j + 1
        BY <3>2, <3>4 DEF Good, Gathering
      <4> QED
        BY <3>2, <4>1
    <3> QED
      BY <3>3, <3>4 DEF Good, Gathering
  <2> QED
    BY <2>1, <2>2
<1>5. Life(d) = Life(c)
  BY DEF Life, Phase, Agreed
<1> QED
  BY <1>1, <1>2, <1>3, <1>4, <1>5 DEF Good

\* The way to a change leads through a session that differs in nothing that matters.
LEMMA MovesFrom ==
  ASSUME NEW c, NEW d, NEW e, Moves(d, e), Life(d) = Life(c),
         d.terminated = c.terminated, d.sent = c.sent
  PROVE  Moves(c, e)
  BY DEF Moves, LifeStep, Life

-----------------------------------------------------------------------------
(* What each handler makes of a session                                    *)

\* The session ends, with or without a word to the peer.
LEMMA MovesToEnd ==
  ASSUME NEW c \in Session, Good(c), Begun(c)
  PROVE  /\ Moves(c, SessionTerminated(c))
         /\ ~c.terminated => Moves(c, TerminatedWithReply(c))
         /\ Moves(c, TerminateSession(c))
<1>1. ASSUME NEW d \in Session, d.role = c.role, d.state = "terminated", d.terminated = TRUE,
             d.sessionStarted = c.sessionStarted,
             d.candidatesGathered = c.candidatesGathered,
             d.sessionInititateSent = c.sessionInititateSent, d.peerMedia = c.peerMedia,
             d.ice = "none", d.canceler # "live",
             d.connectionEstabilished = c.connectionEstabilished,
             d.sent = c.sent \/ (~c.terminated /\ d.sent = Append(c.sent, "session-terminate"))
      PROVE  Moves(c, d)
  <2>1. Legal(d) /\ Flags(d)
    <3>1. CASE d.sent = c.sent
      BY <1>1, <3>1, SaysNothing DEF Good
    <3>2. CASE ~c.terminated /\ d.sent = Append(c.sent, "session-terminate")
      <4>1. "session-terminate" \in Actions
        BY DEF Actions
      <4>2. c.role # "busy" /\ Legal(c) /\ Flags(c)
        BY DEF Begun, Good
      <4> QED
        BY <1>1, <3>2, <4>1, <4>2, SaysMore
    <3> QED
      BY <1>1, <3>1, <3>2
  <2>2. Standing(d)
    BY <1>1 DEF Good, Standing, Begun
  <2>3. Gathering(d) /\ Handed(d)
    BY <1>1 DEF Good, Gathering, Handed
  <2>4. LifeStep(c, d)
    <3>1. Phase(d) = "ended" /\ Agreed(d) = Agreed(c)
      BY <1>1 DEF Phase, Agreed, Begun
    <3>2. c.terminated => Phase(c) = "ended"
      BY DEF Phase, Begun, Good, Standing
    <3>3. ~c.terminated => Phase(c) \in {"calling", "ringing", "connecting", "active"}
      BY DEF Phase, Begun, Good, Standing, Session
    <3> QED
      BY <1>1, <3>1, <3>2, <3>3 DEF LifeStep, Life
  <2> QED
    BY <1>1, <2>1, <2>2, <2>3, <2>4 DEF Moves, Good
<1>2. Moves(c, SessionTerminated(c))
  BY <1>1, SessionTerminatedFields, SessionTerminatedFacts
<1>3. ASSUME ~c.terminated PROVE Moves(c, TerminatedWithReply(c))
  <2> DEFINE b == [c EXCEPT !.sent = Append(@, "session-terminate")]
  <2>1. b \in Session
    BY SayTerminateFacts
  <2>2. /\ b.role = c.role /\ b.sessionStarted = c.sessionStarted
        /\ b.candidatesGathered = c.candidatesGathered
        /\ b.sessionInititateSent = c.sessionInititateSent /\ b.peerMedia = c.peerMedia
        /\ b.connectionEstabilished = c.connectionEstabilished
        /\ b.sent = Append(c.sent, "session-terminate")
    BY DEF Session
  <2>3. TerminatedWithReply(c) = SessionTerminated(b)
    BY DEF TerminatedWithReply
  <2> DEFINE t == SessionTerminated(b)
  <2> HIDE DEF b
  <2>4. /\ t \in Session /\ t.role = c.role /\ t.state = "terminated" /\ t.terminated = TRUE
        /\ t.sessionStarted = c.sessionStarted
        /\ t.candidatesGathered = c.candidatesGathered
        /\ t.sessionInititateSent = c.sessionInititateSent /\ t.peerMedia = c.peerMedia
        /\ t.ice = "none" /\ t.canceler # "live"
        /\ t.connectionEstabilished = c.connectionEstabilished
        /\ t.sent = Append(c.sent, "session-terminate")
    BY <2>1, <2>2, SessionTerminatedFields, SessionTerminatedFacts
  <2> HIDE DEF t
  <2>5. Moves(c, t)
    BY <1>1, <1>3, <2>4
  <2> QED
    BY <2>3, <2>5 DEF t
<1>4. Moves(c, TerminateSession(c))
  <2>1. TerminateSession(c) = IF c.terminated THEN c ELSE TerminatedWithReply(c)
    BY DEF TerminateSession, TerminatedWithReply
  <2> QED
    BY <1>3, <2>1 DEF Moves, LifeStep
<1> QED
  BY <1>2, <1>3, <1>4

\* The user accepts a call that rings.
LEMMA MovesToAccepted ==
  ASSUME NEW c \in Session, Good(c), c.role = "responder", c.state = "needAccept",
         c.canceler # "live", NEW audioOk \in BOOLEAN
  PROVE  Moves(c, AcceptSession(c, audioOk))
<1> DEFINE d == [c EXCEPT !.state = "connectionEstabilishing"]
           e == SendTransports(d, TRUE)
           f == StartMediaSession(e, audioOk)
<1>1. d \in Session
  BY SessionUpdates DEF States
<1>2. /\ Fixed(d) = Fixed(c) /\ d.sessionStarted = c.sessionStarted /\ d.sent = c.sent
      /\ d.sessionInititateSent = c.sessionInititateSent
      /\ d.state = "connectionEstabilishing"
  BY DEF Session, Fixed
<1> HIDE DEF d
<1>3. e \in Session
  BY <1>1, SendTransportsFacts
<1>4. ~c.terminated /\ c.peerMedia = TRUE /\ ~c.sessionStarted
  BY DEF Good, Standing, Session
<1>5. /\ Fixed(e) = Fixed(c) /\ e.state = "connectionEstabilishing" /\ e.sessionStarted = TRUE
      /\ e.sessionInititateSent = c.sessionInititateSent
      /\ e.sent = IF c.candidatesGathered THEN Append(c.sent, "session-accept") ELSE c.sent
  <2>1. /\ d.role = "responder" /\ d.candidatesGathered = c.candidatesGathered
        /\ d.sessionInititateSent \in BOOLEAN
    BY <1>1, <1>2, SessionFields DEF Fixed
  <2>2. Fixed(e) = Fixed(d) /\ e.state = d.state /\ e.sessionStarted = TRUE
    BY <1>1, SendTransportsFields
  <2>3. CASE c.candidatesGathered
    <3>1. e.sent = Append(d.sent, "session-accept")
          /\ e.sessionInititateSent = d.sessionInititateSent
      BY <1>1, <2>1, <2>3, SendTransportsFields
    <3> QED
      BY <1>2, <2>2, <2>3, <3>1
  <2>4. CASE ~c.candidatesGathered
    <3>1. e.sent = d.sent /\ e.sessionInititateSent = d.sessionInititateSent
      BY <1>1, <2>1, <2>4, SendTransportsFields
    <3> QED
      BY <1>2, <2>2, <2>4, <3>1
  <2> QED
    BY <2>3, <2>4
<1> HIDE DEF e
<1>6. f \in Session
  BY <1>3, StartMediaSessionFacts
<1>7. /\ Fixed(f) = Fixed(c) /\ f.sessionStarted = TRUE
      /\ f.sessionInititateSent = c.sessionInititateSent
      /\ f.sent = IF c.candidatesGathered THEN Append(c.sent, "session-accept") ELSE c.sent
      /\ f.state = IF c.connectionEstabilished THEN "callinprogress" ELSE "connectionEstabilishing"
  BY <1>3, <1>4, <1>5, StartMediaSessionFields DEF Fixed
<1>8. AcceptSession(c, audioOk) = f
  BY DEF AcceptSession, d, e
<1> HIDE DEF f
<1>9. Legal(f) /\ Flags(f)
  <2>1. f.role = c.role /\ f.candidatesGathered = c.candidatesGathered /\ f.terminated = c.terminated
    BY <1>7 DEF Fixed
  <2>2. CASE c.candidatesGathered
    <3>1. "session-accept" \in Actions /\ f.sent = Append(c.sent, "session-accept")
      BY <1>7, <2>2 DEF Actions
    <3> QED
      BY <1>4, <1>6, <1>7, <2>1, <2>2, <3>1, SaysMore DEF Good
  <2>3. CASE ~c.candidatesGathered
    BY <1>6, <1>7, <2>1, <2>3, SaysNothing DEF Good
  <2> QED
    BY <2>2, <2>3
<1>10. Standing(f)
  BY <1>4, <1>7 DEF Good, Standing, Fixed
<1>11. Gathering(f) /\ Handed(f)
  BY <1>7 DEF Good, Gathering, Handed, Fixed
<1>12. LifeStep(c, f)
  BY <1>7 DEF LifeStep, Phase, Agreed, Fixed
<1>13. Good(f) /\ (c.terminated => f.sent = c.sent)
  BY <1>4, <1>9, <1>10, <1>11 DEF Good
<1> QED
  BY <1>8, <1>12, <1>13 DEF Moves

\* The end of gathering reaches the session, and what waited for it is sent.
LEMMA MovesToGathered ==
  ASSUME NEW c \in Session, Good(c), Begun(c), ~c.terminated, ~c.candidatesGathered,
         c.ice = "ready", \A i \in DOMAIN c.events : c.events[i] # "gathered"
  PROVE  Moves(c, SendTransports([c EXCEPT !.candidatesGathered = TRUE], FALSE))
<1> DEFINE d == [c EXCEPT !.candidatesGathered = TRUE]
           e == SendTransports(d, FALSE)
           a == IF c.role = "initiator" /\ ~c.sessionInititateSent THEN "session-initiate"
                ELSE IF c.role # "initiator" /\ c.sessionStarted THEN "session-accept"
                ELSE "transport-info"
<1>1. d \in Session
  BY SessionUpdates
<1>2. /\ d.role = c.role /\ d.terminated = c.terminated /\ d.candidatesGathered = TRUE
      /\ d.peerMedia = c.peerMedia /\ d.remoteCreds = c.remoteCreds
      /\ d.remoteCandidates = c.remoteCandidates
      /\ d.connectionEstabilished = c.connectionEstabilished /\ d.jnRelay = c.jnRelay
      /\ d.ice = c.ice /\ d.events = c.events /\ d.canceler = c.canceler
      /\ d.dialog = c.dialog /\ d.state = c.state
      /\ d.sessionStarted = c.sessionStarted /\ d.sent = c.sent
      /\ d.sessionInititateSent = c.sessionInititateSent
  BY DEF Session
<1> HIDE DEF d
<1>3. e \in Session
  BY <1>1, SendTransportsFacts
<1>4. /\ Fixed(e) = Fixed(d) /\ e.state = c.state /\ e.sessionStarted = c.sessionStarted
      /\ e.sent = Append(c.sent, a)
      /\ e.sessionInititateSent = (c.sessionInititateSent \/ c.role = "initiator")
  <2>1. c.sessionStarted \in BOOLEAN
    BY SessionFields
  <2>2. /\ Fixed(e) = Fixed(d) /\ e.state = d.state
        /\ e.sessionStarted = (d.sessionStarted \/ FALSE)
    BY <1>1, SendTransportsFields
  <2>3. /\ e.sent = Append(d.sent, IF d.role = "initiator" /\ ~d.sessionInititateSent
                                   THEN "session-initiate"
                                   ELSE IF d.role # "initiator" /\ (d.sessionStarted \/ FALSE)
                                   THEN "session-accept" ELSE "transport-info")
        /\ e.sessionInititateSent = (d.sessionInititateSent \/ d.role = "initiator")
    BY <1>1, <1>2, SendTransportsFields
  <2> HIDE DEF e
  <2>4. (d.sessionStarted \/ FALSE) = c.sessionStarted
    BY <1>2, <2>1
  <2> QED
    BY <1>2, <2>2, <2>3, <2>4
<1>5. e = SendTransports([c EXCEPT !.candidatesGathered = TRUE], FALSE)
  BY DEF d
<1> HIDE DEF e
<1>6. /\ e.role = c.role /\ e.terminated = c.terminated /\ e.candidatesGathered = TRUE
      /\ e.peerMedia = c.peerMedia /\ e.remoteCreds = c.remoteCreds
      /\ e.remoteCandidates = c.remoteCandidates
      /\ e.connectionEstabilished = c.connectionEstabilished /\ e.jnRelay = c.jnRelay
      /\ e.ice = "ready" /\ e.events = c.events /\ e.canceler = c.canceler
      /\ e.dialog = c.dialog
  BY <1>2, <1>4 DEF Fixed
<1>7. a \in Actions /\ ~c.sessionInititateSent /\ c.role # "busy" /\ Legal(c) /\ Flags(c)
  BY DEF Actions, Good, Gathering, Begun
<1>8. Legal(e) /\ Flags(e)
  <2>1. a \in Actions /\ a # "session-terminate"
        /\ (a = "session-initiate" => c.role = "initiator")
        /\ (a = "session-accept" => c.role # "initiator" /\ c.sessionStarted)
        /\ (a = "transport-info" => c.role # "initiator")
        /\ (c.role = "initiator" => a = "session-initiate")
    BY <1>7
  <2> HIDE DEF a
  <2> QED
    BY <1>3, <1>4, <1>6, <1>7, <2>1, SaysMore
<1>9. Standing(e)
  BY <1>4, <1>6 DEF Good, Standing, Begun
<1>10. Gathering(e) /\ Handed(e)
  BY <1>4, <1>6 DEF Good, Gathering, Handed
<1>11. Life(e) = Life(c)
  BY <1>4, <1>6 DEF Life, Phase, Agreed
<1>12. Good(e) /\ LifeStep(c, e)
  BY <1>8, <1>9, <1>10, <1>11 DEF Good, LifeStep
<1> QED
  BY <1>5, <1>12 DEF Moves

\* The media are started if both sides want to talk: for the callbacks that say that the
\* path exists or that the peer agrees.
LEMMA MediaStarts ==
  ASSUME NEW c \in Session, NEW d \in Session, Good(c), Begun(c), ~c.terminated,
         NEW audioOk \in BOOLEAN,
         d.role = c.role, d.state = c.state, d.terminated = c.terminated,
         d.sessionStarted = c.sessionStarted,
         d.candidatesGathered = c.candidatesGathered,
         d.sessionInititateSent = c.sessionInititateSent,
         d.canceler = c.canceler, d.dialog = c.dialog, d.events = c.events,
         d.ice = c.ice, d.jnRelay = c.jnRelay, d.sent = c.sent, Handed(d),
         \/ d.peerMedia = c.peerMedia /\ d.connectionEstabilished = TRUE
         \/ /\ d.connectionEstabilished = c.connectionEstabilished /\ d.peerMedia = TRUE
            /\ c.role = "initiator"
  PROVE  Moves(c, StartMediaSession(d, audioOk))
<1> DEFINE e == StartMediaSession(d, audioOk)
<1>1. e \in Session
  BY StartMediaSessionFacts
<1>2. /\ e.role = c.role /\ e.terminated = c.terminated /\ e.sessionStarted = c.sessionStarted
      /\ e.candidatesGathered = c.candidatesGathered /\ e.peerMedia = d.peerMedia
      /\ e.sessionInititateSent = c.sessionInititateSent /\ e.remoteCreds = d.remoteCreds
      /\ e.remoteCandidates = d.remoteCandidates
      /\ e.connectionEstabilished = d.connectionEstabilished /\ e.jnRelay = c.jnRelay
      /\ e.ice = c.ice /\ e.events = c.events /\ e.canceler = c.canceler
      /\ e.dialog = c.dialog /\ e.sent = c.sent
      /\ e.state = IF ~(d.peerMedia /\ d.sessionStarted) THEN c.state
                   ELSE IF ~d.connectionEstabilished THEN "connectionEstabilishing"
                   ELSE "callinprogress"
  BY StartMediaSessionFields DEF Fixed
<1> HIDE DEF e
<1>3. Legal(e) /\ Flags(e)
  BY <1>1, <1>2, SaysNothing DEF Good
<1>4. Standing(e)
  BY <1>2 DEF Good, Standing, Begun
<1>5. Gathering(e) /\ Handed(e)
  BY <1>2 DEF Good, Gathering, Handed
<1>6. c.peerMedia \in BOOLEAN /\ c.sessionStarted \in BOOLEAN /\ c.state \in States
      /\ c.connectionEstabilished \in BOOLEAN
  BY SessionFields DEF Session, States
<1>7. LifeStep(c, e)
  <2>1. CASE d.peerMedia = c.peerMedia /\ d.connectionEstabilished = TRUE
    BY <1>2, <1>6, <2>1 DEF LifeStep, Phase, Agreed, Good, Standing, Begun, States
  <2>2. CASE d.connectionEstabilished = c.connectionEstabilished /\ d.peerMedia = TRUE
             /\ c.role = "initiator"
    <3>1. c.sessionStarted = TRUE
      BY <1>6, <2>2 DEF Good, Standing
    <3>2. CASE c.state = "waitingForAccept"
      BY <1>2, <1>6, <2>2, <3>1, <3>2 DEF LifeStep, Phase, Agreed
    <3>3. CASE c.state \in {"connectionEstabilishing", "callinprogress"}
      BY <1>2, <1>6, <2>2, <3>1, <3>3 DEF LifeStep, Life, Phase, Agreed, Good, Standing
    <3> QED
      BY <1>6, <2>2, <3>2, <3>3 DEF Good, Standing, Begun, States
  <2> QED
    BY <2>1, <2>2
<1>8. Good(e) /\ (c.terminated => e.sent = c.sent)
  BY <1>2, <1>3, <1>4, <1>5 DEF Good
<1> QED
  BY <1>7, <1>8 DEF Moves, e

\* The searches' answers and the peer's candidates concern the ICE session only.
LEMMA MovesByTheSearch ==
  ASSUME NEW c \in Session, Good(c), Begun(c), NEW creds \in BOOLEAN
  PROVE  /\ c.terminated \/ c.ice = "none" => Moves(c, InitIce(c))
         /\ Moves(c, OnJingleNodesChannel(c))
         /\ Moves(c, ParseTransportCandidates(c, creds))
<1>1. ASSUME NEW d \in Session, Spoken(d) = Spoken(c), d.peerMedia = c.peerMedia,
             Handed(d), c.terminated \/ d.ice = c.ice \/ (c.ice # "ready" /\ d.ice # "ready")
      PROVE  Moves(c, d)
  <2>1. /\ d.role = c.role /\ d.state = c.state /\ d.terminated = c.terminated
        /\ d.sessionStarted = c.sessionStarted
        /\ d.candidatesGathered = c.candidatesGathered
        /\ d.sessionInititateSent = c.sessionInititateSent
        /\ d.connectionEstabilished = c.connectionEstabilished /\ d.events = c.events
        /\ d.canceler = c.canceler /\ d.dialog = c.dialog /\ d.sent = c.sent
    BY <1>1 DEF Spoken
  <2>2. Legal(d) /\ Flags(d)
    BY <1>1, <2>1, SaysNothing DEF Good
  <2>3. Standing(d)
    BY <1>1, <2>1 DEF Good, Standing, Begun
  <2>4. Gathering(d)
    BY <1>1, <2>1 DEF Good, Gathering
  <2>5. Life(d) = Life(c)
    BY <1>1, <2>1 DEF Life, Phase, Agreed
  <2> QED
    BY <1>1, <2>1, <2>2, <2>3, <2>4, <2>5 DEF Good, Moves, LifeStep
<1>2. ASSUME c.terminated \/ c.ice = "none" PROVE Moves(c, InitIce(c))
  <2> DEFINE d == InitIce(c)
  <2>1. d \in Session
    BY SessionInitFacts
  <2>2. /\ Spoken(d) = Spoken(c) /\ d.peerMedia = c.peerMedia
        /\ d.remoteCreds = c.remoteCreds /\ d.jnRelay = c.jnRelay
        /\ d.remoteCandidates = (c.remoteCandidates /\ ~c.remoteCreds)
        /\ d.ice = IF c.jnRelay THEN "gathering" ELSE "created"
    BY SearchFields
  <2> HIDE DEF d
  <2>3. Handed(d)
    BY <2>2 DEF Handed
  <2>4. Moves(c, d)
    BY <1>1, <1>2, <2>1, <2>2, <2>3
  <2> QED
    BY <2>4 DEF d
<1>3. Moves(c, OnJingleNodesChannel(c))
  <2> DEFINE d == OnJingleNodesChannel(c)
  <2>1. d \in Session
    BY SessionInitFacts
  <2>2. /\ Spoken(d) = Spoken(c) /\ d.peerMedia = c.peerMedia
        /\ d.remoteCreds = c.remoteCreds /\ d.remoteCandidates = c.remoteCandidates
        /\ d.jnRelay = IF c.ice = "none" THEN TRUE ELSE c.jnRelay
        /\ d.ice = IF c.ice = "created" THEN "gathering" ELSE c.ice
    BY SearchFields
  <2> HIDE DEF d
  <2>3. Handed(d)
    BY <2>2 DEF Good, Handed
  <2>4. Moves(c, d)
    BY <1>1, <2>1, <2>2, <2>3
  <2> QED
    BY <2>4 DEF d
<1>4. Moves(c, ParseTransportCandidates(c, creds))
  <2> DEFINE d == ParseTransportCandidates(c, creds)
  <2>1. d \in Session
    BY ParseFacts
  <2>2. /\ Spoken(d) = Spoken(c) /\ d.peerMedia = c.peerMedia
        /\ d.ice = c.ice /\ d.jnRelay = c.jnRelay
        /\ d.remoteCreds = (c.remoteCreds \/ creds)
        /\ d.remoteCandidates =
             (c.remoteCandidates /\ (~(c.remoteCreds \/ creds) \/ c.ice = "none"))
    BY ParseFields
  <2> HIDE DEF d
  <2>3. Handed(d)
    BY <2>2 DEF Good, Handed
  <2>4. Moves(c, d)
    BY <1>1, <2>1, <2>2, <2>3
  <2> QED
    BY <2>4 DEF d
<1> QED
  BY <1>2, <1>3, <1>4

\* _sessionInit of a session that has no ICE session yet.
LEMMA SessionInitFields ==
  ASSUME NEW c \in Session, c.ice = "none", c.jnRelay = FALSE, c.remoteCreds = FALSE,
         NEW ready \in BOOLEAN, NEW asking \in BOOLEAN
  PROVE  LET i == SessionInit(c, ready, asking) IN
         /\ Spoken(i) = Spoken(c) /\ i.peerMedia = c.peerMedia /\ i.remoteCreds = FALSE
         /\ Handed(i) /\ i.ice # "ready" /\ (~ready => i.ice = "none")
<1> DEFINE d == IF ready THEN InitIce(c) ELSE c
           e == OnJingleNodesChannel(d)
<1>1. d \in Session
  BY SessionInitFacts
<1>2. /\ Spoken(d) = Spoken(c) /\ d.peerMedia = c.peerMedia /\ d.remoteCreds = FALSE
      /\ d.jnRelay = FALSE /\ d.ice = IF ready THEN "created" ELSE "none"
  BY SearchFields
<1> HIDE DEF d
<1>3. /\ Spoken(e) = Spoken(c) /\ e.peerMedia = c.peerMedia /\ e.remoteCreds = FALSE
      /\ e.ice = IF ready THEN "gathering" ELSE "none"
  BY <1>1, <1>2, SearchFields
<1>4. SessionInit(c, ready, asking) = IF asking THEN d ELSE e
  BY DEF SessionInit, d
<1> HIDE DEF e
<1> QED
  BY <1>2, <1>3, <1>4 DEF Handed

\* A session that has not begun says, and has agreed to, nothing.
LEMMA NotBegun ==
  ASSUME NEW c \in Session, Good(c), c.role = "none"
  PROVE  /\ Phase(c) = "new" /\ Agreed(c) = FALSE /\ c.connectionEstabilished = FALSE
         /\ c.terminated = FALSE
<1>1. c.sessionStarted = FALSE /\ c.terminated = FALSE
  BY SessionFields DEF Good, Standing
<1>2. c.connectionEstabilished = FALSE
  <2>1. c.connectionEstabilished \in BOOLEAN
    BY DEF Session
  <2> QED
    BY <2>1 DEF Good, Standing
<1>3. Phase(c) = "new"
  BY DEF Phase
<1>4. Agreed(c) = FALSE
  BY <1>1 DEF Agreed
<1> QED
  BY <1>1, <1>2, <1>3, <1>4

\* The user calls.
LEMMA MovesToCalling ==
  ASSUME NEW c \in Session, Good(c), c.role = "none",
         NEW ready \in BOOLEAN, NEW asking \in BOOLEAN
  PROVE  LET d == SendTransports(SessionInit(Outgoing, ready, asking), TRUE) IN
         Moves(c, d) /\ Begun(d) /\ (~ready => d.ice = "none")
<1> DEFINE i == SessionInit(Outgoing, ready, asking)
           d == SendTransports(i, TRUE)
<1>1. /\ Outgoing.role = "initiator" /\ Outgoing.state = "waitingForAccept"
      /\ Outgoing.terminated = FALSE /\ Outgoing.candidatesGathered = FALSE
      /\ Outgoing.sessionInititateSent = FALSE /\ Outgoing.peerMedia = FALSE
      /\ Outgoing.remoteCreds = FALSE /\ Outgoing.connectionEstabilished = FALSE
      /\ Outgoing.jnRelay = FALSE /\ Outgoing.ice = "none" /\ Outgoing.events = <<>>
      /\ Outgoing.canceler = "none" /\ Outgoing.sent = <<>>
  BY DEF Outgoing, NewCall
<1>2. i \in Session /\ Outgoing \in Session
  BY NewSessions, SessionInitFacts
<1>3. /\ Spoken(i) = Spoken(Outgoing) /\ i.peerMedia = FALSE /\ i.remoteCreds = FALSE
      /\ Handed(i) /\ i.ice # "ready" /\ (~ready => i.ice = "none")
  BY <1>1, <1>2, SessionInitFields
<1> HIDE DEF i
<1>4. d \in Session
  BY <1>2, SendTransportsFacts
<1>5. i.candidatesGathered = FALSE
  BY <1>1, <1>3 DEF Spoken
<1>6. /\ Fixed(d) = Fixed(i) /\ d.state = i.state /\ d.sessionStarted = TRUE
      /\ d.sent = i.sent /\ d.sessionInititateSent = i.sessionInititateSent
  BY <1>2, <1>5, SendTransportsFields
<1> HIDE DEF d
<1>7. /\ d.role = "initiator" /\ d.state = "waitingForAccept" /\ d.terminated = FALSE
      /\ d.candidatesGathered = FALSE /\ d.sessionInititateSent = FALSE
      /\ d.peerMedia = FALSE /\ d.connectionEstabilished = FALSE /\ d.events = <<>>
      /\ d.canceler = "none" /\ d.sent = <<>> /\ d.ice = i.ice
      /\ d.remoteCreds = i.remoteCreds /\ d.remoteCandidates = i.remoteCandidates
      /\ d.jnRelay = i.jnRelay
  BY <1>1, <1>3, <1>6 DEF Fixed, Spoken
<1>8. Legal(d) /\ Flags(d)
  BY <1>7 DEF Legal, Flags
<1>9. Standing(d) /\ Gathering(d)
  BY <1>6, <1>7 DEF Standing, Gathering
<1>10. Handed(d)
  BY <1>3, <1>7 DEF Handed
<1>11. LifeStep(c, d)
  <2>1. Phase(d) = "calling" /\ Agreed(d) = FALSE
    BY <1>7 DEF Phase, Agreed
  <2> QED
    BY <1>7, <2>1, NotBegun DEF LifeStep
<1>12. Moves(c, d) /\ Begun(d) /\ (~ready => d.ice = "none")
  BY <1>3, <1>7, <1>8, <1>9, <1>10, <1>11, NotBegun DEF Moves, Good, Begun
<1> QED
  BY <1>12 DEF d, i

\* What Incoming holds, and what a session made of it may be.
LEMMA Arrived ==
  ASSUME NEW c \in Session, Good(c), c.role = "none",
         NEW d \in Session, d.role = "responder",
         \/ d.state = "needAccept" /\ d.terminated = FALSE /\ d.peerMedia = TRUE
         \/ d.state = "terminated" /\ d.terminated = TRUE /\ d.canceler # "live",
         d.sessionStarted = FALSE, d.candidatesGathered = FALSE,
         d.sessionInititateSent = FALSE, d.connectionEstabilished = FALSE,
         d.terminated \/ d.events = <<>>, d.dialog = FALSE,
         d.sent = <<>> \/ (d.terminated /\ d.sent = <<"session-terminate">>), Handed(d)
  PROVE  Moves(c, d) /\ Begun(d)
<1>1. Legal(d) /\ Flags(d)
  <2>1. CASE d.sent = <<>>
    BY <2>1 DEF Legal, Flags
  <2>2. CASE d.terminated /\ d.sent = <<"session-terminate">>
    <3>1. /\ Len(d.sent) = 1
          /\ \A i \in DOMAIN d.sent : i = 1 /\ d.sent[i] = "session-terminate"
      BY <2>2
    <3>2. Legal(d)
      BY <2>2, <3>1 DEF Legal
    <3>3. Flags(d)
      BY <2>2, <3>1 DEF Flags
    <3> QED
      BY <3>2, <3>3
  <2> QED
    BY <2>1, <2>2
<1>2. Standing(d) /\ Gathering(d)
  BY DEF Standing, Gathering
<1>3. Phase(d) \in {"ringing", "ended"} /\ Agreed(d) = FALSE
  BY DEF Phase, Agreed
<1>4. LifeStep(c, d)
  BY <1>3, NotBegun DEF LifeStep
<1> QED
  BY <1>1, <1>2, <1>4, NotBegun DEF Moves, Good, Begun

\* A call comes in: it rings, or it cannot be used, or the line is taken.
LEMMA MovesToRinging ==
  ASSUME NEW c \in Session, Good(c), c.role = "none",
         NEW ready \in BOOLEAN, NEW asking \in BOOLEAN, NEW creds \in BOOLEAN
  PROVE  LET i == SessionInit(Incoming, ready, asking)
             d == ParseTransportCandidates([i EXCEPT !.peerMedia = TRUE], creds)
             e == TerminatedWithReply(i)
         IN  /\ Moves(c, d) /\ Begun(d) /\ (~ready => d.ice = "none")
             /\ Moves(c, e) /\ Begun(e) /\ e.ice = "none"
<1> DEFINE i == SessionInit(Incoming, ready, asking)
           p == [i EXCEPT !.peerMedia = TRUE]
           d == ParseTransportCandidates(p, creds)
           t == [i EXCEPT !.sent = Append(@, "session-terminate")]
           e == SessionTerminated(t)
<1>1. /\ Incoming.role = "responder" /\ Incoming.state = "needAccept"
      /\ Incoming.terminated = FALSE /\ Incoming.candidatesGathered = FALSE
      /\ Incoming.sessionInititateSent = FALSE /\ Incoming.sessionStarted = FALSE
      /\ Incoming.remoteCreds = FALSE /\ Incoming.connectionEstabilished = FALSE
      /\ Incoming.jnRelay = FALSE /\ Incoming.ice = "none" /\ Incoming.events = <<>>
      /\ Incoming.dialog = FALSE /\ Incoming.sent = <<>>
  BY DEF Incoming, NewCall
<1>2. i \in Session /\ Incoming \in Session
  BY NewSessions, SessionInitFacts
<1>3. /\ Spoken(i) = Spoken(Incoming) /\ i.remoteCreds = FALSE
      /\ Handed(i) /\ i.ice # "ready" /\ (~ready => i.ice = "none")
  BY <1>1, <1>2, SessionInitFields
<1> HIDE DEF i
<1>4. /\ i.role = "responder" /\ i.state = "needAccept" /\ i.terminated = FALSE
      /\ i.sessionStarted = FALSE /\ i.candidatesGathered = FALSE
      /\ i.sessionInititateSent = FALSE /\ i.connectionEstabilished = FALSE
      /\ i.events = <<>> /\ i.dialog = FALSE /\ i.sent = <<>>
  BY <1>1, <1>3 DEF Spoken
<1>5. p \in Session
  BY <1>2, SessionUpdates
<1>6. Spoken(p) = Spoken(i) /\ p.peerMedia = TRUE /\ p.ice = i.ice /\ p.jnRelay = i.jnRelay
  BY <1>2 DEF Spoken, Session
<1> HIDE DEF p
<1>7. d \in Session
  BY <1>5, ParseFacts
<1>8. /\ Spoken(d) = Spoken(i) /\ d.peerMedia = TRUE /\ d.ice = i.ice
      /\ d.jnRelay = i.jnRelay /\ d.remoteCreds = (p.remoteCreds \/ creds)
      /\ d.remoteCandidates =
           (p.remoteCandidates /\ (~(p.remoteCreds \/ creds) \/ p.ice = "none"))
  BY <1>5, <1>6, ParseFields
<1> HIDE DEF d
<1>9. Handed(d)
  BY <1>3, <1>6, <1>8 DEF Handed
<1>10. Moves(c, d) /\ Begun(d)
  <2>1. /\ d.role = "responder" /\ d.state = "needAccept" /\ d.terminated = FALSE
        /\ d.sessionStarted = FALSE /\ d.candidatesGathered = FALSE
        /\ d.sessionInititateSent = FALSE /\ d.connectionEstabilished = FALSE
        /\ d.events = <<>> /\ d.dialog = FALSE /\ d.sent = <<>>
    BY <1>4, <1>8 DEF Spoken
  <2> QED
    BY <1>7, <1>8, <1>9, <2>1, Arrived
<1>11. t \in Session
  BY <1>2, SayTerminateFacts
<1>12. /\ t.role = "responder" /\ t.sessionStarted = FALSE /\ t.candidatesGathered = FALSE
       /\ t.sessionInititateSent = FALSE /\ t.connectionEstabilished = FALSE
       /\ t.dialog = FALSE /\ t.sent = <<"session-terminate">>
  <2>1. t.sent = Append(<<>>, "session-terminate")
    BY <1>2, <1>4 DEF Session
  <2> QED
    BY <1>2, <1>4, <2>1 DEF Session
<1>13. TerminatedWithReply(i) = e
  BY DEF TerminatedWithReply
<1> HIDE DEF t
<1>14. e \in Session
  BY <1>11, SessionTerminatedFacts
<1>15. /\ e.role = "responder" /\ e.state = "terminated" /\ e.terminated = TRUE
       /\ e.sessionStarted = FALSE /\ e.candidatesGathered = FALSE
       /\ e.sessionInititateSent = FALSE /\ e.connectionEstabilished = FALSE
       /\ e.ice = "none" /\ e.canceler # "live" /\ e.sent = <<"session-terminate">>
  BY <1>11, <1>12, SessionTerminatedFields
<1>16. e.dialog = FALSE
  BY <1>11, <1>12 DEF SessionTerminated, Session
<1> HIDE DEF e
<1>17. Handed(e)
  BY <1>15 DEF Handed
<1>18. Moves(c, e) /\ Begun(e)
  BY <1>14, <1>15, <1>16, <1>17, Arrived
<1>19. /\ Moves(c, d) /\ Begun(d) /\ (~ready => d.ice = "none")
       /\ Moves(c, TerminatedWithReply(i)) /\ Begun(TerminatedWithReply(i))
       /\ TerminatedWithReply(i).ice = "none"
  BY <1>3, <1>8, <1>10, <1>13, <1>15, <1>18
<1> QED
  BY <1>19 DEF d, p, i

LEMMA MovesToRefused ==
  ASSUME NEW c \in Session, Good(c), c.role = "none"
  PROVE  /\ Moves(c, Busy)
         /\ Moves(c, TerminatedWithReply(Incoming)) /\ Begun(TerminatedWithReply(Incoming))
<1>1. /\ Busy.role = "busy" /\ Busy.state = "needAccept" /\ Busy.terminated = FALSE
      /\ Busy.sessionStarted = FALSE /\ Busy.candidatesGathered = FALSE
      /\ Busy.sessionInititateSent = FALSE /\ Busy.connectionEstabilished = FALSE
      /\ Busy.events = <<>> /\ Busy.ice = "none" /\ Busy.acks = 0 /\ Busy.dialog = FALSE
      /\ Busy.canceler = "none" /\ Busy.sent = <<"session-terminate">>
  BY DEF Busy, NewCall
<1>2. Legal(Busy) /\ Flags(Busy)
  <2>1. /\ Len(Busy.sent) = 1
        /\ \A i \in DOMAIN Busy.sent : i = 1 /\ Busy.sent[i] = "session-terminate"
    BY <1>1
  <2> QED
    BY <1>1, <2>1 DEF Legal, Flags
<1>3. Standing(Busy) /\ Gathering(Busy) /\ Handed(Busy)
  BY <1>1 DEF Standing, Gathering, Handed
<1>4. Phase(Busy) = "refused" /\ Agreed(Busy) = FALSE
  BY <1>1 DEF Phase, Agreed
<1>5. Moves(c, Busy)
  BY <1>1, <1>2, <1>3, <1>4, NotBegun DEF Moves, Good, LifeStep
<1> DEFINE t == [Incoming EXCEPT !.sent = Append(@, "session-terminate")]
           e == SessionTerminated(t)
<1>6. t \in Session
  BY NewSessions, SayTerminateFacts
<1>7. /\ t.role = "responder" /\ t.sessionStarted = FALSE /\ t.candidatesGathered = FALSE
      /\ t.sessionInititateSent = FALSE /\ t.connectionEstabilished = FALSE
      /\ t.dialog = FALSE /\ t.sent = <<"session-terminate">>
  BY DEF Incoming, NewCall
<1>8. TerminatedWithReply(Incoming) = e
  BY DEF TerminatedWithReply
<1> HIDE DEF t
<1>9. e \in Session
  BY <1>6, SessionTerminatedFacts
<1>10. /\ e.role = "responder" /\ e.state = "terminated" /\ e.terminated = TRUE
       /\ e.sessionStarted = FALSE /\ e.candidatesGathered = FALSE
       /\ e.sessionInititateSent = FALSE /\ e.connectionEstabilished = FALSE
       /\ e.ice = "none" /\ e.canceler # "live" /\ e.sent = <<"session-terminate">>
  BY <1>6, <1>7, SessionTerminatedFields
<1>11. e.dialog = FALSE
  BY <1>6, <1>7 DEF SessionTerminated, Session
<1> HIDE DEF e
<1>12. Handed(e)
  BY <1>10 DEF Handed
<1>13. Moves(c, e) /\ Begun(e)
  BY <1>9, <1>10, <1>11, <1>12, Arrived
<1> QED
  BY <1>5, <1>8, <1>13

\* The ICE thread posts what it has found.
LEMMA MovesByPosting ==
  ASSUME NEW c \in Session, Good(c), Begun(c)
  PROVE  /\ c.ice = "gathering" =>
              LET d == [[c EXCEPT !.events = Append(@, "gathered")] EXCEPT !.ice = "ready"]
              IN  d \in Session /\ Moves(c, d) /\ d.role = c.role /\ d.ice = "ready"
         /\ \A event \in {"selected", "failed"} :
              LET d == [c EXCEPT !.events = Append(@, event)]
              IN  d \in Session /\ Moves(c, d) /\ d.role = c.role
                  /\ d.terminated = c.terminated /\ d.ice = c.ice
<1>1. c.events \in Seq(Events)
  BY SessionFields
<1>2. ASSUME NEW d \in Session, NEW event \in Events,
             d.role = c.role, d.state = c.state, d.terminated = c.terminated,
             d.sessionStarted = c.sessionStarted,
             d.candidatesGathered = c.candidatesGathered,
             d.sessionInititateSent = c.sessionInititateSent, d.peerMedia = c.peerMedia,
             d.connectionEstabilished = c.connectionEstabilished, d.sent = c.sent,
             d.canceler = c.canceler, d.dialog = c.dialog, Handed(d),
             d.events = Append(c.events, event),
             \/ event # "gathered" /\ d.ice = c.ice
             \/ event = "gathered" /\ c.ice = "gathering" /\ d.ice = "ready"
      PROVE  Moves(c, d)
  <2>1. Legal(d) /\ Flags(d)
    BY <1>2, SaysNothing DEF Good
  <2>2. Standing(d)
    BY <1>2 DEF Good, Standing, Begun
  <2>3. Gathering(d)
    <3> DEFINE n == Len(c.events)
    <3>1. /\ n \in Nat /\ DOMAIN c.events = 1..n /\ DOMAIN d.events = 1..(n + 1)
          /\ d.events[n + 1] = event
          /\ \A i \in 1..n : d.events[i] = c.events[i]
      BY <1>1, <1>2
    <3>2. \A i \in DOMAIN d.events :
            \/ i \in DOMAIN c.events /\ d.events[i] = c.events[i]
            \/ i = n + 1 /\ d.events[i] = event
      BY <3>1
    <3> HIDE DEF n
    <3>3. CASE event # "gathered"
      BY <1>2, <3>2, <3>3 DEF Good, Gathering
    <3>4. CASE event = "gathered"
      <4>1. ~d.terminated => ~c.candidatesGathered
                             /\ \A i \in DOMAIN c.events : c.events[i] # "gathered"
        BY <1>2, <3>4 DEF Good, Gathering
      <4> QED
        BY <1>2, <3>2, <3>4, <4>1 DEF Good, Gathering
    <3> QED
      BY <3>3, <3>4
  <2>4. Life(d) = Life(c)
    BY <1>2 DEF Life, Phase, Agreed
  <2> QED
    BY <1>2, <2>1, <2>2, <2>3, <2>4 DEF Good, Moves, LifeStep
<1>3. ASSUME c.ice = "gathering"
      PROVE  LET d == [[c EXCEPT !.events = Append(@, "gathered")] EXCEPT !.ice = "ready"]
             IN  d \in Session /\ Moves(c, d) /\ d.role = c.role /\ d.ice = "ready"
  <2> DEFINE p == [c EXCEPT !.events = Append(@, "gathered")]
             d == [p EXCEPT !.ice = "ready"]
  <2>0. Append(c.events, "gathered") \in Seq(Events)
    BY <1>1 DEF Events
  <2>a. p \in Session
    BY <2>0, QuietUpdates
  <2>b. p.events = Append(c.events, "gathered")
    BY DEF Session
  <2>1. d \in Session /\ d.events = Append(c.events, "gathered")
    <3> HIDE DEF p
    <3>1. d \in Session
      BY <2>a, QuietUpdates DEF IceStates
    <3>2. d.events = p.events
      BY <2>a DEF Session
    <3> QED
      BY <2>b, <3>1, <3>2
  <2>2. /\ d.role = c.role /\ d.state = c.state /\ d.terminated = c.terminated
        /\ d.sessionStarted = c.sessionStarted
        /\ d.candidatesGathered = c.candidatesGathered
        /\ d.sessionInititateSent = c.sessionInititateSent /\ d.peerMedia = c.peerMedia
        /\ d.connectionEstabilished = c.connectionEstabilished /\ d.sent = c.sent
        /\ d.canceler = c.canceler /\ d.dialog = c.dialog /\ d.ice = "ready"
        /\ d.remoteCreds = c.remoteCreds /\ d.remoteCandidates = c.remoteCandidates
    BY DEF Session
  <2> HIDE DEF d
  <2>3. Handed(d)
    BY <1>3, <2>2 DEF Good, Handed
  <2>4. Moves(c, d)
    BY <1>2, <1>3, <2>1, <2>2, <2>3 DEF Events
  <2> QED
    BY <2>1, <2>2, <2>4 DEF d
<1>4. ASSUME NEW event \in {"selected", "failed"}
      PROVE  LET d == [c EXCEPT !.events = Append(@, event)]
             IN  d \in Session /\ Moves(c, d) /\ d.role = c.role
                 /\ d.terminated = c.terminated /\ d.ice = c.ice
  <2> DEFINE d == [c EXCEPT !.events = Append(@, event)]
  <2>0. Append(c.events, event) \in Seq(Events)
    BY <1>1 DEF Events
  <2>a. d \in Session
    BY <2>0, QuietUpdates
  <2>1. d \in Session /\ d.events = Append(c.events, event)
    BY <2>a DEF Session
  <2>2. /\ d.role = c.role /\ d.state = c.state /\ d.terminated = c.terminated
        /\ d.sessionStarted = c.sessionStarted
        /\ d.candidatesGathered = c.candidatesGathered
        /\ d.sessionInititateSent = c.sessionInititateSent /\ d.peerMedia = c.peerMedia
        /\ d.connectionEstabilished = c.connectionEstabilished /\ d.sent = c.sent
        /\ d.canceler = c.canceler /\ d.dialog = c.dialog /\ d.ice = c.ice
        /\ d.remoteCreds = c.remoteCreds /\ d.remoteCandidates = c.remoteCandidates
        /\ d.jnRelay = c.jnRelay
    BY DEF Session
  <2> HIDE DEF d
  <2>3. Handed(d)
    BY <2>2 DEF Good, Handed
  <2>4. Moves(c, d)
    BY <1>2, <2>1, <2>2, <2>3 DEF Events
  <2> QED
    BY <2>1, <2>2, <2>4 DEF d
<1> QED
  BY <1>3, <1>4

-----------------------------------------------------------------------------
(* How a step changes the sessions                                         *)

\* What every step does to the sessions: each one that changes moves as shown above, no
\* step concerns the life of two calls, and the searches still know what they wait for.
Advance ==
  /\ Waiting'
  /\ \A t \in Calls : call'[t] = call[t] \/ Moves(call[t], call'[t])
  /\ \A t, u \in Calls :
       Life(call'[t]) # Life(call[t]) /\ Life(call'[u]) # Life(call[u]) => t = u

\* A session that was begun stays so, and one without an ICE session gets none.
Keeps(c, d) == /\ Begun(c) => Begun(d)
               /\ c.terminated \/ c.ice = "none" => d.terminated \/ d.ice = "none"

LEMMA OneAdvances ==
  ASSUME AllGood, NEW s \in Calls, NEW d, Update(s, d), Moves(call[s], d),
         stunQueue' \subseteq stunQueue \cup {s}, jnRequest' \in {jnRequest, None, s},
         s \in stunQueue' => Begun(d) /\ (~d.terminated => d.ice = "none"),
         jnRequest' = s => Begun(d)
  PROVE  Advance
<1>1. call' = [call EXCEPT ![s] = d] /\ call \in [Calls -> Session]
  BY DEF Update, AllGood, IInv, TypeOK
<1>2. \A t \in Calls : call'[t] = IF t = s THEN d ELSE call[t]
  BY <1>1
<1>3. Waiting'
  <2>1. stunQueue \subseteq Calls /\ jnRequest \in Calls \cup {None}
    BY DEF AllGood, IInv, TypeOK
  <2>2. ASSUME NEW t \in stunQueue'
        PROVE  /\ call'[t].role \in {"initiator", "responder"}
               /\ ~call'[t].terminated => call'[t].ice = "none"
    BY <1>2, <2>1, <2>2 DEF AllGood, Waiting, Begun
  <2>3. jnRequest' # None => call'[jnRequest'].role \in {"initiator", "responder"}
    BY <1>2, <2>1 DEF AllGood, Waiting, Begun
  <2> QED
    BY <2>2, <2>3 DEF Waiting
<1> QED
  BY <1>2, <1>3 DEF Advance

\* A step that neither starts nor answers a search.
LEMMA QuietAdvance ==
  ASSUME AllGood, NEW s \in Calls, NEW d, Update(s, d), Moves(call[s], d),
         Keeps(call[s], d), UNCHANGED <<stunVars, jnVars>>
  PROVE  Advance
<1>1. stunQueue' = stunQueue /\ jnRequest' = jnRequest
  BY DEF stunVars, jnVars
<1>2. s \in stunQueue => Begun(d) /\ (~d.terminated => d.ice = "none")
  BY DEF AllGood, Waiting, Keeps, Begun
<1>3. jnRequest = s => Begun(d)
  BY JingleAssumption DEF AllGood, Waiting, Keeps, Begun
<1> QED
  BY <1>1, <1>2, <1>3, OneAdvances

\* A session that ends, whatever it says, keeps what the searches rely on.
LEMMA EndKeeps ==
  ASSUME NEW c \in Session
  PROVE  /\ Keeps(c, SessionTerminated(c)) /\ Keeps(c, TerminatedWithReply(c))
         /\ Keeps(c, TerminateSession(c))
<1> DEFINE d == [c EXCEPT !.sent = Append(@, "session-terminate")]
<1>1. d \in Session /\ d.role = c.role
  BY SayTerminateFacts DEF Ring
<1> HIDE DEF d
<1>2. /\ SessionTerminated(c).role = c.role /\ SessionTerminated(c).ice = "none"
      /\ SessionTerminated(d).role = c.role /\ SessionTerminated(d).ice = "none"
  BY <1>1, SessionTerminatedFields
<1>3. /\ TerminatedWithReply(c) = SessionTerminated(d)
      /\ TerminateSession(c) \in {c, SessionTerminated(d)}
  BY DEF TerminatedWithReply, TerminateSession, d
<1> QED
  BY <1>2, <1>3 DEF Keeps, Begun

\* A change that leads on to a session that differs in nothing that matters.
LEMMA MovesOn ==
  ASSUME NEW c, NEW d, NEW e, Moves(c, d), Good(e), Life(e) = Life(d), e.sent = d.sent
  PROVE  Moves(c, e)
  BY DEF Moves, LifeStep, Life

\* A click on the ring notification spends it, and may open the window.
LEMMA Answered ==
  ASSUME NEW c \in Session, Good(c), c.canceler = "live"
  PROVE  LET d == [c EXCEPT !.canceler = "spent", !.handled = TRUE]
             e == [c EXCEPT !.canceler = "spent", !.handled = TRUE, !.dialog = TRUE]
         IN  /\ d \in Session /\ Good(d) /\ Life(d) = Life(c) /\ Keeps(c, d)
             /\ d.role = c.role /\ d.terminated = c.terminated /\ d.ice = c.ice
             /\ d.sent = c.sent
             /\ e \in Session /\ Good(e) /\ Life(e) = Life(c) /\ Keeps(c, e)
             /\ e.role = "responder" /\ e.state = "needAccept" /\ e.canceler = "spent"
             /\ e.terminated = c.terminated /\ e.ice = c.ice /\ e.sent = c.sent
             /\ Begun(c)
<1>1. c.role = "responder" /\ c.state = "needAccept" /\ Begun(c)
  BY DEF Good, Standing, Begun
<1>2. ASSUME NEW d \in Session,
             d.role = c.role, d.state = c.state, d.terminated = c.terminated,
             d.sessionStarted = c.sessionStarted,
             d.candidatesGathered = c.candidatesGathered,
             d.sessionInititateSent = c.sessionInititateSent, d.peerMedia = c.peerMedia,
             d.remoteCreds = c.remoteCreds, d.remoteCandidates = c.remoteCandidates,
             d.connectionEstabilished = c.connectionEstabilished,
             d.jnRelay = c.jnRelay, d.ice = c.ice, d.sent = c.sent,
             d.canceler = "spent", d.events = c.events
      PROVE  Good(d) /\ Life(d) = Life(c) /\ Keeps(c, d)
  <2>1. Keeps(c, d)
    BY <1>2 DEF Keeps, Begun
  <2> QED
    BY <1>1, <1>2, <2>1, Touched
<1> DEFINE d == [c EXCEPT !.canceler = "spent", !.handled = TRUE]
           e == [c EXCEPT !.canceler = "spent", !.handled = TRUE, !.dialog = TRUE]
<1>3. d \in Session /\ e \in Session
  BY DEF Session
<1>4. /\ d.role = c.role /\ d.state = c.state /\ d.terminated = c.terminated
      /\ d.sessionStarted = c.sessionStarted
      /\ d.candidatesGathered = c.candidatesGathered
      /\ d.sessionInititateSent = c.sessionInititateSent /\ d.peerMedia = c.peerMedia
      /\ d.remoteCreds = c.remoteCreds /\ d.remoteCandidates = c.remoteCandidates
      /\ d.connectionEstabilished = c.connectionEstabilished
      /\ d.jnRelay = c.jnRelay /\ d.ice = c.ice /\ d.sent = c.sent
      /\ d.canceler = "spent" /\ d.events = c.events
  BY DEF Session
<1>5. /\ e.role = c.role /\ e.state = c.state /\ e.terminated = c.terminated
      /\ e.sessionStarted = c.sessionStarted
      /\ e.candidatesGathered = c.candidatesGathered
      /\ e.sessionInititateSent = c.sessionInititateSent /\ e.peerMedia = c.peerMedia
      /\ e.remoteCreds = c.remoteCreds /\ e.remoteCandidates = c.remoteCandidates
      /\ e.connectionEstabilished = c.connectionEstabilished
      /\ e.jnRelay = c.jnRelay /\ e.ice = c.ice /\ e.sent = c.sent
      /\ e.canceler = "spent" /\ e.events = c.events
  BY DEF Session
<1> HIDE DEF d, e
<1>6. Good(d) /\ Life(d) = Life(c) /\ Keeps(c, d)
  BY <1>2, <1>3, <1>4
<1>7. Good(e) /\ Life(e) = Life(c) /\ Keeps(c, e)
  BY <1>2, <1>3, <1>5
<1> QED
  BY <1>1, <1>3, <1>4, <1>5, <1>6, <1>7 DEF d, e

\* acceptSession keeps what the searches rely on.
LEMMA AcceptKeeps ==
  ASSUME NEW c \in Session, NEW audioOk \in BOOLEAN
  PROVE  LET d == AcceptSession(c, audioOk)
         IN  d.role = c.role /\ d.terminated = c.terminated /\ d.ice = c.ice
<1> DEFINE d == [c EXCEPT !.state = "connectionEstabilishing"]
           e == SendTransports(d, TRUE)
<1>1. d \in Session
  BY SessionUpdates DEF States
<1>2. d.role = c.role /\ d.terminated = c.terminated /\ d.ice = c.ice
  BY DEF Session
<1> HIDE DEF d
<1>3. e \in Session /\ Fixed(e) = Fixed(d)
  BY <1>1, SendTransportsFacts, SendTransportsFields
<1> HIDE DEF e
<1>4. Fixed(StartMediaSession(e, audioOk)) = Fixed(e)
  BY <1>3, StartMediaSessionFields
<1>5. AcceptSession(c, audioOk) = StartMediaSession(e, audioOk)
  BY DEF AcceptSession, d, e
<1> QED
  BY <1>2, <1>3, <1>4, <1>5 DEF Fixed

\* The sessions advance when the user clicks.
LEMMA UserAdvances ==
  ASSUME AllGood, NEW s \in Calls, User(s)
  PROVE  Advance
<1> DEFINE c == call[s]
<1>a. c \in Session /\ Good(c)
  BY DEF AllGood, IInv, TypeOK
<1>1. CASE CreateSession(s)
  <2>1. PICK ready \in BOOLEAN, asking \in BOOLEAN :
          /\ DiscoverStun(s, ready) /\ RequestChannel(s, asking)
          /\ Update(s, SendTransports(SessionInit(Outgoing, ready, asking), TRUE))
    BY <1>1 DEF CreateSession
  <2> DEFINE d == SendTransports(SessionInit(Outgoing, ready, asking), TRUE)
  <2>2. c.role = "none"
    BY <1>1 DEF CreateSession
  <2>3. Moves(c, d) /\ Begun(d) /\ (~ready => d.ice = "none")
    BY <1>a, <2>2, MovesToCalling
  <2>4. Update(s, d)
    BY <2>1
  <2> HIDE DEF d
  <2>5. s \notin stunQueue
    BY <2>2 DEF AllGood, Waiting
  <2>6. /\ stunQueue' \subseteq stunQueue \cup {s}
        /\ s \in stunQueue' => ~ready
    BY <2>1, <2>5 DEF DiscoverStun, stunVars
  <2>7. jnRequest' \in {s, None}
    BY <2>1 DEF RequestChannel
  <2> QED
    BY <2>3, <2>4, <2>6, <2>7, OneAdvances
<1>2. CASE OpenCall(s)
  <2> DEFINE e == [c EXCEPT !.canceler = "spent", !.handled = TRUE, !.dialog = TRUE]
  <2>1. Update(s, e) /\ c.canceler = "live" /\ UNCHANGED <<stunVars, jnVars>>
    BY <1>2 DEF OpenCall
  <2>2. Good(e) /\ Life(e) = Life(c) /\ Keeps(c, e) /\ e.sent = c.sent
    BY <1>a, <2>1, Answered
  <2> HIDE DEF e
  <2>3. Moves(c, e)
    BY <2>2 DEF Moves, LifeStep
  <2> QED
    BY <2>1, <2>2, <2>3, QuietAdvance
<1>3. CASE AcceptFromNotification(s)
  <2> DEFINE e == [c EXCEPT !.canceler = "spent", !.handled = TRUE, !.dialog = TRUE]
  <2>1. PICK audioOk \in BOOLEAN : Update(s, AcceptSession(e, audioOk))
    BY <1>3 DEF AcceptFromNotification
  <2>2. c.canceler = "live" /\ UNCHANGED <<stunVars, jnVars>>
    BY <1>3 DEF AcceptFromNotification
  <2>3. /\ e \in Session /\ Good(e) /\ Life(e) = Life(c) /\ Keeps(c, e)
        /\ e.role = "responder" /\ e.state = "needAccept" /\ e.canceler = "spent"
        /\ e.terminated = c.terminated /\ e.ice = c.ice /\ e.sent = c.sent
    BY <1>a, <2>2, Answered
  <2> DEFINE f == AcceptSession(e, audioOk)
  <2>4. Update(s, f)
    BY <2>1
  <2> HIDE DEF e
  <2>5. Moves(e, f) /\ f.role = e.role /\ f.terminated = e.terminated /\ f.ice = e.ice
    BY <2>3, MovesToAccepted, AcceptKeeps
  <2> HIDE DEF f
  <2>6. Moves(c, f)
    BY <2>3, <2>5, MovesFrom
  <2>7. Keeps(c, f)
    BY <2>3, <2>5 DEF Keeps, Begun
  <2> QED
    BY <2>2, <2>4, <2>6, <2>7, QuietAdvance
<1>4. CASE RejectFromNotification(s)
  <2> DEFINE d == [c EXCEPT !.canceler = "spent", !.handled = TRUE]
             f == TerminateSession(d)
  <2>1. Update(s, f) /\ c.canceler = "live" /\ UNCHANGED <<stunVars, jnVars>>
    BY <1>4 DEF RejectFromNotification
  <2>2. /\ d \in Session /\ Good(d) /\ Life(d) = Life(c) /\ Keeps(c, d) /\ Begun(c)
        /\ d.role = c.role /\ d.terminated = c.terminated /\ d.ice = c.ice
        /\ d.sent = c.sent
    BY <1>a, <2>1, Answered
  <2> HIDE DEF d
  <2>3. Moves(d, f) /\ Keeps(d, f)
    BY <2>2, MovesToEnd, EndKeeps DEF Begun
  <2> HIDE DEF f
  <2>4. Moves(c, f)
    BY <2>2, <2>3, MovesFrom
  <2>5. Keeps(c, f)
    BY <2>2, <2>3 DEF Keeps, Begun
  <2> QED
    BY <2>1, <2>4, <2>5, QuietAdvance
<1>5. CASE AcceptInDialog(s)
  <2>1. PICK audioOk \in BOOLEAN : Update(s, AcceptSession(c, audioOk))
    BY <1>5 DEF AcceptInDialog
  <2>2. c.dialog /\ c.state = "needAccept" /\ UNCHANGED <<stunVars, jnVars>>
    BY <1>5 DEF AcceptInDialog
  <2>3. c.role = "responder" /\ c.canceler # "live"
    <3>1. c.role \in {"none", "initiator", "responder", "busy"}
      BY <1>a DEF Session
    <3> QED
      BY <1>a, <2>2, <3>1 DEF Good, Standing
  <2> DEFINE f == AcceptSession(c, audioOk)
  <2>4. Moves(c, f) /\ f.role = c.role /\ f.terminated = c.terminated /\ f.ice = c.ice
    BY <1>a, <2>2, <2>3, MovesToAccepted, AcceptKeeps
  <2>5. Update(s, f)
    BY <2>1
  <2> HIDE DEF f
  <2>6. Keeps(c, f)
    BY <2>4 DEF Keeps, Begun
  <2> QED
    BY <2>2, <2>4, <2>5, <2>6, QuietAdvance
<1>6. CASE EndInDialog(s)
  <2> DEFINE d == TerminateSession(c)
             e == [d EXCEPT !.dialog = FALSE]
  <2>1. Update(s, e) /\ c.dialog /\ UNCHANGED <<stunVars, jnVars>>
    BY <1>6 DEF EndInDialog
  <2>2. Begun(c)
    <3>1. c.role \in {"none", "initiator", "responder", "busy"}
      BY <1>a DEF Session
    <3> QED
      BY <1>a, <2>1, <3>1 DEF Good, Standing, Begun
  <2>3. d \in Session /\ Moves(c, d) /\ Keeps(c, d)
    BY <1>a, <2>2, TerminateSessionFacts, MovesToEnd, EndKeeps
  <2>4. d.terminated
    <3>1. CASE c.terminated
      BY <3>1 DEF TerminateSession
    <3>2. CASE ~c.terminated
      BY <1>a, <3>2, TerminateSessionFacts, SessionTerminatedFacts DEF Ring
    <3> QED
      BY <3>1, <3>2
  <2> HIDE DEF d
  <2>5. /\ e.role = d.role /\ e.state = d.state /\ e.terminated = d.terminated
        /\ e.sessionStarted = d.sessionStarted
        /\ e.candidatesGathered = d.candidatesGathered
        /\ e.sessionInititateSent = d.sessionInititateSent /\ e.peerMedia = d.peerMedia
        /\ e.remoteCreds = d.remoteCreds /\ e.remoteCandidates = d.remoteCandidates
        /\ e.connectionEstabilished = d.connectionEstabilished
        /\ e.jnRelay = d.jnRelay /\ e.ice = d.ice /\ e.sent = d.sent
        /\ e.canceler = d.canceler /\ e.events = d.events
    BY <2>3 DEF Session
  <2>6. e \in Session
    BY <2>3, QuietUpdates
  <2> HIDE DEF e
  <2>7. Begun(d) /\ Good(d) /\ d.canceler # "live"
    BY <2>2, <2>3, <2>4 DEF Keeps, Moves, Good, Standing
  <2>8. Good(e) /\ Life(e) = Life(d)
    BY <2>3, <2>5, <2>6, <2>7, Touched
  <2>9. Moves(c, e)
    BY <2>3, <2>5, <2>8, MovesOn
  <2>10. Keeps(c, e)
    BY <2>3, <2>5 DEF Keeps, Begun
  <2> QED
    BY <2>1, <2>9, <2>10, QuietAdvance
<1> QED
  BY <1>1, <1>2, <1>3, <1>4, <1>5, <1>6 DEF User

\* A stanza reaches registered sessions only, and those are begun and have not ended.
LEMMA Reached ==
  ASSUME AllGood, NEW s \in sessions
  PROVE  s \in Calls /\ Begun(call[s]) /\ ~call[s].terminated
  BY DEF AllGood, IInv, RegisteredIffLive, Begun

\* The peer's session-accept, to a call that was offered.
LEMMA AcceptedByPeer ==
  ASSUME NEW c \in Session, Good(c), c.role = "initiator", c.sessionInititateSent,
         ~c.terminated, NEW creds \in BOOLEAN, NEW audioOk \in BOOLEAN
  PROVE  LET p == ParseTransportCandidates([c EXCEPT !.peerMedia = TRUE], creds)
             d == StartMediaSession(p, audioOk)
         IN  ~ParseThrows(c, creds) /\ Moves(c, d) /\ Keeps(c, d)
<1> DEFINE q == [c EXCEPT !.peerMedia = TRUE]
           p == ParseTransportCandidates(q, creds)
           d == StartMediaSession(p, audioOk)
<1>1. c.ice = "ready"
  BY DEF Good, Gathering
<1>2. ~ParseThrows(c, creds)
  BY <1>1 DEF ParseThrows
<1>3. q \in Session
  BY SessionUpdates
<1>4. /\ Spoken(q) = Spoken(c) /\ q.peerMedia = TRUE /\ q.ice = c.ice
      /\ q.jnRelay = c.jnRelay /\ q.remoteCreds = c.remoteCreds
      /\ q.remoteCandidates = c.remoteCandidates
  BY DEF Session, Spoken
<1> HIDE DEF q
<1>5. p \in Session
  BY <1>3, ParseFacts
<1>6. /\ Spoken(p) = Spoken(c) /\ p.peerMedia = TRUE /\ p.ice = c.ice
      /\ p.jnRelay = c.jnRelay /\ p.remoteCreds = (q.remoteCreds \/ creds)
      /\ p.remoteCandidates =
           (q.remoteCandidates /\ (~(q.remoteCreds \/ creds) \/ q.ice = "none"))
  BY <1>3, <1>4, ParseFields
<1> HIDE DEF p
<1>7. Handed(p)
  BY <1>1, <1>4, <1>6 DEF Handed
<1>8. /\ p.role = c.role /\ p.state = c.state /\ p.terminated = c.terminated
      /\ p.sessionStarted = c.sessionStarted
      /\ p.candidatesGathered = c.candidatesGathered
      /\ p.sessionInititateSent = c.sessionInititateSent
      /\ p.connectionEstabilished = c.connectionEstabilished
      /\ p.canceler = c.canceler /\ p.dialog = c.dialog /\ p.events = c.events
      /\ p.sent = c.sent
  BY <1>6 DEF Spoken
<1>9. Moves(c, d)
  BY <1>5, <1>6, <1>7, <1>8, MediaStarts DEF Begun
<1>10. Fixed(d) = Fixed(p)
  BY <1>5, StartMediaSessionFields
<1> HIDE DEF d
<1>11. Keeps(c, d)
  BY <1>1, <1>6, <1>8, <1>10 DEF Keeps, Begun, Fixed
<1> QED
  BY <1>2, <1>9, <1>11 DEF d, p, q

\* One of the awaited answers has come.
LEMMA AnsweredIq ==
  ASSUME NEW c \in Session, Good(c), c.acks > 0
  PROVE  LET d == [c EXCEPT !.acks = c.acks - 1]
         IN  /\ d \in Session /\ Good(d) /\ Life(d) = Life(c) /\ Keeps(c, d)
             /\ d.terminated = c.terminated /\ d.sent = c.sent /\ Begun(c) /\ Begun(d)
<1> DEFINE n == c.acks - 1
           d == [c EXCEPT !.acks = n]
<1>1. Begun(c)
  <2>1. c.role \in {"none", "initiator", "responder", "busy"}
    BY DEF Session
  <2> QED
    BY <2>1 DEF Good, Standing, Begun
<1>2. n \in Nat
  BY SessionFields
<1>3. d \in Session
  BY <1>2, QuietUpdates
<1> HIDE DEF n
<1>4. /\ d.role = c.role /\ d.state = c.state /\ d.terminated = c.terminated
      /\ d.sessionStarted = c.sessionStarted
      /\ d.candidatesGathered = c.candidatesGathered
      /\ d.sessionInititateSent = c.sessionInititateSent /\ d.peerMedia = c.peerMedia
      /\ d.remoteCreds = c.remoteCreds /\ d.remoteCandidates = c.remoteCandidates
      /\ d.connectionEstabilished = c.connectionEstabilished
      /\ d.jnRelay = c.jnRelay /\ d.ice = c.ice /\ d.sent = c.sent
      /\ d.canceler = c.canceler /\ d.dialog = c.dialog /\ d.events = c.events
  BY DEF Session
<1> HIDE DEF d
<1>5. Good(d) /\ Life(d) = Life(c)
  BY <1>1, <1>3, <1>4, Touched
<1>6. Keeps(c, d) /\ Begun(d)
  BY <1>1, <1>4 DEF Keeps, Begun
<1> QED
  BY <1>1, <1>3, <1>4, <1>5, <1>6 DEF d, n

\* The sessions advance when the peer's stanzas and answers come in.
LEMMA PeerAdvances ==
  ASSUME AllGood, NEW s \in Calls, Peer(s)
  PROVE  Advance
<1> DEFINE c == call[s]
<1>a. c \in Session /\ Good(c)
  BY DEF AllGood, IInv, TypeOK
<1>b. ASSUME c.role = "none" PROVE s \notin stunQueue
  BY <1>b DEF AllGood, Waiting
\* A session that ends on the peer's word.
<1>c. ASSUME s \in sessions, UNCHANGED <<stunVars, jnVars>>,
             NEW d, Update(s, d), d \in {SessionTerminated(c), TerminatedWithReply(c)}
      PROVE  Advance
  BY <1>a, <1>c, Reached, MovesToEnd, EndKeeps, QuietAdvance
<1>1. CASE SessionInitiateBusy(s)
  <2>1. Moves(c, Busy) /\ Keeps(c, Busy)
    BY <1>1, <1>a, MovesToRefused DEF SessionInitiateBusy, Keeps, Begun, Busy, NewCall
  <2> QED
    BY <1>1, <2>1, QuietAdvance DEF SessionInitiateBusy
<1>2. CASE SessionInitiateBad(s)
  <2> DEFINE e == TerminatedWithReply(Incoming)
  <2>1. Moves(c, e) /\ Begun(e)
    BY <1>2, <1>a, MovesToRefused DEF SessionInitiateBad
  <2>2. Update(s, e) /\ UNCHANGED <<stunVars, jnVars>> /\ c.role = "none"
    BY <1>2 DEF SessionInitiateBad
  <2> HIDE DEF e
  <2>3. stunQueue' \subseteq stunQueue \cup {s} /\ jnRequest' \in {jnRequest, None, s}
        /\ s \notin stunQueue'
    BY <1>b, <2>2 DEF stunVars, jnVars
  <2> QED
    BY <2>1, <2>2, <2>3, OneAdvances
<1>3. CASE SessionInitiate(s)
  <2>1. PICK ready, asking, mediaOk, creds \in BOOLEAN :
          LET i == SessionInit(Incoming, ready, asking)
          IN  /\ DiscoverStun(s, ready)
              /\ RequestChannel(s, asking)
              /\ IF mediaOk
                 THEN /\ Update(s, ParseTransportCandidates([i EXCEPT !.peerMedia = TRUE], creds))
                      /\ RegisterSession(s)
                 ELSE /\ Update(s, TerminatedWithReply(i))
                      /\ UnregisterSession(s)
    BY <1>3 DEF SessionInitiate
  <2> DEFINE i == SessionInit(Incoming, ready, asking)
             d == ParseTransportCandidates([i EXCEPT !.peerMedia = TRUE], creds)
             e == TerminatedWithReply(i)
  <2>2. c.role = "none"
    BY <1>3 DEF SessionInitiate
  <2>3. /\ Moves(c, d) /\ Begun(d) /\ (~ready => d.ice = "none")
        /\ Moves(c, e) /\ Begun(e) /\ e.ice = "none"
    BY <1>a, <2>2, MovesToRinging
  <2>4. Update(s, d) \/ Update(s, e)
    BY <2>1
  <2> HIDE DEF d, e
  <2>5. stunQueue' \subseteq stunQueue \cup {s} /\ (s \in stunQueue' => ~ready)
    BY <1>b, <2>1, <2>2 DEF DiscoverStun, stunVars
  <2>6. jnRequest' \in {s, None}
    BY <2>1 DEF RequestChannel
  <2> QED
    BY <2>3, <2>4, <2>5, <2>6, OneAdvances
<1>4. CASE TransportInfo(s)
  <2>1. PICK creds \in BOOLEAN : Update(s, ParseTransportCandidates(c, creds))
    BY <1>4 DEF TransportInfo
  <2> DEFINE d == ParseTransportCandidates(c, creds)
  <2>2. s \in sessions /\ UNCHANGED <<stunVars, jnVars>> /\ Update(s, d)
    BY <1>4, <2>1 DEF TransportInfo
  <2>3. Moves(c, d) /\ Spoken(d) = Spoken(c) /\ d.ice = c.ice
    BY <1>a, <2>2, Reached, MovesByTheSearch, ParseFields
  <2> HIDE DEF d
  <2>4. Keeps(c, d)
    BY <2>3 DEF Keeps, Begun, Spoken
  <2> QED
    BY <2>2, <2>3, <2>4, QuietAdvance
<1>5. CASE SessionAccept(s)
  <2>1. /\ s \in sessions /\ c.role = "initiator" /\ c.sessionInititateSent
        /\ UNCHANGED <<stunVars, jnVars>> /\ ~c.terminated
    BY <1>5, Reached DEF SessionAccept
  <2>2. CASE \E creds, audioOk \in BOOLEAN :
               LET p == ParseTransportCandidates([c EXCEPT !.peerMedia = TRUE], creds)
               IN  Update(s, IF ParseThrows(c, creds) THEN p
                             ELSE StartMediaSession(p, audioOk))
    <3>1. PICK creds, audioOk \in BOOLEAN :
            LET p == ParseTransportCandidates([c EXCEPT !.peerMedia = TRUE], creds)
            IN  Update(s, IF ParseThrows(c, creds) THEN p
                          ELSE StartMediaSession(p, audioOk))
      BY <2>2
    <3> DEFINE p == ParseTransportCandidates([c EXCEPT !.peerMedia = TRUE], creds)
               d == StartMediaSession(p, audioOk)
    <3>2. ~ParseThrows(c, creds) /\ Moves(c, d) /\ Keeps(c, d)
      BY <1>a, <2>1, AcceptedByPeer
    <3>3. Update(s, d)
      BY <3>1, <3>2
    <3> HIDE DEF d
    <3> QED
      BY <2>1, <3>2, <3>3, QuietAdvance
  <2>3. CASE Update(s, TerminatedWithReply(c))
    BY <1>c, <2>1, <2>3
  <2> QED
    BY <1>5, <2>2, <2>3 DEF SessionAccept
<1>6. CASE ContentRemove(s)
  BY <1>6, <1>c DEF ContentRemove
<1>7. CASE PeerTerminates(s)
  BY <1>7, <1>c DEF PeerTerminates
<1>8. CASE Acknowledged(s)
  <2> DEFINE d == [c EXCEPT !.acks = c.acks - 1]
             e == SessionTerminated(d)
  <2>1. c.acks > 0 /\ UNCHANGED <<stunVars, jnVars>> /\ (Update(s, d) \/ Update(s, e))
    BY <1>8 DEF Acknowledged
  <2>2. /\ d \in Session /\ Good(d) /\ Life(d) = Life(c) /\ Keeps(c, d)
        /\ d.terminated = c.terminated /\ d.sent = c.sent /\ Begun(c) /\ Begun(d)
    BY <1>a, <2>1, AnsweredIq
  <2> HIDE DEF d
  <2>3. Moves(c, d)
    BY <2>2 DEF Moves, LifeStep
  <2>4. Moves(d, e) /\ Keeps(d, e)
    BY <2>2, MovesToEnd, EndKeeps
  <2> HIDE DEF e
  <2>5. Moves(c, e)
    BY <2>2, <2>4, MovesFrom
  <2>6. Keeps(c, e)
    BY <2>2, <2>4 DEF Keeps
  <2> QED
    BY <2>1, <2>2, <2>3, <2>5, <2>6, QuietAdvance
<1> QED
  BY <1>1, <1>2, <1>3, <1>4, <1>5, <1>6, <1>7, <1>8 DEF Peer

\* The main thread takes the oldest of the posted callbacks.
LEMMA TakenFacts ==
  ASSUME AllGood, NEW s \in Calls, call[s].events # <<>>
  PROVE  LET c == call[s]
             k == Taken(s)
         IN  /\ c \in Session /\ k \in Session /\ Good(c) /\ Good(k)
             /\ Begun(c) /\ Begun(k) /\ Life(k) = Life(c) /\ k.sent = c.sent
             /\ k.terminated = c.terminated /\ k.ice = c.ice /\ k.role = c.role
             /\ ~c.terminated /\ Head(c.events) = "gathered" =>
                  /\ ~k.candidatesGathered /\ k.ice = "ready"
                  /\ \A i \in DOMAIN k.events : k.events[i] # "gathered"
<1> DEFINE c == call[s]
           k == Taken(s)
<1>1. c \in Session /\ Good(c)
  BY DEF AllGood, IInv, TypeOK
<1>2. c.events \in Seq(Events) /\ Tail(c.events) \in Seq(Events)
  BY <1>1, SessionFields
<1>3. Begun(c)
  <2>1. c.role \in {"none", "initiator", "responder", "busy"}
    BY <1>1 DEF Session
  <2> QED
    BY <1>1, <2>1 DEF Good, Standing, Begun
<1>4. k \in Session
  BY <1>1, <1>2, QuietUpdates DEF Taken
<1>5. /\ k.role = c.role /\ k.state = c.state /\ k.terminated = c.terminated
      /\ k.sessionStarted = c.sessionStarted
      /\ k.candidatesGathered = c.candidatesGathered
      /\ k.sessionInititateSent = c.sessionInititateSent /\ k.peerMedia = c.peerMedia
      /\ k.remoteCreds = c.remoteCreds /\ k.remoteCandidates = c.remoteCandidates
      /\ k.connectionEstabilished = c.connectionEstabilished
      /\ k.jnRelay = c.jnRelay /\ k.ice = c.ice /\ k.sent = c.sent
      /\ k.canceler = c.canceler /\ k.dialog = c.dialog
      /\ k.events = Tail(c.events)
  BY <1>1 DEF Session, Taken
<1> HIDE DEF k
<1>6. Good(k) /\ Life(k) = Life(c)
  BY <1>1, <1>3, <1>4, <1>5, Touched
<1>7. Begun(k)
  BY <1>3, <1>5 DEF Begun
<1>8. ASSUME ~c.terminated, Head(c.events) = "gathered"
      PROVE  /\ ~k.candidatesGathered /\ k.ice = "ready"
             /\ \A i \in DOMAIN k.events : k.events[i] # "gathered"
  <2>1. /\ 1 \in DOMAIN c.events /\ c.events[1] = "gathered"
        /\ \A i \in DOMAIN k.events : /\ i \in Nat /\ i # 0 /\ i + 1 \in DOMAIN c.events
                                      /\ k.events[i] = c.events[i + 1]
    BY <1>2, <1>5, <1>8
  <2>2. ~c.candidatesGathered /\ c.ice = "ready"
    BY <1>1, <1>8, <2>1 DEF Good, Gathering
  <2>3. \A i \in DOMAIN c.events : c.events[i] = "gathered" => i = 1
    BY <1>1, <1>8, <2>1 DEF Good, Gathering
  <2>4. ASSUME NEW i \in DOMAIN k.events PROVE k.events[i] # "gathered"
    <3>1. i + 1 # 1
      BY <2>1
    <3> QED
      BY <2>1, <2>3, <3>1
  <2> QED
    BY <1>5, <2>2, <2>4
<1> QED
  BY <1>1, <1>3, <1>4, <1>5, <1>6, <1>7, <1>8 DEF k

\* The sessions advance when the ICE thread posts and when the main thread takes.
LEMMA IceAdvances ==
  ASSUME AllGood, NEW s \in Calls, IceThread(s) \/ Callback(s)
  PROVE  Advance
<1> DEFINE c == call[s]
           k == Taken(s)
<1>a. c \in Session /\ Good(c)
  BY DEF AllGood, IInv, TypeOK
<1>b. ASSUME c.ice # "none" PROVE Begun(c)
  <2>1. c.role \in {"none", "initiator", "responder", "busy"}
    BY <1>a DEF Session
  <2> QED
    BY <1>a, <1>b, <2>1 DEF Good, Standing, Begun
\* How a callback that was taken leads on.
<1>c. ASSUME c.events # <<>>, NEW d, Moves(k, d), Keeps(k, d), Update(s, d),
             UNCHANGED <<stunVars, jnVars>>
      PROVE  Advance
  <2>1. /\ Life(k) = Life(c) /\ k.sent = c.sent /\ k.terminated = c.terminated
        /\ k.ice = c.ice /\ Begun(k)
    BY <1>c, TakenFacts
  <2>2. Moves(c, d) /\ Keeps(c, d)
    BY <1>c, <2>1, MovesFrom DEF Keeps
  <2> QED
    BY <1>c, <2>2, QuietAdvance
<1>1. CASE CandidatesGathered(s)
  <2> DEFINE d == [Post(s, "gathered") EXCEPT !.ice = "ready"]
  <2>1. c.ice = "gathering" /\ Update(s, d) /\ UNCHANGED <<stunVars, jnVars>>
    BY <1>1 DEF CandidatesGathered
  <2>2. d = [[c EXCEPT !.events = Append(@, "gathered")] EXCEPT !.ice = "ready"]
    BY DEF Post
  <2>3. Begun(c)
    BY <1>b, <2>1
  <2>4. Moves(c, d) /\ d.role = c.role /\ d.ice = "ready"
    BY <1>a, <2>1, <2>2, <2>3, MovesByPosting
  <2> HIDE DEF d
  <2>5. \/ Keeps(c, d)
        \/ c.terminated
    BY <2>1, <2>4 DEF Keeps, Begun
  <2>6. c.terminated => d.terminated
    BY <2>2, <1>a DEF Session
  <2>7. Keeps(c, d)
    BY <2>4, <2>5, <2>6 DEF Keeps, Begun
  <2> QED
    BY <2>1, <2>4, <2>7, QuietAdvance
<1>2. CASE ConnectivityChecked(s)
  <2>1. PICK event \in {"selected", "failed"} : Update(s, Post(s, event))
    BY <1>2 DEF ConnectivityChecked
  <2> DEFINE d == [c EXCEPT !.events = Append(@, event)]
  <2>2. c.ice = "ready" /\ Update(s, d) /\ UNCHANGED <<stunVars, jnVars>>
    BY <1>2, <2>1 DEF ConnectivityChecked, Post
  <2>3. Moves(c, d) /\ d.role = c.role /\ d.terminated = c.terminated /\ d.ice = c.ice
    BY <1>a, <1>b, <2>2, MovesByPosting
  <2> HIDE DEF d
  <2>4. Keeps(c, d)
    BY <2>3 DEF Keeps, Begun
  <2> QED
    BY <2>2, <2>3, <2>4, QuietAdvance
<1>3. CASE OnIgnored(s)
  <2>1. c.events # <<>> /\ Update(s, k) /\ UNCHANGED <<stunVars, jnVars>>
    BY <1>3 DEF OnIgnored
  <2>2. Good(k)
    BY <2>1, TakenFacts
  <2>3. Moves(k, k) /\ Keeps(k, k)
    BY <2>2 DEF Moves, LifeStep, Keeps
  <2> QED
    BY <1>c, <2>1, <2>3
<1>4. CASE OnCandidatesGatheringDone(s)
  <2> DEFINE p == [k EXCEPT !.candidatesGathered = TRUE]
             d == SendTransports(p, FALSE)
  <2>1. /\ c.events # <<>> /\ Head(c.events) = "gathered" /\ ~c.terminated
        /\ Update(s, d) /\ UNCHANGED <<stunVars, jnVars>>
    BY <1>4 DEF OnCandidatesGatheringDone
  <2>2. /\ k \in Session /\ Good(k) /\ Begun(k) /\ ~k.terminated
        /\ ~k.candidatesGathered /\ k.ice = "ready"
        /\ \A i \in DOMAIN k.events : k.events[i] # "gathered"
    BY <2>1, TakenFacts
  <2>3. Moves(k, d)
    BY <2>2, MovesToGathered
  <2>4. p \in Session /\ p.role = k.role
    BY <2>2, QuietUpdates DEF Ring
  <2> HIDE DEF k, p
  <2>5. d.role = k.role
    BY <2>4, SendTransportsFacts DEF Ring
  <2> HIDE DEF d
  <2>6. Keeps(k, d)
    BY <2>2, <2>5 DEF Keeps, Begun
  <2> QED
    BY <1>c, <2>1, <2>3, <2>6 DEF k
<1>5. CASE OnCandidateSelected(s)
  <2> DEFINE p == [k EXCEPT !.connectionEstabilished = TRUE]
  <2>1. PICK audioOk \in BOOLEAN : Update(s, StartMediaSession(p, audioOk))
    BY <1>5 DEF OnCandidateSelected
  <2> DEFINE d == StartMediaSession(p, audioOk)
  <2>2. c.events # <<>> /\ ~c.terminated /\ UNCHANGED <<stunVars, jnVars>> /\ Update(s, d)
    BY <1>5, <2>1 DEF OnCandidateSelected
  <2>3. k \in Session /\ Good(k) /\ Begun(k) /\ ~k.terminated
    BY <2>2, TakenFacts
  <2> HIDE DEF k
  <2>4. p \in Session
    BY <2>3, SessionUpdates
  <2>5. /\ p.role = k.role /\ p.state = k.state /\ p.terminated = k.terminated
        /\ p.sessionStarted = k.sessionStarted
        /\ p.candidatesGathered = k.candidatesGathered
        /\ p.sessionInititateSent = k.sessionInititateSent /\ p.peerMedia = k.peerMedia
        /\ p.remoteCreds = k.remoteCreds /\ p.remoteCandidates = k.remoteCandidates
        /\ p.connectionEstabilished = TRUE
        /\ p.jnRelay = k.jnRelay /\ p.ice = k.ice /\ p.sent = k.sent
        /\ p.canceler = k.canceler /\ p.dialog = k.dialog /\ p.events = k.events
    BY <2>3 DEF Session
  <2> HIDE DEF p
  <2>6. Handed(p)
    BY <2>3, <2>5 DEF Good, Handed
  <2>7. Moves(k, d)
    BY <2>3, <2>4, <2>5, <2>6, MediaStarts
  <2>8. Fixed(d) = Fixed(p)
    BY <2>4, StartMediaSessionFields
  <2> HIDE DEF d
  <2>9. Keeps(k, d)
    BY <2>5, <2>8 DEF Keeps, Begun, Fixed
  <2> QED
    BY <1>c, <2>2, <2>7, <2>9 DEF k
<1>6. CASE OnConnectionFail(s)
  <2> DEFINE d == TerminateSession(k)
  <2>1. c.events # <<>> /\ UNCHANGED <<stunVars, jnVars>> /\ Update(s, d)
    BY <1>6 DEF OnConnectionFail
  <2>2. k \in Session /\ Good(k) /\ Begun(k)
    BY <2>1, TakenFacts
  <2>3. Moves(k, d) /\ Keeps(k, d)
    BY <2>2, MovesToEnd, EndKeeps
  <2> HIDE DEF d
  <2> QED
    BY <1>c, <2>1, <2>3
<1> QED
  BY <1>1, <1>2, <1>3, <1>4, <1>5, <1>6 DEF IceThread, Callback

\* The sessions advance when a search of theirs is answered.
LEMMA DiscoveryAdvances ==
  ASSUME AllGood, Discovery
  PROVE  Advance
<1>a. ASSUME UNCHANGED call, stunQueue' = stunQueue, jnRequest' = jnRequest PROVE Advance
  BY <1>a DEF Advance, AllGood, Waiting
<1>b. ASSUME AnswerRequest, jnRequest # None, UNCHANGED stunVars PROVE Advance
  <2> DEFINE c == call[jnRequest]
             d == OnJingleNodesChannel(c)
  <2>1. jnRequest \in Calls
    BY <1>b DEF AllGood, IInv, TypeOK
  <2>2. c \in Session /\ Good(c) /\ Begun(c)
    BY <1>b, <2>1 DEF AllGood, IInv, TypeOK, Waiting, Begun
  <2>3. /\ Moves(c, d) /\ Spoken(d) = Spoken(c)
        /\ d.ice = IF c.ice = "created" THEN "gathering" ELSE c.ice
    BY <2>2, MovesByTheSearch, SearchFields
  <2>4. /\ Update(jnRequest, d) /\ jnRequest' = None
        /\ stunQueue' = stunQueue
    BY <1>b DEF AnswerRequest, stunVars
  <2> HIDE DEF d
  <2>5. Keeps(c, d) /\ Begun(d)
    BY <2>2, <2>3 DEF Keeps, Begun, Spoken
  <2>6. jnRequest \in stunQueue => (~d.terminated => d.ice = "none")
    BY <2>3, <2>5 DEF AllGood, Waiting, Spoken
  <2> QED
    BY <2>1, <2>3, <2>4, <2>5, <2>6, OneAdvances
<1>1. CASE StunServerNamed
  BY <1>1, <1>a DEF StunServerNamed, jnVars
<1>2. CASE StunDiscovered
  <2>1. /\ call' = [s \in Calls |-> IF s \in stunQueue THEN InitIce(call[s]) ELSE call[s]]
        /\ stunQueue' = {} /\ jnRequest' = jnRequest
    BY <1>2 DEF StunDiscovered, jnVars
  <2>2. call \in [Calls -> Session] /\ stunQueue \subseteq Calls
        /\ jnRequest \in Calls \cup {None}
    BY DEF AllGood, IInv, TypeOK
  <2>3. ASSUME NEW t \in stunQueue
        PROVE  /\ Moves(call[t], InitIce(call[t])) /\ Life(InitIce(call[t])) = Life(call[t])
               /\ InitIce(call[t]).role = call[t].role
    <3> DEFINE c == call[t]
               d == InitIce(c)
    <3>1. c \in Session /\ Good(c) /\ Begun(c) /\ (c.terminated \/ c.ice = "none")
      BY <2>2 DEF AllGood, Waiting, Begun
    <3>2. Moves(c, d) /\ Spoken(d) = Spoken(c) /\ d.peerMedia = c.peerMedia
      BY <3>1, MovesByTheSearch, SearchFields
    <3> HIDE DEF d
    <3>3. Life(d) = Life(c) /\ d.role = c.role
      BY <3>2 DEF Spoken, Life, Phase, Agreed
    <3> QED
      BY <3>2, <3>3 DEF d
  <2>4. \A t \in Calls : /\ t \in stunQueue => call'[t] = InitIce(call[t])
                         /\ t \notin stunQueue => call'[t] = call[t]
    BY <2>1
  <2>5. \A t \in Calls : /\ call'[t] = call[t] \/ Moves(call[t], call'[t])
                         /\ Life(call'[t]) = Life(call[t])
                         /\ call'[t].role = call[t].role
    BY <2>3, <2>4
  <2>6. Waiting'
    BY <2>1, <2>2, <2>5 DEF Waiting, AllGood
  <2> QED
    BY <2>5, <2>6 DEF Advance
<1>3. CASE RelayAnswers
  <2>1. UNCHANGED stunVars /\ \/ UNCHANGED call /\ jnRequest' = jnRequest
                              \/ AnswerRequest /\ jnRequest # None
    BY <1>3 DEF RelayAnswers
  <2> QED
    BY <1>a, <1>b, <2>1 DEF stunVars
<1>4. CASE NodeAppears
  <2>1. UNCHANGED stunVars /\ \/ UNCHANGED call /\ jnRequest' = jnRequest
                              \/ AnswerRequest /\ jnRequest # None
    BY <1>4 DEF NodeAppears, NextRelay
  <2> QED
    BY <1>a, <1>b, <2>1 DEF stunVars
<1> QED
  BY <1>1, <1>2, <1>3, <1>4 DEF Discovery

\* Every step is an advance, so the strengthened invariant is kept.
LEMMA StepAdvances ==
  ASSUME AllGood, [Next]_vars
  PROVE  Advance
<1>1. CASE \E s \in Calls : User(s) \/ Peer(s) \/ IceThread(s) \/ Callback(s)
  BY <1>1, UserAdvances, PeerAdvances, IceAdvances
<1>2. CASE Discovery
  BY <1>2, DiscoveryAdvances
<1>3. CASE UNCHANGED vars
  BY <1>3 DEF vars, stunVars, jnVars, Advance, AllGood, Waiting
<1> QED
  BY <1>1, <1>2, <1>3 DEF Next

LEMMA GoodBegins == Init => AllGood
<1> SUFFICES ASSUME Init PROVE AllGood
  OBVIOUS
<1>1. /\ NewCall.role = "none" /\ NewCall.state = "none" /\ NewCall.terminated = FALSE
      /\ NewCall.sessionStarted = FALSE /\ NewCall.candidatesGathered = FALSE
      /\ NewCall.sessionInititateSent = FALSE /\ NewCall.remoteCreds = FALSE
      /\ NewCall.connectionEstabilished = FALSE /\ NewCall.ice = "none"
      /\ NewCall.events = <<>> /\ NewCall.acks = 0 /\ NewCall.dialog = FALSE
      /\ NewCall.canceler = "none" /\ NewCall.sent = <<>>
  BY DEF NewCall
<1>2. Standing(NewCall) /\ Gathering(NewCall) /\ Handed(NewCall)
  BY <1>1 DEF Standing, Gathering, Handed
<1>3. Legal(NewCall) /\ Flags(NewCall)
  BY <1>1 DEF Legal, Flags
<1>4. call = [s \in Calls |-> NewCall] /\ stunQueue = {} /\ jnRequest = None
  BY DEF Init
<1> QED
  BY <1>2, <1>3, <1>4, InvariantBegins DEF AllGood, Good, Waiting

LEMMA GoodKept == AllGood /\ [Next]_vars => AllGood' /\ Advance
<1> SUFFICES ASSUME AllGood, [Next]_vars PROVE AllGood' /\ Advance
  OBVIOUS
<1>1. IInv'
  BY InvariantKept DEF AllGood
<1>2. Advance
  BY StepAdvances
<1>3. \A s \in Calls : Good(call'[s])
  BY <1>2 DEF Advance, Moves, AllGood
<1> QED
  BY <1>1, <1>2, <1>3 DEF AllGood, Advance

LEMMA GoodAlways == Spec => []AllGood
<1>1. AllGood /\ [Next]_vars => AllGood'
  BY GoodKept
<1> QED
  BY <1>1, GoodBegins, PTL DEF Spec

\* Whatever arrives before the ICE session exists is handed to it when it is created,
\* and the relay channel too (_sessionInit, _onJingleNodesChannel).
THEOREM HandedOver == Spec => []NothingLeftBuffered
<1>1. AllGood => NothingLeftBuffered
  BY DEF AllGood, Good, Handed, NothingLeftBuffered
<1> QED
  BY <1>1, GoodAlways, PTL

\* The peer sees a legal sequence of Jingle actions of every session, in whatever order
\* candidates are gathered, people click and stanzas arrive (_sendTransports,
\* terminateSession and the packet handlers).
THEOREM LegalSignalling == Spec => []SignallingOrder
<1>1. AllGood => SignallingOrder
  <2> SUFFICES ASSUME AllGood, NEW s \in Calls
               PROVE  /\ \A a \in {"session-initiate", "session-accept", "session-terminate"} :
                           \A i, j \in Sent(s, a) : i = j
                      /\ call[s].role = "initiator" =>
                           \A i \in Sent(s, "transport-info") :
                             \E j \in Sent(s, "session-initiate") : j < i
                      /\ \A i \in Sent(s, "session-terminate") : i = Len(call[s].sent)
    BY DEF SignallingOrder
  <2>1. Legal(call[s])
    BY DEF AllGood, Good
  <2> QED
    BY <2>1 DEF Legal, Sent
<1> QED
  BY <1>1, GoodAlways, PTL

\* A session that has ended sends nothing any more: the terminated flag stops whatever
\* the ICE thread, the searches or the peer still bring.
THEOREM SilentOnceEnded == Spec => SilentAfterEnd
<1>1. AllGood /\ [Next]_vars =>
        [\A s \in Calls : call[s].terminated => call'[s].sent = call[s].sent]_vars
  <2> SUFFICES ASSUME AllGood, [Next]_vars, NEW s \in Calls, call[s].terminated
               PROVE  call'[s].sent = call[s].sent
    OBVIOUS
  <2> QED
    BY GoodKept DEF Advance, Moves
<1> QED
  BY <1>1, GoodAlways, PTL DEF Spec, SilentAfterEnd

-----------------------------------------------------------------------------
(* The sessions implement the life of a call                               *)

LEMMA LifeBegins == Init => Lifecycle!Init
<1> SUFFICES ASSUME Init PROVE Lifecycle!Init
  OBVIOUS
<1>1. call = [s \in Calls |-> NewCall]
  BY DEF Init
<1>2. /\ NewCall.role = "none" /\ NewCall.sessionStarted = FALSE
      /\ NewCall.connectionEstabilished = FALSE
  BY DEF NewCall
<1>3. phase = [s \in Calls |-> "new"]
  BY <1>1, <1>2 DEF phase
<1>4. agreed = {} /\ path = {}
  BY <1>1, <1>2 DEF agreed, path
<1> QED
  BY <1>3, <1>4 DEF Lifecycle!Init

\* A step of one session is a step of the abstract call, or none.
LEMMA LifeMoves ==
  ASSUME call \in [Calls -> Session], call' \in [Calls -> Session], NEW s \in Calls,
         LifeStep(call[s], call'[s]),
         \A t \in Calls \ {s} : Life(call'[t]) = Life(call[t])
  PROVE  [Lifecycle!Next]_(Lifecycle!vars)
<1>1. /\ phase = [t \in Calls |-> Phase(call[t])]
      /\ phase' = [t \in Calls |-> Phase(call'[t])]
  BY DEF phase, Phase
<1>2. /\ agreed = {t \in Calls : Agreed(call[t])}
      /\ agreed' = {t \in Calls : Agreed(call'[t])}
  BY DEF agreed, Agreed
<1>3. /\ path = {t \in Calls : call[t].connectionEstabilished}
      /\ path' = {t \in Calls : call'[t].connectionEstabilished}
  BY DEF path
<1>4. \A t \in Calls \ {s} : /\ Phase(call'[t]) = Phase(call[t])
                             /\ Agreed(call'[t]) = Agreed(call[t])
                             /\ call'[t].connectionEstabilished = call[t].connectionEstabilished
  BY DEF Life
<1> DEFINE p == Phase(call'[s])
<1>5. phase' = [phase EXCEPT ![s] = p]
  BY <1>1, <1>4
<1>6. phase[s] = Phase(call[s])
  BY <1>1
<1>7. (s \in agreed <=> Agreed(call[s])) /\ (s \in path <=> call[s].connectionEstabilished)
  BY <1>2, <1>3
<1>8. /\ Agreed(call'[s]) = Agreed(call[s]) => agreed' = agreed
      /\ Agreed(call'[s]) => agreed' = agreed \cup {s}
  BY <1>2, <1>4
<1>9. /\ call'[s].connectionEstabilished = call[s].connectionEstabilished => path' = path
      /\ call'[s].connectionEstabilished => path' = path \cup {s}
  BY <1>3, <1>4
<1> HIDE DEF p
<1>10. CASE Life(call'[s]) = Life(call[s])
  <2>1. phase' = phase /\ agreed' = agreed /\ path' = path
    BY <1>1, <1>4, <1>8, <1>9, <1>10 DEF Life
  <2> QED
    BY <2>1 DEF Lifecycle!vars
<1>11. CASE /\ Phase(call[s]) = "new" /\ p \in {"calling", "ringing", "refused", "ended"}
            /\ Agreed(call'[s]) = Agreed(call[s])
            /\ call'[s].connectionEstabilished = call[s].connectionEstabilished
  <2>1. Lifecycle!Begin(s) \/ Lifecycle!Refuse(s) \/ Lifecycle!Drop(s)
    BY <1>5, <1>6, <1>8, <1>9, <1>11
    DEF Lifecycle!Begin, Lifecycle!Refuse, Lifecycle!Drop, Lifecycle!Pending
  <2> QED
    BY <2>1 DEF Lifecycle!Next
<1>12. CASE /\ Phase(call[s]) \in {"calling", "ringing"}
            /\ p = IF call[s].connectionEstabilished THEN "active" ELSE "connecting"
            /\ Agreed(call'[s])
            /\ call'[s].connectionEstabilished = call[s].connectionEstabilished
  <2>1. Lifecycle!Agree(s)
    BY <1>5, <1>6, <1>7, <1>8, <1>9, <1>12 DEF Lifecycle!Agree, Lifecycle!Pending
  <2> QED
    BY <2>1 DEF Lifecycle!Next
<1>13. CASE /\ Phase(call[s]) \in {"calling", "ringing", "connecting", "active"}
            /\ p = IF Agreed(call[s]) THEN "active" ELSE Phase(call[s])
            /\ Agreed(call'[s]) = Agreed(call[s]) /\ call'[s].connectionEstabilished
  <2>1. Lifecycle!Connect(s)
    BY <1>1, <1>5, <1>6, <1>7, <1>8, <1>9, <1>13
    DEF Lifecycle!Connect, Lifecycle!Live, Lifecycle!Pending
  <2> QED
    BY <2>1 DEF Lifecycle!Next
<1>14. CASE /\ Phase(call[s]) \in {"calling", "ringing", "connecting", "active"}
            /\ p = "ended" /\ Agreed(call'[s]) = Agreed(call[s])
            /\ call'[s].connectionEstabilished = call[s].connectionEstabilished
  <2>1. Lifecycle!End(s)
    BY <1>5, <1>6, <1>8, <1>9, <1>14 DEF Lifecycle!End, Lifecycle!Live, Lifecycle!Pending
  <2> QED
    BY <2>1 DEF Lifecycle!Next
<1> QED
  BY <1>10, <1>11, <1>12, <1>13, <1>14 DEF LifeStep, p

\* An advance of the sessions is a step of the abstract calls, or none.
LEMMA LifeAdvances == AllGood /\ [Next]_vars => [Lifecycle!Next]_(Lifecycle!vars)
<1> SUFFICES ASSUME AllGood, [Next]_vars PROVE [Lifecycle!Next]_(Lifecycle!vars)
  OBVIOUS
<1>1. AllGood' /\ Advance
  BY GoodKept
<1>2. call \in [Calls -> Session] /\ call' \in [Calls -> Session]
  BY <1>1 DEF AllGood, IInv, TypeOK
<1>3. CASE \E s \in Calls : Life(call'[s]) # Life(call[s])
  <2>1. PICK s \in Calls : Life(call'[s]) # Life(call[s])
    BY <1>3
  <2>2. LifeStep(call[s], call'[s])
    BY <1>1, <2>1 DEF Advance, Moves
  <2>3. \A t \in Calls \ {s} : Life(call'[t]) = Life(call[t])
    BY <1>1, <2>1 DEF Advance
  <2> QED
    BY <1>2, <2>2, <2>3, LifeMoves
<1>4. CASE \A s \in Calls : Life(call'[s]) = Life(call[s])
  <2>1. CASE Calls = {}
    <3>1. phase' = phase /\ agreed' = agreed /\ path' = path
      BY <2>1 DEF phase, agreed, path
    <3> QED
      BY <3>1 DEF Lifecycle!vars
  <2>2. CASE Calls # {}
    <3>1. PICK s \in Calls : TRUE
      BY <2>2
    <3>2. LifeStep(call[s], call'[s])
      BY <1>4 DEF LifeStep
    <3> QED
      BY <1>2, <1>4, <3>2, LifeMoves
  <2> QED
    BY <2>1, <2>2
<1> QED
  BY <1>3, <1>4

\* The sessions implement the abstract life of a call: nobody talks before the callee has
\* agreed and there is a path, and no late event revives a call that is over.
THEOREM CallsLiveAsPromised == Spec => LifecycleSpec
<1>1. Init => Lifecycle!Init
  BY LifeBegins
<1>2. AllGood /\ [Next]_vars => [Lifecycle!Next]_(Lifecycle!vars)
  BY LifeAdvances
<1> QED
  BY <1>1, <1>2, GoodAlways, PTL DEF Spec, LifecycleSpec, Lifecycle!Spec
==============================================================================
