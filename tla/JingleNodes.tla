------------------------------ MODULE JingleNodes -----------------------------
(***************************************************************************)
(* How a call gets a relay channel: JingleNodesService keeps one request,  *)
(* asks the relays it knows one after the other for a channel, and then    *)
(* the trackers for more relays.  Every question is an IQ with a timeout,  *)
(* with what that means for late answers (module IqRequests), and contacts *)
(* that turn out to be relays or trackers push the same request on.        *)
(*                                                                         *)
(* The service is one record; a method that picks a node at random is the  *)
(* set of records it may leave behind.  Questions are numbered in the      *)
(* order they are sent.                                                    *)
(***************************************************************************)
EXTENDS Naturals, FiniteSets

CONSTANTS
  Callers,      \* the calls that request a channel, each of them once
  Relays,       \* the addresses of relays
  Trackers,     \* the addresses of trackers
  None,
  MaxTries,     \* how many relays one request may ask, 3 in the code
  MaxAsks       \* bound of the model: the number of questions

ASSUME NodesAssumption ==
  /\ None \notin Callers \cup Relays \cup Trackers \cup [caller : Callers,
       connectWith : Relays \cup {None}, taken : SUBSET Relays, tries : Nat]
  /\ MaxTries \in Nat /\ MaxAsks \in Nat

VARIABLES
  jn,           \* the service and the IQs it has sent
  last,         \* history: the caller that requested a channel last
  requested     \* history: the callers that have requested one

vars == <<jn, last, requested>>

Asks == 1..MaxAsks

Iq == INSTANCE IqRequests
        WITH Requests <- Asks, Timed <- Asks, DeliverLate <- {}, iq <- jn.iq

\* The code keeps request.relays, which is relays \ taken.
Request ==
  [ caller : Callers,
    connectWith : Relays \cup {None},   \* the other end, if it is a relay itself
    taken : SUBSET Relays,
    tries : Nat ]

Question ==
  [ kind : {"none", "channel", "services"},
    to : Relays \cup Trackers \cup {None},    \* None: a component of the server
    for : Callers \cup {None} ]               \* history: whose request sent it

Service ==
  [ relays : SUBSET Relays,       \* _relays
    trackers : SUBSET Trackers,   \* _trackers
    asked : SUBSET Trackers,      \* those of them with the flag "asked"
    request : Request \cup {None},
    iq : Iq!IqRecord,
    question : [Asks -> Question],
    heard : [Callers -> Nat] ]    \* history: calls of the callers' callbacks

Init ==
  /\ jn = [ relays |-> {}, trackers |-> {}, asked |-> {}, request |-> None,
            iq |-> Iq!NoRequests,
            question |-> [a \in Asks |-> [kind |-> "none", to |-> None, for |-> None]],
            heard |-> [c \in Callers |-> 0] ]
  /\ last = None /\ requested = {}

-----------------------------------------------------------------------------
(* The service's methods                                                   *)

\* A question is sent with the next id.
Asked(s, kind, to, for) ==
  LET a == Cardinality(s.iq.sent) + 1
  IN  [s EXCEPT !.iq = Iq!SendIq(@, a),
                !.question[a] = [kind |-> kind, to |-> to, for |-> for]]

\* Mutant: the slot keeps the request that was answered.
FinishedButKept(s) ==
  [s EXCEPT !.heard[s.request.caller] = @ + 1]

\* The request's callback is called and the slot emptied.
Finished(s) ==
  [s EXCEPT !.heard[s.request.caller] = @ + 1, !.request = None]

\* _askForChannel, of a relay that is removed from the list.
AskForChannel(s, n) ==
  LET r == [s.request EXCEPT !.taken = @ \cup {n}, !.tries = @ + 1]
  IN  Asked([s EXCEPT !.request = r], "channel", n, r.caller)

\* askForServices, of a tracker that is marked.
AskForServices(s, n, for) ==
  Asked([s EXCEPT !.asked = @ \cup {n}], "services", n, for)

\* _requestChannel, with a request in the slot: a relay at random, the next
\* tracker, or nothing for the caller. A peer that is a relay needs no other one.
RequestChannel(s) ==
  LET free == s.relays \ s.request.taken
  IN  IF s.request.connectWith \in s.relays THEN {Finished(s)}
      ELSE IF free # {}
      THEN IF s.request.tries < MaxTries
           THEN {AskForChannel(s, n) : n \in free} ELSE {Finished(s)}
      ELSE IF s.trackers \subseteq s.asked THEN {Finished(s)}
      ELSE {AskForServices(s, n, s.request.caller) : n \in s.trackers \ s.asked}

\* The callers of _requestChannel look, or it looks itself, for a request.
Continue(s) == IF s.request = None THEN {s} ELSE RequestChannel(s)

\* Mutant: an error is final for the request, but its caller is not told.
OnChannelResponseDrops(s, ok) ==
  IF s.request = None THEN {s} ELSE IF ok THEN {Finished(s)} ELSE {[s EXCEPT !.request = None]}

\* Mutant: an error is ignored, as in _onServicesResponse.
OnChannelResponseWaits(s, ok) ==
  IF s.request = None \/ ~ok THEN {s} ELSE {Finished(s)}

\* _onChannelResponse: the channel goes to the request in the slot; without one the
\* handler throws, which sendIq's caller swallows.
OnChannelResponse(s, ok) ==
  IF ~ok THEN Continue(s) ELSE IF s.request = None THEN {s} ELSE {Finished(s)}

\* _onServicesResponse: an error ends the search without a word.
OnServicesResponse(s, ok) ==
  IF ~ok THEN {s}
  ELSE UNION {Continue([s EXCEPT !.relays = @ \cup new.relays,
                                 !.trackers = @ \cup new.trackers]) :
                new \in [relays : SUBSET Relays, trackers : SUBSET Trackers]}

Response(s, a, ok) ==
  IF s.question[a].kind = "channel" THEN OnChannelResponse(s, ok)
  ELSE OnServicesResponse(s, ok)

-----------------------------------------------------------------------------
(* Calls, contacts and the connection                                      *)

\* requestChannel: whatever was in the slot is overwritten.
CallRequestsChannel(c) ==
  /\ c \notin requested
  /\ \E peer \in Relays \cup {None} :
       jn' \in RequestChannel([jn EXCEPT !.request =
                 [caller |-> c, connectWith |-> peer, taken |-> {}, tries |-> 0]])
  /\ requested' = requested \cup {c} /\ last' = c

\* Bound: one question that no request causes, which leaves ids for those that do.
Needed ==
  MaxTries * Cardinality(Callers \ requested) + Cardinality(Trackers \ jn.asked)
    + IF jn.request = None THEN 0 ELSE MaxTries - jn.request.tries
Spare ==
  /\ \A a \in jn.iq.sent : jn.question[a].for # None
  /\ Cardinality(jn.iq.sent) + Needed < MaxAsks

\* The discovery of the server's components finds one that lists nodes.
ServerListsNodes ==
  /\ jn.iq.online /\ Spare
  /\ jn' = Asked(jn, "services", None, None)
  /\ UNCHANGED <<last, requested>>

\* _onNodeChannelContact: a contact that is online turns out to be a relay.
OnNodeChannelContact(n) ==
  /\ jn.iq.online
  /\ jn' \in Continue([jn EXCEPT !.relays = @ \cup {n}])
  /\ UNCHANGED <<last, requested>>

\* _onNodeContact: it turns out to be a tracker. The only one is asked at once, and
\* each time anew.
OnNodeContact(n) ==
  /\ jn.iq.online /\ Spare
  /\ LET s == [jn EXCEPT !.trackers = @ \cup {n}]
     IN  jn' \in Continue(IF s.trackers = {n} THEN AskForServices(s, n, None) ELSE s)
  /\ UNCHANGED <<last, requested>>

\* An IQ is answered, with a result or an error.
Answer(a) ==
  /\ a \in jn.iq.regIDs
  /\ LET s == [jn EXCEPT !.iq = Iq!AnswerIq(@, a)]
     IN  \E ok \in BOOLEAN :
           jn' \in IF Iq!Delivers(jn.iq, a) THEN Response(s, a, ok) ELSE {s}
  /\ UNCHANGED <<last, requested>>

\* Five seconds have passed: an error is delivered.
TimesOut(a) ==
  /\ a \in jn.iq.timers
  /\ jn' \in Response([jn EXCEPT !.iq = Iq!TimeOutIq(@, a)], a, FALSE)
  /\ UNCHANGED <<last, requested>>

SignIn ==
  /\ ~jn.iq.online
  /\ jn' = [jn EXCEPT !.iq.online = TRUE]
  /\ UNCHANGED <<last, requested>>

Lost ==
  /\ jn.iq.online
  /\ jn' = [jn EXCEPT !.iq = Iq!LoseConnection(@)]
  /\ UNCHANGED <<last, requested>>

Next ==
  \/ SignIn \/ Lost \/ ServerListsNodes
  \/ \E c \in Callers : CallRequestsChannel(c)
  \/ \E n \in Relays : OnNodeChannelContact(n)
  \/ \E n \in Trackers : OnNodeContact(n)
  \/ \E a \in Asks : Answer(a) \/ TimesOut(a)

Spec == Init /\ [][Next]_vars

\* The timers fire; nobody has to answer or to come online.
FairSpec == Spec /\ \A a \in Asks : WF_vars(TimesOut(a))

-----------------------------------------------------------------------------
(* Properties                                                              *)

\* Every variable holds a value of its kind, and no request asks more relays than
\* it may.
TypeOK ==
  /\ jn \in Service
  /\ last \in Callers \cup {None}
  /\ requested \subseteq Callers
  /\ jn.request # None => jn.request.tries <= MaxTries

\* Whoever requests a channel hears about it once at most, although answers come
\* late, twice or for another request (a call gathers its candidates once only).
HeardOnce ==
  \A c \in Callers : jn.heard[c] <= 1 /\ (jn.heard[c] = 1 => c \in requested)

\* The slot and the callbacks agree: the request in the slot is the latest one and
\* its caller has not been called, and it stays there until that happens.
LatestIsServed ==
  IF jn.request = None THEN last # None => jn.heard[last] = 1
  ELSE jn.request.caller = last /\ jn.heard[last] = 0

\* Relays that keep silent and a connection that is lost do not stop the search: the
\* request leaves the slot, unless it has come to the trackers, whose silence does stop
\* it (_onServicesResponse).
AskedATracker(c) == \E a \in Asks : jn.question[a].kind = "services" /\ jn.question[a].for = c

RequestEnds ==
  \A c \in Callers :
    jn.request # None /\ last = c ~> jn.request = None \/ last # c \/ AskedATracker(c)
==============================================================================
