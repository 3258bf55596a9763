-------------------------- MODULE JingleNodesProofs --------------------------
(***************************************************************************)
(* Proofs about modules JingleNodes and IqRequests.                        *)
(*                                                                         *)
(* The slot of the channel requests, for any number of calls, relays,      *)
(* trackers, tries and questions, and whatever IqRequests does about       *)
(* timeouts and late answers: that part never looks into jn.iq.            *)
(*                                                                         *)
(* The IQs by themselves: what the callback of a request may see.          *)
(***************************************************************************)
EXTENDS JingleNodes, IqRequests, SequenceTheorems, TLAPS

\* The fields of the service that matter, with the kinds of their values.
Fields(s) ==
  /\ s = [relays |-> s.relays, trackers |-> s.trackers, asked |-> s.asked,
          request |-> s.request, iq |-> s.iq, question |-> s.question,
          heard |-> s.heard]
  /\ s.relays \subseteq Relays
  /\ s.request \in Request \cup {None}
  /\ s.heard \in [Callers -> Nat]

\* The latest caller l is in the slot or has been called, the callers R that have
\* requested a channel have been called once at most, and the others never.
Served(s, l, R) ==
  /\ Fields(s)
  /\ l \in R \cup {None} /\ R \subseteq Callers
  /\ s.request # None => s.request.caller = l /\ s.heard[l] = 0
  /\ s.request = None /\ l # None => s.heard[l] = 1
  /\ \A c \in Callers : s.heard[c] \in {0, 1} /\ (s.heard[c] = 1 => c \in R)

\* The inductive invariant: the service serves the callers of the history.
SlotInv == Served(jn, last, requested)

-----------------------------------------------------------------------------
(* The service's methods keep it                                           *)

\* Whatever happens to the IQs, the slot and the callbacks are not touched.
LEMMA IqServes ==
  ASSUME NEW s, NEW l, NEW R, Served(s, l, R), NEW i
  PROVE  Served([s EXCEPT !.iq = i], l, R)
<1> DEFINE t == [s EXCEPT !.iq = i]
<1>1. Fields(s)
  BY DEF Served
<1>2. t = [relays |-> s.relays, trackers |-> s.trackers, asked |-> s.asked,
           request |-> s.request, iq |-> i, question |-> s.question, heard |-> s.heard]
  BY <1>1 DEF Fields
<1> HIDE DEF t
<1>3. Fields(t) /\ t.request = s.request /\ t.heard = s.heard
  BY <1>1, <1>2 DEF Fields
<1> QED
  BY <1>3 DEF Served, t

\* Neither are they by the text of a question.
LEMMA QuestionServes ==
  ASSUME NEW s, NEW l, NEW R, Served(s, l, R), NEW q
  PROVE  Served([s EXCEPT !.question = q], l, R)
<1> DEFINE t == [s EXCEPT !.question = q]
<1>1. Fields(s)
  BY DEF Served
<1>2. t = [relays |-> s.relays, trackers |-> s.trackers, asked |-> s.asked,
           request |-> s.request, iq |-> s.iq, question |-> q, heard |-> s.heard]
  BY <1>1 DEF Fields
<1> HIDE DEF t
<1>3. Fields(t) /\ t.request = s.request /\ t.heard = s.heard
  BY <1>1, <1>2 DEF Fields
<1> QED
  BY <1>3 DEF Served, t

\* Nor by the flags of the trackers.
LEMMA AskedFlagServes ==
  ASSUME NEW s, NEW l, NEW R, Served(s, l, R), NEW f
  PROVE  Served([s EXCEPT !.asked = f], l, R)
<1> DEFINE t == [s EXCEPT !.asked = f]
<1>1. Fields(s)
  BY DEF Served
<1>2. t = [relays |-> s.relays, trackers |-> s.trackers, asked |-> f,
           request |-> s.request, iq |-> s.iq, question |-> s.question,
           heard |-> s.heard]
  BY <1>1 DEF Fields
<1> HIDE DEF t
<1>3. Fields(t) /\ t.request = s.request /\ t.heard = s.heard
  BY <1>1, <1>2 DEF Fields
<1> QED
  BY <1>3 DEF Served, t

\* New trackers and relays do not disturb them either.
LEMMA TrackersServe ==
  ASSUME NEW s, NEW l, NEW R, Served(s, l, R), NEW n
  PROVE  Served([s EXCEPT !.trackers = n], l, R)
<1> DEFINE t == [s EXCEPT !.trackers = n]
<1>1. Fields(s)
  BY DEF Served
<1>2. t = [relays |-> s.relays, trackers |-> n, asked |-> s.asked,
           request |-> s.request, iq |-> s.iq, question |-> s.question,
           heard |-> s.heard]
  BY <1>1 DEF Fields
<1> HIDE DEF t
<1>3. Fields(t) /\ t.request = s.request /\ t.heard = s.heard
  BY <1>1, <1>2 DEF Fields
<1> QED
  BY <1>3 DEF Served, t

LEMMA RelaysServe ==
  ASSUME NEW s, NEW l, NEW R, Served(s, l, R), NEW n \in SUBSET Relays
  PROVE  Served([s EXCEPT !.relays = @ \cup n], l, R)
<1> DEFINE t == [s EXCEPT !.relays = @ \cup n]
<1>1. Fields(s)
  BY DEF Served
<1>2. t = [relays |-> s.relays \cup n, trackers |-> s.trackers, asked |-> s.asked,
           request |-> s.request, iq |-> s.iq, question |-> s.question,
           heard |-> s.heard]
  BY <1>1 DEF Fields
<1> HIDE DEF t
<1>3. Fields(t) /\ t.request = s.request /\ t.heard = s.heard
  BY <1>1, <1>2 DEF Fields
<1> QED
  BY <1>3 DEF Served, t

\* A request with the same caller takes the place of the one in the slot.
LEMMA RequestServes ==
  ASSUME NEW s, NEW l, NEW R, Served(s, l, R),
         NEW r \in Request, r.caller = l, s.request # None
  PROVE  Served([s EXCEPT !.request = r], l, R)
<1> DEFINE t == [s EXCEPT !.request = r]
<1>1. Fields(s)
  BY DEF Served
<1>2. t = [relays |-> s.relays, trackers |-> s.trackers, asked |-> s.asked,
           request |-> r, iq |-> s.iq, question |-> s.question, heard |-> s.heard]
  BY <1>1 DEF Fields
<1> HIDE DEF t
<1>3. Fields(t) /\ t.request = r /\ t.heard = s.heard
  BY <1>1, <1>2 DEF Fields
<1>4. r # None
  BY NodesAssumption DEF Request
<1> QED
  BY <1>3, <1>4 DEF Served, t

\* Sending a question.
LEMMA AskedServes ==
  ASSUME NEW s, NEW l, NEW R, Served(s, l, R), NEW kind, NEW to, NEW for
  PROVE  Served(Asked(s, kind, to, for), l, R)
<1> DEFINE a == Cardinality(s.iq.sent) + 1
           i == Iq!SendIq(s.iq, a)
           q == [s.question EXCEPT ![a] = [kind |-> kind, to |-> to, for |-> for]]
           u == [s EXCEPT !.iq = i]
<1>1. Asked(s, kind, to, for) = [u EXCEPT !.question = q]
  BY Zenon DEF Asked
<1> HIDE DEF i, q, u
<1>2. Served(u, l, R)
  BY IqServes DEF u
<1> QED
  BY <1>1, <1>2, QuestionServes

\* Calling the request's callback empties the slot, and it was the latest one's.
LEMMA FinishedServes ==
  ASSUME NEW s, NEW l, NEW R, Served(s, l, R), s.request # None
  PROVE  Served(Finished(s), l, R)
<1> DEFINE h == [s.heard EXCEPT ![s.request.caller] = @ + 1]
           u == [s EXCEPT !.heard = h]
           t == Finished(s)
<1>1. Fields(s) /\ s.request.caller = l /\ l \in Callers /\ l \in R /\ s.heard[l] = 0
  BY NodesAssumption DEF Served, Fields, Request
<1>2. t = [u EXCEPT !.request = None]
  BY Zenon DEF Finished
<1>3. /\ h \in [Callers -> Nat] /\ h[l] = 1
      /\ \A c \in Callers \ {l} : h[c] = s.heard[c]
  BY <1>1 DEF Fields
<1> HIDE DEF h, t, u
<1>4. u = [relays |-> s.relays, trackers |-> s.trackers, asked |-> s.asked,
           request |-> s.request, iq |-> s.iq, question |-> s.question, heard |-> h]
  BY <1>1 DEF Fields, u
<1>5. t = [relays |-> s.relays, trackers |-> s.trackers, asked |-> s.asked,
           request |-> None, iq |-> s.iq, question |-> s.question, heard |-> h]
  BY <1>2, <1>4
<1>6. Fields(t) /\ t.request = None /\ t.heard = h
  BY <1>1, <1>3, <1>5 DEF Fields
<1> QED
  BY <1>1, <1>3, <1>6 DEF Served, t

\* Asking a relay for a channel.
LEMMA AskForChannelServes ==
  ASSUME NEW s, NEW l, NEW R, Served(s, l, R), s.request # None, NEW n \in Relays
  PROVE  Served(AskForChannel(s, n), l, R)
<1> DEFINE r == [s.request EXCEPT !.taken = @ \cup {n}, !.tries = @ + 1]
           u == [s EXCEPT !.request = r]
<1>1. s.request \in Request /\ s.request.caller = l
  BY DEF Served, Fields
<1>2. r \in Request /\ r.caller = l
  <2> DEFINE p == [s.request EXCEPT !.taken = @ \cup {n}]
  <2>1. p \in Request /\ p.caller = l /\ p.tries = s.request.tries
    BY <1>1 DEF Request
  <2>2. r = [p EXCEPT !.tries = s.request.tries + 1]
    OBVIOUS
  <2> HIDE DEF p, r
  <2> QED
    BY <1>1, <2>1, <2>2 DEF Request
<1>3. AskForChannel(s, n) = Asked(u, "channel", n, r.caller)
  BY Zenon DEF AskForChannel
<1> HIDE DEF r
<1>4. Served(u, l, R)
  BY <1>2, RequestServes
<1> QED
  BY <1>3, <1>4, AskedServes

\* Asking a tracker for services.
LEMMA AskForServicesServes ==
  ASSUME NEW s, NEW l, NEW R, Served(s, l, R), NEW n, NEW for
  PROVE  Served(AskForServices(s, n, for), l, R)
<1>1. Served([s EXCEPT !.asked = @ \cup {n}], l, R)
  BY AskedFlagServes
<1> QED
  BY <1>1, AskedServes DEF AskForServices

\* Looking for a channel, whichever relay or tracker is picked.
LEMMA ContinueServes ==
  ASSUME NEW s, NEW l, NEW R, Served(s, l, R), NEW t \in Continue(s)
  PROVE  Served(t, l, R)
<1>1. CASE s.request = None
  BY <1>1 DEF Continue
<1>2. CASE s.request # None
  <2>1. t \in RequestChannel(s)
    BY <1>2 DEF Continue
  <2>2. s.relays \subseteq Relays
    BY DEF Served, Fields
  <2>3. \/ t = Finished(s)
        \/ \E n \in Relays : t = AskForChannel(s, n)
        \/ \E n : t = AskForServices(s, n, s.request.caller)
    BY <2>1, <2>2, Zenon DEF RequestChannel
  <2> QED
    BY <1>2, <2>3, FinishedServes, AskForChannelServes, AskForServicesServes
<1> QED
  BY <1>1, <1>2

\* Answers and timeouts, in time or late, for this request or an earlier one.
LEMMA ResponseServes ==
  ASSUME NEW s, NEW l, NEW R, Served(s, l, R), NEW a, NEW ok, NEW t \in Response(s, a, ok)
  PROVE  Served(t, l, R)
<1>1. CASE t \in OnChannelResponse(s, ok)
  BY <1>1, ContinueServes, FinishedServes DEF OnChannelResponse
<1>2. CASE t \in OnServicesResponse(s, ok)
  <2> DEFINE Found == [relays : SUBSET Relays, trackers : SUBSET Trackers]
             After(new) == [[s EXCEPT !.relays = s.relays \cup new.relays]
                              EXCEPT !.trackers = s.trackers \cup new.trackers]
  <2>1. ASSUME NEW new \in Found
        PROVE  Served(After(new), l, R)
    <3> DEFINE u == [s EXCEPT !.relays = s.relays \cup new.relays]
    <3>1. new.relays \in SUBSET Relays
      OBVIOUS
    <3>2. Served(u, l, R)
      BY <3>1, RelaysServe, Zenon
    <3> HIDE DEF u
    <3> QED
      BY <3>2, TrackersServe DEF u
  <2>2. OnServicesResponse(s, ok) =
          IF ~ok THEN {s} ELSE UNION {Continue(After(new)) : new \in Found}
    BY Zenon DEF OnServicesResponse
  <2> HIDE DEF After, Found
  <2>3. t = s \/ \E new \in Found : t \in Continue(After(new))
    BY <1>2, <2>2, Zenon
  <2> QED
    BY <2>1, <2>3, ContinueServes
<1> QED
  BY <1>1, <1>2 DEF Response

-----------------------------------------------------------------------------
(* Every step of the service                                               *)

LEMMA SlotInit == Init => SlotInv
<1> SUFFICES ASSUME Init PROVE SlotInv
  OBVIOUS
<1>1. Fields(jn) /\ jn.request = None /\ \A c \in Callers : jn.heard[c] = 0
  BY DEF Init, Fields
<1> QED
  BY <1>1 DEF Init, SlotInv, Served

\* A call overwrites whatever is in the slot. It has not been called back: it
\* requests a channel for the first time.
LEMMA CallKeepsSlotInv ==
  ASSUME SlotInv, NEW c \in Callers, CallRequestsChannel(c)
  PROVE  SlotInv'
<1>1. PICK peer \in Relays \cup {None} :
        jn' \in RequestChannel([jn EXCEPT !.request =
                 [caller |-> c, connectWith |-> peer, taken |-> {}, tries |-> 0]])
  BY DEF CallRequestsChannel
<1>2. c \notin requested /\ requested' = requested \cup {c} /\ last' = c
  BY DEF CallRequestsChannel
<1> DEFINE r == [caller |-> c, connectWith |-> peer, taken |-> {}, tries |-> 0]
           u == [jn EXCEPT !.request = r]
<1>3. r \in Request /\ r.caller = c /\ r # None
  BY NodesAssumption DEF Request
<1>4. jn' \in RequestChannel(u)
  BY <1>1
<1>5. Fields(jn)
  BY DEF SlotInv, Served
<1> HIDE DEF r
<1>6. u = [relays |-> jn.relays, trackers |-> jn.trackers, asked |-> jn.asked,
           request |-> r, iq |-> jn.iq, question |-> jn.question, heard |-> jn.heard]
  BY <1>5 DEF Fields
<1> HIDE DEF u
<1>7. Fields(u) /\ u.request = r /\ u.heard = jn.heard
  BY <1>3, <1>5, <1>6 DEF Fields
<1>8. jn.heard[c] = 0
  BY <1>2 DEF SlotInv, Served
<1>9. Served(u, last', requested')
  BY <1>2, <1>3, <1>7, <1>8 DEF SlotInv, Served
<1>10. jn' \in Continue(u)
  BY <1>3, <1>4, <1>7 DEF Continue
<1> QED
  BY <1>9, <1>10, ContinueServes DEF SlotInv

\* The other steps leave the history alone.
LEMMA OthersKeepSlotInv ==
  ASSUME SlotInv, Next, UNCHANGED <<last, requested>>,
         \A c \in Callers : ~CallRequestsChannel(c)
  PROVE  SlotInv'
<1> SUFFICES Served(jn', last, requested)
  BY DEF SlotInv
<1> USE DEF SlotInv
<1>1. CASE SignIn
  <2>1. jn' = [jn EXCEPT !.iq = [jn.iq EXCEPT !.online = TRUE]]
    BY <1>1, Zenon DEF SignIn
  <2> QED
    BY <2>1, IqServes
<1>2. CASE Lost
  <2>1. jn' = [jn EXCEPT !.iq = Iq!LoseConnection(jn.iq)]
    BY <1>2, Zenon DEF Lost
  <2> QED
    BY <2>1, IqServes
<1>3. CASE ServerListsNodes
  BY <1>3, AskedServes DEF ServerListsNodes
<1>4. CASE \E n \in Relays : OnNodeChannelContact(n)
  <2>1. PICK n \in Relays : jn' \in Continue([jn EXCEPT !.relays = @ \cup {n}])
    BY <1>4 DEF OnNodeChannelContact
  <2>2. Served([jn EXCEPT !.relays = @ \cup {n}], last, requested)
    BY RelaysServe
  <2> QED
    BY <2>1, <2>2, ContinueServes
<1>5. CASE \E n \in Trackers : OnNodeContact(n)
  <2>1. PICK n \in Trackers : OnNodeContact(n)
    BY <1>5
  <2> DEFINE s == [jn EXCEPT !.trackers = jn.trackers \cup {n}]
  <2>2. jn' \in Continue(IF s.trackers = {n} THEN AskForServices(s, n, None) ELSE s)
    BY <2>1, Zenon DEF OnNodeContact
  <2>3. Served(s, last, requested)
    BY TrackersServe
  <2> HIDE DEF s
  <2>4. Served(AskForServices(s, n, None), last, requested)
    BY <2>3, AskForServicesServes
  <2> QED
    BY <2>2, <2>3, <2>4, ContinueServes
<1>6. CASE \E a \in Asks : Answer(a)
  <2>1. PICK a \in Asks : Answer(a)
    BY <1>6
  <2> DEFINE s == [jn EXCEPT !.iq = Iq!AnswerIq(jn.iq, a)]
  <2>2. PICK ok \in BOOLEAN :
          jn' \in IF Iq!Delivers(jn.iq, a) THEN Response(s, a, ok) ELSE {s}
    BY <2>1, Zenon DEF Answer
  <2>3. Served(s, last, requested)
    BY IqServes
  <2> HIDE DEF s
  <2>4. jn' \in Response(s, a, ok) \/ jn' = s
    BY <2>2, Zenon
  <2> QED
    BY <2>3, <2>4, ResponseServes
<1>7. CASE \E a \in Asks : TimesOut(a)
  <2>1. PICK a \in Asks : TimesOut(a)
    BY <1>7
  <2> DEFINE s == [jn EXCEPT !.iq = Iq!TimeOutIq(jn.iq, a)]
  <2>2. jn' \in Response(s, a, FALSE)
    BY <2>1, Zenon DEF TimesOut
  <2>3. Served(s, last, requested)
    BY IqServes
  <2> HIDE DEF s
  <2> QED
    BY <2>2, <2>3, ResponseServes
<1> QED
  BY <1>1, <1>2, <1>3, <1>4, <1>5, <1>6, <1>7 DEF Next

LEMMA StepKeepsSlotInv == SlotInv /\ [Next]_vars => SlotInv'
<1> SUFFICES ASSUME SlotInv, [Next]_vars PROVE SlotInv'
  OBVIOUS
<1>1. CASE UNCHANGED vars
  BY <1>1 DEF SlotInv, vars
<1>2. CASE \E c \in Callers : CallRequestsChannel(c)
  BY <1>2, CallKeepsSlotInv
<1>3. CASE Next /\ \A c \in Callers : ~CallRequestsChannel(c)
  <2>1. UNCHANGED <<last, requested>>
    BY <1>3 DEF Next, SignIn, Lost, ServerListsNodes, OnNodeChannelContact,
                OnNodeContact, Answer, TimesOut
  <2> QED
    BY <1>3, <2>1, OthersKeepSlotInv
<1> QED
  BY <1>1, <1>2, <1>3

\* The invariant holds in every state the service can reach.
THEOREM SlotInductive == Spec => []SlotInv
  BY SlotInit, StepKeepsSlotInv, PTL DEF Spec

\* Whoever requests a channel hears about it once at most: the callback of a call
\* that finds its request in the slot (lines 90, 100, 124, 169) has not been called.
THEOREM CalledOnce == Spec => []HeardOnce
<1>1. SlotInv => HeardOnce
  BY DEF SlotInv, Served, HeardOnce
<1> QED
  BY <1>1, SlotInductive, PTL

\* The slot holds the latest request until its caller has been called, and is empty
\* afterwards, whatever answers, timeouts and contacts come in between.
THEOREM LatestServed == Spec => []LatestIsServed
<1>1. SlotInv => LatestIsServed
  BY DEF SlotInv, Served, LatestIsServed
<1> QED
  BY <1>1, SlotInductive, PTL

-----------------------------------------------------------------------------
(* The IQs by themselves, for any set of requests                          *)

IqFields == {"online", "sent", "regIDs", "timers", "aborted", "calls"}

\* The sequences of calls that a request may see before its answer.
Waiting(r) == IF r \in Timed THEN {<<>>, <<"timeout">>} ELSE {<<>>}

\* A timer that runs and an id in the table say how far the callback can be: the
\* timer has not called it, and the answer has not.
CallsInv ==
  /\ DOMAIN iq = IqFields
  /\ iq.timers \subseteq Timed
  /\ iq.regIDs \subseteq Requests
  /\ iq.calls \in [Requests -> Seq({"answer", "timeout"})]
  /\ \A r \in Requests :
       /\ iq.calls[r] \in Waiting(r) \cup {Append(w, "answer") : w \in Waiting(r)}
       /\ r \in iq.regIDs => iq.calls[r] \in Waiting(r)
       /\ r \in iq.timers => iq.calls[r] = <<>>
       /\ r \notin iq.sent => iq.calls[r] = <<>> /\ r \notin iq.regIDs \cup iq.timers

LEMMA CallsInit == IqInit => CallsInv
  BY RequestsAssumption DEF IqInit, NoRequests, CallsInv, Waiting, IqFields

\* One more call of one callback; the other fields stay.
LEMMA CalledFields ==
  ASSUME NEW q, DOMAIN q = IqFields, NEW r, NEW how
  PROVE  /\ DOMAIN Called(q, r, how) = IqFields
         /\ \A f \in IqFields \ {"calls"} : Called(q, r, how)[f] = q[f]
         /\ Called(q, r, how).calls = [q.calls EXCEPT ![r] = Append(@, how)]
  BY DEF Called, IqFields

LEMMA SendFields ==
  ASSUME NEW q, DOMAIN q = IqFields, NEW r
  PROVE  /\ DOMAIN SendIq(q, r) = IqFields
         /\ SendIq(q, r).calls = q.calls
         /\ SendIq(q, r).sent = q.sent \cup {r}
         /\ SendIq(q, r).timers = q.timers \cup ({r} \cap Timed)
         /\ SendIq(q, r).regIDs \subseteq q.regIDs \cup {r}
  BY DEF SendIq, IqFields

LEMMA AnswerFields ==
  ASSUME NEW q, DOMAIN q = IqFields, NEW r
  PROVE  /\ DOMAIN AnswerIq(q, r) = IqFields
         /\ AnswerIq(q, r).sent = q.sent
         /\ AnswerIq(q, r).timers = q.timers \ {r}
         /\ AnswerIq(q, r).regIDs = q.regIDs \ {r}
         /\ \/ AnswerIq(q, r).calls = q.calls
            \/ AnswerIq(q, r).calls = [q.calls EXCEPT ![r] = Append(@, "answer")]
<1> DEFINE p == [q EXCEPT !.regIDs = q.regIDs \ {r}, !.timers = q.timers \ {r}]
<1>1. /\ DOMAIN p = IqFields /\ p.sent = q.sent /\ p.timers = q.timers \ {r}
      /\ p.regIDs = q.regIDs \ {r} /\ p.calls = q.calls
  BY DEF IqFields
<1>2. AnswerIq(q, r) = p \/ AnswerIq(q, r) = Called(p, r, "answer")
  BY Zenon DEF AnswerIq
<1> HIDE DEF p
<1>3. /\ DOMAIN Called(p, r, "answer") = IqFields
      /\ \A f \in IqFields \ {"calls"} : Called(p, r, "answer")[f] = p[f]
      /\ Called(p, r, "answer").calls = [p.calls EXCEPT ![r] = Append(@, "answer")]
  BY <1>1 DEF Called, IqFields
<1>4. CASE AnswerIq(q, r) = p
  BY <1>1, <1>4
<1>5. CASE AnswerIq(q, r) = Called(p, r, "answer")
  BY <1>1, <1>3, <1>5 DEF IqFields
<1> QED
  BY <1>2, <1>4, <1>5

LEMMA TimeoutFields ==
  ASSUME NEW q, DOMAIN q = IqFields, NEW r
  PROVE  /\ DOMAIN TimeOutIq(q, r) = IqFields
         /\ TimeOutIq(q, r).sent = q.sent
         /\ TimeOutIq(q, r).timers = q.timers \ {r}
         /\ TimeOutIq(q, r).regIDs = q.regIDs
         /\ TimeOutIq(q, r).calls = [q.calls EXCEPT ![r] = Append(@, "timeout")]
<1> DEFINE p == [q EXCEPT !.timers = q.timers \ {r}]
<1>1. /\ DOMAIN p = IqFields /\ p.sent = q.sent /\ p.timers = q.timers \ {r}
      /\ p.regIDs = q.regIDs /\ p.calls = q.calls
  BY DEF IqFields
<1>2. TimeOutIq(q, r) = Called(p, r, "timeout")
  BY Zenon DEF TimeOutIq
<1> HIDE DEF p
<1>3. /\ DOMAIN Called(p, r, "timeout") = IqFields
      /\ \A f \in IqFields \ {"calls"} : Called(p, r, "timeout")[f] = p[f]
      /\ Called(p, r, "timeout").calls = [p.calls EXCEPT ![r] = Append(@, "timeout")]
  BY <1>1 DEF Called, IqFields
<1> QED
  BY <1>1, <1>2, <1>3 DEF IqFields

-----------------------------------------------------------------------------
(* Every step keeps the invariant                                          *)

\* sendIq finds a request that has not been sent and puts it on its way.
LEMMA SendKeeps ==
  ASSUME CallsInv, NEW r \in Requests, Send(r)
  PROVE  CallsInv'
<1>1. /\ DOMAIN iq' = IqFields /\ iq'.calls = iq.calls /\ iq'.sent = iq.sent \cup {r}
      /\ iq'.timers = iq.timers \cup ({r} \cap Timed)
      /\ iq'.regIDs \subseteq iq.regIDs \cup {r}
  BY SendFields DEF Send, CallsInv
<1>2. iq.calls[r] = <<>>
  BY DEF Send, CallsInv
<1> QED
  BY <1>1, <1>2 DEF CallsInv, Waiting

\* An answer takes the id out of the table and stops the timer, so that no call can
\* follow it.
LEMMA AnswerKeeps ==
  ASSUME CallsInv, NEW r \in Requests, AnswerArrives(r)
  PROVE  CallsInv'
<1>1. /\ DOMAIN iq' = IqFields /\ iq'.sent = iq.sent
      /\ iq'.timers = iq.timers \ {r} /\ iq'.regIDs = iq.regIDs \ {r}
      /\ \/ iq'.calls = iq.calls
         \/ iq'.calls = [iq.calls EXCEPT ![r] = Append(@, "answer")]
  BY AnswerFields DEF AnswerArrives, CallsInv
<1>2. /\ r \in iq.sent /\ iq.calls[r] \in Waiting(r)
      /\ iq.calls \in [Requests -> Seq({"answer", "timeout"})]
  BY DEF AnswerArrives, CallsInv
<1>3. CASE iq'.calls = iq.calls
  BY <1>1, <1>3 DEF CallsInv
<1>4. CASE iq'.calls = [iq.calls EXCEPT ![r] = Append(@, "answer")]
  <2> DEFINE w == Append(iq.calls[r], "answer")
  <2>1. w \in Seq({"answer", "timeout"}) /\ w \in {Append(v, "answer") : v \in Waiting(r)}
    BY <1>2
  <2>2. iq'.calls = [iq.calls EXCEPT ![r] = w]
    BY <1>4
  <2> HIDE DEF w
  <2>3. /\ iq'.calls \in [Requests -> Seq({"answer", "timeout"})] /\ iq'.calls[r] = w
        /\ \A s \in Requests \ {r} : iq'.calls[s] = iq.calls[s]
    BY <1>2, <2>1, <2>2
  <2> QED
    BY <1>1, <1>2, <2>1, <2>3 DEF CallsInv
<1> QED
  BY <1>1, <1>3, <1>4

\* The timer calls first; the id stays in the table.
LEMMA TimeoutKeeps ==
  ASSUME CallsInv, NEW r \in Requests, TimerFires(r)
  PROVE  CallsInv'
<1>1. /\ DOMAIN iq' = IqFields /\ iq'.sent = iq.sent
      /\ iq'.timers = iq.timers \ {r} /\ iq'.regIDs = iq.regIDs
      /\ iq'.calls = [iq.calls EXCEPT ![r] = Append(@, "timeout")]
  BY TimeoutFields DEF TimerFires, CallsInv
<1>2. /\ r \in Timed /\ iq.calls[r] = <<>> /\ r \in iq.sent
      /\ iq.calls \in [Requests -> Seq({"answer", "timeout"})]
  BY DEF TimerFires, CallsInv
<1>3. /\ Append(iq.calls[r], "timeout") = <<"timeout">> /\ <<"timeout">> \in Waiting(r)
      /\ <<"timeout">> \in Seq({"answer", "timeout"})
  BY <1>2 DEF Waiting
<1>4. /\ iq'.calls \in [Requests -> Seq({"answer", "timeout"})]
      /\ iq'.calls[r] = <<"timeout">>
      /\ \A s \in Requests \ {r} : iq'.calls[s] = iq.calls[s]
  BY <1>1, <1>2, <1>3
<1> QED
  BY <1>1, <1>2, <1>3, <1>4 DEF CallsInv

LEMMA CallsStep == CallsInv /\ [IqNext]_iq => CallsInv'
<1> SUFFICES ASSUME CallsInv, [IqNext]_iq PROVE CallsInv'
  OBVIOUS
<1>1. CASE Connects \/ ConnectionLost
  <2>1. /\ DOMAIN iq' = IqFields /\ iq'.sent = iq.sent /\ iq'.timers = iq.timers
        /\ iq'.regIDs \subseteq iq.regIDs /\ iq'.calls = iq.calls
    BY <1>1 DEF Connects, ConnectionLost, LoseConnection, CallsInv, IqFields
  <2> QED
    BY <2>1 DEF CallsInv
<1>2. CASE UNCHANGED iq
  BY <1>2 DEF CallsInv
<1> QED
  BY <1>1, <1>2, SendKeeps, AnswerKeeps, TimeoutKeeps DEF IqNext

\* Whatever happens to answers, timers and connections, a callback sees nothing, one
\* answer, the timeout, or the timeout and then the late answer (sendIq, _handlePID).
THEOREM LegalCalls == IqSpec => []TimeoutThenAnswerAtMost
<1>1. CallsInv => TimeoutThenAnswerAtMost
  <2>1. /\ Append(<<>>, "answer") = <<"answer">>
        /\ Append(<<"timeout">>, "answer") = <<"timeout", "answer">>
    <3>1. Append(<<>>, "answer") = <<"answer">>
      BY AppendProperties
    <3>2. Append(<<"timeout">>, "answer") = <<"timeout", "answer">>
      <4>1. <<"timeout">> \in Seq({"answer", "timeout"})
        OBVIOUS
      <4>2. /\ Append(<<"timeout">>, "answer") \in Seq({"answer", "timeout"})
            /\ Len(Append(<<"timeout">>, "answer")) = 2
            /\ Append(<<"timeout">>, "answer")[1] = "timeout"
            /\ Append(<<"timeout">>, "answer")[2] = "answer"
        BY <4>1
      <4> DEFINE t == Append(<<"timeout">>, "answer")
      <4>3. t = <<t[1], t[2]>>
        <5>1. t \in Seq({"answer", "timeout"}) /\ Len(t) = 2
          BY <4>2
        <5> HIDE DEF t
        <5> QED
          BY <5>1
      <4> QED
        BY <4>2, <4>3
    <3> QED
      BY <3>1, <3>2
  <2> QED
    BY <2>1 DEF CallsInv, Waiting, TimeoutThenAnswerAtMost
<1> QED
  BY <1>1, CallsInit, CallsStep, PTL DEF IqSpec
=============================================================================
