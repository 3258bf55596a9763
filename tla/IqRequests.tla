------------------------------ MODULE IqRequests ------------------------------
(***************************************************************************)
(* Requests of the client and their answers: ServicesManager.sendIq with   *)
(* its timeout, and the table of ids (_regIDs) of the connection object    *)
(* that brings an answer back to the callback it was sent with.            *)
(*                                                                         *)
(* Everything about the requests is one record, so that a component that   *)
(* sends a new request from a callback can compose the two.                *)
(***************************************************************************)
EXTENDS Naturals, Sequences

CONSTANTS
  Requests,      \* the IQs that can be sent, named by their id
  Timed,         \* those that are sent with a timeout
  DeliverLate    \* those with deliverRealResultAfterTimeout

ASSUME RequestsAssumption == Timed \subseteq Requests /\ DeliverLate \subseteq Timed

VARIABLE iq

IqRecord ==
  [ online : BOOLEAN,           \* account.connection is connected
    sent : SUBSET Requests,
    regIDs : SUBSET Requests,   \* a callback waits in the connection's table
    timers : SUBSET Timed,      \* setTimeout has been called and not fired
    aborted : SUBSET Timed,     \* state.aborted
    calls : [Requests -> Seq({"answer", "timeout"})] ]  \* history: callback calls

NoRequests ==
  [ online |-> FALSE, sent |-> {}, regIDs |-> {}, timers |-> {}, aborted |-> {},
    calls |-> [r \in Requests |-> <<>>] ]

Called(q, r, how) == [q EXCEPT !.calls[r] = Append(@, how)]

\* sendIq: the timer is set first; without a connection nobody gets the request.
SendIq(q, r) ==
  [q EXCEPT !.sent = @ \cup {r}, !.timers = @ \cup ({r} \cap Timed),
            !.regIDs = IF q.online THEN @ \cup {r} ELSE @]

\* Mutant: the timer is not cleared.
AnswerIqTimerRuns(q, r) ==
  Called([q EXCEPT !.regIDs = @ \ {r}], r, "answer")

\* Does the answer reach the caller? state.aborted is asked first.
Delivers(q, r) == r \notin q.aborted \/ r \in DeliverLate

\* _handlePID finds the callback and forgets it; an answer clears the timer.
AnswerIq(q, r) ==
  LET p == [q EXCEPT !.regIDs = @ \ {r}, !.timers = @ \ {r}]
  IN  IF Delivers(q, r) THEN Called(p, r, "answer") ELSE p

\* The timer's call of the same function. Its own arguments come before the bound
\* ones, so that "state" is the boolean true and state.aborted is set nowhere.
TimeOutIq(q, r) == Called([q EXCEPT !.timers = @ \ {r}], r, "timeout")

\* The connection object is dropped, and its table of ids with it.
LoseConnection(q) == [q EXCEPT !.online = FALSE, !.regIDs = {}]

-----------------------------------------------------------------------------
IqInit == iq = NoRequests

Connects ==
  /\ ~iq.online
  /\ iq' = [iq EXCEPT !.online = TRUE]

ConnectionLost ==
  /\ iq.online
  /\ iq' = LoseConnection(iq)

Send(r) ==
  /\ r \notin iq.sent
  /\ iq' = SendIq(iq, r)

\* The addressee answers, once, with a result or an error.
AnswerArrives(r) ==
  /\ r \in iq.regIDs
  /\ iq' = AnswerIq(iq, r)

TimerFires(r) ==
  /\ r \in iq.timers
  /\ iq' = TimeOutIq(iq, r)

IqNext ==
  \/ Connects \/ ConnectionLost
  \/ \E r \in Requests : Send(r) \/ AnswerArrives(r) \/ TimerFires(r)

IqSpec == IqInit /\ [][IqNext]_iq

-----------------------------------------------------------------------------
(* Properties                                                              *)

\* The record holds values of its kinds; only requests with a timeout have a timer.
IqTypeOK == iq \in IqRecord

\* What a caller has to be prepared for: nothing, one answer, the timeout, or the
\* timeout and then the answer, and never a timeout after the answer, however
\* answers, timers and lost connections follow each other.
TimeoutThenAnswerAtMost ==
  \A r \in Requests :
    iq.calls[r] \in {<<>>, <<"answer">>} \cup
                    (IF r \in Timed THEN {<<"timeout">>, <<"timeout", "answer">>} ELSE {})

==============================================================================
