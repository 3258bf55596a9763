------------------------------- MODULE JNRelay --------------------------------
(***************************************************************************)
(* The relay that this client offers to others (otJNRelay): the main       *)
(* thread allocates relays, a relay thread polls their sockets, forwards   *)
(* packets and closes relays nobody uses.  Both work on one table, without *)
(* a lock around it: the main thread raises a pollable event and waits in  *)
(* a monitor until the relay thread has stopped in the same monitor.       *)
(*                                                                         *)
(* A relay is four sockets that come and go together, so the table is a    *)
(* sequence of relays and mNumSockets is 1 + 4 * Len(table) while the      *)
(* service runs.  What a thread does inside the monitor, from entering to  *)
(* leaving or waiting, is one action.                                      *)
(***************************************************************************)
EXTENDS Naturals, SequencesExt

CONSTANTS
  Relays,       \* relays; one that was closed can be allocated anew
  MaxRelays,    \* MAX_RELAYS, 5 in the code
  Interval,     \* mInactivityInterval, in ticks of the model's clock
  MaxThreads    \* bound of the model: how often Init() creates a thread

ASSUME RelayAssumption ==
  /\ MaxRelays \in Nat \ {0}
  /\ Interval \in Nat \ {0}
  /\ MaxThreads \in Nat \ {0}

VARIABLES
  main,        \* where the main thread stands
  status,      \* mNumSockets: -1, 0, at least 1, -2
  table,       \* the relays in mSockets, in that order
  mTimeouts,   \* [1..MaxRelays -> 0..Interval], the ticks left
  current,     \* the thread, event and monitor Init() made last, 0 for none
  signalled,   \* the pollable events that are set
  pc,          \* [Threads -> Places], where each relay thread stands
  poll,        \* [Threads -> Polled], what it polls
  left         \* history: the ticks until nobody has used the relay for Interval

vars == <<main, status, table, mTimeouts, current, signalled, pc, poll, left>>

Threads == 1..MaxThreads
Never == Interval + 2     \* PR_INTERVAL_NO_TIMEOUT

\* A relay thread shares its number with the event and the monitor Init() made with it.
Places == {"none", "loop", "polling", "consuming", "notifying", "waiting", "woken",
           "passing", "gone"}

\* The event and the relays a thread polls, and the timeout it does so with.
Polled == [event : 0..MaxThreads, relays : SUBSET Relays, timeout : 0..Never]

Init ==
  /\ main = "idle"
  /\ status = "unknown"
  /\ table = <<>>
  /\ mTimeouts = [i \in 1..MaxRelays |-> 0]
  /\ current = 0
  /\ signalled = {}
  /\ pc = [t \in Threads |-> "none"]
  /\ poll = [t \in Threads |-> [event |-> 0, relays |-> {}, timeout |-> Never]]
  /\ left = [r \in Relays |-> 0]

Go(t, place) == pc' = [pc EXCEPT ![t] = place]

-----------------------------------------------------------------------------
(* The main thread                                                         *)

\* GetHasPublicAddress
FindPublicAddress ==
  /\ main = "idle" /\ status = "unknown"
  /\ status' = "found"
  /\ UNCHANGED <<main, table, mTimeouts, current, signalled, pc, poll, left>>

\* Init() gives the service a new event, monitor and thread, or fails for good; a
\* failure before that changes nothing. Nor is anything done about the thread that
\* was there before.
InitThread ==
  \/ /\ current < MaxThreads
     /\ current' = current + 1
     /\ Go(current + 1, "loop")
     /\ status' = "running"
     /\ main' = "entering"
  \/ /\ current' = 0
     /\ status' = "closed"
     /\ UNCHANGED <<main, pc>>

\* The first lines of AllocateRelay(): an empty table starts everything anew.
AllocateRelay ==
  /\ main = "idle" /\ status # "closed"
  /\ IF table # <<>>
     THEN main' = "entering" /\ UNCHANGED <<status, current, pc>>
     ELSE InitThread
  /\ UNCHANGED <<table, mTimeouts, signalled, poll, left>>

\* Mutant: the event is left alone, as if the thread had to notice by itself.
AskForTableSilently ==
  /\ main = "entering"
  /\ main' = "waiting"
  /\ UNCHANGED <<status, table, mTimeouts, current, signalled, pc, poll, left>>

\* PR_EnterMonitor, PR_SetPollableEvent, PR_Wait
AskForTable ==
  /\ main = "entering"
  /\ main' = "waiting"
  /\ signalled' = signalled \cup {current}
  /\ UNCHANGED <<status, table, mTimeouts, current, pc, poll, left>>

\* PR_Notify: one of those who wait goes on, if anybody waits.
NotifyThread ==
  LET waiting == {t \in Threads : pc[t] = "waiting"}
  IN  IF waiting = {} THEN UNCHANGED pc
      ELSE \E t \in waiting : Go(t, "woken")

\* The rest of AllocateRelay(): four sockets are opened, unless the table is full
\* or a port cannot be bound.
FillTable ==
  /\ main = "granted"
  /\ \/ UNCHANGED <<table, mTimeouts, left>>
     \/ \E r \in Relays \ Range(table) :
          /\ Len(table) < MaxRelays
          /\ table' = Append(table, r)
          /\ mTimeouts' = [mTimeouts EXCEPT ![Len(table) + 1] = Interval]
          /\ left' = [left EXCEPT ![r] = Interval]
  /\ NotifyThread
  /\ main' = "idle"
  /\ UNCHANGED <<status, current, signalled, poll>>

\* Clean() at the application's shutdown: mQuit is set and the event raised.
Quit ==
  /\ main = "idle" /\ current # 0
  /\ main' = "joining"
  /\ signalled' = signalled \cup {current}
  /\ UNCHANGED <<status, table, mTimeouts, current, pc, poll, left>>

\* PR_JoinThread returns and the sockets are closed.
Joined ==
  /\ main = "joining" /\ pc[current] = "gone"
  /\ main' = "idle" /\ status' = "closed"
  /\ table' = <<>> /\ current' = 0
  /\ UNCHANGED <<mTimeouts, signalled, pc, poll, left>>

-----------------------------------------------------------------------------
(* The relay thread                                                        *)

\* Mutant: the number of sockets is looked up once.
PollOnce(t) ==
  /\ pc[t] = "loop"
  /\ Go(t, "polling")
  /\ poll' = [poll EXCEPT ![t].event = current,
       ![t].relays = IF poll[t].event = current THEN @ ELSE Range(table)]
  /\ UNCHANGED <<main, status, table, mTimeouts, current, signalled, left>>

\* The top of the loop: PR_Poll on the event and the relays of the moment.
PollSockets(t) ==
  /\ pc[t] = "loop"
  /\ Go(t, "polling")
  /\ poll' = [poll EXCEPT ![t].event = current, ![t].relays = Range(table)]
  /\ UNCHANGED <<main, status, table, mTimeouts, current, signalled, left>>

\* Every packet puts off the end of its relay. The slot is that of the table.
Forward(relays) ==
  /\ mTimeouts' = [i \in 1..MaxRelays |->
       IF i <= Len(table) /\ table[i] \in relays THEN Interval ELSE mTimeouts[i]]
  /\ left' = [r \in Relays |-> IF r \in relays THEN Interval ELSE left[r]]

\* PR_Poll returns with packets only; had the event been set it would say so.
PacketsArrive(t) ==
  /\ pc[t] = "polling" /\ poll[t].event \notin signalled
  /\ \E relays \in SUBSET (poll[t].relays \cap Range(table)) \ {{}} : Forward(relays)
  /\ Go(t, "passing")
  /\ UNCHANGED <<main, status, table, current, signalled, poll>>

\* PR_Poll returns because its timeout is over.
TimedOut(t) ==
  /\ pc[t] = "polling" /\ poll[t].event \notin signalled
  /\ poll[t].timeout = 0
  /\ Go(t, "passing")
  /\ UNCHANGED <<main, status, table, mTimeouts, current, signalled, poll, left>>

\* PR_Poll returns and the event is set.
SeesEvent(t) ==
  /\ pc[t] = "polling" /\ poll[t].event \in signalled
  /\ Go(t, "consuming")
  /\ UNCHANGED <<main, status, table, mTimeouts, current, signalled, poll, left>>

\* Mutant: nobody looks at mQuit.
ConsumesEventUntiring(t) ==
  /\ pc[t] = "consuming" /\ current \in signalled
  /\ signalled' = signalled \ {current}
  /\ Go(t, "notifying")
  /\ UNCHANGED <<main, status, table, mTimeouts, current, poll, left>>

\* PR_WaitForPollableEvent, which waits for the event if it was taken away, then
\* either the end of the thread or the packets that came at the same time.
ConsumesEvent(t) ==
  /\ pc[t] = "consuming" /\ current \in signalled
  /\ signalled' = signalled \ {current}
  /\ IF main = "joining"
     THEN Go(t, "gone") /\ UNCHANGED <<mTimeouts, left>>
     ELSE /\ Go(t, "notifying")
          /\ \E relays \in SUBSET (poll[t].relays \cap Range(table)) : Forward(relays)
  /\ UNCHANGED <<main, status, table, current, poll>>

\* Mutants: the thread does not wait for the main thread, or does not wake it.
HandsOverHastily(t) ==
  /\ pc[t] = "notifying"
  /\ Go(t, "passing")
  /\ main' = IF main = "waiting" THEN "granted" ELSE main
  /\ UNCHANGED <<status, table, mTimeouts, current, signalled, poll, left>>

HandsOverSilently(t) ==
  /\ pc[t] = "notifying"
  /\ Go(t, "waiting")
  /\ UNCHANGED <<main, status, table, mTimeouts, current, signalled, poll, left>>

\* PR_EnterMonitor, PR_Notify, PR_Wait: the table belongs to the main thread.
HandsOver(t) ==
  /\ pc[t] = "notifying"
  /\ Go(t, "waiting")
  /\ main' = IF main = "waiting" THEN "granted" ELSE main
  /\ UNCHANGED <<status, table, mTimeouts, current, signalled, poll, left>>

\* Mutant: no relay is ever closed.
ExpireOthers(t) ==
  /\ pc[t] \in {"passing", "woken"}
  /\ Go(t, "loop")
  /\ UNCHANGED <<main, status, table, mTimeouts, current, signalled, poll, left>>

\* The rest of the loop's body: the relays that have timed out are closed and
\* those behind them move up, but mTimeouts stays where it is.
Expire(t) ==
  /\ pc[t] \in {"passing", "woken"}
  /\ LET kept == SelectSeq([i \in 1..Len(table) |-> i], LAMBDA i : mTimeouts[i] > 0)
         least == Min({mTimeouts[i] : i \in Range(kept)})
     IN  /\ table' = [j \in 1..Len(kept) |-> table[kept[j]]]
         /\ poll' = [poll EXCEPT ![t].timeout =
                       IF kept = <<>> THEN Never ELSE least + 1]
  /\ Go(t, "loop")
  /\ UNCHANGED <<main, status, mTimeouts, current, signalled, left>>

-----------------------------------------------------------------------------
\* Time passes while every thread is blocked: its steps take no time by comparison.
Busy(t) ==
  \/ pc[t] \in {"loop", "notifying", "woken", "passing"}
  \/ pc[t] = "polling" /\ (poll[t].event \in signalled \/ poll[t].timeout = 0)
  \/ pc[t] = "consuming" /\ current \in signalled

Down(n) == IF n = 0 THEN 0 ELSE n - 1

Tick ==
  /\ main \in {"idle", "joining"}
  /\ \A t \in Threads : ~Busy(t)
  /\ mTimeouts' = [i \in 1..MaxRelays |-> Down(mTimeouts[i])]
  /\ left' = [r \in Relays |-> Down(left[r])]
  /\ poll' = [t \in Threads |->
       [poll[t] EXCEPT !.timeout = IF @ = Never THEN @ ELSE Down(@)]]
  /\ UNCHANGED <<main, status, table, current, signalled, pc>>

MainStep == AllocateRelay \/ AskForTable \/ FillTable \/ Quit \/ Joined

ThreadStep(t) ==
  \/ PollSockets(t) \/ PacketsArrive(t) \/ TimedOut(t) \/ SeesEvent(t) \/ ConsumesEvent(t)
  \/ HandsOver(t) \/ Expire(t)

Next == FindPublicAddress \/ MainStep \/ Tick \/ \E t \in Threads : ThreadStep(t)

Spec == Init /\ [][Next]_vars

\* Both threads are scheduled and the clock runs; nobody owes packets or requests.
Fairness ==
  /\ WF_vars(AskForTable) /\ WF_vars(FillTable) /\ WF_vars(Joined) /\ WF_vars(Tick)
  /\ \A t \in Threads :
       /\ WF_vars(PollSockets(t) \/ TimedOut(t) \/ ConsumesEvent(t) \/ HandsOver(t) \/ Expire(t))
       /\ WF_vars(SeesEvent(t))

FairSpec == Spec /\ Fairness

-----------------------------------------------------------------------------
(* Properties                                                              *)

\* Every variable holds a value of its kind; the table never outgrows its arrays.
TypeOK ==
  /\ main \in {"idle", "entering", "waiting", "granted", "joining"}
  /\ status \in {"unknown", "found", "running", "closed"}
  /\ table \in Seq(Relays) /\ Len(table) <= MaxRelays
  /\ mTimeouts \in [1..MaxRelays -> 0..Interval]
  /\ current \in 0..MaxThreads
  /\ signalled \subseteq 0..MaxThreads
  /\ pc \in [Threads -> Places]
  /\ poll \in [Threads -> Polled]
  /\ left \in [Relays -> 0..Interval]

\* The hand-over of the table: while the main thread waits somebody will wake it,
\* and a relay thread waits only for a main thread that has the table.
NoLostWakeup ==
  /\ main = "waiting" => \/ current \in signalled
                         \/ \E t \in Threads : pc[t] = "notifying"
  /\ \A t \in Threads : pc[t] = "waiting" => main = "granted"

\* The two sides take turns: when the main thread fills the table, exactly one relay
\* thread stands in the monitor for it, and none is about to hand over a second time.
OneHandOnTheTable ==
  main = "granted" =>
    /\ \E t \in Threads : /\ pc[t] = "waiting"
                          /\ \A u \in Threads \ {t} : pc[u] # "waiting"
    /\ \A t \in Threads : pc[t] # "notifying"

\* No relay is allocated and then forgotten: until the shutdown one that is open is
\* polled by a thread, or will be at that thread's next turn.
EveryRelayServed ==
  main # "joining" =>
    \A r \in Range(table) : \E t \in Threads :
      \/ pc[t] \in {"loop", "notifying", "waiting", "woken", "passing"}
      \/ pc[t] = "polling" /\ r \in poll[t].relays
      \/ pc[t] = "consuming" /\ current \in signalled

\* A relay is closed only when nobody has used it for the whole interval, which is
\* what jinglenodes.js promises to whoever asked for it (expire: 60).
RelayLastsAsAdvertised ==
  [][main # "joining" => \A r \in Range(table) \ Range(table') : left[r] = 0]_vars

\* A relay that nobody uses any more is closed, whatever the other relays do.
IdleRelayCloses ==
  \A r \in Relays : r \in Range(table) /\ left[r] = 0 ~>
                      r \notin Range(table) \/ left[r] > 0 \/ main = "joining"

\* AllocateRelay() returns: the main thread, which draws the windows, never hangs.
AllocateReturns == main = "entering" ~> main = "idle"

\* The application can be closed: PR_JoinThread returns, unless a thread of an earlier Init()
\* has taken the signal and ended in the place of the one that is joined.
ShutdownEnds ==
  main = "joining" ~> main = "idle" \/ \E t \in Threads : t < current /\ pc[t] = "gone"
==============================================================================
