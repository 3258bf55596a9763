---------------------------- MODULE JNRelayProofs -----------------------------
(***************************************************************************)
(* The hand-over of the relay table between the main thread and the relay  *)
(* threads, proved for any number of threads, relays and ticks.            *)
(***************************************************************************)
EXTENDS JNRelay, TLAPS

\* Where the hand-over stands, for every place of the main thread.
HandOver ==
  /\ pc \in [Threads -> Places]
  /\ 0 \notin signalled
  /\ status \in {"unknown", "found"} =>
       table = <<>> /\ \A t \in Threads : pc[t] = "none"
  /\ status \in {"unknown", "found", "running", "closed"}
  /\ current \in 0..MaxThreads
  /\ status = "running" <=> current # 0
  /\ main \in {"idle", "entering", "waiting", "granted", "joining"}
  /\ main # "idle" => status = "running"
  /\ main \in {"idle", "entering", "granted"} /\ status # "closed" => signalled = {}
  /\ main = "waiting" => signalled \subseteq {current}
  /\ main \notin {"waiting", "granted"} => \A t \in Threads : pc[t] # "waiting" /\ pc[t] # "notifying"
  /\ main = "waiting" =>
       /\ \A t \in Threads : pc[t] # "waiting"
       /\ signalled = {} => \E t \in Threads : pc[t] = "notifying"
       /\ signalled # {} => \A t \in Threads : pc[t] # "notifying"
       /\ \A t, u \in Threads : pc[t] = "notifying" /\ pc[u] = "notifying" => t = u
  /\ main = "granted" =>
       /\ \A t \in Threads : pc[t] # "notifying"
       /\ \E t \in Threads : pc[t] = "waiting"
       /\ \A t, u \in Threads : pc[t] = "waiting" /\ pc[u] = "waiting" => t = u

\* Steps of a relay thread that neither begin nor end its part of the hand-over.
LEMMA QuietThread ==
  ASSUME HandOver, NEW t \in Threads, NEW place \in Places \ {"waiting", "notifying", "none"},
         Go(t, place), pc[t] # "waiting", pc[t] # "notifying", pc[t] # "none",
         UNCHANGED <<main, status, current, signalled>>
  PROVE  HandOver'
<1>1. pc' \in [Threads -> Places] /\ pc'[t] = place
      /\ \A u \in Threads \ {t} : pc'[u] = pc[u]
  BY DEF HandOver, Go
<1>2. \A u \in Threads : (pc'[u] = "waiting") <=> (pc[u] = "waiting")
  BY <1>1
<1>3. \A u \in Threads : (pc'[u] = "notifying") <=> (pc[u] = "notifying")
  BY <1>1
<1>4. status \notin {"unknown", "found"}
  BY DEF HandOver
<1> QED
  BY <1>1, <1>2, <1>3, <1>4 DEF HandOver

\* The main thread's steps.
LEMMA MainKeepsHandOver == HandOver /\ MainStep => HandOver'
<1> SUFFICES ASSUME HandOver, MainStep PROVE HandOver'
  OBVIOUS
<1>1. CASE AllocateRelay
  <2>1. CASE table # <<>>
    <3>1. main' = "entering" /\ UNCHANGED <<status, current, pc, table, signalled>>
          /\ main = "idle" /\ status # "closed"
      BY <1>1, <2>1 DEF AllocateRelay
    <3>2. status \notin {"unknown", "found"}
      BY <2>1 DEF HandOver
    <3> QED
      BY <3>1, <3>2 DEF HandOver
  <2>2. CASE table = <<>> /\ current' = 0
    BY <1>1, <2>2, RelayAssumption DEF AllocateRelay, InitThread, HandOver
  <2>3. CASE table = <<>> /\ current' # 0
    <3>1. /\ main = "idle" /\ status # "closed" /\ main' = "entering"
          /\ status' = "running" /\ current' \in 0..MaxThreads /\ Go(current + 1, "loop")
          /\ UNCHANGED <<table, signalled>>
      BY <1>1, <2>3, RelayAssumption DEF AllocateRelay, InitThread, HandOver
    <3>2. pc' \in [Threads -> Places]
          /\ \A u \in Threads : pc'[u] = pc[u] \/ pc'[u] = "loop"
      BY <3>1 DEF HandOver, Go, Places
    <3>3. \A u \in Threads : pc'[u] # "waiting" /\ pc'[u] # "notifying"
      BY <3>1, <3>2 DEF HandOver
    <3> QED
      BY <2>3, <3>1, <3>2, <3>3 DEF HandOver
  <2> QED
    BY <2>1, <2>2, <2>3
<1>2. CASE AskForTable
  BY <1>2 DEF AskForTable, HandOver
<1>3. CASE FillTable
  <2>1. /\ main = "granted" /\ main' = "idle" /\ status = "running"
        /\ UNCHANGED <<status, current, signalled>> /\ signalled = {} /\ NotifyThread
    BY <1>3 DEF FillTable, HandOver
  <2>2. PICK t \in Threads : pc[t] = "waiting"
    BY <2>1 DEF HandOver
  <2>3. Go(t, "woken")
    BY <2>1, <2>2 DEF NotifyThread, HandOver
  <2>4. pc' \in [Threads -> Places] /\ pc'[t] = "woken"
        /\ \A u \in Threads \ {t} : pc'[u] = pc[u]
    BY <2>3 DEF Go, HandOver, Places
  <2>5. \A u \in Threads : pc'[u] # "waiting" /\ pc'[u] # "notifying"
    BY <2>1, <2>2, <2>4 DEF HandOver
  <2> QED
    BY <2>1, <2>4, <2>5 DEF HandOver
<1>4. CASE Quit
  BY <1>4 DEF Quit, HandOver
<1>5. CASE Joined
  BY <1>5, RelayAssumption DEF Joined, HandOver
<1> QED
  BY <1>1, <1>2, <1>3, <1>4, <1>5 DEF MainStep

\* The relay thread's steps.
LEMMA ThreadKeepsHandOver ==
  ASSUME HandOver, NEW t \in Threads, ThreadStep(t)
  PROVE  HandOver'
<1>1. CASE PollSockets(t)
  BY <1>1, QuietThread, "polling" \in Places DEF PollSockets, Places
<1>2. CASE PacketsArrive(t)
  BY <1>2, QuietThread, "passing" \in Places DEF PacketsArrive, Places
<1>3. CASE TimedOut(t)
  BY <1>3, QuietThread, "passing" \in Places DEF TimedOut, Places
<1>4. CASE SeesEvent(t)
  BY <1>4, QuietThread, "consuming" \in Places DEF SeesEvent, Places
<1>5. CASE ConsumesEvent(t)
  <2>1. /\ pc[t] = "consuming" /\ current \in signalled
        /\ signalled' = signalled \ {current}
        /\ UNCHANGED <<main, status, current, table>>
    BY <1>5 DEF ConsumesEvent
  <2>2. CASE main = "joining"
    <3>1. Go(t, "gone")
      BY <1>5, <2>2 DEF ConsumesEvent
    <3>2. pc' \in [Threads -> Places]
          /\ \A u \in Threads : pc'[u] = pc[u] \/ pc'[u] = "gone"
      BY <3>1 DEF Go, HandOver, Places
    <3>3. \A u \in Threads : pc'[u] # "waiting" /\ pc'[u] # "notifying"
      BY <2>2, <3>2 DEF HandOver
    <3> QED
      BY <2>1, <2>2, <3>2, <3>3 DEF HandOver
  <2>3. CASE main # "joining"
    <3>1. main = "waiting" /\ signalled = {current} /\ signalled' = {} /\ status = "running"
      BY <2>1, <2>3 DEF HandOver
    <3>2. Go(t, "notifying")
      BY <1>5, <2>3 DEF ConsumesEvent
    <3>3. pc' \in [Threads -> Places] /\ pc'[t] = "notifying"
          /\ \A u \in Threads \ {t} : pc'[u] = pc[u]
      BY <3>2 DEF Go, HandOver, Places
    <3>4. \A u \in Threads : pc'[u] # "waiting" /\ ((pc'[u] = "notifying") <=> (u = t))
      BY <3>1, <3>3 DEF HandOver
    <3> QED
      BY <2>1, <3>1, <3>3, <3>4 DEF HandOver
  <2> QED
    BY <2>2, <2>3
<1>6. CASE HandsOver(t)
  <2>1. pc[t] = "notifying" /\ Go(t, "waiting") /\ UNCHANGED <<status, current, signalled, table>>
    BY <1>6 DEF HandsOver
  <2>2. main = "waiting" /\ main' = "granted" /\ signalled = {} /\ status = "running"
    BY <1>6, <2>1 DEF HandsOver, HandOver
  <2>3. pc' \in [Threads -> Places] /\ pc'[t] = "waiting"
        /\ \A u \in Threads \ {t} : pc'[u] = pc[u]
    BY <2>1 DEF Go, HandOver, Places
  <2>4. \A u \in Threads : pc'[u] # "notifying" /\ ((pc'[u] = "waiting") <=> (u = t))
    BY <2>1, <2>2, <2>3 DEF HandOver
  <2> QED
    BY <2>1, <2>2, <2>3, <2>4 DEF HandOver
<1>7. CASE Expire(t)
  BY <1>7, QuietThread, "loop" \in Places DEF Expire, Places
<1> QED
  BY <1>1, <1>2, <1>3, <1>4, <1>5, <1>6, <1>7 DEF ThreadStep

LEMMA StepKeepsHandOver == HandOver /\ [Next]_vars => HandOver'
<1> SUFFICES ASSUME HandOver, [Next]_vars PROVE HandOver'
  OBVIOUS
<1>1. CASE FindPublicAddress
  BY <1>1 DEF FindPublicAddress, HandOver
<1>2. CASE MainStep
  BY <1>2, MainKeepsHandOver
<1>3. CASE Tick
  BY <1>3 DEF Tick, HandOver
<1>4. ASSUME NEW t \in Threads, ThreadStep(t) PROVE HandOver'
  BY <1>4, ThreadKeepsHandOver
<1>5. CASE UNCHANGED vars
  BY <1>5 DEF vars, HandOver
<1> QED
  BY <1>1, <1>2, <1>3, <1>4, <1>5 DEF Next

\* However the threads interleave and however often the service is started anew, the
\* phase of the main thread determines who holds the table and who is to be woken.
THEOREM HandOverHolds == Spec => []HandOver
<1>1. Init => HandOver
  BY RelayAssumption DEF Init, HandOver, Places
<1> QED
  BY <1>1, StepKeepsHandOver, PTL DEF Spec

\* AllocateRelay's wait in the monitor is never left without somebody to end it, and
\* a relay thread waits only while the main thread has the table.
THEOREM NobodySleepsAlone == Spec => []NoLostWakeup
<1>1. HandOver => NoLostWakeup
  BY DEF HandOver, NoLostWakeup
<1> QED
  BY <1>1, HandOverHolds, PTL

\* When AllocateRelay fills the table exactly one relay thread stands still for it.
THEOREM TurnsTaken == Spec => []OneHandOnTheTable
<1>1. HandOver => OneHandOnTheTable
  BY DEF HandOver, OneHandOnTheTable
<1> QED
  BY <1>1, HandOverHolds, PTL

-----------------------------------------------------------------------------
(* Relays are served                                                       *)

\* The events that are set belong to the hand-over that is going on, and a thread ends
\* only at the shutdown, by taking the last event.
Events ==
  /\ DOMAIN poll = Threads
  /\ \A t \in Threads : DOMAIN poll[t] = {"event", "relays", "timeout"}
  /\ status = "closed" => signalled = {}
  /\ main = "joining" => signalled \subseteq {current}
  /\ \A t \in Threads :
       pc[t] = "gone" => status = "closed" \/ (main = "joining" /\ signalled = {})

Served == HandOver /\ Events /\ EveryRelayServed

\* A thread in these places polls every relay before it blocks again.
Active == {"loop", "notifying", "waiting", "woken", "passing"}

LEMMA OneActiveServesAll ==
  ASSUME \E t \in Threads : pc[t] \in Active
  PROVE  EveryRelayServed
  BY DEF EveryRelayServed, Active

\* Nobody's place, poll or event is taken away.
LEMMA NothingTaken ==
  ASSUME EveryRelayServed, main # "joining", table' = table, UNCHANGED <<current, pc>>,
         signalled \subseteq signalled', \A t \in Threads : poll'[t].relays = poll[t].relays
  PROVE  EveryRelayServed'
  BY DEF EveryRelayServed

LEMMA MainKeepsServed == Served /\ MainStep => Served'
<1> SUFFICES ASSUME Served, MainStep PROVE Served'
  OBVIOUS
<1>1. HandOver'
  BY MainKeepsHandOver DEF Served
<1>2. CASE AllocateRelay
  <2>1. UNCHANGED <<table, signalled, poll>> /\ signalled = {} /\ main = "idle"
    BY <1>2 DEF AllocateRelay, Served, HandOver
  <2>2. CASE table # <<>>
    <3>1. UNCHANGED <<status, current, pc>> /\ main' = "entering"
      BY <1>2, <2>2 DEF AllocateRelay
    <3>2. Events'
      BY <2>1, <3>1 DEF Served, Events
    <3> QED
      BY <1>1, <2>1, <3>1, <3>2, NothingTaken DEF Served
  <2>3. CASE table = <<>>
    <3>1. EveryRelayServed'
      BY <2>1, <2>3, Range(<<>>) = {} DEF EveryRelayServed, Range
    <3>2. \A t \in Threads : pc'[t] = "gone" => pc[t] = "gone"
      BY <1>2, <2>3 DEF AllocateRelay, InitThread, Go, Served, HandOver
    <3>3. status # "closed" /\ main' # "joining"
      BY <1>2, <2>1, <2>3 DEF AllocateRelay, InitThread
    <3>4. \A t \in Threads : pc'[t] # "gone"
      BY <2>1, <3>2, <3>3 DEF Served, Events
    <3>5. Events'
      BY <2>1, <3>3, <3>4 DEF Served, Events
    <3> QED
      BY <1>1, <3>1, <3>5 DEF Served
  <2> QED
    BY <2>2, <2>3
<1>3. CASE AskForTable
  <2>1. UNCHANGED <<status, table, current, pc, poll>> /\ main = "entering" /\ main' = "waiting"
        /\ signalled' = signalled \cup {current} /\ status = "running"
    BY <1>3 DEF AskForTable, Served, HandOver
  <2>2. Events'
    BY <2>1 DEF Served, Events
  <2> QED
    BY <1>1, <2>1, <2>2, NothingTaken DEF Served
<1>4. CASE FillTable
  <2>1. /\ main = "granted" /\ main' = "idle" /\ status = "running"
        /\ UNCHANGED <<status, current, signalled, poll>> /\ NotifyThread
    BY <1>4 DEF FillTable, Served, HandOver
  <2>2. PICK t \in Threads : pc[t] = "waiting" /\ Go(t, "woken")
    BY <2>1 DEF NotifyThread, Served, HandOver
  <2>3. pc'[t] = "woken" /\ \A u \in Threads : pc'[u] = "gone" => pc[u] = "gone"
    BY <2>2 DEF Go, Served, HandOver
  <2>4. Events'
    BY <2>1, <2>3 DEF Served, Events
  <2>5. EveryRelayServed'
    BY <2>3 DEF EveryRelayServed
  <2> QED
    BY <1>1, <2>4, <2>5 DEF Served
<1>5. CASE Quit
  BY <1>1, <1>5 DEF Quit, Served, HandOver, Events, EveryRelayServed
<1>6. CASE Joined
  <2>1. EveryRelayServed'
    BY <1>6, Range(<<>>) = {} DEF Joined, EveryRelayServed, Range
  <2>2. current \in Threads
    BY <1>6, RelayAssumption DEF Joined, Served, HandOver, Threads
  <2>3. signalled = {}
    BY <1>6, <2>2 DEF Joined, Served, HandOver, Events
  <2>4. Events'
    BY <1>6, <2>3 DEF Joined, Served, Events
  <2> QED
    BY <1>1, <2>1, <2>4 DEF Served
<1> QED
  BY <1>2, <1>3, <1>4, <1>5, <1>6 DEF MainStep

LEMMA ThreadKeepsServed ==
  ASSUME Served, NEW t \in Threads, ThreadStep(t)
  PROVE  Served'
<1>1. HandOver'
  BY ThreadKeepsHandOver DEF Served
<1>2. pc \in [Threads -> Places] /\ pc' \in [Threads -> Places]
  BY <1>1 DEF Served, HandOver
\* Steps to a place from where the thread polls the whole table again.
<1>3. ASSUME NEW place \in Active, Go(t, place), main' # "joining" \/ main = "joining",
             UNCHANGED <<status, signalled>>, main # "joining" \/ main' = "joining",
             DOMAIN poll' = Threads,
             \A u \in Threads : DOMAIN poll'[u] = {"event", "relays", "timeout"},
             current' = current
      PROVE  Served'
  <2>1. pc'[t] = place /\ \A u \in Threads \ {t} : pc'[u] = pc[u]
    BY <1>2, <1>3 DEF Go
  <2>2. EveryRelayServed'
    BY <2>1, <1>3 DEF EveryRelayServed, Active
  <2>3. \A u \in Threads : pc'[u] = "gone" => pc[u] = "gone"
    BY <2>1, <1>3 DEF Active
  <2>4. Events'
    BY <1>3, <2>3 DEF Served, Events
  <2> QED
    BY <1>1, <2>2, <2>4 DEF Served
<1>4. DOMAIN poll = Threads /\ \A u \in Threads : DOMAIN poll[u] = {"event", "relays", "timeout"}
  BY DEF Served, Events
<1>5. CASE PollSockets(t)
  <2>1. /\ Go(t, "polling") /\ UNCHANGED <<main, status, table, current, signalled>>
        /\ poll' = [poll EXCEPT ![t].event = current, ![t].relays = Range(table)]
    BY <1>5 DEF PollSockets
  <2>2. pc'[t] = "polling" /\ \A u \in Threads \ {t} : pc'[u] = pc[u]
    BY <1>2, <2>1 DEF Go
  <2>3. /\ DOMAIN poll' = Threads /\ poll'[t].relays = Range(table)
        /\ \A u \in Threads : DOMAIN poll'[u] = {"event", "relays", "timeout"}
    BY <1>4, <2>1
  <2>4. Events'
    BY <2>1, <2>2, <2>3 DEF Served, Events
  <2>5. EveryRelayServed'
    BY <2>1, <2>2, <2>3 DEF EveryRelayServed
  <2> QED
    BY <1>1, <2>4, <2>5 DEF Served
<1>6. CASE PacketsArrive(t)
  BY <1>3, <1>4, <1>6, "passing" \in Active DEF PacketsArrive, Active
<1>7. CASE TimedOut(t)
  BY <1>3, <1>4, <1>7, "passing" \in Active DEF TimedOut, Active
<1>8. CASE SeesEvent(t)
  <2>1. /\ poll[t].event \in signalled /\ Go(t, "consuming")
        /\ UNCHANGED <<main, status, table, current, signalled, poll>>
    BY <1>8 DEF SeesEvent
  <2>2. pc'[t] = "consuming" /\ \A u \in Threads \ {t} : pc'[u] = pc[u]
    BY <1>2, <2>1 DEF Go
  <2>3. main # "joining" => current \in signalled
    BY <2>1 DEF Served, HandOver, Events
  <2>4. Events'
    BY <2>1, <2>2 DEF Served, Events
  <2>5. EveryRelayServed'
    BY <2>1, <2>2, <2>3 DEF EveryRelayServed
  <2> QED
    BY <1>1, <2>4, <2>5 DEF Served
<1>9. CASE ConsumesEvent(t)
  <2>1. /\ current \in signalled /\ signalled' = signalled \ {current}
        /\ UNCHANGED <<main, status, table, current, poll>>
    BY <1>9 DEF ConsumesEvent
  <2>2. CASE main = "joining"
    <3>1. signalled' = {}
      BY <2>1, <2>2 DEF Served, Events
    <3> QED
      BY <1>1, <1>4, <2>1, <2>2, <3>1 DEF Served, Events, EveryRelayServed
  <2>3. CASE main # "joining"
    <3>1. Go(t, "notifying")
      BY <1>9, <2>3 DEF ConsumesEvent
    <3>2. pc'[t] = "notifying" /\ \A u \in Threads \ {t} : pc'[u] = pc[u]
      BY <1>2, <3>1 DEF Go
    <3>3. EveryRelayServed'
      BY <3>2 DEF EveryRelayServed
    <3>4. Events'
      BY <1>4, <2>1, <2>3, <3>2 DEF Served, Events
    <3> QED
      BY <1>1, <3>3, <3>4 DEF Served
  <2> QED
    BY <2>2, <2>3
<1>10. CASE HandsOver(t)
  <2>1. main # "joining" /\ main' # "joining"
    BY <1>10 DEF HandsOver, Served, HandOver
  <2> QED
    BY <1>3, <1>4, <1>10, <2>1, "waiting" \in Active DEF HandsOver, Active
<1>11. CASE Expire(t)
  <2>1. DOMAIN poll' = Threads /\ \A u \in Threads : DOMAIN poll'[u] = {"event", "relays", "timeout"}
    BY <1>4, <1>11 DEF Expire
  <2> QED
    BY <1>3, <1>11, <2>1, "loop" \in Active DEF Expire, Active
<1> QED
  BY <1>5, <1>6, <1>7, <1>8, <1>9, <1>10, <1>11 DEF ThreadStep

LEMMA StepKeepsServed == Served /\ [Next]_vars => Served'
<1> SUFFICES ASSUME Served, [Next]_vars PROVE Served'
  OBVIOUS
<1>1. HandOver'
  BY StepKeepsHandOver DEF Served
<1>2. CASE FindPublicAddress
  BY <1>1, <1>2 DEF FindPublicAddress, Served, HandOver, Events, EveryRelayServed
<1>3. CASE MainStep
  BY <1>3, MainKeepsServed
<1>4. CASE Tick
  <2>1. /\ UNCHANGED <<main, status, table, current, signalled, pc>>
        /\ poll' = [t \in Threads |->
             [poll[t] EXCEPT !.timeout = IF @ = Never THEN @ ELSE Down(@)]]
    BY <1>4 DEF Tick
  <2>2. /\ DOMAIN poll' = Threads
        /\ \A t \in Threads : /\ DOMAIN poll'[t] = {"event", "relays", "timeout"}
                              /\ poll'[t].relays = poll[t].relays
    BY <2>1 DEF Served, Events
  <2>3. Events'
    BY <2>1, <2>2 DEF Served, Events
  <2>4. EveryRelayServed'
    BY <2>1, <2>2 DEF Served, EveryRelayServed
  <2> QED
    BY <1>1, <2>3, <2>4 DEF Served
<1>5. ASSUME NEW t \in Threads, ThreadStep(t) PROVE Served'
  BY <1>5, ThreadKeepsServed
<1>6. CASE UNCHANGED vars
  BY <1>1, <1>6 DEF vars, Served, Events, EveryRelayServed
<1> QED
  BY <1>2, <1>3, <1>4, <1>5, <1>6 DEF Next

\* Until the shutdown no relay that AllocateRelay has handed out is forgotten, however
\* often the service was started: some relay thread polls it or is about to.
THEOREM RelaysNeverForgotten == Spec => []EveryRelayServed
<1>1. Init => Served
  <2>1. Init => HandOver
    BY RelayAssumption DEF Init, HandOver, Places
  <2>2. Init => Events
    BY DEF Init, Events
  <2>3. Init => EveryRelayServed
    BY Range(<<>>) = {} DEF Init, EveryRelayServed, Range
  <2> QED
    BY <2>1, <2>2, <2>3 DEF Served
<1>2. Served => EveryRelayServed
  BY DEF Served
<1> QED
  BY <1>1, <1>2, StepKeepsServed, PTL DEF Spec
==============================================================================
