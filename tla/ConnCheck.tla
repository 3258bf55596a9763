------------------------------- MODULE ConnCheck -------------------------------
(***************************************************************************)
(* The connectivity checks of a call: the ICE agents of the two ends, the  *)
(* datagrams between them and the timer of each.  An agent tries pairs of  *)
(* a local and a remote address until each component has one that both     *)
(* ends selected.                                                          *)
(*                                                                         *)
(* The agent's lock makes every handler atomic, so a handler is an         *)
(* operator from an agent's record to its record; what it sends is         *)
(* collected in "out".  A STUN transaction is named by its pair's index in *)
(* the check list, to which pairs are only ever appended; "stale" says     *)
(* that the pair has begun another transaction since.                      *)
(*                                                                         *)
(* The two ends of a call never disagree about who controls (the one that  *)
(* called does), and STUN errors come from wrong credentials only: neither *)
(* is modelled.                                                            *)
(***************************************************************************)
EXTENDS FiniteSets, Integers, SequencesExt

CONSTANTS
  Agents, Controlling,   \* the ends of the call and the one that placed it
  NComponents,           \* of the one stream: RTP and perhaps RTCP
  Gathered,              \* an end's own sockets of each component, in the order they were opened
  Signalled,             \* the candidates it tells the peer, in the order they are handed in
  Component, Type, Machine, SocketAt,   \* of an address
  Seen,                  \* the address others see of a socket
  Networks,              \* each a set of <<socket, address>>: where datagrams pass
  Transmissions,         \* of one request before it is given up
  MaxLost                \* bound: datagrams lost

VARIABLES agents, net, lost, open

vars == <<agents, net, lost, open>>

Components == 1..NComponents
Addresses == DOMAIN Component
Sockets == UNION {Range(Gathered[x][c]) : x \in Agents, c \in Components}
TypePreference == [host |-> 12, prflx |-> 11, srflx |-> 10]

\* An address is that of one socket, and a socket belongs to one agent and one component; what
\* it sends comes from an address that leads back to it.
ASSUME CheckAssumption ==
  /\ NComponents \in 1..2 /\ Transmissions \in Nat \ {0} /\ MaxLost \in Nat
  /\ \E y \in Agents : y # Controlling /\ Agents = {Controlling, y}
  /\ Component \in [Addresses -> Components]
  /\ Type \in [Addresses -> DOMAIN TypePreference]
  /\ {Gathered, Signalled} \subseteq [Agents -> [Components -> Seq(Addresses)]]
  /\ SocketAt \in [Addresses -> Sockets]
  /\ \A a \in Addresses : Component[SocketAt[a]] = Component[a]
  /\ \A x \in Agents, c \in Components :
       \A a \in Range(Gathered[x][c]) \cup Range(Signalled[x][c]) : Component[a] = c
  /\ Seen \in [Addresses -> Addresses]
  /\ \A s \in Sockets : SocketAt[s] = s /\ SocketAt[Seen[s]] = s
  /\ \A x, y \in Agents, c, d \in Components :
       Range(Gathered[x][c]) \cap Range(Gathered[y][d]) # {} => x = y

Other(x) == CHOOSE y \in Agents : y # x
Owner(s) == CHOOSE x \in Agents : \E c \in Components : s \in Range(Gathered[x][c])

\* The addresses of x's sockets that a STUN server told it: local candidates that are
\* signalled and known, but never paired.
Reflexive(x, c) == {l \in Range(Signalled[x][c]) : Type[l] = "srflx"}

-----------------------------------------------------------------------------
(* Priorities                                                              *)

Rank(type, pref, c) == 10 * TypePreference[type] + 3 * pref + (2 - c)

\* nice_candidate_pair_priority: 2^32 * min + 2 * max + (o > a ? 1 : 0)
Word == 1000
PairPriority(o, a) ==
  Word * (IF o < a THEN o ELSE a) + 2 * (IF o < a THEN a ELSE o) + (IF o > a THEN 1 ELSE 0)

InRole(ctrl, l, r) == IF ctrl THEN PairPriority(l, r) ELSE PairPriority(r, l)

LocalRank(l) == Rank(IF l = SocketAt[l] THEN "host" ELSE "prflx", 0, Component[l])

-----------------------------------------------------------------------------
(* The check list of one agent                                             *)

Valid(p) == p.state \in {"SUCCEEDED", "DISCOVERED"}
Of(c, p) == Component[p.l] = c
Priorities(ps) == {p.prio : p \in ps}
Highest(ps) == CHOOSE n \in Priorities(ps) : \A m \in Priorities(ps) : m <= n
First(is) == CHOOSE i \in is : \A j \in is : i <= j

\* conn_check_send
Request(a, i) ==
  [kind |-> "request", from |-> SocketAt[a.list[i].l], to |-> a.list[i].r, use |-> a.ctrl,
   pair |-> i, stale |-> FALSE, mapped |-> a.list[i].r]

\* priv_conn_check_initiate and conn_check_send: a controlling agent nominates the pair.
Initiate(a, i) ==
  LET p == a.list[i] IN
  [a EXCEPT !.list[i] = [p EXCEPT !.state = "IN_PROGRESS", !.tx = Transmissions,
                                  !.nom = a.ctrl \/ p.nom],
            !.out = a.out \cup {Request(a, i)},
            !.again = a.again \cup {i}]

\* Of the frozen pairs the first with the highest priority; the result says whether.
Frozen(a) == {i \in DOMAIN a.list : a.list[i].state = "FROZEN"}
UnfreezeNext(a) ==
  IF Frozen(a) = {} THEN a
  ELSE LET best == {i \in Frozen(a) :
                      \A j \in Frozen(a) : a.list[j].prio <= a.list[i].prio}
       IN  [a EXCEPT !.list[First(best)].state = "WAITING"]

Foundation(p) == <<Machine[p.l], Machine[p.r]>>
UnfreezeRelated(a, ok) ==
  LET related == {i \in Frozen(a) : Foundation(a.list[i]) = Foundation(a.list[ok])} IN
  IF related = {} THEN UnfreezeNext(a)
  ELSE [a EXCEPT !.list = [i \in DOMAIN a.list |->
          IF i \in related THEN [a.list[i] EXCEPT !.state = "WAITING"] ELSE a.list[i]]]

\* agent_signal_component_state_change; otICESession::cscCallback has the call ended when a
\* component fails.
ChangeState(a, c, state) ==
  [a EXCEPT !.state[c] = state,
            !.ended = @ \/ (state = "FAILED" /\ a.state[c] # "FAILED")]

Pending(c, p) == Of(c, p) /\ p.state \in {"FROZEN", "WAITING"}
Prune(a, c) ==
  LET nominated == {p \in Range(a.list) : Of(c, p) /\ Valid(p) /\ p.nom}
      Cancelled(p) == Pending(c, p) \/ (Of(c, p) /\ p.state = "IN_PROGRESS"
                                        /\ p.prio < Highest(nominated))
  IN  [a EXCEPT !.list = [i \in DOMAIN a.list |->
         LET p == a.list[i] IN
         IF Cancelled(p) THEN [p EXCEPT !.state = "CANCELLED", !.tx = 0] ELSE p]]

\* priv_update_check_list_state_for_ready: nothing must be left in progress.
StateForReady(a, c) ==
  IF \E p \in Range(a.list) : Of(c, p) /\ Valid(p) /\ p.nom
  THEN LET b == Prune(a, c) IN
       IF \E p \in Range(b.list) : Of(c, p) /\ p.state = "IN_PROGRESS"
       THEN b
       ELSE ChangeState(b, c, "READY")
  ELSE a

\* priv_update_selected_pair; otICESession::npsCallback notes which component has one.
UpdateSelected(a, i) ==
  LET p == a.list[i] IN
  IF p.prio > a.selected[Component[p.l]].prio
  THEN [a EXCEPT !.selected[Component[p.l]] = [l |-> p.l, r |-> p.r, prio |-> p.prio]]
  ELSE a

\* Mutant: a pair is selected before a check over it has been answered.
NominateUnchecked(a, i, c, r) ==
  IF Of(c, a.list[i]) /\ a.list[i].r = r
  THEN StateForReady(UpdateSelected([a EXCEPT !.list[i].nom = TRUE], i), c)
  ELSE a

\* Mutant: a nomination that comes before the answer to the own check is forgotten.
NominateValid(a, i, c, r) ==
  IF Of(c, a.list[i]) /\ a.list[i].r = r /\ Valid(a.list[i])
  THEN StateForReady(UpdateSelected([a EXCEPT !.list[i].nom = TRUE], i), c)
  ELSE a

Nominate(a, i, c, r) ==
  LET n == [a EXCEPT !.list[i].nom = TRUE] IN
  IF Of(c, a.list[i]) /\ a.list[i].r = r
  THEN StateForReady(IF Valid(n.list[i]) THEN UpdateSelected(n, i) ELSE n, c)
  ELSE a

\* The local candidate is not known here: all pairs with the remote one are nominated.
MarkNominated(a, c, r) ==
  LET after[i \in 0..Len(a.list)] == IF i = 0 THEN a ELSE Nominate(after[i - 1], i, c, r)
  IN  after[Len(a.list)]

NewPair(a, l, r, state, nom) ==
  [l |-> l, r |-> r, state |-> state, nom |-> nom, tx |-> 0,
   prio |-> InRole(a.ctrl, LocalRank(l), a.remote[r])]

\* g_slist_insert_sorted compares the new pair before its priority is set: it comes last.
AddPair(a, l, r, state, nom) ==
  [a EXCEPT !.list = Append(a.list, NewPair(a, l, r, state, nom))]

\* conn_check_add_for_candidate: a component that is ready is merely connected again.
AddForCandidate(a, r) ==
  LET c == Component[r]
      new == [n \in DOMAIN a.local[c] |-> NewPair(a, a.local[c][n], r, "FROZEN", FALSE)]
  IN  ChangeState([a EXCEPT !.list = a.list \o new], c,
                  IF a.state[c] \in {"GATHERING", "CONNECTING"} THEN "CONNECTING"
                  ELSE "CONNECTED")

-----------------------------------------------------------------------------
(* The timer                                                               *)

InProgress(a) == {i \in DOMAIN a.list : a.list[i].state = "IN_PROGRESS"}

\* The expired checks in priv_conn_check_tick_stream: each is sent again or given up.
Expire(a, expired) ==
  LET last == {i \in expired : a.list[i].tx = 1} IN
  [a EXCEPT !.list = [i \in DOMAIN a.list |->
              IF i \in last THEN [a.list[i] EXCEPT !.state = "FAILED", !.tx = 0]
              ELSE IF i \in expired THEN [a.list[i] EXCEPT !.tx = @ - 1]
              ELSE a.list[i]],
            !.out = a.out \cup {Request(a, i) : i \in expired \ last}]

WaitsForNomination(a) == {i \in DOMAIN a.list : Valid(a.list[i]) /\ ~a.list[i].nom}
Nominated(a) == {i \in DOMAIN a.list : Valid(a.list[i]) /\ a.list[i].nom}

\* "restarting check as the nominated pair": the first valid pair of the whole list,
\* once for every component.
RestartFirst(a) ==
  LET valid == {i \in DOMAIN a.list : Valid(a.list[i])}
  IN  IF valid = {} THEN a ELSE Initiate(a, First(valid))

Restart(a) ==
  LET after[n \in 0..NComponents] == IF n = 0 THEN a ELSE RestartFirst(after[n - 1])
  IN  after[NComponents]

Unnominated(a) ==
  Cardinality(Nominated(a)) < NComponents /\ WaitsForNomination(a) # {}

\* Mutant: a component fails as soon as one of its pairs has.
SomeFailed(a, c) == \E p \in Range(a.list) : Of(c, p) /\ p.state = "FAILED"

\* All pairs of a component that had candidates have failed.
AllFailed(a, c) ==
  /\ \E r \in DOMAIN a.remote : Component[r] = c
  /\ \A p \in Range(a.list) : Of(c, p) => p.state = "FAILED"

FailedComponents(a) ==
  LET failed == {c \in Components : AllFailed(a, c)} IN
  [a EXCEPT !.state = [c \in Components |-> IF c \in failed THEN "FAILED" ELSE a.state[c]],
            !.ended = @ \/ \E c \in failed : a.state[c] # "FAILED"]

StopTimer(a) ==
  LET after[c \in 0..NComponents] ==
        IF c = 0 THEN FailedComponents(a) ELSE StateForReady(after[c - 1], c)
  IN  [after[NComponents] EXCEPT !.timer = FALSE]

\* priv_conn_check_tick_unlocked: start one waiting check or thaw a frozen one, look after
\* those in progress, and stop when there is nothing left to do.
Tick(a, expired) ==
  LET waiting == {i \in DOMAIN a.list : a.list[i].state = "WAITING"}
      begun == IF waiting # {} THEN Initiate(a, First(waiting)) ELSE UnfreezeNext(a)
      b == Expire(begun, expired \cap InProgress(a))
      keep == waiting # {} \/ Frozen(a) # {} \/ InProgress(b) # {} \/ Unnominated(b)
      n == IF Unnominated(b) /\ a.ctrl THEN Restart(b) ELSE b
  IN  IF keep THEN [n EXCEPT !.timer = TRUE] ELSE StopTimer(n)

\* conn_check_schedule_next: the first tick comes at once, and starts the timer if it has
\* something to do.
ScheduleNext(a, expired) == Tick(UnfreezeNext(a), expired)

-----------------------------------------------------------------------------
(* The peer's candidates and checks                                        *)

\* The first pair of the list with that remote candidate and socket.
Triggered(a, s, r, use) ==
  LET matching == {i \in DOMAIN a.list : a.list[i].r = r /\ SocketAt[a.list[i].l] = s}
      i == First(matching)
      p == a.list[i]
  IN  IF matching = {} THEN AddPair(a, s, r, "WAITING", use)
      ELSE IF p.state \in {"WAITING", "FROZEN"} THEN Initiate(a, i)
      ELSE IF Valid(p)
           THEN LET b == StateForReady(a, Component[s]) IN
                IF a.ctrl THEN Initiate(b, i) ELSE b
      ELSE a

\* A remote candidate and its priority become known.
Knows(a, r, prio) ==
  [a EXCEPT !.remote = [s \in DOMAIN a.remote \cup {r} |-> IF s = r THEN prio ELSE a.remote[s]]]

Learn(a, r) == AddForCandidate(Knows(a, r, Rank("prflx", 1, Component[r])), r)

\* A check that came before the candidates is compared with one pair.
EarlyMatch(a, k, c, p) ==
  IF k.from = p.r /\ k.socket = SocketAt[p.l]
  THEN Triggered(IF k.use THEN MarkNominated(a, c, p.r) ELSE a, k.socket, p.r, k.use)
  ELSE a

\* "match" is never reset: after a known address no unknown one is learnt.
EarlyLearn(d, k) ==
  IF d.match \/ k.from \in DOMAIN d.agent.remote THEN [d EXCEPT !.match = TRUE]
  ELSE [d EXCEPT !.agent = Triggered(Learn(d.agent, k.from), k.socket, k.from, k.use)]

\* The stored checks of a component are compared with its first pair only, and are
\* forgotten then.
EarlyChecks(a, c) ==
  LET pairs == {i \in DOMAIN a.list : Of(c, a.list[i])}
      p == a.list[First(pairs)]
      checks == a.stored[c]
      matched[i \in 0..Len(checks)] ==
        IF i = 0 THEN a ELSE EarlyMatch(matched[i - 1], checks[i], c, p)
      learnt[i \in 0..Len(checks)] ==
        IF i = 0 THEN [agent |-> matched[Len(checks)], match |-> FALSE]
        ELSE EarlyLearn(learnt[i - 1], checks[i])
  IN  IF pairs = {} THEN a
      ELSE [learnt[Len(checks)].agent EXCEPT !.stored[c] = <<>>]

RemoteCandidatesSet(a) ==
  LET after[c \in 0..NComponents] == IF c = 0 THEN a ELSE EarlyChecks(after[c - 1], c)
  IN  after[NComponents]

\* A candidate that was learnt from a check is set again, with pairs of its own.
AddRemoteCandidate(a, r) == AddForCandidate(Knows(a, r, Rank(Type[r], 0, Component[r])), r)

AddRemoteCandidates(a, rs) ==
  LET after[i \in 0..Len(rs)] ==
        IF i = 0 THEN a ELSE AddRemoteCandidate(after[i - 1], rs[i])
  IN  after[Len(rs)]

-----------------------------------------------------------------------------
NewAgent(x) ==
  [ctrl |-> x = Controlling, local |-> Gathered[x], remote |-> <<>>, list |-> <<>>,
   stored |-> [c \in Components |-> <<>>], timer |-> FALSE, told |-> 0, ended |-> FALSE,
   state |-> [c \in Components |-> "GATHERING"],
   selected |-> [c \in Components |-> [l |-> "none", r |-> "none", prio |-> 0]],
   out |-> {}, again |-> {}]

Init ==
  /\ agents = [x \in Agents |-> NewAgent(x)]
  /\ net = {}
  /\ lost = 0
  /\ open \in Networks

\* A handler of x ends: its datagrams leave, those that can arrive at all.
Done(x, a, rest) ==
  /\ agents' = [agents EXCEPT ![x] = [a EXCEPT !.out = {}, !.again = {}]]
  /\ net' = {IF Owner(m.owner) = x /\ m.pair \in a.again THEN [m EXCEPT !.stale = TRUE]
             ELSE m : m \in rest}
            \cup {[kind |-> m.kind, from |-> m.from, to |-> m.to, use |-> m.use,
                   pair |-> m.pair, stale |-> m.stale, mapped |-> m.mapped,
                   owner |-> IF m.kind = "request" THEN m.from ELSE SocketAt[m.to]]
                  : m \in {o \in a.out : <<o.from, o.to>> \in open}}
  /\ UNCHANGED open

\* Its answer may still be on its way, or the request itself.
InFlight(x, i) == \E m \in net : Owner(m.owner) = x /\ m.pair = i /\ ~m.stale

\* A request is sent again when its answer is lost or late.  All the timeouts together are
\* longer than it takes the peer to be told of the candidates and to try them once.
Late(x, expired) == {i \in expired : InFlight(x, i)}
MayExpire(x) ==
  {expired \in SUBSET InProgress(agents[x]) :
     /\ lost + Cardinality(Late(x, expired)) <= MaxLost
     /\ \A i \in expired :
          agents[x].list[i].tx = 1 =>
            /\ agents[Other(x)].told = NComponents
            /\ agents[Other(x)].timer => \A p \in Range(agents[Other(x)].list) :
                 ~Pending(Component[agents[x].list[i].l], p)
            /\ \A m \in net : ~Of(Component[SocketAt[m.to]], agents[x].list[i])}

\* otICESession::updateRemoteCandidates hands in all of RTP's, then all of RTCP's.
SetRemoteCandidates(x) ==
  LET c == agents[x].told + 1
      a == [agents[x] EXCEPT !.told = c]
      b == AddRemoteCandidates(a, Signalled[Other(x)][c])
  IN  /\ c \in Components
      /\ x = Controlling => agents[Other(x)].told = NComponents
      /\ \E expired \in MayExpire(x) :
           /\ Done(x, ScheduleNext(RemoteCandidatesSet(b), expired), net)
           /\ lost' = lost + Cardinality(Late(x, expired))

Ticks(x, expired) ==
  /\ agents[x].timer
  /\ Done(x, Tick(agents[x], expired), net)
  /\ lost' = lost + Cardinality(Late(x, expired))

ConnCheckTick(x) == \E expired \in MayExpire(x) : Ticks(x, expired)

\* conn_check_handle_inbound_stun, a request: answered at once in any case.
ReceiveRequest(m) ==
  LET s == SocketAt[m.to]
      x == Owner(s)
      from == Seen[m.from]
      c == Component[s]
      use == m.use \/ agents[x].ctrl
      reply == [kind |-> "response", from |-> s, to |-> from, use |-> FALSE,
                pair |-> m.pair, stale |-> m.stale, mapped |-> from]
      a == [agents[x] EXCEPT !.out = {reply}]
      b == IF from \in DOMAIN a.remote THEN a ELSE Learn(a, from)
      t == Triggered(b, s, from, use)
  IN  /\ m.kind = "request"
      /\ IF \A r \in DOMAIN a.remote : Component[r] # c
         THEN Done(x, [a EXCEPT !.stored[c] = Append(@, [from |-> from, socket |-> s, use |-> use])],
                   net \ {m})
         ELSE Done(x, IF use THEN MarkNominated(t, c, from) ELSE t, net \ {m})
      /\ UNCHANGED lost

\* A response from the address that was asked: the pair is valid, or stands for another
\* one, with the address the peer saw.
Answered(a, i, m) ==
  LET p == a.list[i]
      c == Component[p.l]
      known == m.mapped \in Range(a.local[c]) \cup Reflexive(Owner(SocketAt[p.l]), c)
      b == [a EXCEPT !.list[i] = [p EXCEPT !.state = IF known THEN "SUCCEEDED" ELSE "FAILED",
                                           !.tx = 0]]
      discovered == [l |-> m.mapped, r |-> p.r, state |-> "DISCOVERED", nom |-> FALSE, tx |-> 0,
                     prio |-> InRole(a.ctrl, LocalRank(m.mapped), p.prio % Word)]
      d == IF known THEN UnfreezeRelated(b, i)
           ELSE [b EXCEPT !.local[c] = Append(@, m.mapped), !.list = Append(b.list, discovered)]
      ok == IF known THEN i ELSE Len(d.list)
      e == IF a.state[c] = "READY" THEN d ELSE ChangeState(d, c, "CONNECTED")
  IN  StateForReady(IF d.list[ok].nom THEN UpdateSelected(e, ok) ELSE e, c)

ReceiveResponse(m) ==
  LET x == Owner(SocketAt[m.to])
      a == agents[x]
      mine == ~m.stale /\ a.list[m.pair].tx > 0
  IN  /\ m.kind = "response"
      /\ Done(x, IF ~mine THEN a
                 ELSE IF Seen[m.from] # a.list[m.pair].r
                      THEN [a EXCEPT !.list[m.pair] = [@ EXCEPT !.state = "FAILED", !.tx = 0]]
                 ELSE Answered(a, m.pair, m),
              net \ {m})
      /\ UNCHANGED lost

Lose(m) ==
  /\ lost < MaxLost
  /\ lost' = lost + 1
  /\ net' = net \ {m}
  /\ UNCHANGED <<agents, open>>

Receive(m) == ReceiveRequest(m) \/ ReceiveResponse(m)

Next ==
  \/ \E x \in Agents : SetRemoteCandidates(x) \/ ConnCheckTick(x)
  \/ \E m \in net : Receive(m) \/ Lose(m)

Spec == Init /\ [][Next]_vars

-----------------------------------------------------------------------------
(* Properties                                                              *)

\* The local addresses an agent may have: of its own sockets, or learnt from a peer.
Own(x) == {l \in Addresses : Owner(SocketAt[l]) = x}

Pair(x) ==
  [ l : Own(x), r : Addresses,
    state : {"FROZEN", "WAITING", "IN_PROGRESS", "SUCCEEDED", "DISCOVERED", "FAILED",
             "CANCELLED"},
    nom : BOOLEAN,           \* nominated
    tx : Int,                \* transmissions left
    prio : Nat \ {0} ]

Datagram ==
  [ kind : {"request", "response"}, from : Addresses, to : Addresses, use : BOOLEAN,
    pair : Nat, stale : BOOLEAN,
    mapped : Addresses ]     \* where the other end saw the request come from

Agent(x) ==
  [ ctrl : BOOLEAN,
    local : [Components -> Seq(Own(x))],
    remote : UNION {[known -> Nat \ {0}] : known \in SUBSET Addresses},
    list : Seq(Pair(x)),
    stored : [Components -> Seq([from : Addresses, socket : Own(x), use : BOOLEAN])],
    timer : BOOLEAN,
    told : Nat,              \* components whose candidates have been set
    ended : BOOLEAN,         \* history: a component has failed
    state : [Components -> {"GATHERING", "CONNECTING", "CONNECTED", "READY", "FAILED"}],
    selected : [Components -> [l : Addresses \cup {"none"}, r : Addresses \cup {"none"},
                               prio : Nat]],
    out : SUBSET Datagram, again : SUBSET Nat ]   \* of the handler that runs

\* What the variables hold. A datagram on its way is also marked with the socket whose
\* transaction it is part of.
TypeOK ==
  /\ DOMAIN agents = Agents /\ \A x \in Agents : agents[x] \in Agent(x)
  /\ net \subseteq [ kind : {"request", "response"}, from : Addresses, to : Addresses,
                     use : BOOLEAN, pair : Nat, stale : BOOLEAN, mapped : Addresses,
                     owner : Sockets ]
  /\ lost \in 0..MaxLost

\* Nothing is on its way and no timer will do anything any more.
Quiet ==
  /\ net = {}
  /\ \A x \in Agents : /\ agents[x].told = NComponents
                       /\ agents[x].timer => Tick(agents[x], InProgress(agents[x])) = agents[x]

Selected(x, c) == agents[x].selected[c]
HasSelected(x, c) == Selected(x, c).prio > 0

Connects(c) ==
  \E l \in Range(Signalled[Controlling][c]), r \in Range(Signalled[Other(Controlling)][c]) :
    <<l, r>> \in open /\ <<r, Seen[l]>> \in open

\* A component that is ready has selected a pair, and what an agent selects has been tried:
\* datagrams pass both ways between the two addresses (priv_update_selected_pair, called
\* for nominations that come from the peer before, with and after the answer to the check).
SelectedWorks ==
  \A x \in Agents, c \in Components :
    /\ agents[x].state[c] = "READY" => HasSelected(x, c)
    /\ HasSelected(x, c) =>
         LET s == SocketAt[Selected(x, c).l] IN
         /\ <<s, Selected(x, c).r>> \in open
         /\ <<SocketAt[Selected(x, c).r], Seen[s]>> \in open

\* When all is quiet and nothing was lost, each end has decided about each component, and
\* rightly so: the triggered checks, the addresses learnt from the peer and the timer that
\* stops when it finds nothing to do leave no component waiting at one end.
ConnectsInTheEnd ==
  Quiet /\ lost = 0 =>
    \A x \in Agents, c \in Components :
      agents[x].state[c] = IF Connects(c) THEN "READY" ELSE "FAILED"

\* Without learning anything from the peer an agent can reach it: it was told of the address
\* its datagrams come from.
Reaches(x, c) ==
  \E l \in Range(Gathered[x][c]), r \in Range(Signalled[Other(x)][c]) :
    <<l, r>> \in open /\ <<SocketAt[r], Seen[l]>> \in open /\ Seen[SocketAt[r]] = r

\* An agent gives the call up (cscCallback) only over a component for which no pair of its
\* own sockets and the candidates it was told of works, however late the peer is told, and
\* whichever pairs wait, are retransmitted or are replaced by the one the peer saw.
NoFalseEnd ==
  lost = 0 => \A x \in Agents : agents[x].ended => \E c \in Components : ~Reaches(x, c)

\* The call is ended for a failed component (cscCallback) only when one cannot be connected,
\* though the pair that works may be learnt only after those that were signalled failed.
EndedForAReason ==
  lost = 0 => \A x \in Agents : agents[x].ended => \E c \in Components : ~Connects(c)

==============================================================================
