# OneTeam: a verification project

OneTeam is an XMPP client built on Mozilla's platform: JavaScript under
`src/chrome/oneteam/content/` and native XPCOM components in C++ under
`src/src/components/`. This directory models the parts of it whose correctness
depends on the order in which things happen: clicks, stanzas, timers, callbacks
of other threads, lost connections. Each part is a TLA+ module translated from the
source; TLC checks small instances, and TLAPS proves the main invariants for
every value of the constants.

Paths below are relative to `src/chrome/oneteam/content/JavaScript/` unless they
begin with `src/`.

## 1. Inventory

All JavaScript runs on one thread, so a handler runs to its end before the next one
starts; the ICE agent, PulseAudio, the relay and the resolver have threads of their own.
What makes the program hard is that nearly every operation is cut into handlers by an
IQ, a timer, a user's click or an event posted from a native thread, and that state read
in one handler is used in a later one.

| Component | State | Operations | Talks to | Hard part |
|---|---|---|---|---|
| Voice calls: `services/jingle.js`, `jingleCall.xul` | the sessions (state, terminated, candidates, ICE session, notifications), table of sids, active session, STUN discovery | start, accept, reject, hang up; the peer's stanzas; late acknowledgements; three ICE callbacks | Jingle nodes, IQs, the ICE agent's thread, call window, notifications | a session ends from nine places while callbacks for it are still on their way |
| Jingle nodes client: `services/jinglenodes.js` | known relays and trackers, one request | request a channel, answers of relays and trackers, contacts that turn out to be nodes | voice calls, IQs, service discovery | timeouts race late answers; one slot for all calls |
| IQs: `services/manager.js`, `3rdparty/jsjac` | table of ids, timers | send, answer, time out, lose the connection | everything | a callback may run zero, one or two times |
| Account: `model/account.js`, `main.xul`, JSJaC connection | connection object, flags, reconnect step and timer, initialisation bits, rooms to rejoin, what the main window shows | sign in, sign out, stop connecting, loss, stream error, failed authentication, timer, three answers of the initialisation | rooms, notifications, connection objects | reconnecting against the user's clicks; two disconnect events for one stream error |
| Jingle nodes relay: `src/src/components/src/jnrelay/otJNRelay.cpp` | table of sockets, timeouts, pollable event, monitor | allocate, poll, forward, expire, shut down | Jingle nodes client | two threads share the table without a lock around it |
| File transfer and SOCKS5: `filetransfer.js`, `socks5.js` | both ends' transfers, byte streams, tokens | offer, accept, reject, cancel, connect to hosts and proxies, activate | IQs, sockets | connections race and fail; a broken stream closes like one that is done |
| Native ICE session: `src/src/components/src/ice/otICESession.cpp` | three flags, a buffer of candidates, the agent, its main loop | credentials, candidates, relay, gathering done, free | voice calls, libnice | whoever raises the last flag hands the buffer over, without a lock |
| Connectivity checks: libnice's `conncheck.c`, `agent.c`, `discovery.c` | check list, timers, component states, incoming checks | timer, inbound request, answer, candidates set | the peer's agent | checks before candidates, nominations before answers, a timer that stops |
| Sound of a call: `audio/otPulseAudio*.cpp`, `rtp/`, `codecs/` | a chain of objects with targets and a source, a lock, two streams | set target, create streams, record, play, free | ICE session, PulseAudio | three threads in one chain that a fourth party takes apart |
| Chat rooms and bookmarks: `model/conference.js` | rooms, occupants, bookmarks | join, leave, rename, bookmark | account | joins before and after the initialisation |
| Messages: `model/messages.js` | threads by contact and id | route, open, archive | chat views | messages with and without thread ids from several resources |
| Service discovery: `disco.js` | cache of infos and capabilities | request (coalesced), merge capabilities | IQs | answers that are older than the presence they are merged into |
| XMPP socket: `xmppsocket.js` | socket, TLS state, downgrade timer | connect, reopen, disconnect | the connection object | the timer outlives a disconnect |
| Presence profiles, privacy lists, roster, gateways, vCards | lists pushed by the server | fetch, update | account | callbacks that an error never calls |
| Ad-hoc commands, PEP, roster exchange, BoB, cache, history, views, utilities, DNS, tray | little or none beyond a pending IQ | - | - | I/O and presentation |

`PROJECT.json` lists the same components with their files and what is modelled
of each, and the hazards of the code at the lines where they bite.

What makes the components correct, in a sentence each:

* **Calls**: nobody's microphone is open unless both agreed (part of `CallLifecycle`);
  a call that ended stays ended and silent; an incoming call is answered or reported as missed, once; what
  the peer receives is a legal sequence; no buffered candidate is lost.
* **Jingle nodes client**: whoever asks for a channel is called back once, and the
  request in the slot is the latest one until that happened.
* **IQs**: a callback sees an answer, a timeout, or
  a timeout followed by the late answer, nothing else.
* **Account**: one connection at a time; whoever signed out stays out; the window
  shows what is going on; presence is announced after the roster of this connection;
  rooms come back after a reconnect; attempts end.
* **Relay**: the threads take turns on the table without losing a wakeup; every open
  relay is polled; an unused one is closed; allocation and shutdown return.
* **ICE session**: candidates reach the agent after the credentials, when it takes them,
  and none stays behind; the session's end joins its thread.
* **Connectivity checks**: what is selected works in both directions; when the network is quiet
  each end has decided rightly about each component.
* **Sound**: every thread finds the objects it uses; a stream that was started plays; the
  end of a call does not hang.
* **File transfer**: one connection carries the file; a cancelled end stays so; a failure has a
  cause; the file arrives if some host works.

## 2. Modules

| Module | Models | Kind |
|---|---|---|
| `CallLifecycle` | what a call promises to two people | abstract specification |
| `Jingle` | `services/jingle.js`, what it sees of `jinglenodes.js`, the call window, the callbacks of `otICESession.cpp` | implements `CallLifecycle` |
| `AccountConnection` | `model/account.js` with rooms, login form and connection objects | component |
| `JNRelay` | `otJNRelay.cpp` | component, two kinds of thread |
| `IqRequests` | `sendIq` with timeouts and `_regIDs` | component |
| `JingleNodes` | `services/jinglenodes.js` | composed with `IqRequests` by INSTANCE |
| `FileTransfer` | `filetransfer.js`, `socks5.js`, both ends of one transfer | component |
| `IceSession` | `otICESession.cpp` and the gathering of libnice it relies on | component, two threads |
| `ConnCheck` | libnice's `conncheck.c` and what it calls, at both ends, with the network | component, two agents |
| `MediaSession` | the chain of audio, codec and RTP objects | component, three threads |
| `MC*` | model values and symmetry for TLC | |
| `JingleProofs`, `AccountConnectionProofs`, `JNRelayProofs`, `JingleNodesProofs`, `FileTransferProofs`, `IceSessionProofs`, `ConnCheckProofs`, `MediaSessionProofs` | theorems about the module before `Proofs`; `JingleNodesProofs` also about `IqRequests` | |

A handler is one action. Methods that a handler calls are operators from a record to
a record (`Jingle`, `AccountConnection`, `IqRequests`) or to the set of records it may
leave behind (`JingleNodes`, where a relay is picked at random); an action composes
them in the order of the code. Fields keep the source's names. Fields marked
"history" exist for the properties only. Definitions marked "Mutant" are not part
of the specification: each is a plausible bug that a property must reject. `TypeOK`
says in each module what its variables range over; it documents, and is part of the
inductive invariants of the proofs, but the runs spend their time on the other properties.

The voice-call modules see one call at different depths. `Jingle` has the session in
JavaScript, to which the ICE session is an object that posts three callbacks.
`IceSession` has the two threads behind them, up to the call that gives candidates to
the agent; `ConnCheck` begins there and ends with the component states that `Jingle`
sees as `ConnectivityChecked`. `MediaSession` begins where `Jingle` starts the media.
They are checked separately: composed they would exceed what TLC can do.

### Jingle

State: `call[s]` is a JingleSession with its call window, its notifications, its ICE
session and the ICE callbacks that were posted and not yet run; `sessions`,
`activeSession`, `stun`, `stunQueue` are the service's fields; `jnRequest`, `jnTries`,
`jnAsks` are what the call sees of the channel request. Actions: the clicks
(`CreateSession`, `OpenCall`, `AcceptFromNotification`, `RejectFromNotification`,
`AcceptInDialog`, `EndInDialog`), the stanzas (`SessionInitiate*`, `TransportInfo`,
`SessionAccept`, `ContentRemove`, `PeerTerminates`), `Acknowledged` (the late error
answer to an IQ ends the session), the discovery (`StunServerNamed`, `StunDiscovered`,
`RelayAnswers`, `NodeAppears`), the agent's thread (`CandidatesGathered`,
`ConnectivityChecked`) and the callbacks on the main thread (`On*`).

Left out: the text of candidates and codecs (a codec was agreed on or not),
`session-info`, `_transportsSent` and `_sendTransportsCalled` (they decide only which
candidates are repeated), a second `session-initiate` with a known sid. Assumed
about the peer: it sends `session-initiate` once per sid, and `session-accept` only to
the one who called. `activeSession` is cleared by `unregisterSession` whoever owns it;
nothing in the source promises that it names the current call, so no property does.

### AccountConnection

State: `account` (the object's fields, the deck of the main window, the rooms and
the notifications shown), `conns` (the library's connection objects as events to come),
`asked` (queries without an answer), `wanted` and `trouble` (history: the user's last
word, and what stream errors led to). The notable details: `onDisconnect()` walks along `account.conferences` by index while each
clean-up removes an element (`CleanRooms` skips every second room as the code does);
`onError()` calls `onDisconnect()` and the event that follows calls it again
(`StreamError`, behind the constant `StreamErrors`, which also stands for malformed XML,
`JSJaCMozillaConnection.js:90`); an error to the query for the presence profiles is never
reported (`ProfileErrors`). Both constants are TRUE in the runs.

After the second `onDisconnect()` the reconnect timer may be armed with the login form in
front, for up to a second. A user who signs in then has two connections once the timer fires.
`trouble` is "error" after such a call and "overlap" after such a sign-in; the properties of the
connection hold until an overlap, and each names what an error alone may spoil.

Left out: multi-user mode, the seconds of the countdown (ticks do not matter to any
property; whether the timer is armed does), bookmarks, privacy lists, stored presence. A
room that the user left while offline is entered again by its old callback; no source
line says whether it should be, so no property judges it.

### JNRelay

State: where the main thread stands, `status` (`mNumSockets`), the table, `mTimeouts`
(not shifted with the table, as in the code), the pollable events that are set, the
place of each relay thread and what it polls. A stretch of code inside the monitor is
one action. `InitThread` may run again when all relays have expired, which is how two
threads come to share one event.

Left out: the packets' contents, the descriptors that line 160 may leak, and errors of
`Init` before it created anything (a stutter). A monitored section is atomic also for a
thread of an earlier `Init`, whose monitor is another one; time passes only while the
threads are blocked; `PR_Poll` reports an event that is set.

### IqRequests

State: one record `iq` with the connection's presence, the table of ids, the running
timers, `state.aborted` and the history of callback calls. `Callback` puts the arguments
of a call before the bound ones (`utils.js:165`), so the timer's call never sets
`state.aborted`: `aborted` stays empty in the model because no assignment of the code
reaches it. Services that answer requests of others and the generators
are not modelled.

### JingleNodes

State: one record `jn` with relays, trackers, their `asked` flags, the slot and an
`iq` record for the instance of `IqRequests`; questions are numbered in the order in
which they are sent. `_requestChannel` is `RequestChannel`, from the loop over new
relays to the callback with nothing. A result is assumed to carry the element asked
for. `enabled` is TRUE throughout, as nothing in the source clears it. What the
client shares with others (`_onIQ`, `_servicesToShare`, `maybeEnableRelaying`) is left
out. In `Jingle` the same search appears as seen by the call: how many answers are
outstanding, not who is asked.

### IceSession

State: the three flags, `mRemoteCandidates`, the agent (`nice`: how far it gathered,
whether it has credentials, what it was given), the main loop, and for each thread its
place (`at`) and what it has copied. Places stand between two accesses to what both
threads use; what the agent's lock covers (`cgdCallback` runs under it) is kept apart by
`Locked`. `overlap` is history: a call of the main thread met the other thread's
callback. With an overlap candidates may be appended to a buffer that was just handed
over, and stay there; `NothingLeftBehind` therefore speaks of the histories without one.
The gathering may end on the main thread, when there is nothing to discover.

Assumed, as `Jingle` does it: the main thread sets the credentials once, adds the relay
once and before the gathering begins, and hands in candidates any number of times. The
free of a buffer while the other thread appends is on record as a hazard and has no
outcome in the model.

### ConnCheck

State: `agents[x]` is an agent's record: check list, checks that came before candidates
(`stored`), component states, timer, selected pairs; `net` are the datagrams on their
way; `lost` counts those that were lost, `open` is the set of ways that work. A
transaction is named by its pair. The loops of the code over pairs, candidates, stored checks
and components are recursive functions over their number. Actions: `SetRemoteCandidates`, `ConnCheckTick`,
`ReceiveRequest`, `ReceiveResponse`, `Lose`. Priorities are small numbers with the order
of `nice_candidate_pair_priority`.

Left out: role conflicts (the ends of a call agree on who controls), STUN errors (they
come from wrong credentials), keepalives, TCP, several streams, and everything that goes through
a relay: TURN, and the candidates of a Jingle node, which a call does use
(`otICESession.cpp:340`, `351`; `discovery.c:686`). With a node the agents have one more way
than the model gives them, with a socket of its own. Discovery is over when the model begins. What a STUN server told is
a local candidate that is signalled and known, but never paired (`Reflexive`): an answer that
names it does not make a new pair. The last transmission of a request is given up only
when the peer has its candidates, has tried those of the component once (no pair of it waits
or is frozen while the peer's timer runs) and no datagram for the component is on its way
(`MayExpire`): the timeouts of libnice together are longer than signalling, a turn
through the peer's check list and a round trip. The callee's candidates are handed in at the caller's only after the callee has
the caller's: that is the order of the offer and the answer.

### MediaSession

State: `held`, the set of members of the chain's objects that are not null; the places
of the main thread, the agent's and PulseAudio's; `mLock`; the state of both streams as
PulseAudio has it and what was asked of it. The end of a stream waits in the stream's
monitor for its last state callback (`Frees`, `StateCb`). `missed` is history: a stream
became ready between `Record()` or `Play()` looking and setting `mStarted`, after which
nobody uncorks it.

The first packet makes the decoder, or fails to for good (`DecoderFails`); a packet that is
dropped for its version or payload type is no step. Left out: the contents of frames and
packets, the jitter buffer, codecs, SRTP, the other sound systems.

### FileTransfer

State: `t`, both ends of one transfer: state of each end, its token, the four byte
streams (the sender's listener, the receiver's direct connection to it, both ends'
connections to a proxy), packets on the way, chunks read and written; `reachable` hosts;
`broken` connections. A stream host has several addresses that are tried in order. The
twelve numbered states of a byte stream have six names. The proxy and the sockets are
external, modelled from how the code uses them; so is the receiver's server, which may
return the hosts with an error (`HostsReturned`, `socks5.js:120`).

Left out: several files at once, discovery of proxies, the handshake's bytes, files that
cannot be opened. `FileArrives` requires a host that works, no break and no cancellation:
a broken stream ends as `completed` here too, as in the code (`socks5.js:353`).

## 3. Runs

| Run | Instance | States | Shows |
|---|---|---|---|
| `jingle_core` | 2 calls, 1 posted callback per call, 1 try, silent trackers | 2,162,123 | bookkeeping, missed calls, buffered data, signalling order; ended calls are silent; refinement of `CallLifecycle` |
| `jingle_liveness` | 1 call, 3 callbacks, 3 tries | 20,541 | the offer or answer gets out, or the call ends |
| `account_core` | 2 connections, 1 room, 4 retries, all errors | 80,148 | one connection, signing out, the window, the initialisation; attempts end and a connection gets initialised |
| `account_rooms` | 2 connections, 2 rooms, all errors | 362,143 (symmetric) | rooms come back, also after stream errors and overlaps |
| `relay_core` | 3 relays, table of 2, 2 threads, interval of 1 tick | 584,300 | hand-over, service, expiry, shutdown |
| `relay_advertised` | 3 relays, 1 thread, interval of 3 | violation | a relay is closed before its 60 seconds |
| `iq_core` | 4 requests, 3 timed, 1 wants late answers | 1,747 | legal sequences of callback calls |
| `nodes_core` | 2 calls, 2 relays, 1 tracker, 2 tries, 5 questions | 359,216 | called once, the latest served, the search ends |
| `ice_session` | 2 candidates, 1 relay candidate | 6,464 | the buffer gets to the agent; the end joins the thread |
| `media_session` | one call | 6,358 | parts in place, sound, the end |
| `conncheck` | 2 components, 1 NAT told by STUN for one of them, 1 filter, 2 transmissions, 1 loss | 63,554 | selected pairs work; no call ended without a reason; right decisions at rest |
| `file_transfer` | 2 addresses, 1 proxy, 2 chunks, 1 break | 4,922 | one stream, cancellation, failure, arrival |

Why these bounds are enough:

* Two calls are what the shared fields (active session, STUN queue, channel slot) can
  tell apart; each call alone already takes every path. One posted callback at a time
  suffices for lateness: it can arrive after any other step. The liveness run allows
  three.
* Two connection objects are one too many; a third would be reused like the first.
  The rooms do not decide about the connection (lemma `RoomMethods`), so `account_core` has one.
  Of the two rooms of `account_rooms` the loop of `onDisconnect()` cleans one and skips the other, which the
  second call after a stream error cleans; three would be skipped and cleaned alike, and `NoRoomLeftOut` is proved for any
  number. The limit of four retries is the code's.
* A third relay exists so that a full table of two is refused because it is full. Two
  threads are the first overlap of two lives of the service. With an interval of one
  tick a timeout is either full or over, and inheriting the wrong one makes the
  difference; `relay_advertised` has longer ones. `NoLostWakeup`,
  `OneHandOnTheTable` and `EveryRelayServed` are proved for all bounds.
* Three timed requests cover the three fates (lost connection, answer, timeout) at once,
  and one that wants late answers. They do not interact except through the connection.
* Two candidates and one of a relay cover a buffer that is handed over in two parts; they are
  told apart only by membership. The theorems about `IceSession` hold for any number.
* `MediaSession` has no parameter: one call has one chain. TLC's answer is complete; the proofs
  say why it holds.
* `ConnCheck` has both components of the one stream a call has (RTP and RTCP), which is the
  smallest list that freezes pairs and fails one component without the other. One end is behind
  a NAT: for RTP it does not know its address, so that peer-reflexive pairs appear; for RTCP a STUN
  server told it. One way may be filtered. One lost datagram
  and two transmissions make a request be repeated, answered late, or given up. With a second
  socket at one end the ends may select different pairs, both of which work, and the decisions at rest
  may be wrong (see Findings and section 4), so the run has one socket per component; what holds of
  every network is proved.
* `FileTransfer` has two addresses of the sender, so that the first can fail, one proxy, two
  chunks (a first and a last) and one break.
* `JingleNodes` bounds the questions. One of them may be asked without a request (`Spare`), as long
  as there are still numbers for every question that requests can cause, so that the
  bound never cuts a search short. The code asks three relays per request; two are the
  smallest number with a boundary between the first and the last.

`CHECK_DEADLOCK FALSE` is used where the system ends: `Jingle`, `IceSession` and
`MediaSession` when the calls are over, `ConnCheck` when both agents are at rest,
`FileTransfer` when the transfer is done, failed or rejected.

### Fairness

* `Jingle`: STUN discovery and the search for a channel end, the agent's thread
  finishes gathering (`cgdCallback` is always called), the main thread takes what is
  posted to it. No person and no peer has to do anything. The run has one call and
  no silent trackers: with two calls one may lose the slot, and a tracker's error
  stops the walk (`jinglenodes.js:42`); both are hazards on record, and the safety runs
  include them.
* `AccountConnection`: a timer fires; an attempt to connect succeeds or
  fails, and on a connection that lasts the three queries of the initialisation are
  answered, the one for the profiles perhaps with an error (`ProfilesRefused`). The last two are
  assumptions about the server and the socket below: the account has no timer of its own
  against a server that accepts and then keeps silent. No fairness for losses or clicks.
* `JNRelay`: each thread runs (the operating system's scheduler), time passes. A thread
  that polls a set event sees it (`SeesEvent`). `ShutdownEnds` allows one way for
  the join never to return: of two threads on one event the older one has consumed the
  signal of the shutdown and ended in place of the one that is joined.
* `JingleNodes`: timers fire (`nsITimer`). Nobody has to answer, and a search that has come
  to a tracker may stop with it (`jinglenodes.js:42`).
* `IceSession`: both threads run; gathering need not end. `MediaSession`: the three threads run
  and get the lock when it is free again and again; PulseAudio reports the end of a
  stream it was asked to disconnect.
* `FileTransfer`: sockets connect or fail, close and are read; packets arrive. No user
  has to do anything.
* `ConnCheck` assumes no fairness: `ConnectsInTheEnd` speaks of the states in which nothing is on
  its way and no timer runs, the other properties of every state.

### Findings

`relay_advertised`: `jinglenodes.js:215` promises a relay for 60 seconds, but
`mTimeouts` is not moved up with the table (`otJNRelay.cpp:96`), so that a relay behind
an expired one is judged by its predecessor's timeout.

Other places where the code does not do what one would expect are on record as hazards:

* `Account.onDisconnect` walks along an array that shrinks and skips every second room
  (`model/account.js:1074`). The rooms come back all the same (`RoomsComeBack`), but the refusal of
  a skipped one is not reported.
* A stream error calls `onDisconnect()` twice (`model/account.js:1330`): one attempt is lost, the timer may run behind
  the login form or after the user was told that reconnecting has ended, and who signs in
  just then gets a second connection. The properties say of each how far it goes.
* `state.aborted` is never set (`services/manager.js:362`, `utils.js:165`), so every late
  answer is delivered.
* Candidates that are appended while the other thread hands the buffer over stay behind
  (`otICESession.cpp:312`).
* `match` (`conncheck.c:953`) is set by the first stored check from a known address and not reset for
  the next, so that one from an unknown address after it is neither learnt nor kept, although
  the function is there for "connectivity checks before the answer" (line 939). It was answered
  when it came, so the peer does not repeat it; with the other ways closed the call is ended although
  the two could talk. It takes two sockets for a component, of which the run has one.
* A broken SOCKS5 stream is reported as completed (`socks5.js:353`); a transfer that is
  cancelled before its answer starts all the same (`filetransfer.js:317`).

## 4. Proofs

TLAPS checks the theorems that `PROJECT.json` lists, for all constants that satisfy the modules'
assumptions. In each of these modules the property is not inductive alone; what was added to it
says most about why the code works.

* **`JingleProofs`**: `Inductive`, `TypeCorrect`, `Registered`, `MissedOnce`. Neither
  `RegisteredIffLive` nor `MissedXorHandled` is inductive alone: whether an ending call counts as missed
  depends on its canceler, so `IInv` adds to the types `RingInv`: only a call that rings,
  neither handled nor reported, has a live one. The proof goes in three
  layers: what the fields of a session range over, what each method does to the fields
  `RingInv` looks at, one step per action.

  `HandedOver`, `LegalSignalling`, `SilentOnceEnded` and the refinement `CallsLiveAsPromised` rest on
  `AllGood`, which adds what is true of each session by itself: which flags go with a role and a
  state (`Standing`), that the ICE session posts "gathered" once and only while the
  candidates are not counted as gathered (`Gathering`), that credentials and candidates of the
  peer never wait while there is an ICE session to take them (`Handed`), what may have been sent so
  far (`Legal`) and which flags record it (`Flags`); `Waiting` says that the searches know only
  sessions that were begun. An offer precedes transport information because the callback that gives
  candidates comes after the flag that the offer sets; this is why the order needs `Gathering`.
  The refinement is proved step by step: every action is a step of `CallLifecycle` for one call
  (`Advance` names the phases a method may lead to) or leaves the phases alone.
* **`AccountConnectionProofs`**: `NeverTwoConnections`, `SigningOutIsFinal`, `WindowTellsTheTruth`,
  `InitialisedAnew`, `GivingUpIsFinal`. The five properties hold each other up: one invariant has
  them all, with `Held` (the connection object the account holds is alive, no click is left in
  `userDisconnect`, the timer runs only when there is a stub) and `GivenUp`. They assume nothing
  about errors: `UntilOverlap` says that the invariant holds or an overlap has happened
  (`OverlapStays`), and `DisconnectedArmed` what the second `onDisconnect()` makes of what the first left.
  The difficulty of `NoRoomLeftOut` is the loop of `onDisconnect()` over a list
  that it shortens: that a room which the loop steps over is still in the list, and one that it
  cleans is remembered, needs induction over the number of passes. It is done without an
  operator parameter: `SetInduction` is induction over a set of numbers, from the
  well-foundedness of Nat; `Iteration` says from it that a function defined by recursion satisfies
  its equation; `KeptRange` what a filtered list contains.
* **`JNRelayProofs`**: `HandOverHolds`, `NobodySleepsAlone`, `TurnsTaken`, `RelaysNeverForgotten`. The
  invariant `HandOver` says for every place of the main thread which relay threads may be
  about to hand over or asleep, and whether the current event is set. It holds for any
  number of restarts, so also when two threads share one event. `EveryRelayServed` adds `Events`: no
  signal is set once the service has stopped, and a thread ends only in a shutdown.
* **`JingleNodesProofs`**: `CalledOnce`, `LatestServed`, and about `IqRequests` `LegalCalls`. The invariant ties the slot to
  the history: a request in the slot belongs to the latest caller, who has not been
  called; an empty slot means that the latest caller has been. Each method
  keeps it, whatever it does to the IQs, so the proof never looks into `jn.iq` and
  holds for any behaviour of timeouts and late answers.
  For `LegalCalls`, what a callback has seen is not inductive alone; `CallsInv` adds that a
  timer still running means no call yet, that an id in the table means no answer yet, and
  that a request not yet sent has neither.
* **`FileTransferProofs`**: `OneStreamOnly`, `CanceledStaysCanceled`, `FailsForAReason`, for any hosts,
  addresses, sizes of the file and numbers of breaks. `Core` has four parts: before the
  hosts are offered nothing is connected (`Unoffered`); the receiver chooses once, and its token is empty
  from then on (`Choice`); what an end still waits for after the file was opened (`Waits`); what a
  cancelled end has left (`Canceled`). `FailedForAReason` needs `Hopeful` besides: as long as nothing
  broke, nobody cancelled and some host works, an attempt that can still succeed is left.
* **`MediaSessionProofs`**: `ChainInPlace`, `NothingStays`, `StartedStreamsPlay`. TLC's answer is
  complete here; the proof says which facts carry it: the agent's thread works only
  between the start and the join (`Joining`), what each place of the main thread leaves in the
  chain (`Chain`), a stream PulseAudio knows keeps what its callbacks use until it is dead
  (`Alive`), and who holds the lock (`Callbacks`). `Sounding` says that a ready stream was seen
  by the main thread or is about to be reported by PulseAudio's.
* **`IceSessionProofs`**: `Accepted`, `Authenticated`, `Complete`. `NothingLeftBehind` is
  about a moment at which nobody is on the way, so its invariant has to say where everything is
  before: `Gathered` and `Credentialed` tell what a thread in the callback or the update has
  seen; `OnItsWay` and `Flushed` that without an overlap everything handed in is in the
  argument of a call, in the buffer or at the agent, and that with all three flags raised
  somebody is bringing it. Credentials are proved apart, as the agent's list only grows
  in one place.
* **`ConnCheckProofs`**: `ChecksStandForPairs`, `SelectedAreTried`, `NoCallEndsFalsely`,
  for one or two components and any addresses, ways that are open,
  transmissions and losses. Assumed is `CheckAssumption`: each address belongs to a component, and behind
  each is a socket of one of the two agents and of the same component. A handler is a chain of
  operators on the agent's record, so the proof is one lemma per operator: from `After(o, x, z, J, E)`,
  what agent z of x may have become while the handler runs, it leads to `After` again. J are pairs
  that are marked nominated but not yet compared with the selected one; every handler ends with none. E
  are the pairs that may fail. A loop is such a chain as well (`Iteration` says that it is defined,
  `Repeated` that it stays in the set).

  `SelectedWorks` looks at the selected pairs only; what makes it hold is earlier, when a pair becomes
  valid. So `Sound` says of each agent (`Kept`) that its valid pairs have been tried both ways and that a
  component's selected pair has at least the priority of each valid pair that is nominated, and of each
  datagram which pair of which agent it stands for: a request came from its local address to its
  remote one over an open way, and an answer came back over another one. Types are part of it, as a
  datagram names its pair by an index: a list must never shrink (`Grown`).

  `NoFalseEnd` looks at the end only; what makes it hold is that no pair fails that could work, through
  every waiting, thawing, retransmission, pruning and replacement. `Hopes` therefore says that, as
  long as nothing was lost, each component that an agent was told of and can reach has a pair over which
  datagrams pass, answered from the address that was asked, that has not failed (`Hope`), and that
  such a pair, when in progress, has its request or its answer on the way (`Running`, `InFlight`): so its
  timer cannot give it up. `Tidy` and `Tried` carry this through a handler: whatever is put in progress has
  been asked for, a datagram is marked stale only when the request goes out again, and a component fails
  only when all its pairs have. When an answer replaces a pair by a peer-reflexive one (`Answers`),
  hope passes from one to the other. TLC found `Hopes` inductive on three instances before it was proved.

  `NoFalseEnd` counts on what an agent was told. `EndedForAReason`, which the run checks, says more
  where the agents tell of all their sockets: that an address it
  has to learn from the peer comes in time. This is false of some networks, one end having several
  sockets: the first checks of the peer may come before its candidates and be forgotten (`match`, see Findings),
  or the address that was asked may lead to a socket that answers from another one, to which no way leads.
  It is therefore model-checked on an instance whose ends have one socket per component, not proved.

Some definitions became what they are because of a proof. `phase` of `Jingle` had two branches that
were both true of a session without a role; `OnBytestreamFailure` of `FileTransfer` counted a
failure of the sender's connection among the receiver's (`socks5.js:262` counts only its own);
`Kept` of `AccountConnection` spells the removal of a room from a list out as a recursive
function, because no prover expands `SelectSeq`; and `ConnCheck` has its loops as recursive functions
and its set of known candidates built by `Knows`, because no prover expands a fold, `:>` or `@@`.

Only model-checked: liveness, which is out of the prover's reach as ENABLED is (`EventuallySignalled`,
`EventuallySettled`, `EventuallyInitialized`, `IdleRelayCloses`, `AllocateReturns`, `ShutdownEnds`,
`RequestEnds`, `FreeDataReturns`, `CallEnds`, `FileArrives`), and of `ConnCheck` the invariants
`ConnectsInTheEnd` and `EndedForAReason`. Neither holds of every network, and
`ConnectsInTheEnd` says also that a component gets ready that can: its invariant has to say where
the next step towards the connection is (a pair waiting at one end, a request or its answer on
the way, a check stored until the candidates come), for each order of nomination, answer and candidates.


## 5. Not modelled, and what could follow

Not modelled, with the reason:

* **JavaScript components without an order of events of their own** (views, bindings,
  notifications, cache, history, l10n, utilities, parsers, generated and packaged files): what
  can go wrong there is in the data, not in the interleaving.
* **Messages** (`messages.js`), **service discovery** (`disco.js`), **bookmarks**
  (`conference.js:846`), **XMPP socket** (`xmppsocket.js`), **DNS record** (`otDNSBase.cpp`): each has
  a hazard on record. They are small, and came after the parts above, where more actors
  meet. Of the DNS record the only promise worth stating (the listener is called) does
  not hold under the race of two unlocked threads.
* **libnice beyond connectivity checks**: discovery, which is over before the checks of a call
  begin, and TURN, pseudo-TCP, UPnP, other compatibilities, which a call of this program does not
  use. **Candidates of a Jingle node, STUN errors and role conflicts**: see `ConnCheck`.
* **libsrtp, libspeex, STUN message coding, the jitter buffer**: sequential arithmetic on vendored
  code, better served by its own tests.

What could follow, the most valuable first: `ConnCheck` with the
socket of a Jingle node; a proof of `ConnectsInTheEnd` for networks with one socket per component, from an
invariant about the next step of a component that can be connected;
`MessagesRouter` and `DiscoCache` as modules.
