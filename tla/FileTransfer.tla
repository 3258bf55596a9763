----------------------------- MODULE FileTransfer ------------------------------
(***************************************************************************)
(* One file on its way from one OneTeam to another: the offer, the stream  *)
(* hosts and the answer that names the one used go over XMPP, the file     *)
(* over a SOCKS5 connection, either from the receiver to the sender's      *)
(* listening socket or from both to a proxy.  The four byte streams are    *)
(* the sender's "listener" and the receiver's "direct" connection to it,   *)
(* and the connections of both to the proxy, "proxy" and "out".            *)
(*                                                                         *)
(* Every method runs to its end on the main thread.  The states 0 to 4 of  *)
(* a byte stream are "shaking", 5 is "ready", 10 and 11 "moving", 6 and 7  *)
(* "failing", 8 and 9 "ending": the callbacks of its two closed streams    *)
(* come one after the other and only the second one does something.       *)
(***************************************************************************)
EXTENDS FiniteSets, Naturals

CONSTANTS
  Addresses,   \* of a stream host; the last one works if any does
  Size,        \* of the file, in chunks
  MaxBreaks    \* bound: connections that break

Sides == {"send", "recv"}
Hosts == {"direct", "proxy"}

\* A host is one that is offered with at least one address.
ASSUME FileTransferAssumption ==
  /\ Addresses \in [Hosts -> Nat \ {0}]
  /\ Size \in Nat
  /\ MaxBreaks \in Nat

Streams == {"listener", "direct", "proxy", "out"}
Side(b) == IF b \in {"listener", "out"} THEN "send" ELSE "recv"
Host(b) == IF b \in {"listener", "direct"} THEN "direct" ELSE "proxy"
Far == [listener |-> "direct", direct |-> "listener", proxy |-> "out", out |-> "proxy"]

VARIABLES
  t,           \* both ends of the transfer
  reachable,   \* the hosts that can be reached
  broken       \* those whose connection has broken

vars == <<t, reachable, broken>>

Init ==
  /\ t = [ state |-> [e \in Sides |-> "waiting"],
           conn |-> [b \in Streams |-> "none"],
           tried |-> [b \in Streams |-> 0],
           wire |-> {"offer"},           \* packets on their way
           bytestream |-> "none",        \* of the sender's token
           accepted |-> FALSE, proxy |-> FALSE,
           token |-> {},                 \* ends that have one
           bytestreams |-> {}, deleted |-> FALSE, pendingConnections |-> 0,
           sent |-> 0, got |-> 0,
           opened |-> [e \in Sides |-> 0],   \* history: the file was opened
           canceled |-> {},                  \* history: ends canceled with a token
           early |-> FALSE ]                 \* history: canceled before it had one
  /\ reachable \in SUBSET Hosts
  /\ broken = {}

-----------------------------------------------------------------------------
(* Byte streams                                                            *)

Conn(s, b, state) == [s EXCEPT !.conn[b] = state]

\* finish()
Finish(s, b) ==
  IF s.conn[b] = "aborted" THEN s
  ELSE Conn(s, b, IF s.conn[b] = "moving" THEN "ending" ELSE "failing")

\* abort(): a listener that nobody has connected to just stops to listen.
AbortStream(s, b) ==
  IF s.conn[b] = "none" THEN s
  ELSE Conn(s, b, IF s.conn[b] = "listening" THEN "over" ELSE "aborted")

\* Mutant: the first connection that fails is taken for the last one.
OnBytestreamFailureOnce(s, b) == [s EXCEPT !.state[Side(b)] = "failed"]

\* Only a receiver that still tries several hosts counts.
OnBytestreamFailure(s, b) ==
  IF Side(b) = "recv" /\ ~s.deleted /\ s.pendingConnections > 1
  THEN [s EXCEPT !.pendingConnections = @ - 1]
  ELSE [s EXCEPT !.state[Side(b)] = "failed",
                 !.pendingConnections = IF Side(b) = "recv" /\ ~s.deleted THEN 0 ELSE @]

\* connect(), of the next address if there is one
Connect(s, b) ==
  IF s.tried[b] < Addresses[Host(b)]
  THEN Conn([s EXCEPT !.tried[b] = @ + 1], b, "connecting")
  ELSE OnBytestreamFailure(Conn(s, b, "over"), b)

\* The sender reads the file, unless its token has been emptied: that throws.
StartSending(s) ==
  LET o == [s EXCEPT !.opened["send"] = @ + 1] IN
  IF s.bytestream = "none" THEN o
  ELSE [Conn(o, s.bytestream, "moving") EXCEPT !.state["send"] = "started"]

\* Mutant: the connections to the other hosts are left alone.
ReceiverReadyAlone(s, b) ==
  [Conn(s, b, "moving") EXCEPT
     !.wire = @ \cup {IF b = "direct" THEN "usedDirect" ELSE "usedProxy"},
     !.opened["recv"] = @ + 1, !.state["recv"] = "started"]

\* onBytestreamReady at the receiver: the others are aborted and the sender is told. If
\* the token was emptied that throws, and the caller of the callback finishes the stream.
ReceiverReady(s, b) ==
  IF s.deleted THEN Finish(Conn(s, b, "ready"), b)
  ELSE LET o == CHOOSE o \in Hosts : o # b
           r == IF o \in s.bytestreams THEN AbortStream(s, o) ELSE s
       IN  [Conn(r, b, "moving") EXCEPT
              !.bytestreams = {}, !.deleted = TRUE,
              !.wire = @ \cup {IF b = "direct" THEN "usedDirect" ELSE "usedProxy"},
              !.opened["recv"] = @ + 1, !.state["recv"] = "started"]

\* onBytestreamReady at the sender: a proxy has to be activated, a listener waits for the
\* answer that names it.
SenderReady(s, b) ==
  LET r == Conn(s, b, "ready") IN
  IF s.proxy THEN [r EXCEPT !.wire = @ \cup {"activate"}]
  ELSE IF s.accepted THEN StartSending(r)
  ELSE [r EXCEPT !.accepted = TRUE]

OnBytestreamReady(s, b) == IF Side(b) = "recv" THEN ReceiverReady(s, b) ELSE SenderReady(s, b)

-----------------------------------------------------------------------------
(* Packets                                                                 *)

Taken(packet) == [t EXCEPT !.wire = @ \ {packet}]

Quiet == UNCHANGED <<reachable, broken>>

\* FileTransfer.accept and reject, clicked by the user
Accept ==
  /\ "offer" \in t.wire
  /\ t' = [Taken("offer") EXCEPT !.wire = @ \cup {"agreed"}, !.token = @ \cup {"recv"}]
  /\ Quiet

Reject ==
  /\ "offer" \in t.wire
  /\ t' = [Taken("offer") EXCEPT !.wire = @ \cup {"refused"}]
  /\ Quiet

\* _sendOfferStep, and SOCKS5Service.sendFile: whatever has become of the transfer.
SendOfferStep ==
  /\ \/ /\ "agreed" \in t.wire
        /\ t' = [Conn(Taken("agreed"), "listener", "listening") EXCEPT
                   !.token = @ \cup {"send"}, !.bytestream = "listener",
                   !.wire = @ \cup {"hosts"}]
     \/ /\ "refused" \in t.wire
        /\ t' = [Taken("refused") EXCEPT !.state["send"] = "rejected"]
  /\ Quiet

\* SOCKS5Service.onIQ: with an emptied token it throws after the first connection.
OnIQ ==
  /\ "hosts" \in t.wire
  /\ t' = IF t.deleted THEN Connect(Taken("hosts"), "direct")
          ELSE [Connect(Connect(Taken("hosts"), "direct"), "proxy") EXCEPT
                  !.bytestreams = Hosts, !.pendingConnections = Cardinality(Hosts)]
  /\ Quiet

\* The hosts come back from the receiver's server with an error: it is not there any more.
HostsReturned ==
  /\ "hosts" \in t.wire
  /\ t' = [Taken("hosts") EXCEPT !.wire = @ \cup {"returned"}]
  /\ Quiet

\* Mutant: the listener is kept for the proxy.
SendFileStepKeeps(s, used) ==
  IF used = "returned"
  THEN IF s.bytestream = "none" THEN s
       ELSE [AbortStream(s, s.bytestream) EXCEPT !.state["send"] = "rejected"]
  ELSE IF used = "usedDirect" \/ s.accepted
  THEN IF s.accepted THEN StartSending(s) ELSE [s EXCEPT !.accepted = TRUE]
  ELSE IF s.bytestream = "none" THEN s
  ELSE [Connect(s, "out") EXCEPT !.bytestream = "out", !.proxy = TRUE]

\* _sendFileStep: the receiver says which stream host it uses, or cannot be asked; with an
\* emptied token it throws.
SendFileStep(s, used) ==
  IF used = "returned"
  THEN IF s.bytestream = "none" THEN s
       ELSE [AbortStream(s, s.bytestream) EXCEPT !.state["send"] = "rejected"]
  ELSE IF used = "usedDirect"
  THEN IF s.accepted THEN StartSending(s) ELSE [s EXCEPT !.accepted = TRUE]
  ELSE IF s.bytestream = "none" THEN s
  ELSE [Connect(AbortStream(s, "listener"), "out") EXCEPT !.bytestream = "out", !.proxy = TRUE]

UsedArrives ==
  /\ \E used \in {"usedDirect", "usedProxy", "returned"} :
       used \in t.wire /\ t' = SendFileStep(Taken(used), used)
  /\ Quiet

\* The proxy joins two connections that it has; _sendFileStep2.
ProxyAnswers ==
  /\ "activate" \in t.wire
  /\ LET s == Taken("activate")
         both == t.conn["proxy"] = "moving" /\ t.conn["out"] = "ready" /\ "proxy" \notin broken
     IN  t' = IF both THEN StartSending(s)
              ELSE IF s.bytestream = "none" THEN s
              ELSE [AbortStream(s, "out") EXCEPT !.state["send"] = "failed"]
  /\ Quiet

\* Mutant: the token keeps what was aborted.
AbortKeeps(s, e) ==
  IF e = "send" THEN AbortStream(s, "listener")
  ELSE [s EXCEPT !.conn = [b \in Streams |->
          IF Side(b) = "recv" /\ @[b] # "none" THEN "aborted" ELSE @[b]]]

\* SOCKS5Service.abort: all byte streams of the end's token are aborted and forgotten.
Abort(s, e) ==
  IF e = "send"
  THEN [IF s.bytestream = "none" THEN s ELSE AbortStream(s, s.bytestream) EXCEPT
          !.bytestream = "none"]
  ELSE [s EXCEPT !.deleted = TRUE, !.bytestreams = {},
                 !.conn = [b \in Streams |->
                   IF Side(b) = "recv" /\ @[b] # "none" THEN "aborted" ELSE @[b]]]

\* The "Cancel" link, shown until the transfer is finished.
Cancel(e) ==
  /\ t.state[e] \in {"waiting", "started"}
  /\ e = "recv" => "recv" \in t.token
  /\ t' = [IF e \in t.token THEN Abort(t, e) ELSE t EXCEPT
             !.state[e] = "canceled",
             !.canceled = IF e \in t.token THEN @ \cup {e} ELSE @,
             !.early = @ \/ e \notin t.token]
  /\ Quiet

-----------------------------------------------------------------------------
(* Connections                                                             *)

Works(b) ==
  /\ Host(b) \in reachable \ broken
  /\ t.tried[b] = Addresses[Host(b)]
  /\ b = "direct" => t.conn["listener"] = "listening"

\* The server socket takes one connection and is closed; a proxy is always ready.
Connects(b) ==
  /\ t.conn[b] = "connecting"
  /\ t' = IF ~Works(b) THEN Finish(t, b)
          ELSE IF b = "direct" THEN Conn(Conn(t, "direct", "shaking"), "listener", "shaking")
          ELSE OnBytestreamReady(t, b)
  /\ Quiet

Closed(b) == t.conn[Far[b]] \in {"failing", "ending", "aborted", "over", "connecting"}
Cut(b) == Host(b) \in broken \/ Closed(b)

\* The listener answers the last request of the handshake, the other end reads the answer.
HandshakeDone(b) ==
  /\ t.conn[b] = "shaking"
  /\ t' = IF b = "listener"
          THEN IF Cut(b) THEN Finish(t, b) ELSE OnBytestreamReady(t, b)
          ELSE IF t.conn["listener"] \in {"ready", "moving"} /\ ~Cut(b)
               THEN OnBytestreamReady(t, b)
          ELSE Finish(t, b)
  /\ b = "direct" => t.conn["listener"] # "shaking" \/ Cut(b)
  /\ Quiet

\* onOutputStreamReady in state 10: a write that fails throws.
Writes(b) ==
  /\ Side(b) = "send" /\ t.conn[b] = "moving"
  /\ t' = IF Cut(b) \/ t.sent = Size THEN Finish(t, b) ELSE [t EXCEPT !.sent = @ + 1]
  /\ Quiet

\* onInputStreamReady in state 11: what has arrived is read before the end is noticed,
\* unless the connection broke.
Reads(b) ==
  /\ Side(b) = "recv" /\ t.conn[b] = "moving"
  /\ \/ t.got < t.sent /\ t' = [t EXCEPT !.got = @ + 1]
     \/ /\ Host(b) \in broken \/ (Closed(b) /\ t.got = t.sent /\ t.conn[Far[b]] # "connecting")
        /\ t' = Finish(t, b)
  /\ Quiet

\* Both streams of a byte stream are closed: complete, or the next address, or a failure.
StreamsClosed(b) ==
  /\ \/ /\ t.conn[b] = "failing"
        /\ t' = IF b = "listener" THEN OnBytestreamFailure(Conn(t, b, "over"), b)
                ELSE Connect(t, b)
     \/ /\ t.conn[b] = "ending"
        /\ t' = [Conn(t, b, "over") EXCEPT !.state[Side(b)] = "completed"]
  /\ Quiet

Break(h) ==
  /\ Cardinality(broken) < MaxBreaks
  /\ \E b \in Streams : Host(b) = h /\ t.conn[b] \in {"shaking", "ready", "moving"}
  /\ broken' = broken \cup {h}
  /\ UNCHANGED <<t, reachable>>

Packet == SendOfferStep \/ OnIQ \/ UsedArrives \/ ProxyAnswers
Stream(b) == Connects(b) \/ HandshakeDone(b) \/ Writes(b) \/ Reads(b) \/ StreamsClosed(b)

Next ==
  \/ Accept \/ Reject \/ Packet \/ HostsReturned
  \/ \E e \in Sides : Cancel(e)
  \/ \E b \in Streams : Stream(b)
  \/ \E h \in Hosts : Break(h)

Spec == Init /\ [][Next]_vars

\* Packets are delivered and sockets report what happens to them; users owe nothing.
FairSpec == Spec /\ WF_vars(Packet) /\ \A b \in Streams : WF_vars(Stream(b))

-----------------------------------------------------------------------------
(* Properties                                                              *)

Moving == {b \in Streams : t.conn[b] = "moving"}

\* However the connections to the stream hosts race, each end opens the file once at most
\* and the file moves over one connection: the receiver keeps the first that is ready
\* (onBytestreamReady) and the sender sends over the one it is told (_sendFileStep).
OneStream ==
  /\ \A e \in Sides : t.opened[e] <= 1
  /\ \A b, c \in Moving : Host(b) = Host(c)

\* An end that is canceled once its token exists neither sends nor receives any more and
\* never ends as a success, although abort() empties a token that callbacks still use.
CancelHolds ==
  \A e \in t.canceled :
    t.state[e] \in {"canceled", "failed"} /\ \A b \in Moving : Side(b) # e

\* The receiver reports a failure only when no stream host can be used: pendingConnections
\* counts the hosts, each of which tries several addresses.
FailedForAReason ==
  t.state["recv"] = "failed" => reachable = {} \/ broken # {} \/ t.canceled # {}

\* What may keep the file from arriving; a sender whose hosts came back says so.
Trouble ==
  \/ reachable = {} \/ broken # {} \/ t.canceled # {} \/ t.early
  \/ t.state["send"] = "rejected"
Complete == t.got = Size /\ \A e \in Sides : t.state[e] = "completed"

\* A file that was accepted arrives if some stream host works: the listener's handshake and
\* the answer, the retries and the activation of the proxy leave nobody waiting.
FileArrives == "recv" \in t.token ~> Complete \/ Trouble
==============================================================================
