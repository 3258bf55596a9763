-------------------------- MODULE FileTransferProofs --------------------------
(***************************************************************************)
(* Proofs about module FileTransfer, for any numbers of addresses of the   *)
(* two hosts, any file and any number of broken connections.               *)
(*                                                                         *)
(* A transfer is a record of seventeen fields.  The methods are described  *)
(* once, by lemmas that say which fields they change and how; the steps    *)
(* use those and never expand Transfer.                                    *)
(***************************************************************************)
EXTENDS FileTransfer, FiniteSetTheorems, TLAPS

-----------------------------------------------------------------------------
(* The inductive invariant                                                 *)

ConnStates == {"none", "listening", "connecting", "shaking", "ready", "moving",
               "failing", "ending", "over", "aborted"}
Packets == {"offer", "agreed", "refused", "hosts", "returned", "usedDirect", "usedProxy",
            "activate"}
EndStates == {"waiting", "started", "rejected", "failed", "canceled", "completed"}

\* What a transfer is.
Transfer ==
  [ state : [Sides -> EndStates],
    conn : [Streams -> ConnStates],
    tried : [Streams -> Nat],
    wire : SUBSET Packets,
    bytestream : {"none", "listener", "out"},
    accepted : BOOLEAN, proxy : BOOLEAN,
    token : SUBSET Sides,
    bytestreams : SUBSET Hosts, deleted : BOOLEAN, pendingConnections : Nat,
    sent : Nat, got : Nat,
    opened : [Sides -> Nat],
    canceled : SUBSET Sides,
    early : BOOLEAN ]

Shape == t \in Transfer /\ reachable \subseteq Hosts /\ broken \subseteq Hosts

\* Before the sender has offered its hosts there is nothing to connect to and nothing to say.
Unoffered ==
  /\ t.conn["listener"] # "connecting"
  /\ t.conn["listener"] = "none" =>
       /\ t.conn["direct"] = "none" /\ t.conn["proxy"] = "none" /\ t.conn["out"] = "none"
       /\ {"hosts", "returned", "usedDirect", "usedProxy", "activate"} \cap t.wire = {}
       /\ ~t.accepted /\ ~t.proxy /\ t.bytestream = "none" /\ "send" \notin t.token
  /\ {"offer", "agreed", "refused"} \cap t.wire # {} => t.conn["listener"] = "none"
  /\ "offer" \in t.wire => "agreed" \notin t.wire /\ "refused" \notin t.wire
  /\ "agreed" \in t.wire => "refused" \notin t.wire
  /\ {"hosts", "returned"} \cap t.wire # {} => t.conn["direct"] = "none"
  /\ "returned" \in t.wire => "hosts" \notin t.wire

\* What shows that the receiver has chosen the sender's own host, or the proxy.
ChoseDirect ==
  \/ t.conn["direct"] = "moving" \/ "usedDirect" \in t.wire \/ t.conn["listener"] = "moving"
  \/ t.accepted /\ t.conn["listener"] \in {"listening", "shaking"}
ChoseProxy ==
  \/ t.conn["proxy"] = "moving" \/ "usedProxy" \in t.wire \/ t.proxy
  \/ "activate" \in t.wire \/ t.conn["out"] # "none"

\* The receiver chooses once, and its token is empty from then on.
Choice ==
  /\ ~t.deleted => ~ChoseDirect /\ ~ChoseProxy /\ t.opened["recv"] = 0
  /\ ~(ChoseDirect /\ ChoseProxy)
  /\ t.opened["recv"] <= 1

\* What the sender still waits for once it has, or has not, opened the file.
Waits ==
  /\ t.opened["send"] # 0 =>
       /\ t.opened["send"] = 1 /\ t.deleted
       /\ {"usedDirect", "usedProxy", "activate"} \cap t.wire = {}
       /\ t.conn["listener"] \notin {"none", "listening", "shaking"}
       /\ t.conn["out"] \in {"none", "moving", "ending", "over", "aborted"}
  /\ t.accepted /\ t.conn["listener"] \in {"listening", "shaking"} => "usedDirect" \notin t.wire
  /\ t.proxy => /\ t.bytestream \in {"none", "out"} /\ "usedProxy" \notin t.wire
                /\ t.conn["listener"] \in {"over", "aborted"}
                /\ t.conn["out"] \notin {"none", "listening", "shaking"}
                /\ t.bytestream = "none" => t.conn["out"] = "aborted"
  /\ ~t.proxy => t.bytestream \in {"none", "listener"} /\ t.conn["out"] = "none"
  /\ "activate" \in t.wire => t.proxy /\ t.conn["out"] \in {"ready", "aborted"}

\* What a canceled end has left.
Canceled ==
  /\ t.canceled \subseteq t.token
  /\ "send" \in t.token => t.bytestream # "none" \/ "send" \in t.canceled
  /\ "send" \in t.canceled =>
       /\ t.bytestream = "none"
       /\ {t.conn["listener"], t.conn["out"]} \cap {"moving", "ending"} = {}
       /\ t.state["send"] \in {"canceled", "failed"}
  /\ "recv" \in t.canceled =>
       /\ t.deleted
       /\ {t.conn["direct"], t.conn["proxy"]} \cap {"moving", "ending"} = {}
       /\ t.state["recv"] \in {"canceled", "failed"}

\* While some host works, no connection has broken and nobody has canceled, the receiver
\* does not run out of hosts.
Fine == reachable # {} /\ broken = {} /\ t.canceled = {}

Hopeful ==
  Fine =>
    /\ t.state["recv"] # "failed"
    /\ "hosts" \in t.wire =>
         /\ t.conn["direct"] = "none" /\ t.conn["listener"] = "listening"
    /\ t.conn["direct"] = "none" <=> t.conn["proxy"] = "none"
    /\ t.conn["direct"] = "none" => ~t.deleted /\ t.tried = [b \in Streams |-> 0]
    /\ t.deleted => \A b \in Hosts : t.conn[b] \in {"moving", "ending", "over", "aborted"}
    /\ ~t.deleted /\ t.conn["direct"] # "none" =>
         /\ t.bytestreams = Hosts
         /\ \A b \in Hosts : /\ t.conn[b] \in {"connecting", "shaking", "failing", "over"}
                             /\ t.tried[b] <= Addresses[b]
                             /\ b \in reachable /\ t.conn[b] = "failing" => t.tried[b] < Addresses[b]
                             /\ b \in reachable => t.conn[b] # "over"
         /\ t.conn["proxy"] # "shaking"
         /\ t.pendingConnections = IF \E b \in Hosts : t.conn[b] = "over" THEN 1 ELSE 2
         /\ t.conn["direct"] \in {"connecting", "failing"} => t.conn["listener"] = "listening"
         /\ t.conn["direct"] = "shaking" => t.conn["listener"] \in {"shaking", "ready"}
         /\ t.conn["listener"] = "shaking" => t.conn["direct"] = "shaking"

Core == Unoffered /\ Choice /\ Waits /\ Canceled

Inv == Shape /\ Core /\ Hopeful

-----------------------------------------------------------------------------
(* What the methods do                                                     *)

\* The fields that the connections alone do not touch.
Talk(s) == <<s.wire, s.bytestream, s.accepted, s.proxy, s.token, s.canceled,
             s.bytestreams, s.deleted>>
Books(s) == <<s.state, s.opened, s.tried, s.pendingConnections>>

\* What the fields of a transfer range over.
LEMMA TransferFields ==
  ASSUME NEW s \in Transfer
  PROVE  /\ \A e \in Sides : s.state[e] \in EndStates /\ s.opened[e] \in Nat
         /\ \A b \in Streams : s.conn[b] \in ConnStates /\ s.tried[b] \in Nat
         /\ s.state \in [Sides -> EndStates] /\ s.opened \in [Sides -> Nat]
         /\ s.conn \in [Streams -> ConnStates] /\ s.tried \in [Streams -> Nat]
         /\ s.accepted \in BOOLEAN /\ s.proxy \in BOOLEAN /\ s.deleted \in BOOLEAN
         /\ s.bytestream \in {"none", "listener", "out"}
         /\ s.pendingConnections \in Nat /\ s.sent \in Nat /\ s.got \in Nat
         /\ s.token \subseteq Sides /\ s.canceled \subseteq Sides
         /\ s.bytestreams \subseteq Hosts /\ s.wire \subseteq Packets
  BY DEF Transfer

LEMMA ConnFields ==
  ASSUME NEW s \in Transfer, NEW b \in Streams, NEW x \in ConnStates
  PROVE  LET d == Conn(s, b, x) IN
         /\ d \in Transfer /\ d.conn = [s.conn EXCEPT ![b] = x]
         /\ Talk(d) = Talk(s) /\ Books(d) = Books(s)
  BY DEF Conn, Transfer, Talk, Books

LEMMA FinishFields ==
  ASSUME NEW s \in Transfer, NEW b \in Streams
  PROVE  LET d == Finish(s, b) IN
         /\ d \in Transfer /\ Talk(d) = Talk(s) /\ Books(d) = Books(s)
         /\ d.conn = [s.conn EXCEPT ![b] = IF @ = "aborted" THEN "aborted"
                                          ELSE IF @ = "moving" THEN "ending" ELSE "failing"]
<1>1. CASE s.conn[b] = "aborted"
  BY <1>1, TransferFields DEF Finish
<1>2. CASE s.conn[b] = "moving"
  <2>1. Finish(s, b) = Conn(s, b, "ending") /\ "ending" \in ConnStates
    BY <1>2 DEF Finish, ConnStates
  <2> QED
    BY <1>2, <2>1, ConnFields
<1>3. CASE s.conn[b] # "aborted" /\ s.conn[b] # "moving"
  <2>1. Finish(s, b) = Conn(s, b, "failing") /\ "failing" \in ConnStates
    BY <1>3 DEF Finish, ConnStates
  <2> QED
    BY <1>3, <2>1, ConnFields
<1> QED
  BY <1>1, <1>2, <1>3

LEMMA AbortStreamFields ==
  ASSUME NEW s \in Transfer, NEW b \in Streams
  PROVE  LET d == AbortStream(s, b) IN
         /\ d \in Transfer /\ Talk(d) = Talk(s) /\ Books(d) = Books(s)
         /\ d.conn = [s.conn EXCEPT ![b] = IF @ = "none" THEN "none"
                                          ELSE IF @ = "listening" THEN "over" ELSE "aborted"]
<1>1. CASE s.conn[b] = "none"
  BY <1>1, TransferFields DEF AbortStream
<1>2. CASE s.conn[b] = "listening"
  <2>1. AbortStream(s, b) = Conn(s, b, "over") /\ "over" \in ConnStates
    BY <1>2 DEF AbortStream, ConnStates
  <2> QED
    BY <1>2, <2>1, ConnFields
<1>3. CASE s.conn[b] # "none" /\ s.conn[b] # "listening"
  <2>1. AbortStream(s, b) = Conn(s, b, "aborted") /\ "aborted" \in ConnStates
    BY <1>3 DEF AbortStream, ConnStates
  <2> QED
    BY <1>3, <2>1, ConnFields
<1> QED
  BY <1>1, <1>2, <1>3

\* A byte stream that fails may make its end of the transfer fail, and the receiver's fails
\* only if no other connection is pending.
LEMMA OnBytestreamFailureFields ==
  ASSUME NEW s \in Transfer, NEW b \in Streams
  PROVE  LET d == OnBytestreamFailure(s, b)
             more == Side(b) = "recv" /\ ~s.deleted /\ s.pendingConnections > 1
         IN
         /\ d \in Transfer /\ Talk(d) = Talk(s) /\ d.conn = s.conn
         /\ d.opened = s.opened /\ d.tried = s.tried
         /\ d.state = IF more THEN s.state ELSE [s.state EXCEPT ![Side(b)] = "failed"]
         /\ more => d.pendingConnections = s.pendingConnections - 1
         /\ Side(b) = "send" => d.pendingConnections = s.pendingConnections
<1> DEFINE more == Side(b) = "recv" /\ ~s.deleted /\ s.pendingConnections > 1
           d == OnBytestreamFailure(s, b)
<1>1. Side(b) \in Sides
  BY DEF Side, Sides
<1>2. s.pendingConnections \in Nat
  BY TransferFields
<1>3. CASE more
  <2> DEFINE n == s.pendingConnections - 1
  <2>1. n \in Nat
    BY <1>2, <1>3
  <2>2. d = [s EXCEPT !.pendingConnections = n]
    BY <1>3 DEF OnBytestreamFailure, Transfer
  <2> HIDE DEF n
  <2>3. /\ d \in Transfer /\ Talk(d) = Talk(s) /\ d.conn = s.conn
        /\ d.opened = s.opened /\ d.tried = s.tried /\ d.state = s.state
        /\ d.pendingConnections = n
    BY <2>1, <2>2 DEF Transfer, Talk
  <2> QED
    BY <1>3, <2>3 DEF n
<1>4. CASE ~more
  <2> DEFINE n == IF Side(b) = "recv" /\ ~s.deleted THEN 0 ELSE s.pendingConnections
             f == [s.state EXCEPT ![Side(b)] = "failed"]
  <2>1. n \in Nat /\ f \in [Sides -> EndStates]
    BY <1>1, <1>2, TransferFields DEF EndStates
  <2>2. d = [s EXCEPT !.state = f, !.pendingConnections = n]
    BY <1>4 DEF OnBytestreamFailure, Transfer
  <2> HIDE DEF n, f
  <2>3. /\ d \in Transfer /\ Talk(d) = Talk(s) /\ d.conn = s.conn
        /\ d.opened = s.opened /\ d.tried = s.tried /\ d.state = f
        /\ d.pendingConnections = n
    BY <2>1, <2>2 DEF Transfer, Talk
  <2> QED
    BY <1>4, <2>3 DEF f, n
<1> QED
  BY <1>3, <1>4

\* The next address is tried, or the connection is given up.
LEMMA ConnectFields ==
  ASSUME NEW s \in Transfer, NEW b \in Streams
  PROVE  LET d == Connect(s, b)
             next == s.tried[b] < Addresses[Host(b)]
             more == Side(b) = "recv" /\ ~s.deleted /\ s.pendingConnections > 1
         IN
         /\ d \in Transfer /\ Talk(d) = Talk(s) /\ d.opened = s.opened
         /\ d.conn = [s.conn EXCEPT ![b] = IF next THEN "connecting" ELSE "over"]
         /\ next => /\ d.state = s.state /\ d.pendingConnections = s.pendingConnections
                    /\ d.tried = [s.tried EXCEPT ![b] = @ + 1]
         /\ ~next =>
              /\ d.tried = s.tried
              /\ d.state = IF more THEN s.state ELSE [s.state EXCEPT ![Side(b)] = "failed"]
              /\ more => d.pendingConnections = s.pendingConnections - 1
              /\ Side(b) = "send" => d.pendingConnections = s.pendingConnections
<1> DEFINE d == Connect(s, b)
           next == s.tried[b] < Addresses[Host(b)]
<1>1. "connecting" \in ConnStates /\ "over" \in ConnStates
  BY DEF ConnStates
<1>2. CASE next
  <2> DEFINE f == [s.tried EXCEPT ![b] = @ + 1]
             r == [s EXCEPT !.tried = f]
  <2>1. f \in [Streams -> Nat]
    BY TransferFields
  <2>2. d = Conn(r, b, "connecting")
    BY <1>2 DEF Connect, Transfer
  <2> HIDE DEF f
  <2>3. /\ r \in Transfer /\ Talk(r) = Talk(s) /\ r.conn = s.conn /\ r.tried = f
        /\ r.opened = s.opened /\ r.state = s.state
        /\ r.pendingConnections = s.pendingConnections
    BY <2>1 DEF Transfer, Talk
  <2> HIDE DEF r
  <2>4. /\ d \in Transfer /\ d.conn = [r.conn EXCEPT ![b] = "connecting"]
        /\ Talk(d) = Talk(r) /\ Books(d) = Books(r)
    BY <1>1, <2>2, <2>3, ConnFields
  <2> QED
    BY <1>2, <2>3, <2>4 DEF Books, f
<1>3. CASE ~next
  <2> DEFINE r == Conn(s, b, "over")
  <2>1. d = OnBytestreamFailure(r, b)
    BY <1>3 DEF Connect
  <2>2. /\ r \in Transfer /\ r.conn = [s.conn EXCEPT ![b] = "over"]
        /\ Talk(r) = Talk(s) /\ Books(r) = Books(s)
    BY <1>1, ConnFields
  <2> HIDE DEF r
  <2>3. r.deleted = s.deleted /\ r.pendingConnections = s.pendingConnections
        /\ r.state = s.state /\ r.opened = s.opened /\ r.tried = s.tried
    BY <2>2 DEF Talk, Books
  <2> QED
    BY <1>3, <2>1, <2>2, <2>3, OnBytestreamFailureFields
<1> QED
  BY <1>2, <1>3

\* The sender opens the file, and sends it over what its token names.
LEMMA StartSendingFields ==
  ASSUME NEW s \in Transfer
  PROVE  LET d == StartSending(s) IN
         /\ d \in Transfer /\ Talk(d) = Talk(s) /\ d.tried = s.tried
         /\ d.pendingConnections = s.pendingConnections
         /\ d.opened = [s.opened EXCEPT !["send"] = @ + 1]
         /\ s.bytestream = "none" => d.conn = s.conn /\ d.state = s.state
         /\ s.bytestream # "none" =>
              /\ d.conn = [s.conn EXCEPT ![s.bytestream] = "moving"]
              /\ d.state = [s.state EXCEPT !["send"] = "started"]
<1> DEFINE d == StartSending(s)
           f == [s.opened EXCEPT !["send"] = @ + 1]
           o == [s EXCEPT !.opened = f]
<1>1. f \in [Sides -> Nat]
  BY TransferFields DEF Sides
<1>2. [s EXCEPT !.opened["send"] = @ + 1] = o
  BY DEF Transfer
<1> HIDE DEF f
<1>3. /\ o \in Transfer /\ Talk(o) = Talk(s) /\ o.tried = s.tried /\ o.opened = f
      /\ o.pendingConnections = s.pendingConnections /\ o.conn = s.conn /\ o.state = s.state
  BY <1>1 DEF Transfer, Talk
<1> HIDE DEF o
<1>4. CASE s.bytestream = "none"
  <2>1. d = o
    BY <1>2, <1>4 DEF StartSending
  <2> QED
    BY <1>3, <1>4, <2>1 DEF f
<1>5. CASE s.bytestream # "none"
  <2> DEFINE b == s.bytestream
             r == Conn(o, b, "moving")
             g == [r.state EXCEPT !["send"] = "started"]
  <2>1. b \in Streams /\ "moving" \in ConnStates
    BY <1>5, TransferFields DEF Streams, ConnStates
  <2>2. /\ r \in Transfer /\ r.conn = [o.conn EXCEPT ![b] = "moving"]
        /\ Talk(r) = Talk(o) /\ Books(r) = Books(o)
    BY <1>3, <2>1, ConnFields
  <2>3. d = [r EXCEPT !.state["send"] = "started"]
    BY <1>2, <1>5 DEF StartSending
  <2> HIDE DEF r
  <2>4. d = [r EXCEPT !.state = g]
    BY <2>2, <2>3 DEF Transfer
  <2>5. g \in [Sides -> EndStates]
    BY <2>2, TransferFields DEF EndStates
  <2> HIDE DEF g
  <2>6. /\ d \in Transfer /\ d.conn = r.conn /\ Talk(d) = Talk(r) /\ d.state = g
        /\ d.opened = r.opened /\ d.tried = r.tried
        /\ d.pendingConnections = r.pendingConnections
    BY <2>2, <2>4, <2>5 DEF Transfer, Talk
  <2> QED
    BY <1>3, <1>5, <2>2, <2>6 DEF Books, f, g
<1> QED
  BY <1>4, <1>5

\* What the receiver says of the connection it uses.
Used(b) == IF b = "direct" THEN "usedDirect" ELSE "usedProxy"
Other(b) == IF b = "direct" THEN "proxy" ELSE "direct"

\* The receiver's first working connection is kept and the other one aborted; with an empty
\* token the connection is given back.
LEMMA ReceiverReadyFields ==
  ASSUME NEW s \in Transfer, NEW b \in Hosts
  PROVE  LET d == ReceiverReady(s, b)
             o == Other(b)
         IN
         /\ d \in Transfer /\ d.tried = s.tried
         /\ s.deleted =>
              /\ d.conn = [s.conn EXCEPT ![b] = "failing"]
              /\ Talk(d) = Talk(s) /\ Books(d) = Books(s)
         /\ ~s.deleted =>
              /\ d.conn[b] = "moving"
              /\ d.conn[o] = IF o \in s.bytestreams
                             THEN IF s.conn[o] = "none" THEN "none"
                                  ELSE IF s.conn[o] = "listening" THEN "over" ELSE "aborted"
                             ELSE s.conn[o]
              /\ \A c \in {"listener", "out"} : d.conn[c] = s.conn[c]
              /\ d.wire = s.wire \cup {Used(b)} /\ d.deleted = TRUE
              /\ d.bytestream = s.bytestream /\ d.accepted = s.accepted
              /\ d.proxy = s.proxy /\ d.token = s.token /\ d.canceled = s.canceled
              /\ d.opened = [s.opened EXCEPT !["recv"] = @ + 1]
              /\ d.state = [s.state EXCEPT !["recv"] = "started"]
<1> DEFINE d == ReceiverReady(s, b)
           o == Other(b)
<1>1. /\ b \in Streams /\ o \in Streams /\ o \in Hosts /\ o # b
      /\ "ready" \in ConnStates /\ "moving" \in ConnStates
      /\ o = CHOOSE h \in Hosts : h # b
  BY DEF Hosts, Streams, Other, ConnStates
<1>2. CASE s.deleted
  <2> DEFINE r == Conn(s, b, "ready")
  <2>1. /\ r \in Transfer /\ r.conn = [s.conn EXCEPT ![b] = "ready"]
        /\ Talk(r) = Talk(s) /\ Books(r) = Books(s)
    BY <1>1, ConnFields
  <2>2. d = Finish(r, b)
    BY <1>2 DEF ReceiverReady
  <2> HIDE DEF r
  <2>3. /\ d \in Transfer /\ Talk(d) = Talk(r) /\ Books(d) = Books(r)
        /\ d.conn = [r.conn EXCEPT ![b] = IF @ = "aborted" THEN "aborted"
                                         ELSE IF @ = "moving" THEN "ending" ELSE "failing"]
    BY <1>1, <2>1, <2>2, FinishFields
  <2>4. d.conn = [s.conn EXCEPT ![b] = "failing"]
    BY <1>1, <2>1, <2>3, TransferFields
  <2>5. d.tried = s.tried
    BY <2>1, <2>3 DEF Books
  <2> QED
    BY <1>2, <2>1, <2>3, <2>4, <2>5
<1>3. CASE ~s.deleted
  <2> DEFINE r == IF o \in s.bytestreams THEN AbortStream(s, o) ELSE s
             m == Conn(r, b, "moving")
             w == m.wire \cup {Used(b)}
             f == [m.opened EXCEPT !["recv"] = @ + 1]
             g == [m.state EXCEPT !["recv"] = "started"]
  <2>1. /\ r \in Transfer /\ Talk(r) = Talk(s) /\ Books(r) = Books(s)
        /\ r.conn = [s.conn EXCEPT ![o] =
             IF o \in s.bytestreams
             THEN IF @ = "none" THEN "none" ELSE IF @ = "listening" THEN "over" ELSE "aborted"
             ELSE @]
    <3>1. CASE o \in s.bytestreams
      BY <1>1, <3>1, AbortStreamFields
    <3>2. CASE o \notin s.bytestreams
      BY <1>1, <3>2, TransferFields
    <3> QED
      BY <3>1, <3>2
  <2> HIDE DEF r
  <2>2. /\ m \in Transfer /\ m.conn = [r.conn EXCEPT ![b] = "moving"]
        /\ Talk(m) = Talk(r) /\ Books(m) = Books(r)
    BY <1>1, <2>1, ConnFields
  <2>3. d = [m EXCEPT !.bytestreams = {}, !.deleted = TRUE,
                      !.wire = @ \cup {Used(b)},
                      !.opened["recv"] = @ + 1, !.state["recv"] = "started"]
    BY <1>1, <1>3 DEF ReceiverReady, r, Used
  <2> HIDE DEF m
  <2>4. w \subseteq Packets /\ f \in [Sides -> Nat] /\ g \in [Sides -> EndStates]
    BY <2>2, TransferFields DEF Packets, Sides, EndStates, Used
  <2>5. d = [m EXCEPT !.bytestreams = {}, !.deleted = TRUE, !.wire = w,
                      !.opened = f, !.state = g]
    BY <2>2, <2>3 DEF Transfer
  <2> HIDE DEF w, f, g
  <2>6. /\ d \in Transfer /\ d.conn = m.conn /\ d.tried = m.tried /\ d.wire = w
        /\ d.deleted = TRUE /\ d.opened = f /\ d.state = g
        /\ d.bytestream = m.bytestream /\ d.accepted = m.accepted /\ d.proxy = m.proxy
        /\ d.token = m.token /\ d.canceled = m.canceled
    BY <2>2, <2>4, <2>5 DEF Transfer
  <2>7. /\ d.tried = s.tried /\ d.wire = s.wire \cup {Used(b)}
        /\ d.bytestream = s.bytestream /\ d.accepted = s.accepted
        /\ d.proxy = s.proxy /\ d.token = s.token /\ d.canceled = s.canceled
        /\ d.opened = [s.opened EXCEPT !["recv"] = @ + 1]
        /\ d.state = [s.state EXCEPT !["recv"] = "started"]
    BY <2>1, <2>2, <2>6 DEF Talk, Books, w, f, g
  <2>8. /\ d.conn[b] = "moving"
        /\ d.conn[o] = IF o \in s.bytestreams
                       THEN IF s.conn[o] = "none" THEN "none"
                            ELSE IF s.conn[o] = "listening" THEN "over" ELSE "aborted"
                       ELSE s.conn[o]
        /\ \A c \in {"listener", "out"} : d.conn[c] = s.conn[c]
    <3>1. s.conn \in [Streams -> ConnStates]
      BY TransferFields
    <3>2. b \notin {"listener", "out"} /\ o \notin {"listener", "out"}
      BY <1>1 DEF Hosts
    <3> DEFINE v == IF o \in s.bytestreams
                    THEN IF s.conn[o] = "none" THEN "none"
                         ELSE IF s.conn[o] = "listening" THEN "over" ELSE "aborted"
                    ELSE s.conn[o]
    <3>3. r.conn = [s.conn EXCEPT ![o] = v]
      BY <2>1
    <3> HIDE DEF v
    <3>4. d.conn = [r.conn EXCEPT ![b] = "moving"]
      BY <2>2, <2>6
    <3>5. r.conn \in [Streams -> ConnStates]
      BY <2>1, TransferFields
    <3>6. d.conn[b] = "moving" /\ d.conn[o] = v
      BY <1>1, <3>1, <3>3, <3>4, <3>5
    <3>7. \A c \in {"listener", "out"} : d.conn[c] = s.conn[c]
      BY <1>1, <3>1, <3>2, <3>3, <3>4, <3>5 DEF Streams
    <3> QED
      BY <3>6, <3>7 DEF v
  <2> QED
    BY <1>3, <2>6, <2>7, <2>8
<1> QED
  BY <1>2, <1>3

\* Assignments to single fields.
LEMMA SingleFields ==
  ASSUME NEW s \in Transfer
  PROVE  /\ \A w \in SUBSET Packets :
              LET d == [s EXCEPT !.wire = w] IN
              /\ d \in Transfer /\ d.wire = w /\ d.conn = s.conn /\ Books(d) = Books(s)
              /\ d.bytestream = s.bytestream /\ d.accepted = s.accepted /\ d.proxy = s.proxy
              /\ d.token = s.token /\ d.canceled = s.canceled
              /\ d.bytestreams = s.bytestreams /\ d.deleted = s.deleted
         /\ LET d == [s EXCEPT !.accepted = TRUE] IN
              /\ d \in Transfer /\ d.wire = s.wire /\ d.conn = s.conn /\ Books(d) = Books(s)
              /\ d.bytestream = s.bytestream /\ d.accepted = TRUE /\ d.proxy = s.proxy
              /\ d.token = s.token /\ d.canceled = s.canceled
              /\ d.bytestreams = s.bytestreams /\ d.deleted = s.deleted
         /\ \A f \in [Sides -> EndStates] :
              LET d == [s EXCEPT !.state = f] IN
              /\ d \in Transfer /\ Talk(d) = Talk(s) /\ d.conn = s.conn /\ d.state = f
              /\ d.opened = s.opened /\ d.tried = s.tried
              /\ d.pendingConnections = s.pendingConnections
<1>1. ASSUME NEW w \in SUBSET Packets
      PROVE  LET d == [s EXCEPT !.wire = w] IN
             /\ d \in Transfer /\ d.wire = w /\ d.conn = s.conn /\ Books(d) = Books(s)
             /\ d.bytestream = s.bytestream /\ d.accepted = s.accepted /\ d.proxy = s.proxy
             /\ d.token = s.token /\ d.canceled = s.canceled
             /\ d.bytestreams = s.bytestreams /\ d.deleted = s.deleted
  BY DEF Transfer, Books
<1>2. LET d == [s EXCEPT !.accepted = TRUE] IN
        /\ d \in Transfer /\ d.wire = s.wire /\ d.conn = s.conn /\ Books(d) = Books(s)
        /\ d.bytestream = s.bytestream /\ d.accepted = TRUE /\ d.proxy = s.proxy
        /\ d.token = s.token /\ d.canceled = s.canceled
        /\ d.bytestreams = s.bytestreams /\ d.deleted = s.deleted
  BY DEF Transfer, Books
<1>3. ASSUME NEW f \in [Sides -> EndStates]
      PROVE  LET d == [s EXCEPT !.state = f] IN
             /\ d \in Transfer /\ Talk(d) = Talk(s) /\ d.conn = s.conn /\ d.state = f
             /\ d.opened = s.opened /\ d.tried = s.tried
             /\ d.pendingConnections = s.pendingConnections
  BY DEF Transfer, Talk
<1> QED
  BY <1>1, <1>2, <1>3

\* The sender's connection is ready: it activates the proxy, starts, or waits for the answer.
LEMMA SenderReadyFields ==
  ASSUME NEW s \in Transfer, NEW b \in {"listener", "out"}
  PROVE  LET d == SenderReady(s, b)
             c == [s.conn EXCEPT ![b] = "ready"]
         IN
         /\ d \in Transfer /\ d.tried = s.tried
         /\ d.pendingConnections = s.pendingConnections
         /\ d.bytestream = s.bytestream /\ d.proxy = s.proxy /\ d.token = s.token
         /\ d.canceled = s.canceled /\ d.bytestreams = s.bytestreams /\ d.deleted = s.deleted
         /\ s.proxy => /\ d.wire = s.wire \cup {"activate"} /\ d.conn = c
                       /\ d.accepted = s.accepted /\ Books(d) = Books(s)
         /\ ~s.proxy => d.wire = s.wire /\ d.accepted = TRUE
         /\ ~s.proxy /\ ~s.accepted => d.conn = c /\ Books(d) = Books(s)
         /\ ~s.proxy /\ s.accepted =>
              /\ d.opened = [s.opened EXCEPT !["send"] = @ + 1]
              /\ s.bytestream = "none" => d.conn = c /\ d.state = s.state
              /\ s.bytestream # "none" =>
                   /\ d.conn = [c EXCEPT ![s.bytestream] = "moving"]
                   /\ d.state = [s.state EXCEPT !["send"] = "started"]
<1> DEFINE d == SenderReady(s, b)
           r == Conn(s, b, "ready")
<1>1. b \in Streams /\ "ready" \in ConnStates /\ "activate" \in Packets
  BY DEF Streams, ConnStates, Packets
<1>2. /\ r \in Transfer /\ r.conn = [s.conn EXCEPT ![b] = "ready"]
      /\ Talk(r) = Talk(s) /\ Books(r) = Books(s)
  BY <1>1, ConnFields
<1>3. d = IF s.proxy THEN [r EXCEPT !.wire = @ \cup {"activate"}]
          ELSE IF s.accepted THEN StartSending(r)
          ELSE [r EXCEPT !.accepted = TRUE]
  BY DEF SenderReady
<1> HIDE DEF r, d
<1>4. CASE s.proxy
  <2> DEFINE w == r.wire \cup {"activate"}
  <2>1. w \in SUBSET Packets
    BY <1>1, <1>2, TransferFields
  <2>2. d = [r EXCEPT !.wire = w]
    BY <1>2, <1>3, <1>4 DEF Transfer
  <2> HIDE DEF w
  <2>3. /\ d \in Transfer /\ d.wire = w /\ d.conn = r.conn /\ Books(d) = Books(r)
        /\ d.bytestream = r.bytestream /\ d.accepted = r.accepted /\ d.proxy = r.proxy
        /\ d.token = r.token /\ d.canceled = r.canceled
        /\ d.bytestreams = r.bytestreams /\ d.deleted = r.deleted
    BY <1>2, <2>1, <2>2, SingleFields, ZenonT(60)
  <2> QED
    BY <1>2, <1>4, <2>3 DEF d, w, Talk, Books
<1>5. CASE ~s.proxy /\ ~s.accepted
  <2>1. d = [r EXCEPT !.accepted = TRUE]
    BY <1>3, <1>5
  <2>2. /\ d \in Transfer /\ d.wire = r.wire /\ d.conn = r.conn /\ Books(d) = Books(r)
        /\ d.bytestream = r.bytestream /\ d.accepted = TRUE /\ d.proxy = r.proxy
        /\ d.token = r.token /\ d.canceled = r.canceled
        /\ d.bytestreams = r.bytestreams /\ d.deleted = r.deleted
    BY <1>2, <2>1, SingleFields
  <2> QED
    BY <1>2, <1>5, <2>2 DEF d, Talk, Books
<1>6. CASE ~s.proxy /\ s.accepted
  <2>1. d = StartSending(r)
    BY <1>3, <1>6
  <2>2. /\ d \in Transfer /\ Talk(d) = Talk(r) /\ d.tried = r.tried
        /\ d.pendingConnections = r.pendingConnections
        /\ d.opened = [r.opened EXCEPT !["send"] = @ + 1]
        /\ r.bytestream = "none" => d.conn = r.conn /\ d.state = r.state
        /\ r.bytestream # "none" =>
             /\ d.conn = [r.conn EXCEPT ![r.bytestream] = "moving"]
             /\ d.state = [r.state EXCEPT !["send"] = "started"]
    BY <1>2, <2>1, StartSendingFields
  <2>3. d.accepted = TRUE
    BY <1>2, <1>6, <2>2, TransferFields DEF Talk
  <2> QED
    BY <1>2, <1>6, <2>2, <2>3 DEF d, Talk, Books
<1> QED
  BY <1>4, <1>5, <1>6 DEF d

\* abort() of an end: its connections are aborted and its token emptied.
LEMMA AbortFields ==
  ASSUME NEW s \in Transfer
  PROVE  /\ LET d == Abort(s, "send") IN
            /\ d \in Transfer /\ Books(d) = Books(s) /\ d.bytestream = "none"
            /\ d.wire = s.wire /\ d.accepted = s.accepted /\ d.proxy = s.proxy
            /\ d.token = s.token /\ d.canceled = s.canceled /\ d.deleted = s.deleted
            /\ s.bytestream = "none" => d.conn = s.conn
            /\ s.bytestream # "none" =>
                 d.conn = [s.conn EXCEPT ![s.bytestream] =
                             IF @ = "none" THEN "none"
                             ELSE IF @ = "listening" THEN "over" ELSE "aborted"]
         /\ LET d == Abort(s, "recv") IN
            /\ d \in Transfer /\ Books(d) = Books(s) /\ d.bytestream = s.bytestream
            /\ d.wire = s.wire /\ d.accepted = s.accepted /\ d.proxy = s.proxy
            /\ d.token = s.token /\ d.canceled = s.canceled /\ d.deleted = TRUE
            /\ \A b \in {"listener", "out"} : d.conn[b] = s.conn[b]
            /\ \A b \in Hosts :
                 d.conn[b] = IF s.conn[b] = "none" THEN "none" ELSE "aborted"
<1>1. LET d == Abort(s, "send") IN
      /\ d \in Transfer /\ Books(d) = Books(s) /\ d.bytestream = "none"
      /\ d.wire = s.wire /\ d.accepted = s.accepted /\ d.proxy = s.proxy
      /\ d.token = s.token /\ d.canceled = s.canceled /\ d.deleted = s.deleted
      /\ s.bytestream = "none" => d.conn = s.conn
      /\ s.bytestream # "none" =>
           d.conn = [s.conn EXCEPT ![s.bytestream] =
                       IF @ = "none" THEN "none"
                       ELSE IF @ = "listening" THEN "over" ELSE "aborted"]
  <2> DEFINE r == IF s.bytestream = "none" THEN s ELSE AbortStream(s, s.bytestream)
             d == [r EXCEPT !.bytestream = "none"]
  <2>1. s.bytestream # "none" => s.bytestream \in Streams
    BY TransferFields DEF Streams
  <2>2. /\ r \in Transfer /\ Talk(r) = Talk(s) /\ Books(r) = Books(s)
        /\ s.bytestream = "none" => r.conn = s.conn
        /\ s.bytestream # "none" =>
             r.conn = [s.conn EXCEPT ![s.bytestream] =
                         IF @ = "none" THEN "none"
                         ELSE IF @ = "listening" THEN "over" ELSE "aborted"]
    BY <2>1, AbortStreamFields
  <2>3. Abort(s, "send") = d
    BY DEF Abort
  <2> HIDE DEF r
  <2>4. /\ d \in Transfer /\ d.conn = r.conn /\ Books(d) = Books(r) /\ d.bytestream = "none"
        /\ d.wire = r.wire /\ d.accepted = r.accepted /\ d.proxy = r.proxy
        /\ d.token = r.token /\ d.canceled = r.canceled /\ d.deleted = r.deleted
    BY <2>2 DEF Transfer, Books
  <2> HIDE DEF d
  <2> QED
    BY <2>2, <2>3, <2>4 DEF Talk
<1>2. LET d == Abort(s, "recv") IN
      /\ d \in Transfer /\ Books(d) = Books(s) /\ d.bytestream = s.bytestream
      /\ d.wire = s.wire /\ d.accepted = s.accepted /\ d.proxy = s.proxy
      /\ d.token = s.token /\ d.canceled = s.canceled /\ d.deleted = TRUE
      /\ \A b \in {"listener", "out"} : d.conn[b] = s.conn[b]
      /\ \A b \in Hosts : d.conn[b] = IF s.conn[b] = "none" THEN "none" ELSE "aborted"
  <2> DEFINE f == [b \in Streams |->
                     IF Side(b) = "recv" /\ s.conn[b] # "none" THEN "aborted" ELSE s.conn[b]]
             d == [s EXCEPT !.deleted = TRUE, !.bytestreams = {}, !.conn = f]
  <2>1. f \in [Streams -> ConnStates]
    BY TransferFields DEF ConnStates
  <2>2. Abort(s, "recv") = d
    BY DEF Abort, Transfer
  <2>3. /\ \A b \in {"listener", "out"} : f[b] = s.conn[b]
        /\ \A b \in Hosts : f[b] = IF s.conn[b] = "none" THEN "none" ELSE "aborted"
    BY DEF Streams, Hosts, Side
  <2> HIDE DEF f
  <2>4. /\ d \in Transfer /\ Books(d) = Books(s) /\ d.bytestream = s.bytestream
        /\ d.wire = s.wire /\ d.accepted = s.accepted /\ d.proxy = s.proxy
        /\ d.token = s.token /\ d.canceled = s.canceled /\ d.deleted = TRUE /\ d.conn = f
    BY <2>1 DEF Transfer, Books
  <2> HIDE DEF d
  <2> QED
    BY <2>2, <2>3, <2>4
<1> QED
  BY <1>1, <1>2

\* The receiver tries the next address of a host, or gives the host up.
LEMMA ReceiverConnects ==
  ASSUME NEW s \in Transfer, NEW b \in Hosts
  PROVE  LET d == Connect(s, b)
             next == s.tried[b] < Addresses[b]
         IN
         /\ d \in Transfer /\ Talk(d) = Talk(s) /\ d.opened = s.opened
         /\ d.conn = [s.conn EXCEPT ![b] = IF next THEN "connecting" ELSE "over"]
         /\ d.state["send"] = s.state["send"]
         /\ d.state["recv"] \in {s.state["recv"], "failed"}
         /\ next => /\ d.state = s.state /\ d.pendingConnections = s.pendingConnections
                    /\ d.tried = [s.tried EXCEPT ![b] = @ + 1]
         /\ ~next =>
              /\ d.tried = s.tried
              /\ ~s.deleted /\ s.pendingConnections > 1 =>
                   d.state = s.state /\ d.pendingConnections = s.pendingConnections - 1
<1> DEFINE d == Connect(s, b)
           next == s.tried[b] < Addresses[Host(b)]
           more == Side(b) = "recv" /\ ~s.deleted /\ s.pendingConnections > 1
<1>1. b \in Streams /\ Side(b) = "recv" /\ Host(b) = b
  BY DEF Hosts, Streams, Side, Host
<1>2. /\ d \in Transfer /\ Talk(d) = Talk(s) /\ d.opened = s.opened
      /\ d.conn = [s.conn EXCEPT ![b] = IF next THEN "connecting" ELSE "over"]
      /\ next => /\ d.state = s.state /\ d.pendingConnections = s.pendingConnections
                 /\ d.tried = [s.tried EXCEPT ![b] = @ + 1]
      /\ ~next =>
           /\ d.tried = s.tried
           /\ d.state = IF more THEN s.state ELSE [s.state EXCEPT ![Side(b)] = "failed"]
           /\ more => d.pendingConnections = s.pendingConnections - 1
  BY <1>1, ConnectFields
<1> HIDE DEF d
<1>3. s.state \in [Sides -> EndStates] /\ "send" \in Sides /\ "recv" \in Sides
  BY TransferFields DEF Sides
<1>4. d.state = s.state \/ d.state = [s.state EXCEPT !["recv"] = "failed"]
  BY <1>1, <1>2
<1>5. d.state["send"] = s.state["send"] /\ d.state["recv"] \in {s.state["recv"], "failed"}
  BY <1>3, <1>4
<1> QED
  BY <1>1, <1>2, <1>5 DEF d

-----------------------------------------------------------------------------
(* The receiver chooses one host, and a canceled end stays canceled        *)

\* One connection goes on towards its end, which may settle the fate of its side.
LEMMA SlideKeeps ==
  ASSUME Inv, NEW b \in Streams, NEW x, t' \in Transfer,
         Talk(t') = Talk(t), t'.opened = t.opened, t'.conn = [t.conn EXCEPT ![b] = x],
         \/ t.conn[b] \in {"connecting", "shaking"} /\ x = "failing"
         \/ t.conn[b] = "moving" /\ x = "ending"
         \/ t.conn[b] = "ending" /\ x = "over"
         \/ t.conn[b] = "failing" /\ x \in {"connecting", "over"}
                                  /\ (b = "listener" => x = "over"),
         \A e \in Sides : \/ t'.state[e] = t.state[e]
                          \/ e = Side(b) /\ t'.state[e] = "failed"
                          \/ e = Side(b) /\ t.conn[b] = "ending"
  PROVE  Core'
<1>1. t \in Transfer /\ t.conn \in [Streams -> ConnStates]
  BY TransferFields DEF Inv, Shape
<1>2. t'.conn[b] = x /\ \A c \in Streams : c # b => t'.conn[c] = t.conn[c]
  BY <1>1
<1>3. /\ t'.wire = t.wire /\ t'.bytestream = t.bytestream /\ t'.accepted = t.accepted
      /\ t'.proxy = t.proxy /\ t'.token = t.token /\ t'.canceled = t.canceled
      /\ t'.deleted = t.deleted
  BY DEF Talk
<1>4. b \in {"listener", "direct", "proxy", "out"}
  BY DEF Streams
<1>5. /\ t'.conn["listener"] = IF b = "listener" THEN x ELSE t.conn["listener"]
      /\ t'.conn["direct"] = IF b = "direct" THEN x ELSE t.conn["direct"]
      /\ t'.conn["proxy"] = IF b = "proxy" THEN x ELSE t.conn["proxy"]
      /\ t'.conn["out"] = IF b = "out" THEN x ELSE t.conn["out"]
  BY <1>2 DEF Streams
<1>6. Unoffered'
  BY <1>3, <1>4, <1>5 DEF Inv, Core, Unoffered
<1>7. (ChoseDirect' => ChoseDirect) /\ (ChoseProxy' => ChoseProxy)
  BY <1>3, <1>4, <1>5 DEF ChoseDirect, ChoseProxy
<1>8. Choice'
  BY <1>3, <1>7 DEF Inv, Core, Choice
<1>9. Waits'
  BY <1>3, <1>4, <1>5 DEF Inv, Core, Waits
<1>10. Canceled'
  <2>1. "send" \in Sides /\ "recv" \in Sides
    BY DEF Sides
  <2>2. ASSUME "send" \in t.canceled
        PROVE  /\ {t'.conn["listener"], t'.conn["out"]} \cap {"moving", "ending"} = {}
               /\ t'.state["send"] \in {"canceled", "failed"}
    BY <1>4, <1>5, <2>1, <2>2 DEF Inv, Core, Canceled, Side
  <2>3. ASSUME "recv" \in t.canceled
        PROVE  /\ {t'.conn["direct"], t'.conn["proxy"]} \cap {"moving", "ending"} = {}
               /\ t'.state["recv"] \in {"canceled", "failed"}
    BY <1>4, <1>5, <2>1, <2>3 DEF Inv, Core, Canceled, Side
  <2> QED
    BY <1>3, <2>2, <2>3 DEF Inv, Core, Canceled
<1> QED
  BY <1>6, <1>8, <1>9, <1>10 DEF Core

\* Nothing of it changes.
LEMMA CoreUnchanged ==
  ASSUME Inv, Talk(t') = Talk(t), t'.opened = t.opened, t'.state = t.state, t'.conn = t.conn
  PROVE  Core'
<1>1. /\ t'.wire = t.wire /\ t'.bytestream = t.bytestream /\ t'.accepted = t.accepted
      /\ t'.proxy = t.proxy /\ t'.token = t.token /\ t'.canceled = t.canceled
      /\ t'.deleted = t.deleted
  BY DEF Talk
<1> QED
  BY <1>1 DEF Inv, Core, Unoffered, Choice, ChoseDirect, ChoseProxy, Waits, Canceled

\* What a packet that is taken leaves.
LEMMA TakenFields ==
  ASSUME Inv, NEW packet
  PROVE  LET s == Taken(packet) IN
         /\ s \in Transfer /\ s.wire = t.wire \ {packet} /\ s.conn = t.conn
         /\ Books(s) = Books(t) /\ s.bytestream = t.bytestream /\ s.accepted = t.accepted
         /\ s.proxy = t.proxy /\ s.token = t.token /\ s.canceled = t.canceled
         /\ s.bytestreams = t.bytestreams /\ s.deleted = t.deleted
<1> DEFINE w == t.wire \ {packet}
<1>1. t \in Transfer /\ w \in SUBSET Packets
  BY TransferFields DEF Inv, Shape
<1>2. Taken(packet) = [t EXCEPT !.wire = w]
  BY <1>1 DEF Taken, Transfer
<1> HIDE DEF w
<1>3. LET s == [t EXCEPT !.wire = w] IN
      /\ s \in Transfer /\ s.wire = w /\ s.conn = t.conn
      /\ Books(s) = Books(t) /\ s.bytestream = t.bytestream /\ s.accepted = t.accepted
      /\ s.proxy = t.proxy /\ s.token = t.token /\ s.canceled = t.canceled
      /\ s.bytestreams = t.bytestreams /\ s.deleted = t.deleted
  BY <1>1, SingleFields
<1> QED
  BY <1>2, <1>3 DEF w

\* The user's answer to the offer.
LEMMA AnswerKeeps ==
  ASSUME Inv, Accept \/ Reject
  PROVE  t' \in Transfer /\ Core' /\ Hopeful'
<1> DEFINE s == Taken("offer")
<1>1. "offer" \in t.wire /\ UNCHANGED <<reachable, broken>>
  BY DEF Accept, Reject, Quiet
<1>2. /\ s \in Transfer /\ s.wire = t.wire \ {"offer"} /\ s.conn = t.conn
      /\ Books(s) = Books(t) /\ s.bytestream = t.bytestream /\ s.accepted = t.accepted
      /\ s.proxy = t.proxy /\ s.token = t.token /\ s.canceled = t.canceled
      /\ s.bytestreams = t.bytestreams /\ s.deleted = t.deleted
  BY TakenFields
<1>3. /\ t' \in Transfer /\ t'.conn = t.conn /\ Books(t') = Books(t)
      /\ t'.wire \in {(t.wire \ {"offer"}) \cup {"agreed"}, (t.wire \ {"offer"}) \cup {"refused"}}
      /\ t'.bytestream = t.bytestream /\ t'.accepted = t.accepted
      /\ t'.proxy = t.proxy /\ t'.canceled = t.canceled
      /\ t'.bytestreams = t.bytestreams /\ t'.deleted = t.deleted
      /\ t'.token \in {t.token, t.token \cup {"recv"}}
  <2>1. /\ s.wire \cup {"agreed"} \subseteq Packets /\ s.wire \cup {"refused"} \subseteq Packets
        /\ s.token \cup {"recv"} \subseteq Sides
    BY <1>2, TransferFields DEF Packets, Sides
  <2>2. \/ t' = [s EXCEPT !.wire = @ \cup {"agreed"}, !.token = @ \cup {"recv"}]
        \/ t' = [s EXCEPT !.wire = @ \cup {"refused"}]
    BY DEF Accept, Reject
  <2> HIDE DEF s
  <2> DEFINE w == s.wire \cup {"agreed"}
             k == s.token \cup {"recv"}
             v == s.wire \cup {"refused"}
  <2>3. t' = [s EXCEPT !.wire = w, !.token = k] \/ t' = [s EXCEPT !.wire = v]
    BY <1>2, <2>2 DEF Transfer
  <2>4. w \subseteq Packets /\ v \subseteq Packets /\ k \subseteq Sides
    BY <2>1
  <2> HIDE DEF w, k, v
  <2>5. /\ t' \in Transfer /\ t'.conn = s.conn /\ Books(t') = Books(s)
        /\ t'.wire \in {w, v}
        /\ t'.bytestream = s.bytestream /\ t'.accepted = s.accepted
        /\ t'.proxy = s.proxy /\ t'.canceled = s.canceled
        /\ t'.bytestreams = s.bytestreams /\ t'.deleted = s.deleted
        /\ t'.token \in {s.token, k}
    BY <1>2, <2>3, <2>4, ZenonT(60) DEF Transfer, Books
  <2> QED
    BY <1>2, <2>5 DEF w, k, v
<1> HIDE DEF s
<1>4. Unoffered'
  BY <1>1, <1>3 DEF Inv, Core, Unoffered
<1>5. (ChoseDirect' <=> ChoseDirect) /\ (ChoseProxy' <=> ChoseProxy)
  BY <1>3 DEF ChoseDirect, ChoseProxy
<1>6. Choice'
  BY <1>3, <1>5 DEF Inv, Core, Choice, Books
<1>7. Waits'
  BY <1>3 DEF Inv, Core, Waits, Books
<1>8. Canceled'
  BY <1>3 DEF Inv, Core, Canceled, Books
<1>9. Hopeful'
  BY <1>1, <1>3 DEF Inv, Hopeful, Fine, Books
<1> QED
  BY <1>3, <1>4, <1>6, <1>7, <1>8, <1>9 DEF Core

\* The sender offers its hosts, or learns that nobody wants the file.
LEMMA OfferKeeps ==
  ASSUME Inv, SendOfferStep
  PROVE  t' \in Transfer /\ Core' /\ Hopeful'
<1>1. UNCHANGED <<reachable, broken>>
  BY DEF SendOfferStep, Quiet
<1>2. t.conn \in [Streams -> ConnStates] /\ t \in Transfer
  BY TransferFields DEF Inv, Shape
<1>3. CASE "agreed" \in t.wire
           /\ t' = [Conn(Taken("agreed"), "listener", "listening") EXCEPT
                      !.token = @ \cup {"send"}, !.bytestream = "listener",
                      !.wire = @ \cup {"hosts"}]
  <2> DEFINE s == Taken("agreed")
             r == Conn(s, "listener", "listening")
             k == r.token \cup {"send"}
             w == r.wire \cup {"hosts"}
  <2>1. /\ s \in Transfer /\ s.wire = t.wire \ {"agreed"} /\ s.conn = t.conn
        /\ Books(s) = Books(t) /\ s.bytestream = t.bytestream /\ s.accepted = t.accepted
        /\ s.proxy = t.proxy /\ s.token = t.token /\ s.canceled = t.canceled
        /\ s.bytestreams = t.bytestreams /\ s.deleted = t.deleted
    BY TakenFields
  <2> HIDE DEF s
  <2>2. /\ r \in Transfer /\ r.conn = [s.conn EXCEPT !["listener"] = "listening"]
        /\ Talk(r) = Talk(s) /\ Books(r) = Books(s)
    BY <2>1, ConnFields DEF Streams, ConnStates
  <2>3. t' = [r EXCEPT !.token = @ \cup {"send"}, !.bytestream = "listener",
                       !.wire = @ \cup {"hosts"}]
    BY <1>3 DEF s
  <2> HIDE DEF r
  <2>4. k \subseteq Sides /\ w \subseteq Packets
    BY <2>2, TransferFields DEF Sides, Packets
  <2>5. t' = [r EXCEPT !.token = k, !.bytestream = "listener", !.wire = w]
    BY <2>2, <2>3 DEF Transfer
  <2> HIDE DEF k, w
  <2>6. /\ t' \in Transfer /\ t'.token = k /\ t'.bytestream = "listener" /\ t'.wire = w
        /\ t'.conn = r.conn /\ Books(t') = Books(r) /\ t'.accepted = r.accepted
        /\ t'.proxy = r.proxy /\ t'.canceled = r.canceled /\ t'.deleted = r.deleted
        /\ t'.bytestreams = r.bytestreams
    BY <2>2, <2>4, <2>5 DEF Transfer, Books
  <2>7. /\ t'.token = t.token \cup {"send"} /\ t'.wire = (t.wire \ {"agreed"}) \cup {"hosts"}
        /\ Books(t') = Books(t) /\ t'.accepted = t.accepted /\ t'.proxy = t.proxy
        /\ t'.canceled = t.canceled /\ t'.deleted = t.deleted
        /\ t'.bytestreams = t.bytestreams
    BY <2>1, <2>2, <2>6 DEF Talk, k, w
  <2>8. /\ t'.conn["listener"] = "listening"
        /\ \A c \in {"direct", "proxy", "out"} : t'.conn[c] = t.conn[c]
    BY <1>2, <2>1, <2>2, <2>6 DEF Streams
  <2>9. /\ t.conn["direct"] = "none" /\ t.conn["proxy"] = "none" /\ t.conn["out"] = "none"
        /\ t.conn["listener"] = "none"
        /\ {"hosts", "returned", "usedDirect", "usedProxy", "activate", "offer", "refused"}
             \cap t.wire = {}
        /\ ~t.accepted /\ ~t.proxy /\ t.bytestream = "none" /\ "send" \notin t.token
    BY <1>3 DEF Inv, Core, Unoffered
  <2>10. Unoffered'
    BY <2>7, <2>8, <2>9 DEF Unoffered
  <2>11. ~ChoseDirect' /\ ~ChoseProxy'
    BY <2>7, <2>8, <2>9 DEF ChoseDirect, ChoseProxy
  <2>12. Choice'
    BY <2>7, <2>11 DEF Inv, Core, Choice, Books
  <2>13. Waits'
    BY <2>6, <2>7, <2>8, <2>9 DEF Inv, Core, Waits, Books
  <2>14. Canceled'
    BY <2>6, <2>7, <2>8, <2>9 DEF Inv, Core, Canceled, Books
  <2>15. Hopeful'
    BY <1>1, <2>7, <2>8, <2>9 DEF Inv, Hopeful, Fine, Books, Hosts
  <2> QED
    BY <2>6, <2>10, <2>12, <2>13, <2>14, <2>15 DEF Core
<1>4. CASE "refused" \in t.wire
           /\ t' = [Taken("refused") EXCEPT !.state["send"] = "rejected"]
  <2> DEFINE s == Taken("refused")
             f == [s.state EXCEPT !["send"] = "rejected"]
  <2>1. /\ s \in Transfer /\ s.wire = t.wire \ {"refused"} /\ s.conn = t.conn
        /\ Books(s) = Books(t) /\ s.bytestream = t.bytestream /\ s.accepted = t.accepted
        /\ s.proxy = t.proxy /\ s.token = t.token /\ s.canceled = t.canceled
        /\ s.bytestreams = t.bytestreams /\ s.deleted = t.deleted
    BY TakenFields
  <2>2. t' = [s EXCEPT !.state["send"] = "rejected"]
    BY <1>4
  <2> HIDE DEF s
  <2>3. f \in [Sides -> EndStates] /\ f["recv"] = s.state["recv"]
    BY <2>1, TransferFields DEF EndStates, Sides
  <2>4. t' = [s EXCEPT !.state = f]
    BY <2>1, <2>2 DEF Transfer
  <2> HIDE DEF f
  <2>5. /\ t' \in Transfer /\ Talk(t') = Talk(s) /\ t'.conn = s.conn /\ t'.state = f
        /\ t'.opened = s.opened /\ t'.tried = s.tried
        /\ t'.pendingConnections = s.pendingConnections
    BY <2>1, <2>3, <2>4, SingleFields
  <2>6. /\ t'.wire = t.wire \ {"refused"} /\ t'.conn = t.conn /\ t'.opened = t.opened
        /\ t'.tried = t.tried /\ t'.pendingConnections = t.pendingConnections
        /\ t'.bytestream = t.bytestream /\ t'.accepted = t.accepted /\ t'.proxy = t.proxy
        /\ t'.token = t.token /\ t'.canceled = t.canceled /\ t'.deleted = t.deleted
        /\ t'.bytestreams = t.bytestreams /\ t'.state["recv"] = t.state["recv"]
    BY <2>1, <2>3, <2>5 DEF Talk, Books
  <2>7. "send" \notin t.token
    BY <1>4 DEF Inv, Core, Unoffered
  <2>8. Unoffered' /\ Waits'
    BY <2>6 DEF Inv, Core, Unoffered, Waits
  <2>9. (ChoseDirect' <=> ChoseDirect) /\ (ChoseProxy' <=> ChoseProxy)
    BY <2>6 DEF ChoseDirect, ChoseProxy
  <2>10. Choice'
    BY <2>6, <2>9 DEF Inv, Core, Choice
  <2>11. Canceled'
    BY <2>6, <2>7 DEF Inv, Core, Canceled
  <2>12. Hopeful'
    BY <1>1, <2>6 DEF Inv, Hopeful, Fine
  <2> QED
    BY <2>5, <2>8, <2>10, <2>11, <2>12 DEF Core
<1> QED
  BY <1>3, <1>4 DEF SendOfferStep

\* The receiver gets the hosts and connects to them.
LEMMA HostsKeep ==
  ASSUME Inv, OnIQ
  PROVE  t' \in Transfer /\ Core' /\ Hopeful'
<1> DEFINE s == Taken("hosts")
           d == Connect(s, "direct")
           p == Connect(d, "proxy")
<1>1. "hosts" \in t.wire /\ UNCHANGED <<reachable, broken>>
  BY DEF OnIQ, Quiet
<1>2. t.conn \in [Streams -> ConnStates] /\ t.tried \in [Streams -> Nat]
      /\ t.state \in [Sides -> EndStates]
  BY TransferFields DEF Inv, Shape
<1>3. /\ s \in Transfer /\ s.wire = t.wire \ {"hosts"} /\ s.conn = t.conn
      /\ Books(s) = Books(t) /\ s.bytestream = t.bytestream /\ s.accepted = t.accepted
      /\ s.proxy = t.proxy /\ s.token = t.token /\ s.canceled = t.canceled
      /\ s.bytestreams = t.bytestreams /\ s.deleted = t.deleted
  BY TakenFields
<1>4. t' = IF t.deleted THEN d
           ELSE [p EXCEPT !.bytestreams = Hosts, !.pendingConnections = Cardinality(Hosts)]
  BY DEF OnIQ
<1> HIDE DEF s
<1>5. "direct" \in Hosts /\ "proxy" \in Hosts /\ "direct" \in Streams /\ "proxy" \in Streams
  BY DEF Streams, Hosts
<1> DEFINE next == s.tried["direct"] < Addresses["direct"]
           then == d.tried["proxy"] < Addresses["proxy"]
<1>6. /\ d \in Transfer /\ Talk(d) = Talk(s) /\ d.opened = s.opened
      /\ d.conn = [s.conn EXCEPT !["direct"] = IF next THEN "connecting" ELSE "over"]
      /\ d.state["send"] = s.state["send"]
      /\ d.state["recv"] \in {s.state["recv"], "failed"}
      /\ next => d.state = s.state /\ d.tried = [s.tried EXCEPT !["direct"] = @ + 1]
  BY <1>3, <1>5, ReceiverConnects
<1> HIDE DEF d
<1>7. /\ p \in Transfer /\ Talk(p) = Talk(d) /\ p.opened = d.opened
      /\ p.conn = [d.conn EXCEPT !["proxy"] = IF then THEN "connecting" ELSE "over"]
      /\ p.state["send"] = d.state["send"]
      /\ p.state["recv"] \in {d.state["recv"], "failed"}
      /\ then => p.state = d.state /\ p.tried = [d.tried EXCEPT !["proxy"] = @ + 1]
  BY <1>5, <1>6, ReceiverConnects
<1> HIDE DEF p
<1>8. Cardinality(Hosts) = 2
  <2>1. Cardinality({"direct"}) = 1 /\ IsFiniteSet({"direct"})
    BY FS_Singleton
  <2>2. Hosts = {"direct"} \cup {"proxy"}
    BY DEF Hosts
  <2> QED
    BY <2>1, <2>2, FS_AddElement
<1>9. /\ t' \in Transfer /\ t'.opened = t.opened /\ t'.wire = t.wire \ {"hosts"}
      /\ t'.bytestream = t.bytestream /\ t'.accepted = t.accepted /\ t'.proxy = t.proxy
      /\ t'.token = t.token /\ t'.canceled = t.canceled /\ t'.deleted = t.deleted
      /\ t'.conn["listener"] = t.conn["listener"] /\ t'.conn["out"] = t.conn["out"]
      /\ t'.conn["direct"] \in {"connecting", "over"}
      /\ t'.conn["proxy"] \in {t.conn["proxy"], "connecting", "over"}
      /\ t'.state["send"] = t.state["send"]
      /\ t'.state["recv"] \in {t.state["recv"], "failed"}
  <2>1. CASE t.deleted
    <3>1. t' = d
      BY <1>4, <2>1
    <3>2. /\ d.conn["listener"] = t.conn["listener"] /\ d.conn["out"] = t.conn["out"]
          /\ d.conn["direct"] \in {"connecting", "over"}
          /\ d.conn["proxy"] = t.conn["proxy"]
      BY <1>2, <1>3, <1>6 DEF Streams
    <3>3. /\ d.opened = t.opened /\ d.wire = t.wire \ {"hosts"}
          /\ d.bytestream = t.bytestream /\ d.accepted = t.accepted /\ d.proxy = t.proxy
          /\ d.token = t.token /\ d.canceled = t.canceled /\ d.deleted = t.deleted
          /\ d.state["send"] = t.state["send"]
          /\ d.state["recv"] \in {t.state["recv"], "failed"}
      BY <1>3, <1>6 DEF Talk, Books
    <3> QED
      BY <1>6, <3>1, <3>2, <3>3
  <2>2. CASE ~t.deleted
    <3> DEFINE c == Cardinality(Hosts)
    <3>1. t' = [p EXCEPT !.bytestreams = Hosts, !.pendingConnections = c]
      BY <1>4, <2>2
    <3>2. c \in Nat
      BY <1>8
    <3> HIDE DEF c
    <3>3. /\ t' \in Transfer /\ t'.opened = p.opened /\ t'.wire = p.wire
          /\ t'.bytestream = p.bytestream /\ t'.accepted = p.accepted /\ t'.proxy = p.proxy
          /\ t'.token = p.token /\ t'.canceled = p.canceled /\ t'.deleted = p.deleted
          /\ t'.conn = p.conn /\ t'.state = p.state
      BY <1>7, <3>1, <3>2 DEF Transfer
    <3>4. d.conn \in [Streams -> ConnStates]
      BY <1>6, TransferFields
    <3> QED
      BY <1>2, <1>3, <1>6, <1>7, <3>3, <3>4 DEF Talk, Books, Streams
  <2> QED
    BY <2>1, <2>2
<1>10. t.conn["listener"] # "none"
  BY <1>1 DEF Inv, Core, Unoffered
<1>11. Unoffered'
  BY <1>1, <1>9, <1>10 DEF Inv, Core, Unoffered
<1>12. (ChoseDirect' => ChoseDirect) /\ (ChoseProxy' => ChoseProxy)
  BY <1>9 DEF ChoseDirect, ChoseProxy
<1>13. Choice'
  BY <1>9, <1>12 DEF Inv, Core, Choice
<1>14. Waits'
  BY <1>9 DEF Inv, Core, Waits
<1>15. Canceled'
  BY <1>9 DEF Inv, Core, Canceled, Sides
<1>16. Hopeful'
  <2> SUFFICES ASSUME Fine' PROVE Hopeful'
    BY DEF Hopeful
  <2>1. Fine
    BY <1>1, <1>9 DEF Fine
  <2>2. /\ t.conn["direct"] = "none" /\ t.conn["proxy"] = "none" /\ ~t.deleted
        /\ t.conn["listener"] = "listening" /\ t.tried = [b \in Streams |-> 0]
        /\ t.state["recv"] # "failed"
    BY <1>1, <2>1 DEF Inv, Hopeful
  <2>3. Addresses["direct"] \in Nat \ {0} /\ Addresses["proxy"] \in Nat \ {0}
    BY FileTransferAssumption DEF Hosts
  <2>4. s.tried = t.tried /\ s.state = t.state
    BY <1>3 DEF Books
  <2>5. next /\ d.tried["direct"] = 1 /\ d.tried["proxy"] = 0 /\ d.state = t.state
    BY <1>5, <1>6, <2>2, <2>3, <2>4
  <2>6. then /\ p.tried["direct"] = 1 /\ p.tried["proxy"] = 1 /\ p.state = t.state
    <3>1. d.tried \in [Streams -> Nat]
      BY <1>6, TransferFields
    <3>2. then
      BY <2>3, <2>5
    <3> QED
      BY <1>5, <1>7, <2>5, <3>1, <3>2
  <2>7. p.conn["direct"] = "connecting" /\ p.conn["proxy"] = "connecting"
    <3>1. s.conn \in [Streams -> ConnStates] /\ d.conn \in [Streams -> ConnStates]
      BY <1>3, <1>6, TransferFields
    <3>2. p.conn["proxy"] = "connecting"
      BY <1>5, <1>7, <2>6, <3>1
    <3>3. d.conn["direct"] = "connecting"
      BY <1>5, <1>6, <2>5, <3>1
    <3>4. p.conn["direct"] = d.conn["direct"]
      BY <1>5, <1>7, <3>1
    <3> QED
      BY <3>2, <3>3, <3>4
  <2> DEFINE c == Cardinality(Hosts)
  <2>8. t' = [p EXCEPT !.bytestreams = Hosts, !.pendingConnections = c]
    BY <1>4, <2>2
  <2>9. c = 2 /\ c \in Nat
    BY <1>8
  <2> HIDE DEF c
  <2>10. /\ t'.bytestreams = Hosts /\ t'.pendingConnections = 2 /\ t'.tried = p.tried
         /\ t'.conn = p.conn /\ t'.state = p.state
    BY <1>7, <2>8, <2>9 DEF Transfer
  <2>11. /\ t'.conn["direct"] = "connecting" /\ t'.conn["proxy"] = "connecting"
         /\ t'.tried["direct"] = 1 /\ t'.tried["proxy"] = 1
         /\ t'.state["recv"] # "failed" /\ ~t'.deleted
         /\ t'.conn["listener"] = "listening" /\ "hosts" \notin t'.wire
    BY <1>9, <2>2, <2>6, <2>7, <2>10
  <2>12. Hosts = {"direct", "proxy"}
    BY DEF Hosts
  <2> QED
    BY <2>3, <2>10, <2>11, <2>12 DEF Hopeful
<1> QED
  BY <1>9, <1>11, <1>13, <1>14, <1>15, <1>16 DEF Core

\* The sender learns which host the receiver uses.
LEMMA UsedKeeps ==
  ASSUME Inv, UNCHANGED <<reachable, broken>>,
         NEW used \in {"usedDirect", "usedProxy"}, used \in t.wire,
         t' = SendFileStep(Taken(used), used)
  PROVE  t' \in Transfer /\ Core' /\ Hopeful'
<1>1. UNCHANGED <<reachable, broken>>
  OBVIOUS
<1>2. t.conn \in [Streams -> ConnStates] /\ t.opened \in [Sides -> Nat]
      /\ t.state \in [Sides -> EndStates] /\ "send" \in Sides /\ "recv" \in Sides
  BY TransferFields DEF Inv, Shape, Sides
<1>3. used \in t.wire /\ t' = SendFileStep(Taken(used), used)
  OBVIOUS
<1> DEFINE s == Taken(used)
<1>4. /\ s \in Transfer /\ s.wire = t.wire \ {used} /\ s.conn = t.conn
      /\ Books(s) = Books(t) /\ s.bytestream = t.bytestream /\ s.accepted = t.accepted
      /\ s.proxy = t.proxy /\ s.token = t.token /\ s.canceled = t.canceled
      /\ s.bytestreams = t.bytestreams /\ s.deleted = t.deleted
  BY TakenFields
<1>5. t' = SendFileStep(s, used)
  BY <1>3
<1> HIDE DEF s
<1>6. /\ t.deleted /\ t.conn["listener"] # "none" /\ t.opened["send"] = 0
      /\ {"offer", "agreed", "refused"} \cap t.wire = {}
  BY <1>2, <1>3 DEF Inv, Core, Unoffered, Choice, ChoseDirect, ChoseProxy, Waits
<1>7. CASE used = "usedDirect" /\ t.accepted
  <2>1. t' = StartSending(s)
    BY <1>4, <1>5, <1>7 DEF SendFileStep
  <2>2. /\ t' \in Transfer /\ Talk(t') = Talk(s) /\ t'.tried = s.tried
        /\ t'.pendingConnections = s.pendingConnections
        /\ t'.opened = [s.opened EXCEPT !["send"] = @ + 1]
        /\ s.bytestream = "none" => t'.conn = s.conn /\ t'.state = s.state
        /\ s.bytestream # "none" =>
             /\ t'.conn = [s.conn EXCEPT ![s.bytestream] = "moving"]
             /\ t'.state = [s.state EXCEPT !["send"] = "started"]
    BY <1>4, <2>1, StartSendingFields
  <2>3. /\ ChoseDirect /\ ~ChoseProxy /\ ~t.proxy /\ t.conn["out"] = "none"
        /\ t.bytestream \in {"none", "listener"}
        /\ t.conn["listener"] \notin {"none", "listening", "shaking"}
    BY <1>3, <1>6, <1>7 DEF Inv, Core, Choice, ChoseDirect, ChoseProxy, Waits
  <2>4. /\ t'.wire = t.wire \ {"usedDirect"} /\ t'.bytestream = t.bytestream
        /\ t'.accepted = t.accepted /\ t'.proxy = t.proxy /\ t'.token = t.token
        /\ t'.canceled = t.canceled /\ t'.deleted = t.deleted
        /\ t'.bytestreams = t.bytestreams /\ t'.tried = t.tried
        /\ t'.pendingConnections = t.pendingConnections
    BY <1>4, <1>7, <2>2 DEF Talk, Books
  <2>5. /\ t'.opened["send"] = 1 /\ t'.opened["recv"] = t.opened["recv"]
        /\ \A c \in {"direct", "proxy", "out"} : t'.conn[c] = t.conn[c]
        /\ t.bytestream = "none" => t'.conn["listener"] = t.conn["listener"]
                                    /\ t'.state["send"] = t.state["send"]
        /\ t.bytestream # "none" => t'.conn["listener"] = "moving"
        /\ t'.state["recv"] = t.state["recv"]
    <3>1. s.opened = t.opened /\ s.state = t.state
      BY <1>4 DEF Books
    <3>2. t'.opened["send"] = 1 /\ t'.opened["recv"] = t.opened["recv"]
      BY <1>2, <1>6, <2>2, <3>1
    <3>3. CASE t.bytestream = "none"
      BY <1>4, <2>2, <3>1, <3>2, <3>3
    <3>4. CASE t.bytestream = "listener"
      <4>1. /\ t'.conn = [t.conn EXCEPT !["listener"] = "moving"]
            /\ t'.state = [t.state EXCEPT !["send"] = "started"]
        BY <1>4, <2>2, <3>1, <3>4
      <4>2. t'.conn["listener"] = "moving" /\ t'.state["recv"] = t.state["recv"]
            /\ \A c \in {"direct", "proxy", "out"} : t'.conn[c] = t.conn[c]
        BY <1>2, <4>1 DEF Streams
      <4> QED
        BY <3>2, <3>4, <4>2
    <3> QED
      BY <2>3, <3>3, <3>4
  <2>6. Unoffered'
    BY <1>6, <2>3, <2>4, <2>5 DEF Inv, Core, Unoffered
  <2>7. ~ChoseProxy'
    BY <2>3, <2>4, <2>5 DEF ChoseProxy
  <2>8. Choice'
    BY <1>6, <2>4, <2>5, <2>7 DEF Inv, Core, Choice
  <2>9. Waits'
    BY <1>6, <2>3, <2>4, <2>5 DEF Inv, Core, Waits, ChoseProxy
  <2>10. Canceled'
    BY <2>3, <2>4, <2>5 DEF Inv, Core, Canceled
  <2>11. Hopeful'
    BY <1>1, <1>6, <2>4, <2>5 DEF Inv, Hopeful, Fine, Hosts
  <2> QED
    BY <2>2, <2>6, <2>8, <2>9, <2>10, <2>11 DEF Core
<1>8. CASE \/ used = "usedDirect" /\ ~t.accepted
           \/ used = "usedProxy" /\ t.bytestream = "none"
  <2>1. /\ t' \in Transfer /\ t'.wire = t.wire \ {used} /\ t'.conn = t.conn
        /\ Books(t') = Books(t) /\ t'.bytestream = t.bytestream
        /\ t'.proxy = t.proxy /\ t'.token = t.token /\ t'.canceled = t.canceled
        /\ t'.bytestreams = t.bytestreams /\ t'.deleted = t.deleted
        /\ used = "usedProxy" => t'.accepted = t.accepted
    <3>1. CASE used = "usedDirect" /\ ~t.accepted
      <4>1. t' = [s EXCEPT !.accepted = TRUE]
        BY <1>4, <1>5, <3>1 DEF SendFileStep
      <4>2. LET d == [s EXCEPT !.accepted = TRUE] IN
            /\ d \in Transfer /\ d.wire = s.wire /\ d.conn = s.conn /\ Books(d) = Books(s)
            /\ d.bytestream = s.bytestream /\ d.accepted = TRUE /\ d.proxy = s.proxy
            /\ d.token = s.token /\ d.canceled = s.canceled
            /\ d.bytestreams = s.bytestreams /\ d.deleted = s.deleted
        BY <1>4, SingleFields
      <4> QED
        BY <1>4, <3>1, <4>1, <4>2
    <3>2. CASE used = "usedProxy" /\ t.bytestream = "none"
      <4>1. t' = s
        BY <1>4, <1>5, <3>2 DEF SendFileStep
      <4> QED
        BY <1>4, <4>1
    <3> QED
      BY <1>8, <3>1, <3>2
  <2>2. Unoffered'
    BY <1>6, <2>1 DEF Inv, Core, Unoffered
  <2>3. (ChoseDirect' => ChoseDirect) /\ (ChoseProxy' => ChoseProxy)
    BY <1>3, <1>8, <2>1 DEF ChoseDirect, ChoseProxy
  <2>4. Choice'
    BY <2>1, <2>3 DEF Inv, Core, Choice, Books
  <2>5. Waits'
    BY <1>3, <1>8, <2>1 DEF Inv, Core, Waits, Books
  <2>6. Canceled'
    BY <2>1 DEF Inv, Core, Canceled, Books
  <2>7. Hopeful'
    BY <1>1, <1>6, <2>1 DEF Inv, Hopeful, Fine, Books
  <2> QED
    BY <2>1, <2>2, <2>4, <2>5, <2>6, <2>7 DEF Core
<1>9. CASE used = "usedProxy" /\ t.bytestream # "none"
  <2> DEFINE r == AbortStream(s, "listener")
             d == Connect(r, "out")
  <2>1. /\ r \in Transfer /\ Talk(r) = Talk(s) /\ Books(r) = Books(s)
        /\ r.conn = [s.conn EXCEPT !["listener"] =
                       IF @ = "none" THEN "none" ELSE IF @ = "listening" THEN "over" ELSE "aborted"]
    BY <1>4, AbortStreamFields DEF Streams
  <2> HIDE DEF r
  <2> DEFINE next == r.tried["out"] < Addresses[Host("out")]
             more == Side("out") = "recv" /\ ~r.deleted /\ r.pendingConnections > 1
  <2>2. /\ d \in Transfer /\ Talk(d) = Talk(r) /\ d.opened = r.opened
        /\ d.conn = [r.conn EXCEPT !["out"] = IF next THEN "connecting" ELSE "over"]
        /\ next => d.state = r.state
        /\ ~next => d.state = IF more THEN r.state ELSE [r.state EXCEPT ![Side("out")] = "failed"]
    <3>1. "out" \in Streams
      BY DEF Streams
    <3> QED
      BY <2>1, <3>1, ConnectFields
  <2> HIDE DEF d
  <2>3. t' = [d EXCEPT !.bytestream = "out", !.proxy = TRUE]
    BY <1>4, <1>5, <1>9 DEF SendFileStep, d, r
  <2>4. /\ t' \in Transfer /\ t'.conn = d.conn /\ t'.state = d.state /\ t'.opened = d.opened
        /\ t'.bytestream = "out" /\ t'.proxy = TRUE
        /\ t'.wire = d.wire /\ t'.accepted = d.accepted /\ t'.token = d.token
        /\ t'.canceled = d.canceled /\ t'.deleted = d.deleted
    BY <2>2, <2>3 DEF Transfer
  <2>5. /\ t'.wire = t.wire \ {"usedProxy"} /\ t'.accepted = t.accepted
        /\ t'.token = t.token /\ t'.canceled = t.canceled /\ t'.deleted = t.deleted
        /\ t'.opened = t.opened
    BY <1>4, <1>9, <2>1, <2>2, <2>4 DEF Talk, Books
  <2>6. /\ t'.conn["listener"] \in {"over", "aborted"} /\ t'.conn["out"] \in {"connecting", "over"}
        /\ \A c \in Hosts : t'.conn[c] = t.conn[c]
    <3>1. r.conn \in [Streams -> ConnStates]
      BY <2>1, TransferFields
    <3>2. /\ r.conn["listener"] \in {"over", "aborted"}
          /\ \A c \in Hosts : r.conn[c] = t.conn[c]
      BY <1>2, <1>4, <1>6, <2>1 DEF Streams, Hosts
    <3>3. /\ d.conn["out"] \in {"connecting", "over"} /\ d.conn["listener"] = r.conn["listener"]
          /\ \A c \in Hosts : d.conn[c] = r.conn[c]
      BY <2>2, <3>1 DEF Streams, Hosts
    <3> QED
      BY <2>4, <3>2, <3>3
  <2>7. t'.state["recv"] = t.state["recv"]
    <3>1. r.state = t.state /\ Side("out") = "send"
      BY <1>4, <2>1 DEF Books, Side
    <3>2. d.state = r.state \/ d.state = [r.state EXCEPT !["send"] = "failed"]
      BY <2>2, <3>1
    <3> QED
      BY <1>2, <2>4, <3>1, <3>2
  <2>8. ~t.proxy /\ ~ChoseDirect
    BY <1>3, <1>9 DEF Inv, Core, Choice, ChoseProxy, Waits
  <2>9. Unoffered'
    BY <1>6, <2>5, <2>6 DEF Inv, Core, Unoffered, Hosts
  <2>10. ~ChoseDirect'
    BY <2>5, <2>6, <2>8 DEF ChoseDirect, Hosts
  <2>11. Choice'
    BY <1>6, <2>5, <2>10 DEF Inv, Core, Choice
  <2>12. Waits'
    BY <1>6, <2>4, <2>5, <2>6, <2>8 DEF Inv, Core, Waits
  <2>13. Canceled'
    BY <1>9, <2>4, <2>5, <2>6, <2>7 DEF Inv, Core, Canceled, Hosts
  <2>14. Hopeful'
    <3>1. t.conn["direct"] = t'.conn["direct"] /\ t.conn["proxy"] = t'.conn["proxy"]
          /\ Hosts = {"direct", "proxy"}
      BY <2>6 DEF Hosts
    <3> QED
      BY <1>1, <1>6, <2>5, <2>7, <3>1 DEF Inv, Hopeful, Fine
  <2> QED
    BY <2>4, <2>9, <2>11, <2>12, <2>13, <2>14 DEF Core
<1>10. used = "usedDirect" \/ used = "usedProxy"
  OBVIOUS
<1> QED
  BY <1>7, <1>8, <1>9, <1>10

\* The hosts come back, and the sender hears of it.
LEMMA HostsReturnedKeep ==
  ASSUME Inv, HostsReturned
  PROVE  t' \in Transfer /\ Core' /\ Hopeful'
<1> DEFINE s == Taken("hosts")
           w == s.wire \cup {"returned"}
<1>1. "hosts" \in t.wire /\ UNCHANGED <<reachable, broken>>
  BY DEF HostsReturned, Quiet
<1>2. /\ s \in Transfer /\ s.wire = t.wire \ {"hosts"} /\ s.conn = t.conn
      /\ Books(s) = Books(t) /\ s.bytestream = t.bytestream /\ s.accepted = t.accepted
      /\ s.proxy = t.proxy /\ s.token = t.token /\ s.canceled = t.canceled
      /\ s.bytestreams = t.bytestreams /\ s.deleted = t.deleted
  BY TakenFields
<1>3. t' = [s EXCEPT !.wire = @ \cup {"returned"}]
  BY DEF HostsReturned
<1> HIDE DEF s
<1>4. w \in SUBSET Packets /\ t' = [s EXCEPT !.wire = w]
  BY <1>2, <1>3, TransferFields DEF Packets, Transfer
<1> HIDE DEF w
<1>5. LET d == [s EXCEPT !.wire = w] IN
      /\ d \in Transfer /\ d.wire = w /\ d.conn = s.conn /\ Books(d) = Books(s)
      /\ d.bytestream = s.bytestream /\ d.accepted = s.accepted /\ d.proxy = s.proxy
      /\ d.token = s.token /\ d.canceled = s.canceled
      /\ d.bytestreams = s.bytestreams /\ d.deleted = s.deleted
  BY <1>2, <1>4, SingleFields
<1>6. /\ t' \in Transfer /\ t'.wire = (t.wire \ {"hosts"}) \cup {"returned"}
      /\ t'.conn = t.conn /\ Books(t') = Books(t) /\ t'.bytestream = t.bytestream
      /\ t'.accepted = t.accepted /\ t'.proxy = t.proxy /\ t'.token = t.token
      /\ t'.canceled = t.canceled /\ t'.bytestreams = t.bytestreams
      /\ t'.deleted = t.deleted
  BY <1>2, <1>4, <1>5 DEF w
<1>7. Unoffered'
  BY <1>1, <1>6 DEF Inv, Core, Unoffered
<1>8. (ChoseDirect' <=> ChoseDirect) /\ (ChoseProxy' <=> ChoseProxy)
  BY <1>6 DEF ChoseDirect, ChoseProxy
<1>9. Choice'
  BY <1>6, <1>8 DEF Inv, Core, Choice, Books
<1>10. Waits'
  BY <1>6 DEF Inv, Core, Waits, Books
<1>11. Canceled'
  BY <1>6 DEF Inv, Core, Canceled, Books
<1>12. Hopeful'
  BY <1>1, <1>6 DEF Inv, Hopeful, Fine, Books
<1> QED
  BY <1>6, <1>7, <1>9, <1>10, <1>11, <1>12 DEF Core

\* The sender stops to listen when its hosts came back.
LEMMA ReturnedKeeps ==
  ASSUME Inv, UNCHANGED <<reachable, broken>>, "returned" \in t.wire,
         t' = SendFileStep(Taken("returned"), "returned")
  PROVE  t' \in Transfer /\ Core' /\ Hopeful'
<1> DEFINE s == Taken("returned")
           d == AbortStream(s, s.bytestream)
           f == [d.state EXCEPT !["send"] = "rejected"]
<1>1. /\ s \in Transfer /\ s.wire = t.wire \ {"returned"} /\ s.conn = t.conn
      /\ Books(s) = Books(t) /\ s.bytestream = t.bytestream /\ s.accepted = t.accepted
      /\ s.proxy = t.proxy /\ s.token = t.token /\ s.canceled = t.canceled
      /\ s.bytestreams = t.bytestreams /\ s.deleted = t.deleted
  BY TakenFields
<1>2. t' = IF s.bytestream = "none" THEN s ELSE [d EXCEPT !.state["send"] = "rejected"]
  BY DEF SendFileStep
<1> HIDE DEF s
<1>3. CASE t.bytestream = "none"
  <2>1. t' = s
    BY <1>1, <1>2, <1>3
  <2>2. Unoffered' /\ Waits' /\ Canceled'
    BY <1>1, <2>1 DEF Inv, Core, Unoffered, Waits, Canceled, Books
  <2>3. (ChoseDirect' <=> ChoseDirect) /\ (ChoseProxy' <=> ChoseProxy)
    BY <1>1, <2>1 DEF ChoseDirect, ChoseProxy
  <2>4. Choice'
    BY <1>1, <2>1, <2>3 DEF Inv, Core, Choice, Books
  <2>5. Hopeful'
    BY <1>1, <2>1 DEF Inv, Hopeful, Fine, Books
  <2> QED
    BY <1>1, <2>1, <2>2, <2>4, <2>5 DEF Core
<1>4. CASE t.bytestream # "none"
  <2> DEFINE b == t.bytestream
             x == IF t.conn[b] = "none" THEN "none"
                  ELSE IF t.conn[b] = "listening" THEN "over" ELSE "aborted"
  <2>1. b \in {"listener", "out"} /\ b \in Streams
    BY <1>4, TransferFields DEF Inv, Shape, Streams
  <2>2. /\ d \in Transfer /\ Talk(d) = Talk(s) /\ Books(d) = Books(s)
        /\ d.conn = [t.conn EXCEPT ![b] = x]
    BY <1>1, <2>1, AbortStreamFields
  <2>3. t' = [d EXCEPT !.state["send"] = "rejected"]
    BY <1>1, <1>2, <1>4
  <2> HIDE DEF d, x
  <2>4. /\ f \in [Sides -> EndStates] /\ f["recv"] = d.state["recv"] /\ f["send"] = "rejected"
        /\ t' = [d EXCEPT !.state = f]
    BY <2>2, <2>3, TransferFields DEF EndStates, Sides, Transfer
  <2> HIDE DEF f
  <2>5. /\ t' \in Transfer /\ Talk(t') = Talk(d) /\ t'.conn = d.conn /\ t'.state = f
        /\ t'.opened = d.opened /\ t'.tried = d.tried
        /\ t'.pendingConnections = d.pendingConnections
    <3> DEFINE e == [d EXCEPT !.state = f]
    <3>1. /\ e \in Transfer /\ Talk(e) = Talk(d) /\ e.conn = d.conn /\ e.state = f
          /\ e.opened = d.opened /\ e.tried = d.tried
          /\ e.pendingConnections = d.pendingConnections
      BY <2>2, <2>4, SingleFields
    <3>2. t' = e
      BY <2>4
    <3> QED
      BY <3>1, <3>2
  <2>6. /\ t'.wire = t.wire \ {"returned"} /\ t'.opened = t.opened
        /\ t'.tried = t.tried /\ t'.pendingConnections = t.pendingConnections
        /\ t'.bytestream = t.bytestream /\ t'.accepted = t.accepted /\ t'.proxy = t.proxy
        /\ t'.token = t.token /\ t'.canceled = t.canceled /\ t'.deleted = t.deleted
        /\ t'.bytestreams = t.bytestreams /\ t'.state["recv"] = t.state["recv"]
    BY <1>1, <2>2, <2>4, <2>5 DEF Talk, Books
  <2>7. /\ t'.conn["direct"] = t.conn["direct"] /\ t'.conn["proxy"] = t.conn["proxy"]
        /\ \A c \in {"listener", "out"} : t'.conn[c] = IF c = b THEN x ELSE t.conn[c]
    <3>1. t.conn \in [Streams -> ConnStates]
      BY TransferFields DEF Inv, Shape
    <3> QED
      BY <2>1, <2>2, <2>5, <3>1 DEF Streams
  <2>8. /\ x \in {"none", "over", "aborted"} /\ (x = "none" <=> t.conn[b] = "none")
        /\ t.conn[b] \notin {"none", "listening"} => x = "aborted"
        /\ b = t.bytestream
    BY DEF x
  <2> HIDE DEF b
  <2>9. Unoffered'
    BY <2>1, <2>6, <2>7, <2>8 DEF Inv, Core, Unoffered
  <2>10. (ChoseDirect' => ChoseDirect) /\ (ChoseProxy' => ChoseProxy)
    BY <2>1, <2>6, <2>7, <2>8 DEF ChoseDirect, ChoseProxy
  <2>11. Choice'
    BY <2>6, <2>10 DEF Inv, Core, Choice
  <2>12. Waits'
    <3>1. CASE b = "listener"
      <4>1. t'.conn["listener"] = x /\ t'.conn["out"] = t.conn["out"]
        BY <2>7, <3>1
      <4> QED
        BY <2>6, <2>8, <3>1, <4>1 DEF Inv, Core, Waits
    <3>2. CASE b = "out"
      <4>1. t'.conn["out"] = x /\ t'.conn["listener"] = t.conn["listener"]
        BY <2>7, <3>2
      <4> QED
        BY <2>6, <2>8, <3>2, <4>1 DEF Inv, Core, Waits
    <3> QED
      BY <2>1, <3>1, <3>2
  <2>13. "send" \notin t.canceled
    BY <1>4 DEF Inv, Core, Canceled
  <2>14. Canceled'
    BY <2>6, <2>7, <2>13 DEF Inv, Core, Canceled
  <2>15. Hopeful'
    BY <2>6, <2>7 DEF Inv, Core, Unoffered, Hopeful, Fine, Hosts
  <2> QED
    BY <2>5, <2>9, <2>11, <2>12, <2>14, <2>15 DEF Core
<1> QED
  BY <1>3, <1>4

\* The proxy joins the two connections, or not.
LEMMA ProxyKeeps ==
  ASSUME Inv, ProxyAnswers
  PROVE  t' \in Transfer /\ Core' /\ Hopeful'
<1> DEFINE s == Taken("activate")
<1>1. "activate" \in t.wire /\ UNCHANGED <<reachable, broken>>
  BY DEF ProxyAnswers, Quiet
<1>2. t.conn \in [Streams -> ConnStates] /\ t.opened \in [Sides -> Nat]
      /\ t.state \in [Sides -> EndStates] /\ "send" \in Sides /\ "recv" \in Sides
  BY TransferFields DEF Inv, Shape, Sides
<1>3. /\ s \in Transfer /\ s.wire = t.wire \ {"activate"} /\ s.conn = t.conn
      /\ Books(s) = Books(t) /\ s.bytestream = t.bytestream /\ s.accepted = t.accepted
      /\ s.proxy = t.proxy /\ s.token = t.token /\ s.canceled = t.canceled
      /\ s.bytestreams = t.bytestreams /\ s.deleted = t.deleted
  BY TakenFields
<1>4. \/ t' = StartSending(s)
      \/ s.bytestream = "none" /\ t' = s
      \/ s.bytestream # "none" /\ t' = [AbortStream(s, "out") EXCEPT !.state["send"] = "failed"]
  BY DEF ProxyAnswers
<1> HIDE DEF s
<1>5. /\ t.deleted /\ t.proxy /\ ~ChoseDirect /\ t.opened["send"] = 0
      /\ t.conn["listener"] \in {"over", "aborted"} /\ t.conn["out"] \in {"ready", "aborted"}
      /\ t.bytestream \in {"none", "out"}
      /\ {"offer", "agreed", "refused", "usedDirect", "usedProxy"} \cap t.wire = {}
  BY <1>1, <1>2 DEF Inv, Core, Unoffered, Choice, ChoseDirect, ChoseProxy, Waits
<1>6. /\ t' \in Transfer /\ t'.wire = t.wire \ {"activate"} /\ t'.bytestream = t.bytestream
      /\ t'.accepted = t.accepted /\ t'.proxy = t.proxy /\ t'.token = t.token
      /\ t'.canceled = t.canceled /\ t'.bytestreams = t.bytestreams /\ t'.deleted = t.deleted
      /\ \A c \in {"listener", "direct", "proxy"} : t'.conn[c] = t.conn[c]
      /\ t'.state["recv"] = t.state["recv"] /\ t'.opened["recv"] = t.opened["recv"]
      /\ \/ /\ t'.opened["send"] = 1
            /\ t.bytestream = "none" => t'.conn["out"] = t.conn["out"]
                                        /\ t'.state["send"] = t.state["send"]
            /\ t.bytestream # "none" => t'.conn["out"] = "moving"
         \/ /\ t'.opened["send"] = 0
            /\ \/ /\ t.bytestream = "none" /\ t'.conn["out"] = t.conn["out"]
                  /\ t'.state["send"] = t.state["send"]
               \/ t.bytestream # "none" /\ t'.conn["out"] = "aborted"
  <2>1. CASE t' = StartSending(s)
    <3>1. /\ t' \in Transfer /\ Talk(t') = Talk(s)
          /\ t'.opened = [s.opened EXCEPT !["send"] = @ + 1]
          /\ s.bytestream = "none" => t'.conn = s.conn /\ t'.state = s.state
          /\ s.bytestream # "none" =>
               /\ t'.conn = [s.conn EXCEPT ![s.bytestream] = "moving"]
               /\ t'.state = [s.state EXCEPT !["send"] = "started"]
      BY <1>3, <2>1, StartSendingFields
    <3>2. s.opened = t.opened /\ s.state = t.state
      BY <1>3 DEF Books
    <3>3. t'.opened["send"] = 1 /\ t'.opened["recv"] = t.opened["recv"]
      BY <1>2, <1>5, <3>1, <3>2
    <3>4. CASE t.bytestream = "none"
      BY <1>3, <3>1, <3>2, <3>3, <3>4 DEF Talk
    <3>5. CASE t.bytestream = "out"
      <4>1. /\ t'.conn = [t.conn EXCEPT !["out"] = "moving"]
            /\ t'.state = [t.state EXCEPT !["send"] = "started"]
        BY <1>3, <3>1, <3>2, <3>5
      <4>2. t'.conn["out"] = "moving" /\ t'.state["recv"] = t.state["recv"]
            /\ \A c \in {"listener", "direct", "proxy"} : t'.conn[c] = t.conn[c]
        BY <1>2, <4>1 DEF Streams
      <4> QED
        BY <1>3, <3>1, <3>3, <3>5, <4>2 DEF Talk
    <3> QED
      BY <1>5, <3>4, <3>5
  <2>2. CASE s.bytestream = "none" /\ t' = s
    BY <1>3, <1>5, <2>2 DEF Books
  <2>3. CASE s.bytestream # "none"
             /\ t' = [AbortStream(s, "out") EXCEPT !.state["send"] = "failed"]
    <3> DEFINE r == AbortStream(s, "out")
               f == [r.state EXCEPT !["send"] = "failed"]
    <3>1. /\ r \in Transfer /\ Talk(r) = Talk(s) /\ Books(r) = Books(s)
          /\ r.conn = [s.conn EXCEPT !["out"] =
                IF @ = "none" THEN "none" ELSE IF @ = "listening" THEN "over" ELSE "aborted"]
      BY <1>3, AbortStreamFields DEF Streams
    <3>2. t' = [r EXCEPT !.state["send"] = "failed"]
      BY <2>3
    <3> HIDE DEF r
    <3>3. f \in [Sides -> EndStates] /\ f["recv"] = t.state["recv"]
      BY <1>2, <1>3, <3>1, TransferFields DEF EndStates, Books
    <3>4. t' = [r EXCEPT !.state = f]
      BY <3>1, <3>2 DEF Transfer
    <3> HIDE DEF f
    <3>5. /\ t' \in Transfer /\ Talk(t') = Talk(r) /\ t'.conn = r.conn /\ t'.state = f
          /\ t'.opened = r.opened
      BY <3>1, <3>3, <3>4, SingleFields
    <3>6. t'.conn["out"] = "aborted"
          /\ \A c \in {"listener", "direct", "proxy"} : t'.conn[c] = t.conn[c]
      BY <1>2, <1>3, <1>5, <3>1, <3>5 DEF Streams
    <3>7. t'.opened = t.opened
      BY <1>3, <3>1, <3>5 DEF Books
    <3>8. /\ t'.wire = t.wire \ {"activate"} /\ t'.bytestream = t.bytestream
          /\ t'.accepted = t.accepted /\ t'.proxy = t.proxy /\ t'.token = t.token
          /\ t'.canceled = t.canceled /\ t'.bytestreams = t.bytestreams
          /\ t'.deleted = t.deleted
      BY <1>3, <3>1, <3>5 DEF Talk
    <3> QED
      BY <1>3, <1>5, <2>3, <3>3, <3>5, <3>6, <3>7, <3>8
  <2> QED
    BY <1>4, <2>1, <2>2, <2>3
<1>7. Unoffered'
  BY <1>5, <1>6 DEF Inv, Core, Unoffered
<1>8. ~ChoseDirect'
  BY <1>5, <1>6 DEF ChoseDirect
<1>9. Choice'
  BY <1>5, <1>6, <1>8 DEF Inv, Core, Choice
<1>10. Waits'
  BY <1>5, <1>6 DEF Inv, Core, Waits
<1>11. Canceled'
  BY <1>5, <1>6 DEF Inv, Core, Canceled
<1>12. Hopeful'
  BY <1>1, <1>5, <1>6 DEF Inv, Hopeful, Fine, Hosts
<1> QED
  BY <1>6, <1>7, <1>9, <1>10, <1>11, <1>12 DEF Core

\* The "Cancel" link of one end.
LEMMA CancelKeeps ==
  ASSUME Inv, NEW e \in Sides, Cancel(e)
  PROVE  t' \in Transfer /\ Core' /\ Hopeful'
<1> DEFINE a == IF e \in t.token THEN Abort(t, e) ELSE t
           f == [a.state EXCEPT ![e] = "canceled"]
           k == IF e \in t.token THEN a.canceled \cup {e} ELSE a.canceled
           y == a.early \/ e \notin t.token
<1>1. /\ UNCHANGED <<reachable, broken>> /\ t.state[e] \in {"waiting", "started"}
      /\ e = "recv" => "recv" \in t.token
  BY DEF Cancel, Quiet
<1>2. t \in Transfer /\ e \in {"send", "recv"}
  BY DEF Inv, Shape, Sides
<1>3. a \in Transfer /\ Books(a) = Books(t)
  <2>1. CASE e \notin t.token
    BY <1>2, <2>1
  <2>2. CASE e \in t.token /\ e = "send"
    <3>1. a = Abort(t, "send")
      BY <2>2
    <3>2. LET d == Abort(t, "send") IN d \in Transfer /\ Books(d) = Books(t)
      BY <1>2, AbortFields
    <3> QED
      BY <3>1, <3>2
  <2>3. CASE e \in t.token /\ e = "recv"
    <3>1. a = Abort(t, "recv")
      BY <2>3
    <3>2. LET d == Abort(t, "recv") IN d \in Transfer /\ Books(d) = Books(t)
      BY <1>2, AbortFields
    <3> QED
      BY <3>1, <3>2
  <2> QED
    BY <1>2, <2>1, <2>2, <2>3
<1>4. t' = [a EXCEPT !.state[e] = "canceled",
                     !.canceled = IF e \in t.token THEN @ \cup {e} ELSE @,
                     !.early = @ \/ e \notin t.token]
  BY DEF Cancel
<1> HIDE DEF a
<1>5. t' = [a EXCEPT !.state = f, !.canceled = k, !.early = y]
  BY <1>3, <1>4 DEF Transfer
<1>6. /\ f \in [Sides -> EndStates] /\ f[e] = "canceled" /\ k \subseteq Sides /\ y \in BOOLEAN
      /\ \A c \in Sides : c # e => f[c] = t.state[c]
  <2>1. /\ a.state \in [Sides -> EndStates] /\ a.state = t.state /\ a.canceled \subseteq Sides
    BY <1>3, TransferFields DEF Books
  <2> QED
    BY <1>2, <2>1 DEF EndStates
<1> HIDE DEF f, k, y
<1>7. /\ t' \in Transfer /\ t'.state = f /\ t'.canceled = k /\ t'.conn = a.conn
      /\ t'.opened = t.opened /\ t'.tried = t.tried
      /\ t'.pendingConnections = t.pendingConnections
      /\ t'.wire = a.wire /\ t'.bytestream = a.bytestream /\ t'.accepted = a.accepted
      /\ t'.proxy = a.proxy /\ t'.token = a.token /\ t'.deleted = a.deleted
      /\ t'.bytestreams = a.bytestreams
  BY <1>3, <1>5, <1>6 DEF Transfer, Books
<1>8. CASE e = "send" /\ "send" \notin t.token
  <2>1. a = t /\ k = t.canceled /\ "send" \notin t.canceled
    BY <1>8 DEF a, k, Inv, Core, Canceled
  <2>2. Unoffered' /\ Waits' /\ Choice'
    BY <1>7, <2>1 DEF Inv, Core, Unoffered, Waits, Choice, ChoseDirect, ChoseProxy
  <2>3. t'.state["recv"] = t.state["recv"]
    BY <1>6, <1>7, <1>8 DEF Sides
  <2>4. Canceled'
    BY <1>7, <2>1, <2>3 DEF Inv, Core, Canceled
  <2>5. Hopeful'
    BY <1>1, <1>7, <2>1, <2>3 DEF Inv, Hopeful, Fine
  <2> QED
    BY <1>7, <2>2, <2>4, <2>5 DEF Core
<1>9. CASE e = "send" /\ "send" \in t.token
  <2>1. t.bytestream # "none"
    BY <1>1, <1>9 DEF Inv, Core, Canceled
  <2>2. /\ a.bytestream = "none" /\ a.wire = t.wire /\ a.accepted = t.accepted
        /\ a.proxy = t.proxy /\ a.token = t.token /\ a.canceled = t.canceled
        /\ a.deleted = t.deleted
        /\ a.conn = [t.conn EXCEPT ![t.bytestream] =
                       IF @ = "none" THEN "none"
                       ELSE IF @ = "listening" THEN "over" ELSE "aborted"]
    BY <1>2, <1>9, <2>1, AbortFields DEF a
  <2>3. k = t.canceled \cup {"send"}
    BY <1>9, <2>2 DEF k
  <2>4. t'.state["send"] = "canceled" /\ t'.state["recv"] = t.state["recv"]
    BY <1>6, <1>7, <1>9 DEF Sides
  <2>5. t.conn["listener"] # "none"
    BY <2>1 DEF Inv, Core, Unoffered
  <2>6. \/ /\ t.bytestream = "listener" /\ ~t.proxy /\ t.conn["out"] = "none"
           /\ a.conn["listener"] \in {"over", "aborted"} /\ a.conn["out"] = t.conn["out"]
        \/ /\ t.bytestream = "out" /\ t.proxy /\ a.conn["out"] = "aborted"
           /\ a.conn["listener"] = t.conn["listener"]
           /\ t.conn["listener"] \in {"over", "aborted"}
    <3>1. t.conn \in [Streams -> ConnStates] /\ t.bytestream \in {"none", "listener", "out"}
      BY <1>2, TransferFields
    <3>2. CASE t.bytestream = "listener"
      <4>1. ~t.proxy /\ t.conn["out"] = "none"
        BY <3>2 DEF Inv, Core, Waits
      <4>2. a.conn["listener"] \in {"over", "aborted"} /\ a.conn["out"] = t.conn["out"]
        BY <2>2, <2>5, <3>1, <3>2 DEF Streams
      <4> QED
        BY <3>2, <4>1, <4>2
    <3>3. CASE t.bytestream = "out"
      <4>1. /\ t.proxy /\ t.conn["out"] \notin {"none", "listening"}
            /\ t.conn["listener"] \in {"over", "aborted"}
        BY <3>3 DEF Inv, Core, Waits
      <4>2. a.conn["out"] = "aborted" /\ a.conn["listener"] = t.conn["listener"]
        BY <2>2, <3>1, <3>3, <4>1 DEF Streams
      <4> QED
        BY <3>3, <4>1, <4>2
    <3> QED
      BY <2>1, <3>1, <3>2, <3>3
  <2>7. \A c \in Hosts : a.conn[c] = t.conn[c]
    <3>1. t.conn \in [Streams -> ConnStates]
      BY <1>2, TransferFields
    <3> QED
      BY <2>2, <2>6, <3>1 DEF Streams, Hosts
  <2>8. a.conn["direct"] = t.conn["direct"] /\ a.conn["proxy"] = t.conn["proxy"]
    BY <2>7 DEF Hosts
  <2>9. Unoffered'
    BY <1>7, <2>2, <2>5, <2>6 DEF Inv, Core, Unoffered
  <2>10. (ChoseDirect' => ChoseDirect) /\ (ChoseProxy' => ChoseProxy)
    BY <1>7, <2>2, <2>6, <2>8 DEF ChoseDirect, ChoseProxy
  <2>11. Choice'
    BY <1>7, <2>2, <2>10 DEF Inv, Core, Choice
  <2>12. Waits'
    BY <1>7, <2>2, <2>6 DEF Inv, Core, Waits
  <2>13. Canceled'
    BY <1>7, <1>9, <2>2, <2>3, <2>4, <2>6, <2>8 DEF Inv, Core, Canceled
  <2>14. Hopeful'
    BY <1>7, <2>3 DEF Hopeful, Fine
  <2> QED
    BY <1>7, <2>9, <2>11, <2>12, <2>13, <2>14 DEF Core
<1>10. CASE e = "recv"
  <2>1. /\ a.bytestream = t.bytestream /\ a.wire = t.wire /\ a.accepted = t.accepted
        /\ a.proxy = t.proxy /\ a.token = t.token /\ a.canceled = t.canceled
        /\ a.deleted = TRUE
        /\ \A b \in {"listener", "out"} : a.conn[b] = t.conn[b]
        /\ \A b \in Hosts : a.conn[b] = IF t.conn[b] = "none" THEN "none" ELSE "aborted"
    BY <1>1, <1>2, <1>10, AbortFields DEF a
  <2>2. /\ a.conn["listener"] = t.conn["listener"] /\ a.conn["out"] = t.conn["out"]
        /\ a.conn["direct"] = IF t.conn["direct"] = "none" THEN "none" ELSE "aborted"
        /\ a.conn["proxy"] = IF t.conn["proxy"] = "none" THEN "none" ELSE "aborted"
    BY <2>1 DEF Hosts
  <2>3. k = t.canceled \cup {"recv"}
    BY <1>1, <1>10, <2>1 DEF k
  <2>4. t'.state["recv"] = "canceled" /\ t'.state["send"] = t.state["send"]
    BY <1>6, <1>7, <1>10 DEF Sides
  <2>5. Unoffered'
    BY <1>7, <2>1, <2>2 DEF Inv, Core, Unoffered
  <2>6. (ChoseDirect' => ChoseDirect) /\ (ChoseProxy' => ChoseProxy)
    BY <1>7, <2>1, <2>2 DEF ChoseDirect, ChoseProxy
  <2>7. Choice'
    BY <1>7, <2>1, <2>6 DEF Inv, Core, Choice
  <2>8. Waits'
    BY <1>7, <2>1, <2>2 DEF Inv, Core, Waits
  <2>9. Canceled'
    BY <1>1, <1>7, <1>10, <2>1, <2>2, <2>3, <2>4 DEF Inv, Core, Canceled
  <2>10. Hopeful'
    BY <1>7, <2>3 DEF Hopeful, Fine
  <2> QED
    BY <1>7, <2>5, <2>7, <2>8, <2>9, <2>10 DEF Core
<1> QED
  BY <1>2, <1>8, <1>9, <1>10

\* The first connection of the receiver that is ready is the one it keeps.
LEMMA ReceiverReadyKeeps ==
  ASSUME Inv, NEW b \in Hosts, t' = ReceiverReady(t, b), UNCHANGED <<reachable, broken>>,
         t.conn[b] \in {"connecting", "shaking"}
  PROVE  t' \in Transfer /\ Core' /\ Hopeful'
<1> DEFINE o == Other(b)
<1>1. t \in Transfer /\ t.conn \in [Streams -> ConnStates]
  BY TransferFields DEF Inv, Shape
<1>2. b \in Streams /\ o \in Streams /\ Hosts = {b, o} /\ b # o
  BY DEF Hosts, Streams, Other
<1>3. CASE t.deleted
  <2>1. /\ t' \in Transfer /\ t'.tried = t.tried /\ t'.conn = [t.conn EXCEPT ![b] = "failing"]
        /\ Talk(t') = Talk(t) /\ Books(t') = Books(t)
    BY <1>1, <1>3, ReceiverReadyFields
  <2>2. Core'
    <3>1. t'.opened = t.opened /\ t'.state = t.state
      BY <2>1 DEF Books
    <3> QED
      BY <1>2, <2>1, <3>1, SlideKeeps
  <2>3. t'.canceled = t.canceled
    BY <2>1 DEF Talk
  <2>4. ~Fine'
    BY <1>2, <1>3, <2>3 DEF Inv, Hopeful, Fine
  <2> QED
    BY <2>1, <2>2, <2>4 DEF Hopeful
<1>4. CASE ~t.deleted
  <2>1. /\ t' \in Transfer /\ t'.tried = t.tried
        /\ t'.conn[b] = "moving"
        /\ t'.conn[o] = IF o \in t.bytestreams
                        THEN IF t.conn[o] = "none" THEN "none"
                             ELSE IF t.conn[o] = "listening" THEN "over" ELSE "aborted"
                        ELSE t.conn[o]
        /\ \A c \in {"listener", "out"} : t'.conn[c] = t.conn[c]
        /\ t'.wire = t.wire \cup {Used(b)} /\ t'.deleted = TRUE
        /\ t'.bytestream = t.bytestream /\ t'.accepted = t.accepted
        /\ t'.proxy = t.proxy /\ t'.token = t.token /\ t'.canceled = t.canceled
        /\ t'.opened = [t.opened EXCEPT !["recv"] = @ + 1]
        /\ t'.state = [t.state EXCEPT !["recv"] = "started"]
    BY <1>1, <1>4, ReceiverReadyFields
  <2>2. /\ ~ChoseDirect /\ ~ChoseProxy /\ t.opened["recv"] = 0 /\ t.opened["send"] = 0
        /\ "recv" \notin t.canceled
    <3>1. t.opened["send"] = 0
      BY <1>4 DEF Inv, Core, Waits
    <3> QED
      BY <1>4, <3>1 DEF Inv, Core, Choice, Canceled
  <2>3. /\ t'.opened["recv"] = 1 /\ t'.opened["send"] = 0
        /\ t'.state["recv"] = "started" /\ t'.state["send"] = t.state["send"]
    <3>1. t.opened \in [Sides -> Nat] /\ t.state \in [Sides -> EndStates]
          /\ "send" \in Sides /\ "recv" \in Sides
      BY <1>1, TransferFields DEF Sides
    <3> QED
      BY <2>1, <2>2, <3>1
  <2>4. t'.conn["listener"] = t.conn["listener"] /\ t'.conn["out"] = t.conn["out"]
    BY <2>1
  <2>5. t.conn["listener"] # "none" /\ {"offer", "agreed", "refused"} \cap t.wire = {}
    BY <1>2 DEF Inv, Core, Unoffered, Hosts
  <2>6. Used(b) \in {"usedDirect", "usedProxy"}
    BY DEF Used
  <2>7. Unoffered'
    BY <1>2, <2>1, <2>4, <2>5, <2>6 DEF Inv, Core, Unoffered, Hosts
  <2>8. ~ChoseDirect' \/ ~ChoseProxy'
    <3>1. CASE b = "direct"
      <4>1. o = "proxy" /\ Used(b) = "usedDirect"
        BY <3>1 DEF Other, Used
      <4> QED
        BY <2>1, <2>2, <2>4, <4>1 DEF ChoseProxy
    <3>2. CASE b = "proxy"
      <4>1. o = "direct" /\ Used(b) = "usedProxy"
        BY <3>2 DEF Other, Used
      <4> QED
        BY <2>1, <2>2, <2>4, <4>1 DEF ChoseDirect
    <3> QED
      BY <3>1, <3>2 DEF Hosts
  <2>9. Choice'
    BY <2>1, <2>3, <2>8 DEF Choice
  <2>10. Waits'
    BY <2>1, <2>2, <2>3, <2>4, <2>6 DEF Inv, Core, Waits, ChoseDirect, ChoseProxy
  <2>11. Canceled'
    BY <2>1, <2>2, <2>3, <2>4 DEF Inv, Core, Canceled
  <2>12. Hopeful'
    <3> SUFFICES ASSUME Fine' PROVE Hopeful'
      BY DEF Hopeful
    <3>1. Fine
      BY <2>1 DEF Fine
    <3>2. t.conn["direct"] # "none"
      BY <1>2, <3>1 DEF Inv, Hopeful, Hosts
    <3>3. /\ t.bytestreams = Hosts /\ "hosts" \notin t.wire /\ t.conn["proxy"] # "none"
          /\ \A h \in Hosts : t.conn[h] \in {"connecting", "shaking", "failing", "over"}
      BY <1>4, <3>1, <3>2 DEF Inv, Hopeful
    <3>4. t'.conn[o] = "aborted"
      BY <1>2, <2>1, <3>3
    <3>5. t'.conn["direct"] # "none" /\ t'.conn["proxy"] # "none"
          /\ \A h \in Hosts : t'.conn[h] \in {"moving", "ending", "over", "aborted"}
      BY <1>2, <2>1, <3>4 DEF Hosts
    <3> QED
      BY <2>1, <2>3, <2>6, <3>3, <3>5 DEF Hopeful
  <2> QED
    BY <2>1, <2>7, <2>9, <2>10, <2>11, <2>12 DEF Core
<1> QED
  BY <1>3, <1>4

\* The sender's connection is ready.
LEMMA SenderReadyKeeps ==
  ASSUME Inv, NEW b \in {"listener", "out"}, t' = SenderReady(t, b),
         UNCHANGED <<reachable, broken>>,
         t.conn[b] = IF b = "listener" THEN "shaking" ELSE "connecting"
  PROVE  t' \in Transfer /\ Core' /\ Hopeful'
<1> DEFINE c == [t.conn EXCEPT ![b] = "ready"]
<1>1. t \in Transfer /\ t.conn \in [Streams -> ConnStates]
      /\ t.opened \in [Sides -> Nat] /\ t.state \in [Sides -> EndStates]
      /\ "send" \in Sides /\ "recv" \in Sides
  BY TransferFields DEF Inv, Shape, Sides
<1>2. /\ t' \in Transfer /\ t'.tried = t.tried
      /\ t'.pendingConnections = t.pendingConnections
      /\ t'.bytestream = t.bytestream /\ t'.proxy = t.proxy /\ t'.token = t.token
      /\ t'.canceled = t.canceled /\ t'.bytestreams = t.bytestreams /\ t'.deleted = t.deleted
      /\ t.proxy => /\ t'.wire = t.wire \cup {"activate"} /\ t'.conn = c
                    /\ t'.accepted = t.accepted /\ Books(t') = Books(t)
      /\ ~t.proxy => t'.wire = t.wire /\ t'.accepted = TRUE
      /\ ~t.proxy /\ ~t.accepted => t'.conn = c /\ Books(t') = Books(t)
      /\ ~t.proxy /\ t.accepted =>
           /\ t'.opened = [t.opened EXCEPT !["send"] = @ + 1]
           /\ t.bytestream = "none" => t'.conn = c /\ t'.state = t.state
           /\ t.bytestream # "none" =>
                /\ t'.conn = [c EXCEPT ![t.bytestream] = "moving"]
                /\ t'.state = [t.state EXCEPT !["send"] = "started"]
  BY <1>1, SenderReadyFields
<1>3. c \in [Streams -> ConnStates] /\ c[b] = "ready"
      /\ \A d \in Streams : d # b => c[d] = t.conn[d]
  BY <1>1 DEF Streams, ConnStates
<1> HIDE DEF c
<1>4. CASE b = "out"
  <2>1. /\ t.proxy /\ t.deleted /\ t.opened["send"] = 0 /\ t.bytestream = "out"
        /\ t.conn["listener"] \in {"over", "aborted"} /\ ~ChoseDirect
        /\ "usedProxy" \notin t.wire /\ "send" \notin t.canceled
        /\ {"offer", "agreed", "refused"} \cap t.wire = {}
    <3>1. /\ t.proxy /\ t.bytestream = "out" /\ t.conn["listener"] \in {"over", "aborted"}
          /\ "usedProxy" \notin t.wire
      BY <1>4 DEF Inv, Core, Waits
    <3>2. t.opened["send"] = 0
      BY <1>4 DEF Inv, Core, Waits
    <3> QED
      BY <3>1, <3>2 DEF Inv, Core, Choice, ChoseProxy, Canceled, Unoffered
  <2>2. /\ t'.wire = t.wire \cup {"activate"} /\ t'.accepted = t.accepted
        /\ t'.conn["out"] = "ready" /\ t'.conn["listener"] = t.conn["listener"]
        /\ t'.conn["direct"] = t.conn["direct"] /\ t'.conn["proxy"] = t.conn["proxy"]
        /\ t'.opened = t.opened /\ t'.state = t.state
    BY <1>2, <1>3, <1>4, <2>1 DEF Streams, Books
  <2>3. Unoffered'
    BY <1>2, <2>1, <2>2 DEF Inv, Core, Unoffered
  <2>4. ~ChoseDirect'
    BY <1>2, <2>1, <2>2 DEF ChoseDirect
  <2>5. Choice'
    BY <1>2, <2>1, <2>2, <2>4 DEF Inv, Core, Choice
  <2>6. Waits'
    BY <1>2, <2>1, <2>2 DEF Inv, Core, Waits
  <2>7. Canceled'
    BY <1>2, <2>1, <2>2 DEF Inv, Core, Canceled
  <2>8. Hopeful'
    BY <1>2, <2>1, <2>2 DEF Inv, Hopeful, Fine, Hosts
  <2> QED
    BY <1>2, <2>3, <2>5, <2>6, <2>7, <2>8 DEF Core
<1>5. CASE b = "listener"
  <2>1. /\ ~t.proxy /\ t.opened["send"] = 0 /\ t.bytestream \in {"none", "listener"}
        /\ t.conn["out"] = "none" /\ t.conn["listener"] = "shaking"
        /\ {"offer", "agreed", "refused"} \cap t.wire = {}
    <3>1. ~t.proxy
      BY <1>5 DEF Inv, Core, Waits
    <3>2. t.opened["send"] = 0
      BY <1>5 DEF Inv, Core, Waits
    <3> QED
      BY <1>5, <3>1, <3>2 DEF Inv, Core, Waits, Unoffered
  <2>2. t'.wire = t.wire /\ t'.accepted = TRUE
    BY <1>2, <2>1
  <2>3. CASE ~t.accepted
    <3>1. /\ t'.conn["listener"] = "ready" /\ t'.conn["out"] = t.conn["out"]
          /\ t'.conn["direct"] = t.conn["direct"] /\ t'.conn["proxy"] = t.conn["proxy"]
          /\ t'.opened = t.opened /\ t'.state = t.state
      BY <1>2, <1>3, <1>5, <2>1, <2>3 DEF Streams, Books
    <3>2. Unoffered'
      BY <1>2, <2>1, <2>2, <3>1 DEF Inv, Core, Unoffered
    <3>3. (ChoseDirect' => ChoseDirect) /\ (ChoseProxy' => ChoseProxy)
      BY <1>2, <2>2, <3>1 DEF ChoseDirect, ChoseProxy
    <3>4. Choice'
      BY <1>2, <3>1, <3>3 DEF Inv, Core, Choice
    <3>5. Waits'
      BY <1>2, <2>1, <2>2, <3>1 DEF Inv, Core, Waits
    <3>6. Canceled'
      BY <1>2, <3>1 DEF Inv, Core, Canceled
    <3>7. Hopeful'
      <4> SUFFICES ASSUME Fine' PROVE Hopeful'
        BY DEF Hopeful
      <4>1. Fine
        BY <1>2 DEF Fine
      <4>2. /\ t.state["recv"] # "failed" /\ "hosts" \notin t.wire
            /\ t.conn["direct"] = "none" <=> t.conn["proxy"] = "none"
            /\ t.conn["direct"] = "none" => ~t.deleted /\ t.tried = [x \in Streams |-> 0]
            /\ t.deleted => \A x \in Hosts : t.conn[x] \in {"moving", "ending", "over", "aborted"}
        BY <2>1, <4>1 DEF Inv, Hopeful
      <4>3. ~t.deleted /\ t.conn["direct"] # "none" =>
              /\ t.bytestreams = Hosts
              /\ \A x \in Hosts : /\ t.conn[x] \in {"connecting", "shaking", "failing", "over"}
                                  /\ t.tried[x] <= Addresses[x]
                                  /\ x \in reachable /\ t.conn[x] = "failing"
                                       => t.tried[x] < Addresses[x]
                                  /\ x \in reachable => t.conn[x] # "over"
              /\ t.conn["proxy"] # "shaking"
              /\ t.pendingConnections = IF \E x \in Hosts : t.conn[x] = "over" THEN 1 ELSE 2
              /\ t.conn["direct"] = "shaking"
        BY <2>1, <4>1 DEF Inv, Hopeful
      <4>4. \A x \in Hosts : t'.conn[x] = t.conn[x]
        BY <3>1 DEF Hosts
      <4>5. ~t.deleted /\ t.conn["direct"] # "none" =>
              /\ t'.bytestreams = Hosts
              /\ \A x \in Hosts : /\ t'.conn[x] \in {"connecting", "shaking", "failing", "over"}
                                  /\ t'.tried[x] <= Addresses[x]
                                  /\ x \in reachable' /\ t'.conn[x] = "failing"
                                       => t'.tried[x] < Addresses[x]
                                  /\ x \in reachable' => t'.conn[x] # "over"
              /\ t'.conn["proxy"] # "shaking"
              /\ t'.pendingConnections = IF \E x \in Hosts : t'.conn[x] = "over" THEN 1 ELSE 2
        BY <1>2, <3>1, <4>3, <4>4
      <4> QED
        BY <1>2, <2>2, <3>1, <4>2, <4>3, <4>4, <4>5 DEF Hopeful
    <3> QED
      BY <1>2, <3>2, <3>4, <3>5, <3>6, <3>7 DEF Core
  <2>4. CASE t.accepted
    <3>1. /\ t.deleted /\ ~ChoseProxy /\ {"usedDirect", "usedProxy", "activate"} \cap t.wire = {}
      <4>1. ChoseDirect
        BY <2>1, <2>4 DEF ChoseDirect
      <4> QED
        BY <2>1, <2>4, <4>1 DEF Inv, Core, Choice, Waits, ChoseProxy
    <3>2. /\ t'.opened["send"] = 1 /\ t'.opened["recv"] = t.opened["recv"]
          /\ t'.conn["out"] = t.conn["out"]
          /\ t'.conn["direct"] = t.conn["direct"] /\ t'.conn["proxy"] = t.conn["proxy"]
          /\ t'.state["recv"] = t.state["recv"]
          /\ \/ /\ t.bytestream = "none" /\ t'.conn["listener"] = "ready"
                /\ t'.state["send"] = t.state["send"]
             \/ t.bytestream # "none" /\ t'.conn["listener"] = "moving"
      <4>1. t'.opened["send"] = 1 /\ t'.opened["recv"] = t.opened["recv"]
        BY <1>1, <1>2, <2>1, <2>4
      <4>2. CASE t.bytestream = "none"
        BY <1>2, <1>3, <1>5, <2>1, <2>4, <4>1, <4>2 DEF Streams
      <4>3. CASE t.bytestream = "listener"
        <5>1. /\ t'.conn = [c EXCEPT !["listener"] = "moving"]
              /\ t'.state = [t.state EXCEPT !["send"] = "started"]
          BY <1>2, <2>1, <2>4, <4>3
        <5> QED
          BY <1>1, <1>3, <1>5, <4>1, <4>3, <5>1 DEF Streams
      <4> QED
        BY <2>1, <4>2, <4>3
    <3>3. Unoffered'
      BY <1>2, <2>1, <2>2, <3>2 DEF Inv, Core, Unoffered
    <3>4. ~ChoseProxy'
      BY <1>2, <2>2, <3>1, <3>2 DEF ChoseProxy
    <3>5. Choice'
      BY <1>2, <3>1, <3>2, <3>4 DEF Inv, Core, Choice
    <3>6. Waits'
      BY <1>2, <2>1, <2>2, <3>1, <3>2 DEF Inv, Core, Waits
    <3>7. Canceled'
      BY <1>2, <3>2 DEF Inv, Core, Canceled
    <3>8. Hopeful'
      BY <1>2, <2>2, <3>1, <3>2 DEF Inv, Hopeful, Fine, Hosts
    <3> QED
      BY <1>2, <3>3, <3>5, <3>6, <3>7, <3>8 DEF Core
  <2> QED
    BY <2>3, <2>4
<1> QED
  BY <1>4, <1>5

\* A byte stream is finished: its connection fails, or ends what it moved.
LEMMA FinishKeeps ==
  ASSUME Inv, NEW b \in Streams, t' = Finish(t, b), UNCHANGED <<reachable, broken>>,
         t.conn[b] \in {"connecting", "shaking", "moving"},
         Fine /\ ~t.deleted =>
           /\ b \in Hosts => /\ b \in reachable => t.tried[b] < Addresses[b]
                             /\ b = "direct" => t.conn["listener"] = "listening"
           /\ b = "listener" => t.conn[b] # "shaking"
  PROVE  t' \in Transfer /\ Core' /\ Hopeful'
<1> DEFINE x == IF t.conn[b] = "moving" THEN "ending" ELSE "failing"
<1>1. t \in Transfer /\ t.conn \in [Streams -> ConnStates]
  BY TransferFields DEF Inv, Shape
<1>2. /\ t' \in Transfer /\ Talk(t') = Talk(t) /\ Books(t') = Books(t)
      /\ t'.conn = [t.conn EXCEPT ![b] = x]
  <2>1. /\ t' \in Transfer /\ Talk(t') = Talk(t) /\ Books(t') = Books(t)
        /\ t'.conn = [t.conn EXCEPT ![b] = IF @ = "aborted" THEN "aborted"
                                          ELSE IF @ = "moving" THEN "ending" ELSE "failing"]
    BY <1>1, FinishFields
  <2> QED
    BY <1>1, <2>1
<1>3. /\ t'.opened = t.opened /\ t'.state = t.state /\ t'.tried = t.tried
      /\ t'.pendingConnections = t.pendingConnections
  BY <1>2 DEF Books
<1>4. /\ t'.wire = t.wire /\ t'.canceled = t.canceled /\ t'.deleted = t.deleted
      /\ t'.bytestreams = t.bytestreams
  BY <1>2 DEF Talk
<1>5. Core'
  BY <1>2, <1>3, SlideKeeps
<1>6. Hopeful'
  <2> SUFFICES ASSUME Fine' PROVE Hopeful'
    BY DEF Hopeful
  <2>1. Fine
    BY <1>4 DEF Fine
  <2>2. t'.conn[b] = x /\ \A c \in Streams : c # b => t'.conn[c] = t.conn[c]
    BY <1>1, <1>2
  <2>3. Hosts = {"direct", "proxy"} /\ "listener" \in Streams /\ "listener" \notin Hosts
        /\ "direct" \in Streams /\ "proxy" \in Streams
    BY DEF Hosts, Streams
  <2>4. CASE t.deleted
    <3>1. \A h \in Hosts : t.conn[h] \in {"moving", "ending", "over", "aborted"}
      BY <2>1, <2>4 DEF Inv, Hopeful
    <3>2. \A h \in Hosts : t'.conn[h] \in {"moving", "ending", "over", "aborted"}
      BY <2>1, <2>2, <2>3, <2>4, <3>1
    <3>3. "hosts" \notin t.wire /\ t.state["recv"] # "failed"
      BY <2>1, <2>3, <2>4, <3>1 DEF Inv, Hopeful
    <3> QED
      BY <1>3, <1>4, <2>3, <2>4, <3>2, <3>3 DEF Hopeful
  <2>5. CASE ~t.deleted
    <3>1. ~ChoseDirect /\ ~ChoseProxy
      BY <2>5 DEF Inv, Core, Choice
    <3>2. b # "out" /\ t.conn[b] # "moving"
      BY <2>1, <3>1 DEF ChoseDirect, ChoseProxy, Streams
    <3>3. b # "listener"
      BY <2>1, <2>5, <3>2 DEF Inv, Core, Unoffered
    <3>4. b \in Hosts /\ t'.conn[b] = "failing"
      BY <2>2, <3>2, <3>3 DEF Streams, Hosts
    <3>5. /\ t.state["recv"] # "failed" /\ t.conn["direct"] # "none" /\ t.conn["proxy"] # "none"
          /\ "hosts" \notin t.wire
      BY <2>1, <2>3, <3>4 DEF Inv, Hopeful
    <3>6. /\ t.bytestreams = Hosts
          /\ \A h \in Hosts : /\ t.conn[h] \in {"connecting", "shaking", "failing", "over"}
                              /\ t.tried[h] <= Addresses[h]
                              /\ h \in reachable /\ t.conn[h] = "failing"
                                   => t.tried[h] < Addresses[h]
                              /\ h \in reachable => t.conn[h] # "over"
          /\ t.conn["proxy"] # "shaking"
          /\ t.pendingConnections = IF \E h \in Hosts : t.conn[h] = "over" THEN 1 ELSE 2
          /\ t.conn["direct"] \in {"connecting", "failing"} => t.conn["listener"] = "listening"
          /\ t.conn["direct"] = "shaking" => t.conn["listener"] \in {"shaking", "ready"}
          /\ t.conn["listener"] = "shaking" => t.conn["direct"] = "shaking"
      BY <2>1, <2>5, <3>5 DEF Inv, Hopeful
    <3>7. /\ b \in reachable => t.tried[b] < Addresses[b]
          /\ b = "direct" => t.conn["listener"] = "listening"
      BY <2>1, <2>5, <3>4
    <3>8. \A h \in Hosts : /\ t'.conn[h] = IF h = b THEN "failing" ELSE t.conn[h]
      BY <2>2, <3>4 DEF Streams, Hosts
    <3>9. t'.conn["listener"] = t.conn["listener"]
      BY <2>2, <2>3, <3>3
    <3>10. (\E h \in Hosts : t'.conn[h] = "over") <=> (\E h \in Hosts : t.conn[h] = "over")
      BY <3>2, <3>4, <3>8
    <3>11. /\ t'.bytestreams = Hosts
           /\ \A h \in Hosts : /\ t'.conn[h] \in {"connecting", "shaking", "failing", "over"}
                               /\ t'.tried[h] <= Addresses[h]
                               /\ h \in reachable' /\ t'.conn[h] = "failing"
                                    => t'.tried[h] < Addresses[h]
                               /\ h \in reachable' => t'.conn[h] # "over"
           /\ t'.pendingConnections = IF \E h \in Hosts : t'.conn[h] = "over" THEN 1 ELSE 2
      BY <1>3, <1>4, <3>6, <3>7, <3>8, <3>10
    <3>12. /\ t'.conn["proxy"] # "shaking"
           /\ t'.conn["direct"] \in {"connecting", "failing"} => t'.conn["listener"] = "listening"
           /\ t'.conn["direct"] = "shaking" => t'.conn["listener"] \in {"shaking", "ready"}
           /\ t'.conn["listener"] = "shaking" => t'.conn["direct"] = "shaking"
           /\ t'.conn["direct"] # "none" /\ t'.conn["proxy"] # "none"
      BY <2>3, <3>4, <3>5, <3>6, <3>7, <3>8, <3>9
    <3> QED
      BY <1>3, <1>4, <2>5, <3>5, <3>11, <3>12 DEF Hopeful
  <2> QED
    BY <2>4, <2>5
<1> QED
  BY <1>2, <1>5, <1>6

\* A connection is made, or not.
LEMMA ConnectsKeep ==
  ASSUME Inv, NEW b \in Streams, Connects(b)
  PROVE  t' \in Transfer /\ Core' /\ Hopeful'
<1>1. t.conn[b] = "connecting" /\ UNCHANGED <<reachable, broken>>
  BY DEF Connects, Quiet
<1>2. t \in Transfer /\ t.conn \in [Streams -> ConnStates] /\ t.tried \in [Streams -> Nat]
  BY TransferFields DEF Inv, Shape
<1>3. b # "listener"
  BY <1>1 DEF Inv, Core, Unoffered
<1>4. CASE ~Works(b)
  <2>1. t' = Finish(t, b)
    BY <1>4 DEF Connects
  <2>2. ASSUME Fine, ~t.deleted, b \in Hosts
        PROVE  /\ b \in reachable => t.tried[b] < Addresses[b]
               /\ b = "direct" => t.conn["listener"] = "listening"
    <3>1. t.conn["direct"] # "none"
      BY <1>1, <2>2 DEF Inv, Hopeful, Hosts
    <3>2. /\ t.tried[b] <= Addresses[b]
          /\ b = "direct" => t.conn["listener"] = "listening"
      BY <1>1, <2>2, <3>1 DEF Inv, Hopeful
    <3>3. Host(b) = b /\ broken = {}
      BY <2>2 DEF Host, Hosts, Fine
    <3>4. b \in reachable => t.tried[b] # Addresses[b]
      BY <1>4, <3>2, <3>3 DEF Works
    <3>5. t.tried[b] \in Nat /\ Addresses[b] \in Nat
      BY <1>2, <2>2, FileTransferAssumption
    <3> QED
      BY <3>2, <3>4, <3>5
  <2> QED
    BY <1>1, <1>3, <2>1, <2>2, FinishKeeps
<1>5. CASE Works(b) /\ b = "direct"
  <2> DEFINE d == Conn(t, "direct", "shaking")
  <2>1. t' = Conn(d, "listener", "shaking")
    BY <1>5 DEF Connects
  <2>2. /\ d \in Transfer /\ d.conn = [t.conn EXCEPT !["direct"] = "shaking"]
        /\ Talk(d) = Talk(t) /\ Books(d) = Books(t)
    BY <1>2, ConnFields DEF Streams, ConnStates
  <2> HIDE DEF d
  <2>3. /\ t' \in Transfer /\ t'.conn = [d.conn EXCEPT !["listener"] = "shaking"]
        /\ Talk(t') = Talk(d) /\ Books(t') = Books(d)
    BY <2>1, <2>2, ConnFields DEF Streams, ConnStates
  <2>4. /\ t'.wire = t.wire /\ t'.bytestream = t.bytestream /\ t'.accepted = t.accepted
        /\ t'.proxy = t.proxy /\ t'.token = t.token /\ t'.canceled = t.canceled
        /\ t'.bytestreams = t.bytestreams /\ t'.deleted = t.deleted
    BY <2>2, <2>3 DEF Talk
  <2>5. /\ t'.state = t.state /\ t'.opened = t.opened /\ t'.tried = t.tried
        /\ t'.pendingConnections = t.pendingConnections
    BY <2>2, <2>3 DEF Books
  <2>6. /\ t'.conn["direct"] = "shaking" /\ t'.conn["listener"] = "shaking"
        /\ t'.conn["proxy"] = t.conn["proxy"] /\ t'.conn["out"] = t.conn["out"]
    BY <1>2, <2>2, <2>3 DEF Streams
  <2>7. t.conn["listener"] = "listening" /\ t.conn["direct"] = "connecting"
    BY <1>1, <1>5 DEF Works
  <2>8. Unoffered'
    BY <2>4, <2>6, <2>7 DEF Inv, Core, Unoffered
  <2>9. (ChoseDirect' => ChoseDirect) /\ (ChoseProxy' => ChoseProxy)
    BY <2>4, <2>6, <2>7 DEF ChoseDirect, ChoseProxy
  <2>10. Choice'
    BY <2>4, <2>5, <2>9 DEF Inv, Core, Choice
  <2>11. Waits'
    BY <2>4, <2>5, <2>6, <2>7 DEF Inv, Core, Waits
  <2>12. Canceled'
    BY <2>4, <2>5, <2>6, <2>7 DEF Inv, Core, Canceled
  <2>13. Hopeful'
    <3> SUFFICES ASSUME Fine' PROVE Hopeful'
      BY DEF Hopeful
    <3>1. Fine
      BY <1>1, <2>4 DEF Fine
    <3>2. ~t.deleted /\ t.conn["proxy"] # "none"
      BY <2>7, <3>1 DEF Inv, Hopeful, Hosts
    <3>3. /\ t.state["recv"] # "failed" /\ "hosts" \notin t.wire
          /\ t.bytestreams = Hosts
          /\ \A h \in Hosts : /\ t.conn[h] \in {"connecting", "shaking", "failing", "over"}
                              /\ t.tried[h] <= Addresses[h]
                              /\ h \in reachable /\ t.conn[h] = "failing"
                                   => t.tried[h] < Addresses[h]
                              /\ h \in reachable => t.conn[h] # "over"
          /\ t.conn["proxy"] # "shaking"
          /\ t.pendingConnections = IF \E h \in Hosts : t.conn[h] = "over" THEN 1 ELSE 2
      BY <2>7, <3>1, <3>2 DEF Inv, Hopeful
    <3>4. \A h \in Hosts : t'.conn[h] = IF h = "direct" THEN "shaking" ELSE t.conn[h]
      BY <2>6 DEF Hosts
    <3>5. (\E h \in Hosts : t'.conn[h] = "over") <=> (\E h \in Hosts : t.conn[h] = "over")
      BY <2>7, <3>4
    <3>6. /\ t'.bytestreams = Hosts
          /\ \A h \in Hosts : /\ t'.conn[h] \in {"connecting", "shaking", "failing", "over"}
                              /\ t'.tried[h] <= Addresses[h]
                              /\ h \in reachable' /\ t'.conn[h] = "failing"
                                   => t'.tried[h] < Addresses[h]
                              /\ h \in reachable' => t'.conn[h] # "over"
          /\ t'.pendingConnections = IF \E h \in Hosts : t'.conn[h] = "over" THEN 1 ELSE 2
      BY <1>1, <2>4, <2>5, <3>3, <3>4, <3>5
    <3> QED
      BY <2>4, <2>5, <2>6, <3>2, <3>3, <3>6 DEF Hopeful
  <2> QED
    BY <2>3, <2>8, <2>10, <2>11, <2>12, <2>13 DEF Core
<1>6. CASE Works(b) /\ b # "direct"
  <2>1. t' = OnBytestreamReady(t, b)
    BY <1>6 DEF Connects
  <2>2. CASE b = "proxy"
    <3>1. b \in Hosts /\ t' = ReceiverReady(t, b)
      BY <2>1, <2>2 DEF OnBytestreamReady, Side, Hosts
    <3> QED
      BY <1>1, <3>1, ReceiverReadyKeeps
  <2>3. CASE b = "out"
    <3>1. b \in {"listener", "out"} /\ t' = SenderReady(t, b)
      BY <2>1, <2>3 DEF OnBytestreamReady, Side
    <3> QED
      BY <1>1, <2>3, <3>1, SenderReadyKeeps
  <2> QED
    BY <1>3, <1>6, <2>2, <2>3 DEF Streams
<1> QED
  BY <1>4, <1>5, <1>6

\* The end of the handshake with the sender's own host.
LEMMA HandshakeKeeps ==
  ASSUME Inv, NEW b \in Streams, HandshakeDone(b)
  PROVE  t' \in Transfer /\ Core' /\ Hopeful'
<1>1. t.conn[b] = "shaking" /\ UNCHANGED <<reachable, broken>>
  BY DEF HandshakeDone, Quiet
<1>2. b # "out"
  BY <1>1 DEF Inv, Core, Waits
<1>3. CASE b = "listener"
  <2>1. CASE Cut(b)
    <3>1. t' = Finish(t, b)
      BY <1>3, <2>1 DEF HandshakeDone
    <3>2. ASSUME Fine PROVE t.deleted
      <4>1. t.conn["direct"] \in {"failing", "ending", "aborted", "over", "connecting"}
        BY <1>3, <2>1, <3>2 DEF Cut, Closed, Far, Fine
      <4> QED
        BY <1>1, <1>3, <3>2, <4>1 DEF Inv, Hopeful
    <3> QED
      BY <1>1, <1>3, <3>1, <3>2, FinishKeeps DEF Hosts
  <2>2. CASE ~Cut(b)
    <3>1. b \in {"listener", "out"} /\ t' = SenderReady(t, b)
      BY <1>3, <2>2 DEF HandshakeDone, OnBytestreamReady, Side
    <3> QED
      BY <1>1, <1>3, <3>1, SenderReadyKeeps
  <2> QED
    BY <2>1, <2>2
<1>4. CASE b # "listener"
  <2>1. b \in Hosts
    BY <1>2, <1>4 DEF Streams, Hosts
  <2>2. CASE t.conn["listener"] \in {"ready", "moving"} /\ ~Cut(b)
    <3>1. t' = ReceiverReady(t, b)
      BY <1>4, <2>1, <2>2 DEF HandshakeDone, OnBytestreamReady, Side, Hosts
    <3> QED
      BY <1>1, <2>1, <3>1, ReceiverReadyKeeps
  <2>3. CASE ~(t.conn["listener"] \in {"ready", "moving"} /\ ~Cut(b))
    <3>1. t' = Finish(t, b)
      BY <1>4, <2>3 DEF HandshakeDone
    <3>2. ASSUME Fine, ~t.deleted PROVE FALSE
      <4>1. t.conn["direct"] # "none"
        BY <1>1, <2>1, <3>2 DEF Inv, Hopeful, Hosts
      <4>2. /\ t.conn["proxy"] # "shaking"
            /\ t.conn["direct"] = "shaking" => t.conn["listener"] \in {"shaking", "ready"}
        BY <3>2, <4>1 DEF Inv, Hopeful
      <4>3. b = "direct" /\ t.conn["listener"] \in {"shaking", "ready"}
        BY <1>1, <2>1, <4>2 DEF Hosts
      <4>4. ~Cut(b)
        BY <3>2, <4>3 DEF Cut, Closed, Far, Fine
      <4>5. t.conn["listener"] # "shaking"
        BY <4>3, <4>4 DEF HandshakeDone
      <4> QED
        BY <2>3, <4>3, <4>4, <4>5
    <3> QED
      BY <1>1, <1>4, <3>1, <3>2, FinishKeeps
  <2> QED
    BY <2>2, <2>3
<1> QED
  BY <1>3, <1>4

\* Nothing but the counts of the chunks changes.
LEMMA CountKeeps ==
  ASSUME Inv, UNCHANGED <<reachable, broken>>, NEW n \in Nat,
         t' = [t EXCEPT !.sent = n] \/ t' = [t EXCEPT !.got = n]
  PROVE  t' \in Transfer /\ Core' /\ Hopeful'
<1>1. t \in Transfer
  BY DEF Inv, Shape
<1>2. t' \in Transfer /\ Talk(t') = Talk(t) /\ Books(t') = Books(t) /\ t'.conn = t.conn
  BY <1>1 DEF Transfer, Talk, Books
<1>3. /\ t'.opened = t.opened /\ t'.state = t.state /\ t'.tried = t.tried
      /\ t'.pendingConnections = t.pendingConnections
  BY <1>2 DEF Books
<1>4. /\ t'.wire = t.wire /\ t'.canceled = t.canceled /\ t'.deleted = t.deleted
      /\ t'.bytestreams = t.bytestreams
  BY <1>2 DEF Talk
<1>5. Core'
  BY <1>2, <1>3, CoreUnchanged
<1>6. Hopeful'
  BY <1>2, <1>3, <1>4 DEF Inv, Hopeful, Fine
<1> QED
  BY <1>2, <1>5, <1>6

\* The file moves, until it has arrived or its connection is gone.
LEMMA FlowKeeps ==
  ASSUME Inv, NEW b \in Streams, Writes(b) \/ Reads(b)
  PROVE  t' \in Transfer /\ Core' /\ Hopeful'
<1>1. t.conn[b] = "moving" /\ UNCHANGED <<reachable, broken>>
  BY DEF Writes, Reads, Quiet
<1>2. t \in Transfer /\ t.sent \in Nat /\ t.got \in Nat
  BY TransferFields DEF Inv, Shape
<1>3. CASE t' = Finish(t, b)
  <2>1. ASSUME ~t.deleted PROVE FALSE
    <3>1. ~ChoseDirect /\ ~ChoseProxy
      BY <2>1 DEF Inv, Core, Choice
    <3> QED
      BY <1>1, <3>1 DEF ChoseDirect, ChoseProxy, Streams
  <2> QED
    BY <1>1, <1>3, <2>1, FinishKeeps
<1>4. CASE t' = [t EXCEPT !.sent = @ + 1]
  <2> DEFINE n == t.sent + 1
  <2>1. n \in Nat
    BY <1>2
  <2>2. t' = [t EXCEPT !.sent = n]
    BY <1>2, <1>4 DEF Transfer
  <2> HIDE DEF n
  <2> QED
    BY <1>1, <2>1, <2>2, CountKeeps
<1>5. CASE t' = [t EXCEPT !.got = @ + 1]
  <2> DEFINE n == t.got + 1
  <2>1. n \in Nat
    BY <1>2
  <2>2. t' = [t EXCEPT !.got = n]
    BY <1>2, <1>5 DEF Transfer
  <2> HIDE DEF n
  <2> QED
    BY <1>1, <2>1, <2>2, CountKeeps
<1> QED
  BY <1>3, <1>4, <1>5 DEF Writes, Reads

\* A failed connection of the receiver: the next address, or the host is given up.
LEMMA RetryKeeps ==
  ASSUME Inv, NEW b \in Hosts, t.conn[b] = "failing", t' = Connect(t, b),
         UNCHANGED <<reachable, broken>>
  PROVE  t' \in Transfer /\ Core' /\ Hopeful'
<1> DEFINE next == t.tried[b] < Addresses[b]
           x == IF next THEN "connecting" ELSE "over"
<1>1. t \in Transfer /\ t.conn \in [Streams -> ConnStates] /\ t.tried \in [Streams -> Nat]
      /\ b \in Streams /\ Side(b) = "recv" /\ "send" \in Sides /\ "recv" \in Sides
  BY TransferFields DEF Inv, Shape, Hosts, Streams, Side, Sides
<1>2. /\ t' \in Transfer /\ Talk(t') = Talk(t) /\ t'.opened = t.opened
      /\ t'.conn = [t.conn EXCEPT ![b] = x]
      /\ t'.state["send"] = t.state["send"]
      /\ t'.state["recv"] \in {t.state["recv"], "failed"}
      /\ next => /\ t'.state = t.state /\ t'.pendingConnections = t.pendingConnections
                 /\ t'.tried = [t.tried EXCEPT ![b] = @ + 1]
      /\ ~next =>
           /\ t'.tried = t.tried
           /\ ~t.deleted /\ t.pendingConnections > 1 =>
                t'.state = t.state /\ t'.pendingConnections = t.pendingConnections - 1
  BY <1>1, ReceiverConnects
<1>3. /\ t'.wire = t.wire /\ t'.canceled = t.canceled /\ t'.deleted = t.deleted
      /\ t'.bytestreams = t.bytestreams
  BY <1>2 DEF Talk
<1>4. Core'
  <2>1. \A e \in Sides : \/ t'.state[e] = t.state[e]
                         \/ e = Side(b) /\ t'.state[e] = "failed"
                         \/ e = Side(b) /\ t.conn[b] = "ending"
    BY <1>1, <1>2 DEF Sides
  <2>2. x \in {"connecting", "over"} /\ b # "listener"
    BY DEF Hosts
  <2> HIDE DEF x
  <2> QED
    BY <1>1, <1>2, <2>1, <2>2, SlideKeeps
<1>5. Hopeful'
  <2> SUFFICES ASSUME Fine' PROVE Hopeful'
    BY DEF Hopeful
  <2>1. Fine
    BY <1>3 DEF Fine
  <2>2. /\ ~t.deleted /\ t.conn["direct"] # "none" /\ t.conn["proxy"] # "none"
        /\ t.state["recv"] # "failed" /\ "hosts" \notin t.wire
    BY <2>1 DEF Inv, Hopeful, Hosts
  <2>3. /\ t.bytestreams = Hosts
        /\ \A h \in Hosts : /\ t.conn[h] \in {"connecting", "shaking", "failing", "over"}
                            /\ t.tried[h] <= Addresses[h]
                            /\ h \in reachable /\ t.conn[h] = "failing"
                                 => t.tried[h] < Addresses[h]
                            /\ h \in reachable => t.conn[h] # "over"
        /\ t.conn["proxy"] # "shaking"
        /\ t.pendingConnections = IF \E h \in Hosts : t.conn[h] = "over" THEN 1 ELSE 2
        /\ t.conn["direct"] \in {"connecting", "failing"} => t.conn["listener"] = "listening"
        /\ t.conn["direct"] = "shaking" => t.conn["listener"] \in {"shaking", "ready"}
        /\ t.conn["listener"] = "shaking" => t.conn["direct"] = "shaking"
    BY <2>1, <2>2 DEF Inv, Hopeful
  <2>4. /\ t'.conn[b] = x /\ \A c \in Streams : c # b => t'.conn[c] = t.conn[c]
    BY <1>1, <1>2
  <2>5. /\ \A h \in Hosts : h # b => t'.conn[h] = t.conn[h]
        /\ t'.conn["listener"] = t.conn["listener"]
    BY <2>4 DEF Streams, Hosts
  <2>6. Addresses[b] \in Nat /\ t.tried[b] \in Nat
    BY <1>1, FileTransferAssumption
  <2>7. Hosts = {"direct", "proxy"}
    BY DEF Hosts
  <2>8. /\ t'.conn["proxy"] # "shaking" /\ t'.conn["direct"] # "none" /\ t'.conn["proxy"] # "none"
        /\ t'.conn["direct"] \in {"connecting", "failing"} => t'.conn["listener"] = "listening"
        /\ t'.conn["direct"] = "shaking" => t'.conn["listener"] \in {"shaking", "ready"}
        /\ t'.conn["listener"] = "shaking" => t'.conn["direct"] = "shaking"
    <3>1. t'.conn[b] \in {"connecting", "over"}
      BY <2>4
    <3> QED
      BY <2>2, <2>3, <2>5, <2>7, <3>1
  <2>9. CASE next
    <3>1. /\ t'.conn[b] = "connecting" /\ t'.tried[b] = t.tried[b] + 1
          /\ \A h \in Hosts : h # b => t'.tried[h] = t.tried[h]
          /\ t'.state = t.state /\ t'.pendingConnections = t.pendingConnections
      BY <1>1, <1>2, <2>4, <2>9 DEF Streams, Hosts
    <3>2. (\E h \in Hosts : t'.conn[h] = "over") <=> (\E h \in Hosts : t.conn[h] = "over")
      BY <2>5, <3>1
    <3>3. t'.tried[b] <= Addresses[b]
      BY <2>6, <2>9, <3>1
    <3>4. /\ t'.bytestreams = Hosts
          /\ \A h \in Hosts : /\ t'.conn[h] \in {"connecting", "shaking", "failing", "over"}
                              /\ t'.tried[h] <= Addresses[h]
                              /\ h \in reachable' /\ t'.conn[h] = "failing"
                                   => t'.tried[h] < Addresses[h]
                              /\ h \in reachable' => t'.conn[h] # "over"
          /\ t'.pendingConnections = IF \E h \in Hosts : t'.conn[h] = "over" THEN 1 ELSE 2
      BY <1>3, <2>3, <2>5, <3>1, <3>2, <3>3
    <3> QED
      BY <1>3, <2>2, <2>8, <3>1, <3>4 DEF Hopeful
  <2>10. CASE ~next
    <3>1. b \notin reachable
      BY <2>3, <2>10
    <3>2. \A h \in Hosts : h # b => h \in reachable /\ t.conn[h] # "over"
      <4>1. reachable \subseteq Hosts /\ reachable # {}
        BY <2>1 DEF Inv, Shape, Fine
      <4>2. \A h \in Hosts : h # b => h \in reachable
        BY <2>7, <3>1, <4>1
      <4> QED
        BY <2>3, <4>2
    <3>3. t.pendingConnections = 2
      BY <2>3, <3>2
    <3>4. /\ t'.tried = t.tried /\ t'.state = t.state /\ t'.pendingConnections = 1
          /\ t'.conn[b] = "over"
      BY <1>2, <2>2, <2>4, <2>10, <3>3
    <3>5. /\ t'.bytestreams = Hosts
          /\ \A h \in Hosts : /\ t'.conn[h] \in {"connecting", "shaking", "failing", "over"}
                              /\ t'.tried[h] <= Addresses[h]
                              /\ h \in reachable' /\ t'.conn[h] = "failing"
                                   => t'.tried[h] < Addresses[h]
                              /\ h \in reachable' => t'.conn[h] # "over"
          /\ t'.pendingConnections = IF \E h \in Hosts : t'.conn[h] = "over" THEN 1 ELSE 2
      BY <1>3, <2>3, <2>5, <3>1, <3>4
    <3> QED
      BY <1>3, <2>2, <2>8, <3>4, <3>5 DEF Hopeful
  <2> QED
    BY <2>9, <2>10
<1> QED
  BY <1>2, <1>4, <1>5

\* A connection of the sender ends: what the receiver hopes for is not touched.
LEMMA SenderEnds ==
  ASSUME Inv, NEW b \in {"listener", "out"}, NEW x, x # "shaking", t' \in Transfer,
         t.conn[b] \in {"failing", "ending"}, t'.conn = [t.conn EXCEPT ![b] = x],
         Talk(t') = Talk(t), t'.state["recv"] = t.state["recv"],
         t'.pendingConnections = t.pendingConnections,
         b = "listener" => t'.tried = t.tried,
         UNCHANGED <<reachable, broken>>
  PROVE  Hopeful'
<1> SUFFICES ASSUME Fine' PROVE Hopeful'
  BY DEF Hopeful
<1>1. /\ t'.wire = t.wire /\ t'.canceled = t.canceled /\ t'.deleted = t.deleted
      /\ t'.bytestreams = t.bytestreams
  BY DEF Talk
<1>2. Fine
  BY <1>1 DEF Fine
<1>3. /\ \A h \in Hosts : t'.conn[h] = t.conn[h]
      /\ t'.conn[b] = x /\ b \in Streams
  <2>1. t.conn \in [Streams -> ConnStates]
    BY TransferFields DEF Inv, Shape
  <2> QED
    BY <2>1 DEF Streams, Hosts
<1>4. t'.conn["direct"] = t.conn["direct"] /\ t'.conn["proxy"] = t.conn["proxy"]
  BY <1>3 DEF Hosts
<1>5. "hosts" \notin t.wire \/ t.deleted
  <2>1. CASE b = "listener"
    BY <1>2, <2>1 DEF Inv, Hopeful
  <2>2. CASE b = "out"
    BY <2>2 DEF Inv, Core, Choice, ChoseProxy
  <2> QED
    BY <2>1, <2>2
<1>6. CASE t.deleted
  <2>1. /\ \A h \in Hosts : t.conn[h] \in {"moving", "ending", "over", "aborted"}
        /\ t.conn["direct"] # "none" /\ t.conn["proxy"] # "none"
        /\ "hosts" \notin t.wire /\ t.state["recv"] # "failed"
    BY <1>2, <1>6 DEF Inv, Hopeful, Hosts
  <2> QED
    BY <1>1, <1>3, <1>4, <1>6, <2>1 DEF Hopeful
<1>7. CASE ~t.deleted
  <2>1. ~ChoseDirect /\ ~ChoseProxy
    BY <1>7 DEF Inv, Core, Choice
  <2>2. b = "listener" /\ t'.tried = t.tried
    BY <2>1 DEF ChoseProxy
  <2>3. /\ t.state["recv"] # "failed" /\ "hosts" \notin t.wire
        /\ t.conn["direct"] = "none" <=> t.conn["proxy"] = "none"
        /\ t.conn["direct"] = "none" => t.tried = [c \in Streams |-> 0]
        /\ t.conn["direct"] # "none" =>
             /\ t.bytestreams = Hosts
             /\ \A h \in Hosts : /\ t.conn[h] \in {"connecting", "shaking", "failing", "over"}
                                 /\ t.tried[h] <= Addresses[h]
                                 /\ h \in reachable /\ t.conn[h] = "failing"
                                      => t.tried[h] < Addresses[h]
                                 /\ h \in reachable => t.conn[h] # "over"
             /\ t.conn["proxy"] # "shaking"
             /\ t.pendingConnections = IF \E h \in Hosts : t.conn[h] = "over" THEN 1 ELSE 2
             /\ t.conn["direct"] \notin {"connecting", "failing", "shaking"}
    BY <1>2, <1>5, <1>7, <2>2 DEF Inv, Hopeful
  <2>4. t.conn["direct"] # "none" =>
             /\ t'.bytestreams = Hosts
             /\ \A h \in Hosts : /\ t'.conn[h] \in {"connecting", "shaking", "failing", "over"}
                                 /\ t'.tried[h] <= Addresses[h]
                                 /\ h \in reachable' /\ t'.conn[h] = "failing"
                                      => t'.tried[h] < Addresses[h]
                                 /\ h \in reachable' => t'.conn[h] # "over"
             /\ t'.pendingConnections = IF \E h \in Hosts : t'.conn[h] = "over" THEN 1 ELSE 2
    BY <1>1, <1>3, <2>2, <2>3
  <2>5. t'.conn["listener"] # "shaking"
    BY <1>3, <2>2
  <2> QED
    BY <1>1, <1>4, <1>7, <2>2, <2>3, <2>4, <2>5 DEF Hopeful
<1> QED
  BY <1>6, <1>7

\* Both streams of a byte stream are closed.
LEMMA ClosedKeeps ==
  ASSUME Inv, NEW b \in Streams, StreamsClosed(b)
  PROVE  t' \in Transfer /\ Core' /\ Hopeful'
<1>1. UNCHANGED <<reachable, broken>> /\ Side(b) \in Sides
  BY DEF StreamsClosed, Quiet, Side, Sides
<1>2. t \in Transfer /\ t.conn \in [Streams -> ConnStates] /\ t.state \in [Sides -> EndStates]
      /\ "over" \in ConnStates /\ "recv" \in Sides
  BY TransferFields DEF Inv, Shape, ConnStates, Sides
<1>3. CASE t.conn[b] = "failing" /\ b \in Hosts
  <2>1. t' = Connect(t, b)
    BY <1>3 DEF StreamsClosed, Hosts
  <2> QED
    BY <1>1, <1>3, <2>1, RetryKeeps
<1>4. CASE b \in {"listener", "out"} /\ t.conn[b] = "failing"
  <2>1. /\ t' \in Transfer /\ Talk(t') = Talk(t) /\ t'.opened = t.opened
        /\ \/ t'.conn = [t.conn EXCEPT ![b] = "over"]
           \/ b = "out" /\ t'.conn = [t.conn EXCEPT ![b] = "connecting"]
        /\ \/ t'.state = t.state
           \/ t'.state = [t.state EXCEPT !["send"] = "failed"]
        /\ t'.pendingConnections = t.pendingConnections
        /\ b = "listener" => t'.tried = t.tried
    <3>1. CASE b = "listener"
      <4> DEFINE d == Conn(t, b, "over")
                 more == Side(b) = "recv" /\ ~d.deleted /\ d.pendingConnections > 1
      <4>1. t' = OnBytestreamFailure(d, b)
        BY <1>4, <3>1 DEF StreamsClosed
      <4>2. /\ d \in Transfer /\ d.conn = [t.conn EXCEPT ![b] = "over"]
            /\ Talk(d) = Talk(t) /\ Books(d) = Books(t)
        BY <1>2, ConnFields
      <4> HIDE DEF d
      <4>3. /\ t' \in Transfer /\ Talk(t') = Talk(d) /\ t'.conn = d.conn
            /\ t'.opened = d.opened /\ t'.tried = d.tried
            /\ t'.state = IF more THEN d.state ELSE [d.state EXCEPT ![Side(b)] = "failed"]
            /\ Side(b) = "send" => t'.pendingConnections = d.pendingConnections
        BY <4>1, <4>2, OnBytestreamFailureFields
      <4>4. /\ d.state = t.state /\ d.opened = t.opened /\ d.tried = t.tried
            /\ d.pendingConnections = t.pendingConnections /\ Side(b) = "send"
        BY <3>1, <4>2 DEF Books, Side
      <4> QED
        BY <4>2, <4>3, <4>4
    <3>2. CASE b = "out"
      <4> DEFINE next == t.tried[b] < Addresses[Host(b)]
                 more == Side(b) = "recv" /\ ~t.deleted /\ t.pendingConnections > 1
      <4>1. t' = Connect(t, b)
        BY <1>4, <3>2 DEF StreamsClosed
      <4>2. /\ t' \in Transfer /\ Talk(t') = Talk(t) /\ t'.opened = t.opened
            /\ t'.conn = [t.conn EXCEPT ![b] = IF next THEN "connecting" ELSE "over"]
            /\ next => t'.state = t.state /\ t'.pendingConnections = t.pendingConnections
            /\ ~next =>
                 /\ t'.state = IF more THEN t.state ELSE [t.state EXCEPT ![Side(b)] = "failed"]
                 /\ Side(b) = "send" => t'.pendingConnections = t.pendingConnections
        BY <1>2, <4>1, ConnectFields
      <4>3. Side(b) = "send"
        BY <3>2 DEF Side
      <4> QED
        BY <3>2, <4>2, <4>3
    <3> QED
      BY <1>4, <3>1, <3>2
  <2>2. \A e \in Sides : \/ t'.state[e] = t.state[e]
                         \/ e = Side(b) /\ t'.state[e] = "failed"
                         \/ e = Side(b) /\ t.conn[b] = "ending"
    <3>1. Side(b) = "send"
      BY <1>4 DEF Side
    <3> QED
      BY <1>2, <2>1, <3>1
  <2>3. PICK x : /\ t'.conn = [t.conn EXCEPT ![b] = x]
                 /\ x \in {"connecting", "over"} /\ (b = "listener" => x = "over")
    <3>1. CASE t'.conn = [t.conn EXCEPT ![b] = "over"]
      BY <3>1
    <3>2. CASE b = "out" /\ t'.conn = [t.conn EXCEPT ![b] = "connecting"]
      BY <3>2
    <3> QED
      BY <2>1, <3>1, <3>2
  <2>4. Core'
    BY <1>4, <2>1, <2>2, <2>3, SlideKeeps
  <2>5. Hopeful'
    <3>1. t'.state["recv"] = t.state["recv"]
      BY <1>2, <2>1
    <3> QED
      BY <1>1, <1>4, <2>1, <2>3, <3>1, SenderEnds
  <2> QED
    BY <2>1, <2>4, <2>5
<1>5. CASE t.conn[b] = "ending"
  <2> DEFINE d == Conn(t, b, "over")
             f == [d.state EXCEPT ![Side(b)] = "completed"]
  <2>1. /\ d \in Transfer /\ d.conn = [t.conn EXCEPT ![b] = "over"]
        /\ Talk(d) = Talk(t) /\ Books(d) = Books(t)
    BY <1>2, ConnFields
  <2>2. t' = [d EXCEPT !.state[Side(b)] = "completed"]
    BY <1>5 DEF StreamsClosed
  <2> HIDE DEF d
  <2>3. f \in [Sides -> EndStates]
    BY <1>1, <2>1, TransferFields DEF EndStates
  <2>4. t' = [d EXCEPT !.state = f]
    BY <2>1, <2>2 DEF Transfer
  <2>5. d.state = t.state
    BY <2>1 DEF Books
  <2>6. /\ f[Side(b)] = "completed"
        /\ \A e \in Sides : e # Side(b) => f[e] = t.state[e]
    BY <1>1, <1>2, <2>5
  <2> HIDE DEF f
  <2>7. /\ t' \in Transfer /\ Talk(t') = Talk(d) /\ t'.conn = d.conn /\ t'.state = f
        /\ t'.opened = d.opened /\ t'.tried = d.tried
        /\ t'.pendingConnections = d.pendingConnections
    BY <2>1, <2>3, <2>4, SingleFields
  <2>8. /\ Talk(t') = Talk(t) /\ t'.conn = [t.conn EXCEPT ![b] = "over"]
        /\ t'.opened = t.opened /\ t'.tried = t.tried
        /\ t'.pendingConnections = t.pendingConnections
    BY <2>1, <2>7 DEF Books
  <2>9. \A e \in Sides : \/ t'.state[e] = t.state[e]
                         \/ e = Side(b) /\ t'.state[e] = "failed"
                         \/ e = Side(b) /\ t.conn[b] = "ending"
    BY <1>5, <2>6, <2>7
  <2>10. Core'
    BY <1>5, <2>7, <2>8, <2>9, SlideKeeps
  <2>11. Hopeful'
    <3>1. CASE b \in Hosts
      <4> SUFFICES ASSUME Fine' PROVE Hopeful'
        BY DEF Hopeful
      <4>1. t'.wire = t.wire /\ t'.canceled = t.canceled /\ t'.deleted = t.deleted
        BY <2>8 DEF Talk
      <4>2. Fine
        BY <1>1, <4>1 DEF Fine
      <4>3. t.deleted
        <5>1. t.conn["direct"] # "none"
          BY <1>5, <3>1, <4>2 DEF Inv, Hopeful, Hosts
        <5> QED
          BY <1>5, <3>1, <4>2, <5>1 DEF Inv, Hopeful
      <4>4. /\ \A h \in Hosts : t.conn[h] \in {"moving", "ending", "over", "aborted"}
            /\ "hosts" \notin t.wire
        BY <4>2, <4>3 DEF Inv, Hopeful, Hosts
      <4>5. \A h \in Hosts : t'.conn[h] \in {"moving", "ending", "over", "aborted"}
        <5>1. Hosts \subseteq Streams
          BY DEF Hosts, Streams
        <5> QED
          BY <1>2, <2>8, <4>4, <5>1
      <4>6. t'.state["recv"] = "completed"
        <5>1. Side(b) = "recv"
          BY <3>1 DEF Side, Hosts
        <5> QED
          BY <2>6, <2>7, <5>1
      <4> QED
        BY <4>1, <4>3, <4>4, <4>5, <4>6 DEF Hopeful, Hosts
    <3>2. CASE b \in {"listener", "out"}
      <4>1. t'.state["recv"] = t.state["recv"]
        <5>1. Side(b) = "send"
          BY <3>2 DEF Side
        <5> QED
          BY <1>2, <2>6, <2>7, <5>1
      <4> QED
        BY <1>1, <1>5, <2>7, <2>8, <3>2, <4>1, SenderEnds
    <3> QED
      BY <3>1, <3>2 DEF Streams, Hosts
  <2> QED
    BY <2>7, <2>10, <2>11
<1>6. t.conn[b] \in {"failing", "ending"} /\ (b \in Hosts \/ b \in {"listener", "out"})
  BY DEF StreamsClosed, Streams, Hosts
<1> QED
  BY <1>3, <1>4, <1>5, <1>6

\* A connection breaks: from then on there is a reason.
LEMMA BreakKeeps ==
  ASSUME Inv, NEW h \in Hosts, Break(h)
  PROVE  t' \in Transfer /\ Core' /\ Hopeful'
<1>1. t' = t /\ h \in broken'
  BY DEF Break
<1>2. Core' /\ t' \in Transfer
  BY <1>1, CoreUnchanged DEF Inv, Shape
<1>3. ~Fine'
  BY <1>1 DEF Fine
<1> QED
  BY <1>2, <1>3 DEF Hopeful

\* A transfer begins.
LEMMA Begins == Init => Inv
<1> SUFFICES ASSUME Init PROVE Inv
  OBVIOUS
<1> DEFINE st == [e \in Sides |-> "waiting"]
           cn == [b \in Streams |-> "none"]
           tr == [b \in Streams |-> 0]
           op == [e \in Sides |-> 0]
<1>1. t = [ state |-> st, conn |-> cn, tried |-> tr, wire |-> {"offer"}, bytestream |-> "none",
            accepted |-> FALSE, proxy |-> FALSE, token |-> {}, bytestreams |-> {},
            deleted |-> FALSE, pendingConnections |-> 0, sent |-> 0, got |-> 0, opened |-> op,
            canceled |-> {}, early |-> FALSE ]
  BY DEF Init
<1>2. st \in [Sides -> EndStates] /\ cn \in [Streams -> ConnStates]
      /\ tr \in [Streams -> Nat] /\ op \in [Sides -> Nat]
  BY DEF EndStates, ConnStates
<1>3. /\ st["send"] = "waiting" /\ st["recv"] = "waiting"
      /\ op["send"] = 0 /\ op["recv"] = 0 /\ \A b \in Streams : cn[b] = "none"
  BY DEF Sides
<1>4. cn["listener"] = "none" /\ cn["direct"] = "none" /\ cn["proxy"] = "none" /\ cn["out"] = "none"
  BY <1>3 DEF Streams
<1> HIDE DEF st, cn, op
<1>5. tr = [b \in Streams |-> 0]
  OBVIOUS
<1> HIDE DEF tr
<1>6. /\ t.state = st /\ t.conn = cn /\ t.tried = tr /\ t.wire = {"offer"}
      /\ t.bytestream = "none" /\ t.accepted = FALSE /\ t.proxy = FALSE /\ t.token = {}
      /\ t.deleted = FALSE /\ t.opened = op /\ t.canceled = {}
  BY <1>1
<1>7. Shape
  <2>1. t \in Transfer
    BY <1>1, <1>2 DEF Transfer, Packets
  <2> QED
    BY <2>1 DEF Init, Shape
<1>8. Unoffered /\ Waits /\ Canceled
  BY <1>3, <1>4, <1>6 DEF Unoffered, Waits, Canceled
<1>9. Choice
  BY <1>3, <1>4, <1>6 DEF Choice, ChoseDirect, ChoseProxy
<1>10. Hopeful
  BY <1>3, <1>4, <1>5, <1>6 DEF Hopeful
<1> QED
  BY <1>7, <1>8, <1>9, <1>10 DEF Inv, Core

\* Every step keeps the invariant.
LEMMA StepKeeps == Inv /\ [Next]_vars => Inv'
<1> SUFFICES ASSUME Inv, [Next]_vars PROVE Inv'
  OBVIOUS
<1>1. CASE Accept \/ Reject
  BY <1>1, AnswerKeeps DEF Accept, Reject, Quiet, Inv, Shape
<1>2. CASE SendOfferStep
  BY <1>2, OfferKeeps DEF SendOfferStep, Quiet, Inv, Shape
<1>3. CASE OnIQ
  BY <1>3, HostsKeep DEF OnIQ, Quiet, Inv, Shape
<1>4. CASE UsedArrives
  BY <1>4, UsedKeeps, ReturnedKeeps DEF UsedArrives, Quiet, Inv, Shape
<1>5. CASE ProxyAnswers
  BY <1>5, ProxyKeeps DEF ProxyAnswers, Quiet, Inv, Shape
<1>6. ASSUME NEW e \in Sides, Cancel(e) PROVE Inv'
  BY <1>6, CancelKeeps DEF Cancel, Quiet, Inv, Shape
<1>7. ASSUME NEW b \in Streams, Stream(b) PROVE Inv'
  <2>1. CASE Connects(b)
    BY <2>1, ConnectsKeep DEF Connects, Quiet, Inv, Shape
  <2>2. CASE HandshakeDone(b)
    BY <2>2, HandshakeKeeps DEF HandshakeDone, Quiet, Inv, Shape
  <2>3. CASE Writes(b) \/ Reads(b)
    BY <2>3, FlowKeeps DEF Writes, Reads, Quiet, Inv, Shape
  <2>4. CASE StreamsClosed(b)
    BY <2>4, ClosedKeeps DEF StreamsClosed, Quiet, Inv, Shape
  <2> QED
    BY <1>7, <2>1, <2>2, <2>3, <2>4 DEF Stream
<1>8. ASSUME NEW h \in Hosts, Break(h) PROVE Inv'
  BY <1>8, BreakKeeps DEF Break, Inv, Shape
<1>9. CASE HostsReturned
  BY <1>9, HostsReturnedKeep DEF HostsReturned, Quiet, Inv, Shape
<1>10. CASE UNCHANGED vars
  BY <1>10 DEF vars, Inv, Shape, Core, Unoffered, Choice, ChoseDirect, ChoseProxy, Waits,
              Canceled, Hopeful, Fine
<1> QED
  BY <1>1, <1>2, <1>3, <1>4, <1>5, <1>6, <1>7, <1>8, <1>9, <1>10 DEF Next, Packet

\* The inductive invariant of a transfer.
THEOREM Invariant == Spec => []Inv
<1> QED
  BY Begins, StepKeeps, PTL DEF Spec

-----------------------------------------------------------------------------
(* Theorems                                                                *)

\* Each end opens the file once at most and it moves over one connection, however the
\* connections to the stream hosts race (onBytestreamReady, _sendFileStep).
THEOREM OneStreamOnly == Spec => []OneStream
<1>1. Inv => OneStream
  <2> SUFFICES ASSUME Inv PROVE OneStream
    OBVIOUS
  <2>1. \A e \in Sides : t.opened[e] <= 1
    <3>1. t.opened["send"] \in Nat /\ t.opened["recv"] \in Nat
      BY TransferFields DEF Inv, Shape, Sides
    <3>2. t.opened["send"] <= 1 /\ t.opened["recv"] <= 1
      BY <3>1 DEF Inv, Core, Choice, Waits
    <3> QED
      BY <3>2 DEF Sides
  <2>2. ASSUME NEW b \in Moving, NEW c \in Moving PROVE Host(b) = Host(c)
    <3>1. \A d \in Moving : /\ Host(d) = "direct" => ChoseDirect
                            /\ Host(d) = "proxy" => ChoseProxy
                            /\ Host(d) \in {"direct", "proxy"}
      BY DEF Moving, Streams, Host, ChoseDirect, ChoseProxy
    <3> QED
      BY <2>2, <3>1 DEF Inv, Core, Choice
  <2> QED
    BY <2>1, <2>2 DEF OneStream
<1> QED
  BY Invariant, <1>1, PTL

\* An end that is canceled once its token exists neither sends nor receives any more and
\* never ends as a success (SOCKS5Service.abort).
THEOREM CanceledStaysCanceled == Spec => []CancelHolds
<1>1. Inv => CancelHolds
  <2> SUFFICES ASSUME Inv, NEW e \in t.canceled
               PROVE  /\ t.state[e] \in {"canceled", "failed"}
                      /\ \A b \in Moving : Side(b) # e
    BY DEF CancelHolds
  <2>1. e = "send" \/ e = "recv"
    BY TransferFields DEF Inv, Shape, Sides
  <2>2. CASE e = "send"
    BY <2>2 DEF Inv, Core, Canceled, Moving, Streams, Side
  <2>3. CASE e = "recv"
    BY <2>3 DEF Inv, Core, Canceled, Moving, Streams, Side
  <2> QED
    BY <2>1, <2>2, <2>3
<1> QED
  BY Invariant, <1>1, PTL

\* The receiver reports a failure only if no stream host could be reached, a connection broke
\* or somebody canceled (onBytestreamFailure counts the hosts).
THEOREM FailsForAReason == Spec => []FailedForAReason
<1>1. Inv => FailedForAReason
  BY DEF Inv, Hopeful, Fine, FailedForAReason
<1> QED
  BY Invariant, <1>1, PTL
==============================================================================
