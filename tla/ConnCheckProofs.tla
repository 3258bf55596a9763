---------------------------- MODULE ConnCheckProofs ----------------------------
(***************************************************************************)
(* Proofs about module ConnCheck, for any addresses, networks and losses:  *)
(* what an agent selects has been tried, and when no datagram is lost no   *)
(* agent gives up a component that it could have reached.                  *)
(*                                                                         *)
(* A handler is a chain of operators from an agent's record to its record, *)
(* so the proof is about them: each keeps the agent's pairs sound, only    *)
(* adds to its check list, lets no pair fail but those it may, and asks    *)
(* for what it puts in progress.  The other half is what a datagram on its *)
(* way stands for: a pair of the agent that asked, over which the request  *)
(* came to the peer; and that the check over a pair that will be answered  *)
(* is on its way, so its timer does not give it up.                        *)
(***************************************************************************)
EXTENDS ConnCheck, FiniteSetTheorems, SequenceTheorems, WellFoundedInduction, TLAPS

\* Datagrams pass both ways between a local address and a remote one.
Works(o, l, r) ==
  <<SocketAt[l], r>> \in o /\ <<SocketAt[r], Seen[SocketAt[l]]>> \in o

\* What is kept about an agent: its valid pairs have been tried, and a component's selected
\* pair is as good as those that are nominated, the pairs J excepted.
Kept(o, a, J) ==
  /\ \A i \in DOMAIN a.list :
       /\ a.list[i].r \in DOMAIN a.remote
       /\ Valid(a.list[i]) =>
            /\ Works(o, a.list[i].l, a.list[i].r)
            /\ a.list[i].nom /\ i \notin J =>
                 a.list[i].prio <= a.selected[Component[a.list[i].l]].prio
  /\ \A c \in Components :
       /\ a.state[c] = "READY" => a.selected[c].prio > 0
       /\ a.selected[c].prio > 0 =>
            /\ a.selected[c].l \in Addresses /\ a.selected[c].r \in Addresses
            /\ Works(o, a.selected[c].l, a.selected[c].r)

\* A request is one over a pair of the list.
Asks(a, m) ==
  /\ m.kind = "request" /\ m.pair \in DOMAIN a.list
  /\ m.from = SocketAt[a.list[m.pair].l] /\ m.to = a.list[m.pair].r

\* The agent has become b: its list has only grown, and it asks over pairs of it.
Grown(a, b) ==
  /\ Len(a.list) <= Len(b.list)
  /\ \A i \in DOMAIN a.list : b.list[i].l = a.list[i].l /\ b.list[i].r = a.list[i].r
  /\ DOMAIN a.remote \subseteq DOMAIN b.remote
  /\ \A m \in b.out \ a.out : Asks(b, m)

\* The pair p has become q, which is not valid.
Drops(x, p, q) == q \in Pair(x) /\ q.l = p.l /\ q.r = p.r /\ ~Valid(q)

\* Such a pair is answered from the address that was asked.
Promising(o, l, r) == Works(o, l, r) /\ Seen[SocketAt[r]] = r

\* A pair of these addresses is on the list and has not failed.
Has(a, l, r) ==
  \E i \in DOMAIN a.list :
    a.list[i].l = l /\ a.list[i].r = r /\ a.list[i].state # "FAILED"

\* What is kept about an agent's check list: what it retransmits, of which component a pair
\* is, and that the peer's addresses of a component are known only when it was told of some.
Tidy(x, a) ==
  /\ \A i \in DOMAIN a.list :
       /\ Component[a.list[i].l] = Component[a.list[i].r]
       /\ a.list[i].state = "IN_PROGRESS" => a.list[i].tx > 0
  /\ \A i \in a.again : i \in DOMAIN a.list /\ Request(a, i) \in a.out
  /\ \A r \in DOMAIN a.remote : Component[r] <= a.told
  /\ \A c \in Components :
       /\ Range(Gathered[x][c]) \subseteq Range(a.local[c])
       /\ \A l \in Range(a.local[c]) : Component[l] = c
       /\ \A k \in Range(a.stored[c]) : Component[k.from] = c /\ Component[k.socket] = c

\* All pairs of the component have failed once those of E have.
Down(E, a, c) ==
  \A i \in DOMAIN a.list : Of(c, a.list[i]) => i \in E \/ a.list[i].state = "FAILED"

\* The agent a has become b: only the pairs E may have failed, what is in progress now and
\* was not has been asked for, and the call is ended only over a component that is down.
Tried(E, a, b) ==
  /\ b.ctrl = a.ctrl /\ b.told = a.told /\ a.out \subseteq b.out
  /\ \A i \in DOMAIN b.list :
       /\ b.list[i].state = "FAILED" =>
            i \in E \/ (i \in DOMAIN a.list /\ a.list[i].state = "FAILED")
       /\ b.list[i].state = "IN_PROGRESS" =>
            Request(b, i) \in b.out \/ (i \in DOMAIN a.list /\ a.list[i].state = "IN_PROGRESS")
  /\ b.ended => a.ended \/ \E c \in Components : c <= b.told /\ Down(E, a, c)

\* What may become of agent z of x while a handler runs, when the pairs E may fail.
After(o, x, z, J, E) ==
  {b \in Agent(x) : Kept(o, b, J) /\ Grown(z, b) /\ Tidy(x, b) /\ Tried(E, z, b)}

\* b has the pairs of a, and none of them has become valid.
Alike(a, b) ==
  /\ Len(b.list) = Len(a.list)
  /\ \A i \in DOMAIN a.list :
       /\ b.list[i].l = a.list[i].l /\ b.list[i].r = a.list[i].r
       /\ Valid(b.list[i]) =>
            /\ Valid(a.list[i]) /\ b.list[i].prio = a.list[i].prio
            /\ b.list[i].nom => a.list[i].nom
  /\ b.selected = a.selected
  /\ \A c \in Components :
       b.state[c] = "READY" => a.state[c] = "READY" \/ a.selected[c].prio > 0
  /\ DOMAIN a.remote \subseteq DOMAIN b.remote
  /\ \A m \in b.out \ a.out : Asks(b, m)

\* The agents agree on all but their pairs and what became of their components.
Agree(a, b) ==
  /\ b.ctrl = a.ctrl /\ b.told = a.told /\ b.local = a.local /\ b.remote = a.remote
  /\ b.stored = a.stored /\ b.out = a.out /\ b.again = a.again

\* Pair i has been p and is q: it has not failed unless it may, and no check has begun.
Calm(E, i, p, q) ==
  /\ q.state = "FAILED" => i \in E \/ p.state = "FAILED"
  /\ q.state = "IN_PROGRESS" => p.state = "IN_PROGRESS" /\ q.tx = p.tx

-----------------------------------------------------------------------------
(* Numbers and addresses                                                   *)

\* Priorities of candidates are positive, whatever their type and their component.
LEMMA Ranks ==
  /\ \A type \in DOMAIN TypePreference, pref \in Nat, c \in Components :
       Rank(type, pref, c) \in Nat \ {0}
  /\ \A l \in Addresses : LocalRank(l) \in Nat \ {0}
<1>1. ASSUME NEW type \in DOMAIN TypePreference, NEW pref \in Nat, NEW c \in Components
      PROVE  Rank(type, pref, c) \in Nat \ {0}
  <2>1. TypePreference[type] \in 10..12
    BY DEF TypePreference
  <2>2. 2 - c \in 0..1
    BY CheckAssumption DEF Components
  <2> QED
    BY <2>1, <2>2 DEF Rank
<1>2. ASSUME NEW l \in Addresses PROVE LocalRank(l) \in Nat \ {0}
  <2>1. Component[l] \in Components
    BY CheckAssumption
  <2>2. "host" \in DOMAIN TypePreference /\ "prflx" \in DOMAIN TypePreference
    BY DEF TypePreference
  <2> QED
    BY <1>1, <2>1, <2>2 DEF LocalRank
<1> QED
  BY <1>1, <1>2

\* A pair's priority is never that of no pair at all.
LEMMA PairPriorities ==
  ASSUME NEW ctrl \in BOOLEAN, NEW l \in Nat \ {0}, NEW r \in Nat
  PROVE  InRole(ctrl, l, r) \in Nat \ {0}
BY DEF InRole, PairPriority, Word

\* A socket's address, and the one others see of it, lead to the socket and to its owner.
LEMMA AddressFacts ==
  /\ \A l \in Addresses :
       Component[l] \in Components /\ SocketAt[l] \in Sockets /\ Seen[l] \in Addresses
  /\ \A s \in Sockets :
       /\ s \in Addresses /\ SocketAt[s] = s /\ SocketAt[Seen[s]] = s
       /\ Owner(s) \in Agents
  /\ \A x \in Agents, c \in Components : Gathered[x][c] \in Seq(Own(x))
<1>1. \A x \in Agents, c \in Components : Gathered[x][c] \in Seq(Addresses)
  BY CheckAssumption
<1>2. ASSUME NEW x \in Agents, NEW c \in Components, NEW s \in Range(Gathered[x][c])
      PROVE  s \in Addresses /\ s \in Sockets /\ Owner(s) = x
  <2>1. s \in Addresses /\ s \in Sockets
    <3>1. PICK i \in DOMAIN Gathered[x][c] : s = Gathered[x][c][i]
      BY DEF Range
    <3>2. s \in Addresses
      BY <1>1, <3>1
    <3> QED
      BY <3>2 DEF Sockets
  <2>2. \A y \in Agents, d \in Components : s \in Range(Gathered[y][d]) => x = y
    BY CheckAssumption
  <2>3. Owner(s) = x
    BY <2>2 DEF Owner
  <2> QED
    BY <2>1, <2>3
<1>3. \A s \in Sockets : \E x \in Agents, c \in Components : s \in Range(Gathered[x][c])
  BY DEF Sockets
<1>4. \A l \in Addresses :
        Component[l] \in Components /\ SocketAt[l] \in Sockets /\ Seen[l] \in Addresses
  BY CheckAssumption
<1>5. \A s \in Sockets :
        /\ s \in Addresses /\ SocketAt[s] = s /\ SocketAt[Seen[s]] = s
        /\ Owner(s) \in Agents
  BY CheckAssumption, <1>2, <1>3
<1>6. ASSUME NEW x \in Agents, NEW c \in Components PROVE Gathered[x][c] \in Seq(Own(x))
  <2>1. \A i \in 1..Len(Gathered[x][c]) : Gathered[x][c][i] \in Own(x)
    BY <1>1, <1>2, <1>5 DEF Range, Own
  <2> QED
    BY <1>1, <2>1
<1> QED
  BY <1>4, <1>5, <1>6

-----------------------------------------------------------------------------
(* First and loops                                                         *)

\* No infinite descent in the natural numbers, as a relation the provers can read.
LEMMA NoDescent == IsWellFoundedOn({p \in Nat \X Nat : p[1] < p[2]}, Nat)
  BY NatLessThanWellFounded DEF OpToRel

\* The least element of a set of natural numbers.
LEMMA Least ==
  ASSUME NEW T \in SUBSET Nat, T # {}
  PROVE  \E x \in T : \A y \in T : x <= y
<1> DEFINE R == {p \in Nat \X Nat : p[1] < p[2]}
<1>1. \E x \in T : \A y \in T : ~(<<y, x>> \in R)
  <2>1. IsWellFoundedOn(R, Nat)
    BY NoDescent
  <2> HIDE DEF R
  <2> QED
    BY <2>1, WFMin
<1>2. PICK x \in T : \A y \in T : ~(<<y, x>> \in R)
  BY <1>1
<1>3. ASSUME NEW y \in T PROVE x <= y
  <2>1. x \in Nat /\ y \in Nat /\ ~(<<y, x>> \in R)
    BY <1>2
  <2>2. ~(y < x)
    BY <2>1
  <2> QED
    BY <2>1, <2>2
<1> QED
  BY <1>3

\* Induction over the numbers in a set: the library has it for an operator, which no prover
\* here can instantiate.
LEMMA SetInduction ==
  ASSUME NEW T \in SUBSET Nat, 0 \in T, \A n \in T : n + 1 \in T
  PROVE  T = Nat
<1> SUFFICES ASSUME Nat \ T # {} PROVE FALSE
  OBVIOUS
<1>1. PICK x \in Nat \ T : \A y \in Nat \ T : x <= y
  BY Least
<1>2. x # 0 /\ x - 1 \in Nat
  BY <1>1
<1>3. x - 1 \in T
  BY <1>1, <1>2
<1> QED
  BY <1>1, <1>2, <1>3

\* What is repeated n times is defined.
Iterates(S, a, N, step) ==
  \E f \in [0..N -> S] : f[0] = a /\ \A n \in 1..N : f[n] = step[n][f[n - 1]]

\* By induction over N: the function exists up to each number.
LEMMA Iteration ==
  ASSUME NEW S, NEW a \in S, NEW N \in Nat, NEW step \in [1..N -> [S -> S]]
  PROVE  Iterates(S, a, N, step)
<1> DEFINE Is(f, m) == f[0] = a /\ \A n \in 1..m : f[n] = step[n][f[n - 1]]
           T == {m \in Nat : m <= N => \E f \in [0..m -> S] : Is(f, m)}
<1>1. 0 \in T
  <2>1. [n \in 0..0 |-> a] \in [0..0 -> S] /\ Is([n \in 0..0 |-> a], 0)
    OBVIOUS
  <2> QED
    BY <2>1
<1>2. ASSUME NEW m \in T PROVE m + 1 \in T
  <2> SUFFICES ASSUME m + 1 <= N PROVE \E f \in [0..m+1 -> S] : Is(f, m + 1)
    OBVIOUS
  <2>1. PICK g \in [0..m -> S] : Is(g, m)
    BY <1>2
  <2>2. step[m + 1] \in [S -> S] /\ g[m] \in S
    BY <2>1
  <2> DEFINE x == step[m + 1][g[m]]
             h == [n \in 0..m+1 |-> IF n = m + 1 THEN x ELSE g[n]]
  <2>3. x \in S
    BY <2>2
  <2> HIDE DEF x
  <2>4. h \in [0..m+1 -> S] /\ h[m + 1] = x /\ h[0] = a /\ \A n \in 0..m : h[n] = g[n]
    BY <2>1, <2>3
  <2> HIDE DEF h
  <2>5. ASSUME NEW n \in 1..m+1 PROVE h[n] = step[n][h[n - 1]]
    <3>1. CASE n = m + 1
      BY <2>4, <3>1 DEF x
    <3>2. CASE n # m + 1
      BY <2>1, <2>4, <3>2
    <3> QED
      BY <3>1, <3>2
  <2> QED
    BY <2>4, <2>5
<1>3. T = Nat
  <2> HIDE DEF T
  <2>1. T \in SUBSET Nat
    BY DEF T
  <2> QED
    BY <1>1, <1>2, <2>1, SetInduction
<1> QED
  BY <1>3 DEF Iterates

\* What a loop keeps at every turn it keeps.
LEMMA Repeated ==
  ASSUME NEW S, NEW N \in Nat, NEW f, f[0] \in S,
         \A n \in 1..N : f[n - 1] \in S => f[n] \in S
  PROVE  f[N] \in S
<1> DEFINE T == {n \in Nat : n <= N => f[n] \in S}
<1>1. 0 \in T
  OBVIOUS
<1>2. ASSUME NEW n \in T PROVE n + 1 \in T
  <2>1. n + 1 <= N => f[n + 1] \in S
    <3> SUFFICES ASSUME n + 1 <= N PROVE f[n + 1] \in S
      OBVIOUS
    <3>1. n + 1 \in 1..N /\ (n + 1) - 1 = n /\ f[n] \in S
      BY <1>2
    <3> QED
      BY <3>1
  <2> QED
    BY <2>1
<1>3. T = Nat
  <2> HIDE DEF T
  <2>1. T \in SUBSET Nat
    BY DEF T
  <2> QED
    BY <1>1, <1>2, <2>1, SetInduction
<1> QED
  BY <1>3

\* The first pair of a set of pairs is one of them.
LEMMA FirstIn ==
  ASSUME NEW T \in SUBSET Nat, T # {}
  PROVE  First(T) \in T
BY Least DEF First

-----------------------------------------------------------------------------
(* One pair, one component                                                 *)

\* A check list that has grown asks over the same pairs.
LEMMA SameRequest ==
  ASSUME NEW a, NEW b, b.ctrl = a.ctrl, NEW i, b.list[i].l = a.list[i].l,
         b.list[i].r = a.list[i].r
  PROVE  Request(b, i) = Request(a, i)
BY DEF Request

\* What has been tried in two steps.
LEMMA TriedAgain ==
  ASSUME NEW x, NEW E, NEW z \in Agent(x), NEW a \in Agent(x), NEW b \in Agent(x),
         Grown(z, a), Len(a.list) <= Len(b.list),
         \A i \in DOMAIN a.list : b.list[i].l = a.list[i].l /\ b.list[i].r = a.list[i].r,
         Tried(E, z, a), Tried(E, a, b)
  PROVE  Tried(E, z, b)
<1>1. a.list \in Seq(Pair(x)) /\ b.list \in Seq(Pair(x)) /\ z.list \in Seq(Pair(x))
  BY DEF Agent
<1>2. /\ \A i \in DOMAIN z.list : i \in DOMAIN a.list /\ a.list[i].l = z.list[i].l
      /\ \A i \in DOMAIN a.list : i \in DOMAIN b.list
  BY <1>1 DEF Grown
<1>3. b.ctrl = z.ctrl /\ b.told = z.told /\ z.out \subseteq b.out
      /\ b.ctrl = a.ctrl /\ b.told = a.told /\ a.out \subseteq b.out
  BY DEF Tried
<1>4. ASSUME NEW i \in DOMAIN b.list, b.list[i].state = "FAILED"
      PROVE  i \in E \/ (i \in DOMAIN z.list /\ z.list[i].state = "FAILED")
  BY <1>4 DEF Tried
<1>5. ASSUME NEW i \in DOMAIN b.list, b.list[i].state = "IN_PROGRESS"
      PROVE  \/ Request(b, i) \in b.out
             \/ i \in DOMAIN z.list /\ z.list[i].state = "IN_PROGRESS"
  <2>1. CASE i \in DOMAIN a.list /\ a.list[i].state = "IN_PROGRESS"
    <3>1. Request(b, i) = Request(a, i)
      BY <1>3, <2>1, SameRequest
    <3> QED
      BY <1>3, <2>1, <3>1 DEF Tried
  <2> QED
    BY <1>5, <2>1 DEF Tried
<1>6. ASSUME NEW c, Down(E, a, c) PROVE Down(E, z, c)
  <2> SUFFICES ASSUME NEW i \in DOMAIN z.list, Of(c, z.list[i]), i \notin E
               PROVE  z.list[i].state = "FAILED"
    BY DEF Down
  <2>1. i \in DOMAIN a.list /\ Of(c, a.list[i])
    BY <1>2 DEF Of
  <2>2. a.list[i].state = "FAILED"
    BY <1>6, <2>1 DEF Down
  <2> QED
    BY <2>1, <2>2 DEF Tried
<1>7. ASSUME b.ended, ~z.ended PROVE \E c \in Components : c <= b.told /\ Down(E, z, c)
  <2>1. CASE a.ended
    BY <1>3, <1>7, <2>1 DEF Tried
  <2>2. CASE ~a.ended
    <3>1. PICK c \in Components : c <= b.told /\ Down(E, a, c)
      BY <1>7, <2>2 DEF Tried
    <3> QED
      BY <1>6, <3>1
  <2> QED
    BY <2>1, <2>2
<1> QED
  BY <1>3, <1>4, <1>5, <1>7 DEF Tried

\* What touches neither the pairs nor what was learnt leaves the check list tidy.
LEMMA Untouched ==
  ASSUME NEW x, NEW E, NEW a, NEW b, Tidy(x, a), Agree(a, b), b.list = a.list,
         b.ended => a.ended \/ \E c \in Components : c <= a.told /\ Down(E, a, c)
  PROVE  Tidy(x, b) /\ Tried(E, a, b)
<1>1. \A i : Request(b, i) = Request(a, i)
  BY SameRequest DEF Agree
<1>2. Tidy(x, b)
  BY <1>1 DEF Tidy, Agree
<1> QED
  BY <1>2 DEF Tried, Agree

\* Pairs that change calmly leave the check list tidy.
LEMMA CalmKeeps ==
  ASSUME NEW x, NEW E, NEW a, NEW b, Tidy(x, a), Agree(a, b), b.ended = a.ended,
         DOMAIN b.list = DOMAIN a.list,
         \A i \in DOMAIN a.list :
           /\ b.list[i].l = a.list[i].l /\ b.list[i].r = a.list[i].r
           /\ Calm(E, i, a.list[i], b.list[i])
  PROVE  Tidy(x, b) /\ Tried(E, a, b)
<1>1. \A i \in DOMAIN a.list : Request(b, i) = Request(a, i)
  BY SameRequest DEF Agree
<1>2. \A i \in DOMAIN b.list :
        /\ Component[b.list[i].l] = Component[b.list[i].r]
        /\ b.list[i].state = "IN_PROGRESS" => b.list[i].tx > 0
  BY DEF Tidy, Calm
<1>3. Tidy(x, b)
  BY <1>1, <1>2 DEF Tidy, Agree
<1>4. Tried(E, a, b)
  BY DEF Tried, Agree, Calm
<1> QED
  BY <1>3, <1>4

\* What leaves no pair valid that was not, keeps everything.
LEMMA AlikeKeeps ==
  ASSUME NEW o, NEW E, NEW x, NEW z \in Agent(x), NEW J, NEW a \in After(o, x, z, J, E),
         NEW b \in Agent(x), Alike(a, b), Tidy(x, b), Tried(E, a, b)
  PROVE  b \in After(o, x, z, J, E)
<1>1. /\ Kept(o, a, J) /\ Grown(z, a)
      /\ a.list \in Seq(Pair(x)) /\ b.list \in Seq(Pair(x)) /\ z.list \in Seq(Pair(x))
      /\ Len(b.list) = Len(a.list)
  BY DEF After, Alike, Agent
<1> DOMAIN b.list = DOMAIN a.list
  BY <1>1
<1>2. Kept(o, b, J)
  <2>1. \A i \in DOMAIN b.list :
          /\ b.list[i].r \in DOMAIN b.remote
          /\ Valid(b.list[i]) =>
               /\ Works(o, b.list[i].l, b.list[i].r)
               /\ b.list[i].nom /\ i \notin J =>
                    b.list[i].prio <= b.selected[Component[b.list[i].l]].prio
    BY <1>1 DEF Kept, Alike
  <2>2. \A c \in Components : b.state[c] = "READY" => b.selected[c].prio > 0
    BY <1>1 DEF Kept, Alike
  <2> QED
    BY <1>1, <2>1, <2>2 DEF Kept, Alike
<1>3. Grown(z, b)
  <2>1. ASSUME NEW m \in b.out \ z.out PROVE Asks(b, m)
    <3>1. CASE m \in a.out
      BY <1>1, <2>1, <3>1 DEF Grown, Alike, Asks
    <3> QED
      BY <2>1, <3>1 DEF Alike
  <2>2. \A i \in DOMAIN z.list : b.list[i].l = z.list[i].l /\ b.list[i].r = z.list[i].r
    BY <1>1 DEF Grown, Alike
  <2> QED
    BY <1>1, <2>1, <2>2 DEF Grown, Alike
<1>4. Tried(E, z, b)
  BY <1>1, TriedAgain DEF After, Alike
<1> QED
  BY <1>2, <1>3, <1>4 DEF After

\* What a handler does to one pair that ends no check well leaves it invalid.
LEMMA PairFields ==
  ASSUME NEW x, NEW p \in Pair(x)
  PROVE  /\ Drops(x, p, [p EXCEPT !.state = "WAITING"])
         /\ Drops(x, p, [p EXCEPT !.state = "FAILED", !.tx = 0])
         /\ Drops(x, p, [p EXCEPT !.state = "CANCELLED", !.tx = 0])
         /\ \A tx \in Int, nom \in BOOLEAN :
              Drops(x, p, [p EXCEPT !.state = "IN_PROGRESS", !.tx = tx, !.nom = nom])
<1>1. Drops(x, p, [p EXCEPT !.state = "WAITING"])
  BY DEF Pair, Drops, Valid
<1>2. ASSUME NEW q \in Pair(x), q.l = p.l, q.r = p.r, ~Valid(q), NEW tx \in Int
      PROVE  Drops(x, p, [q EXCEPT !.tx = tx])
  BY <1>2 DEF Pair, Drops, Valid
<1>3. Drops(x, p, [p EXCEPT !.state = "FAILED", !.tx = 0])
  <2> DEFINE q == [p EXCEPT !.state = "FAILED"]
             tx == 0
  <2>1. q \in Pair(x) /\ q.l = p.l /\ q.r = p.r /\ ~Valid(q) /\ tx \in Int
    BY DEF Pair, Valid
  <2> HIDE DEF q, tx
  <2>2. Drops(x, p, [q EXCEPT !.tx = tx])
    BY <1>2, <2>1
  <2> QED
    BY <2>2 DEF q, tx
<1>4. Drops(x, p, [p EXCEPT !.state = "CANCELLED", !.tx = 0])
  <2> DEFINE q == [p EXCEPT !.state = "CANCELLED"]
             tx == 0
  <2>1. q \in Pair(x) /\ q.l = p.l /\ q.r = p.r /\ ~Valid(q) /\ tx \in Int
    BY DEF Pair, Valid
  <2> HIDE DEF q, tx
  <2>2. Drops(x, p, [q EXCEPT !.tx = tx])
    BY <1>2, <2>1
  <2> QED
    BY <2>2 DEF q, tx
<1>5. ASSUME NEW tx \in Int, NEW nom \in BOOLEAN
      PROVE  Drops(x, p, [p EXCEPT !.state = "IN_PROGRESS", !.tx = tx, !.nom = nom])
  <2> DEFINE q == [p EXCEPT !.state = "IN_PROGRESS"]
             t == [q EXCEPT !.tx = tx]
             n == [t EXCEPT !.nom = nom]
  <2>1. q \in Pair(x) /\ q.l = p.l /\ q.r = p.r /\ ~Valid(q)
    BY DEF Pair, Valid
  <2> HIDE DEF q
  <2>2. Drops(x, p, t)
    BY <1>2, <2>1
  <2> HIDE DEF t
  <2>3. Drops(x, p, n)
    BY <2>2 DEF Pair, Drops, Valid
  <2> QED
    BY <2>3 DEF n, t, q
<1> QED
  BY <1>1, <1>3, <1>4, <1>5

\* What these changes leave of a check: it waits, has failed, is cancelled or is begun.
LEMMA PairStates ==
  ASSUME NEW x, NEW p \in Pair(x)
  PROVE  /\ [p EXCEPT !.state = "WAITING"].state = "WAITING"
         /\ [p EXCEPT !.state = "FAILED", !.tx = 0].state = "FAILED"
         /\ [p EXCEPT !.state = "CANCELLED", !.tx = 0].state = "CANCELLED"
         /\ \A tx, nom :
              LET q == [p EXCEPT !.state = "IN_PROGRESS", !.tx = tx, !.nom = nom] IN
              q.state = "IN_PROGRESS" /\ q.tx = tx
<1>1. [p EXCEPT !.state = "WAITING"].state = "WAITING"
  BY DEF Pair
<1>2. [p EXCEPT !.state = "FAILED", !.tx = 0].state = "FAILED"
  BY DEF Pair
<1>3. [p EXCEPT !.state = "CANCELLED", !.tx = 0].state = "CANCELLED"
  BY DEF Pair
<1>4. ASSUME NEW tx, NEW nom
      PROVE  LET q == [p EXCEPT !.state = "IN_PROGRESS", !.tx = tx, !.nom = nom] IN
             q.state = "IN_PROGRESS" /\ q.tx = tx
  BY DEF Pair
<1> QED
  BY <1>1, <1>2, <1>3, <1>4

\* A pair of the list may change when that does not make it valid.
LEMMA PairChanges ==
  ASSUME NEW x, NEW a \in Agent(x), NEW i \in DOMAIN a.list, NEW p \in Pair(x)
  PROVE  /\ [a.list EXCEPT ![i] = p] \in Seq(Pair(x))
         /\ Len([a.list EXCEPT ![i] = p]) = Len(a.list)
         /\ a.list[i] \in Pair(x)
<1>1. a.list \in Seq(Pair(x))
  BY DEF Agent
<1> QED
  BY <1>1

\* The request that conn_check_send builds asks over its pair.
LEMMA RequestAsks ==
  ASSUME NEW x, NEW a \in Agent(x), NEW i \in DOMAIN a.list
  PROVE  Request(a, i) \in Datagram /\ Asks(a, Request(a, i))
<1>1. a.list \in Seq(Pair(x)) /\ a.ctrl \in BOOLEAN
  BY DEF Agent
<1> a.list[i] \in Pair(x) /\ i \in Nat
  BY <1>1
<1>2. a.list[i].l \in Addresses /\ a.list[i].r \in Addresses
  BY DEF Pair, Own
<1>3. SocketAt[a.list[i].l] \in Addresses
  BY <1>2, AddressFacts
<1>4. Request(a, i) \in Datagram
  BY <1>1, <1>2, <1>3 DEF Request, Datagram
<1>5. Asks(a, Request(a, i))
  BY DEF Request, Asks
<1> QED
  BY <1>4, <1>5

\* priv_conn_check_initiate: a pair is tried, and is not valid meanwhile.
LEMMA InitiateKeeps ==
  ASSUME NEW o, NEW E, NEW x, NEW z \in Agent(x), NEW J, NEW a \in After(o, x, z, J, E),
         NEW i \in DOMAIN a.list
  PROVE  Initiate(a, i) \in After(o, x, z, J, E)
<1> DEFINE p == [a.list[i] EXCEPT !.state = "IN_PROGRESS", !.tx = Transmissions,
                                  !.nom = a.ctrl \/ a.list[i].nom]
           list == [a.list EXCEPT ![i] = p]
           b == [a EXCEPT !.list = list, !.out = a.out \cup {Request(a, i)},
                          !.again = a.again \cup {i}]
<1>1. a \in Agent(x) /\ a.list \in Seq(Pair(x)) /\ a.ctrl \in BOOLEAN
  BY DEF After, Agent
<1>2. Drops(x, a.list[i], p) /\ p.state = "IN_PROGRESS" /\ p.tx > 0
  <2>1. a.list[i] \in Pair(x)
    BY <1>1
  <2>2. Transmissions \in Int /\ Transmissions > 0 /\ (a.ctrl \/ a.list[i].nom) \in BOOLEAN
    BY CheckAssumption
  <2> DEFINE q == a.list[i]
             nom == a.ctrl \/ q.nom
  <2>3. q \in Pair(x) /\ nom \in BOOLEAN
    BY <2>1, <2>2
  <2>4. p = [q EXCEPT !.state = "IN_PROGRESS", !.tx = Transmissions, !.nom = nom]
    OBVIOUS
  <2> HIDE DEF p, q, nom
  <2>5. Drops(x, q, p)
    BY <2>2, <2>3, <2>4, PairFields
  <2>6. p.state = "IN_PROGRESS" /\ p.tx = Transmissions
    BY <2>3, <2>4, PairStates
  <2> QED
    BY <2>2, <2>5, <2>6 DEF q
<1> HIDE DEF p
<1>3. /\ list \in Seq(Pair(x)) /\ Len(list) = Len(a.list)
      /\ \A j \in DOMAIN a.list : list[j] = IF j = i THEN p ELSE a.list[j]
  BY <1>1, <1>2, PairChanges DEF Drops
<1> HIDE DEF list
<1>4. b = Initiate(a, i)
  BY DEF Initiate, list, p
<1>5. Request(a, i) \in Datagram /\ Asks(a, Request(a, i)) /\ i \in Nat
  BY <1>1, RequestAsks
<1>6. b \in Agent(x)
  BY <1>1, <1>3, <1>5 DEF Agent
<1>7. /\ b.list = list /\ b.out = a.out \cup {Request(a, i)} /\ b.selected = a.selected
      /\ b.state = a.state /\ b.remote = a.remote /\ b.ctrl = a.ctrl /\ b.told = a.told
      /\ b.local = a.local /\ b.stored = a.stored /\ b.again = a.again \cup {i}
      /\ b.ended = a.ended
  BY <1>1 DEF Agent
<1> HIDE DEF b
<1>8. Asks(b, Request(a, i))
  BY <1>1, <1>2, <1>3, <1>5, <1>7 DEF Asks, Drops
<1>9. Alike(a, b)
  BY <1>1, <1>2, <1>3, <1>7, <1>8 DEF Alike, Drops
<1>10. /\ DOMAIN list = DOMAIN a.list
       /\ \A j \in DOMAIN a.list : list[j].l = a.list[j].l /\ list[j].r = a.list[j].r
       /\ \A j \in DOMAIN a.list : Request(b, j) = Request(a, j)
  <2>1. DOMAIN list = DOMAIN a.list
    BY <1>1, <1>3
  <2>2. \A j \in DOMAIN a.list : list[j].l = a.list[j].l /\ list[j].r = a.list[j].r
    BY <1>2, <1>3 DEF Drops
  <2> QED
    BY <1>7, <2>1, <2>2, SameRequest
<1>11. Tidy(x, a)
  BY DEF After
<1>12. Tidy(x, b)
  <2>1. \A j \in DOMAIN list :
          /\ Component[list[j].l] = Component[list[j].r]
          /\ list[j].state = "IN_PROGRESS" => list[j].tx > 0
    BY <1>2, <1>3, <1>10, <1>11 DEF Tidy
  <2>2. \A j \in b.again : j \in DOMAIN list /\ Request(b, j) \in b.out
    BY <1>7, <1>10, <1>11 DEF Tidy
  <2> QED
    BY <1>7, <1>11, <2>1, <2>2 DEF Tidy
<1>13. Tried(E, a, b)
  <2>1. ASSUME NEW j \in DOMAIN list
        PROVE  /\ list[j].state = "FAILED" => a.list[j].state = "FAILED"
               /\ list[j].state = "IN_PROGRESS" =>
                    Request(b, j) \in b.out \/ a.list[j].state = "IN_PROGRESS"
    <3>1. CASE j = i
      BY <1>2, <1>3, <1>7, <1>10, <3>1
    <3>2. CASE j # i
      BY <1>3, <1>10, <3>2
    <3> QED
      BY <3>1, <3>2
  <2> QED
    BY <1>7, <1>10, <2>1 DEF Tried
<1> QED
  BY <1>4, <1>6, <1>9, <1>12, <1>13, AlikeKeeps

\* A function on 1..n is a sequence of that length.
LEMMA Tuples ==
  ASSUME NEW S, NEW n \in Nat, NEW f \in [1..n -> S]
  PROVE  f \in Seq(S) /\ Len(f) = n
OBVIOUS

\* A new list of pairs that have not become valid.
LEMMA ListChanges ==
  ASSUME NEW o, NEW E, NEW x, NEW z \in Agent(x), NEW J, NEW a \in After(o, x, z, J, E),
         NEW list \in Seq(Pair(x)), Len(list) = Len(a.list),
         \A i \in DOMAIN a.list : list[i] = a.list[i] \/ Drops(x, a.list[i], list[i]),
         \A i \in DOMAIN a.list : Calm(E, i, a.list[i], list[i])
  PROVE  [a EXCEPT !.list = list] \in After(o, x, z, J, E)
<1> DEFINE b == [a EXCEPT !.list = list]
<1>1. a \in Agent(x)
  BY DEF After
<1>2. b \in Agent(x) /\ b.list = list /\ b.out = a.out /\ b.selected = a.selected
      /\ b.state = a.state /\ b.remote = a.remote /\ b.ended = a.ended /\ Agree(a, b)
  BY <1>1 DEF Agent, Agree
<1> HIDE DEF b
<1>3. Alike(a, b)
  BY <1>2 DEF Alike, Drops
<1>4. \A i \in DOMAIN a.list : list[i].l = a.list[i].l /\ list[i].r = a.list[i].r
  BY DEF Drops
<1>5. DOMAIN list = DOMAIN a.list
  <2>1. a.list \in Seq(Pair(x))
    BY <1>1 DEF Agent
  <2> QED
    BY <2>1
<1>6. Tidy(x, b) /\ Tried(E, a, b)
  BY <1>2, <1>4, <1>5, CalmKeeps DEF After
<1> QED
  BY <1>2, <1>3, <1>6, AlikeKeeps DEF b

\* priv_conn_check_unfreeze_next and _related: frozen pairs only begin to wait.
LEMMA UnfreezeKeeps ==
  ASSUME NEW o, NEW E, NEW x, NEW z \in Agent(x), NEW J, NEW a \in After(o, x, z, J, E)
  PROVE  /\ UnfreezeNext(a) \in After(o, x, z, J, E)
         /\ \A ok : UnfreezeRelated(a, ok) \in After(o, x, z, J, E)
<1>1. a \in Agent(x) /\ a.list \in Seq(Pair(x))
  BY DEF After, Agent
<1>2. \A p \in Pair(x) : LET q == [p EXCEPT !.state = "WAITING"] IN
                          Drops(x, p, q) /\ \A i : Calm(E, i, p, q)
  BY PairFields, PairStates DEF Calm
<1>3. ASSUME NEW i PROVE [a EXCEPT !.list[i].state = "WAITING"] \in After(o, x, z, J, E)
  <2> DEFINE list == [a.list EXCEPT ![i] = [a.list[i] EXCEPT !.state = "WAITING"]]
  <2>1. list \in Seq(Pair(x)) /\ Len(list) = Len(a.list)
    <3>1. CASE i \in DOMAIN a.list
      BY <1>1, <1>2, <3>1, PairChanges DEF Drops
    <3>2. CASE i \notin DOMAIN a.list
      <4>1. list = a.list
        BY <1>1, <3>2
      <4> QED
        BY <1>1, <4>1
    <3> QED
      BY <3>1, <3>2
  <2>2. \A j \in DOMAIN a.list :
          list[j] = IF j = i THEN [a.list[i] EXCEPT !.state = "WAITING"] ELSE a.list[j]
    BY <1>1
  <2>3. [a EXCEPT !.list = list] = [a EXCEPT !.list[i].state = "WAITING"]
    OBVIOUS
  <2> HIDE DEF list
  <2> \A j \in DOMAIN a.list : a.list[j] \in Pair(x)
    BY <1>1
  <2>4. \A j \in DOMAIN a.list :
          /\ list[j] = a.list[j] \/ Drops(x, a.list[j], list[j])
          /\ Calm(E, j, a.list[j], list[j])
    <3> SUFFICES ASSUME NEW j \in DOMAIN a.list
                 PROVE  /\ list[j] = a.list[j] \/ Drops(x, a.list[j], list[j])
                        /\ Calm(E, j, a.list[j], list[j])
      OBVIOUS
    <3>1. CASE j = i
      <4> DEFINE p == a.list[j]
                 q == [p EXCEPT !.state = "WAITING"]
      <4>1. list[j] = q
        BY <2>2, <3>1
      <4>2. p \in Pair(x)
        OBVIOUS
      <4> HIDE DEF p
      <4>3. Drops(x, p, q) /\ Calm(E, j, p, q)
        BY <1>2, <4>2
      <4> QED
        BY <4>1, <4>3 DEF p
    <3>2. CASE j # i
      <4>1. list[j] = a.list[j]
        BY <2>2, <3>2
      <4> QED
        BY <4>1 DEF Calm
    <3> QED
      BY <3>1, <3>2
  <2> QED
    BY <2>1, <2>3, <2>4, ListChanges
<1>4. UnfreezeNext(a) \in After(o, x, z, J, E)
  BY <1>3 DEF UnfreezeNext
<1>5. ASSUME NEW ok PROVE UnfreezeRelated(a, ok) \in After(o, x, z, J, E)
  <2> DEFINE related == {i \in Frozen(a) : Foundation(a.list[i]) = Foundation(a.list[ok])}
             list == [i \in DOMAIN a.list |->
               IF i \in related THEN [a.list[i] EXCEPT !.state = "WAITING"] ELSE a.list[i]]
  <2>1. UnfreezeRelated(a, ok) = IF related = {} THEN UnfreezeNext(a)
                                 ELSE [a EXCEPT !.list = list]
    BY DEF UnfreezeRelated
  <2> HIDE DEF related
  <2> \A j \in DOMAIN a.list : a.list[j] \in Pair(x)
    BY <1>1
  <2>2. \A j \in DOMAIN a.list :
          /\ list[j] = a.list[j] \/ Drops(x, a.list[j], list[j])
          /\ Calm(E, j, a.list[j], list[j])
    BY <1>2 DEF Calm
  <2>3. list \in Seq(Pair(x)) /\ Len(list) = Len(a.list)
    <3>1. list \in [DOMAIN a.list -> Pair(x)]
      BY <1>2 DEF Drops
    <3> QED
      BY <1>1, <3>1, Tuples, DOMAIN a.list = 1..Len(a.list)
  <2> HIDE DEF list
  <2> QED
    BY <1>4, <2>1, <2>2, <2>3, ListChanges
<1> QED
  BY <1>4, <1>5

\* A component that is ready has a selected pair.
LEMMA ChangeStateKeeps ==
  ASSUME NEW o, NEW E, NEW x, NEW z \in Agent(x), NEW J, NEW a \in After(o, x, z, J, E),
         NEW c \in Components,
         NEW state \in {"GATHERING", "CONNECTING", "CONNECTED", "READY", "FAILED"},
         state = "READY" => a.selected[c].prio > 0, state # "FAILED"
  PROVE  ChangeState(a, c, state) \in After(o, x, z, J, E)
<1> DEFINE states == [a.state EXCEPT ![c] = state]
           b == [a EXCEPT !.state = states,
                          !.ended = a.ended \/ (state = "FAILED" /\ a.state[c] # "FAILED")]
<1>1. a \in Agent(x)
  BY DEF After
<1>2. b = ChangeState(a, c, state)
  BY DEF ChangeState
<1>3. /\ states \in [Components -> {"GATHERING", "CONNECTING", "CONNECTED", "READY", "FAILED"}]
      /\ \A d \in Components : states[d] = IF d = c THEN state ELSE a.state[d]
  BY <1>1 DEF Agent
<1> HIDE DEF states
<1>4. a.ended \in BOOLEAN
  BY <1>1 DEF Agent
<1>5. b \in Agent(x)
  BY <1>1, <1>3, <1>4 DEF Agent
<1>6. b.state = states /\ b.list = a.list /\ b.out = a.out /\ b.selected = a.selected
      /\ b.remote = a.remote /\ Agree(a, b) /\ b.ended = a.ended
  BY <1>1, <1>4 DEF Agent, Agree
<1> HIDE DEF b
<1>7. Alike(a, b)
  BY <1>3, <1>6 DEF Alike
<1>8. Tidy(x, b) /\ Tried(E, a, b)
  BY <1>6, Untouched DEF After
<1> QED
  BY <1>2, <1>5, <1>7, <1>8, AlikeKeeps

\* priv_prune_pending_checks: what is cancelled or given up is not valid.
LEMMA PruneKeeps ==
  ASSUME NEW o, NEW E, NEW x, NEW z \in Agent(x), NEW J, NEW a \in After(o, x, z, J, E), NEW c
  PROVE  Prune(a, c) \in After(o, x, z, J, E) /\ Prune(a, c).selected = a.selected
<1> DEFINE nominated == {p \in Range(a.list) : Of(c, p) /\ Valid(p) /\ p.nom}
           Cancelled(p) == Pending(c, p) \/ (Of(c, p) /\ p.state = "IN_PROGRESS"
                                             /\ p.prio < Highest(nominated))
           Change(p) == IF Cancelled(p) THEN [p EXCEPT !.state = "CANCELLED", !.tx = 0] ELSE p
           list == [i \in DOMAIN a.list |-> Change(a.list[i])]
<1>1. a \in Agent(x) /\ a.list \in Seq(Pair(x))
  BY DEF After, Agent
<1>2. Prune(a, c) = [a EXCEPT !.list = list]
  BY DEF Prune
<1> HIDE DEF nominated
<1>3. \A p \in Pair(x) : LET q == [p EXCEPT !.state = "CANCELLED", !.tx = 0] IN
                          Drops(x, p, q) /\ \A i : Calm(E, i, p, q)
  BY PairFields, PairStates DEF Calm
<1> HIDE DEF Cancelled
<1>4. \A p \in Pair(x) : /\ Change(p) \in Pair(x) /\ (Change(p) = p \/ Drops(x, p, Change(p)))
                          /\ \A i : Calm(E, i, p, Change(p))
  BY <1>3 DEF Drops, Calm
<1> HIDE DEF Change
<1> \A i \in DOMAIN a.list : a.list[i] \in Pair(x)
  BY <1>1
<1>5. list \in Seq(Pair(x)) /\ Len(list) = Len(a.list)
  <2>1. list \in [DOMAIN a.list -> Pair(x)]
    BY <1>4
  <2> QED
    BY <1>1, <2>1, Tuples, DOMAIN a.list = 1..Len(a.list)
<1>6. \A i \in DOMAIN a.list :
        /\ list[i] = a.list[i] \/ Drops(x, a.list[i], list[i])
        /\ Calm(E, i, a.list[i], list[i])
  BY <1>4
<1> HIDE DEF list
<1>7. [a EXCEPT !.list = list].selected = a.selected
  BY <1>1 DEF Agent
<1> QED
  BY <1>2, <1>5, <1>6, <1>7, ListChanges

\* A component with a nominated pair that is valid has selected one at least as good.
LEMMA StateForReadyKeeps ==
  ASSUME NEW o, NEW E, NEW x, NEW z \in Agent(x),
         NEW a \in After(o, x, z, {}, E), NEW c \in Components
  PROVE  StateForReady(a, c) \in After(o, x, z, {}, E)
<1> DEFINE b == Prune(a, c)
<1>1. b \in After(o, x, z, {}, E) /\ b.selected = a.selected
  BY PruneKeeps
<1>2. ASSUME NEW p \in Range(a.list), Of(c, p), Valid(p), p.nom PROVE a.selected[c].prio > 0
  <2>1. Kept(o, a, {}) /\ a \in Agent(x)
    BY DEF After
  <2>2. PICK i \in DOMAIN a.list : p = a.list[i]
    BY DEF Range
  <2>3. p.prio <= a.selected[c].prio
    BY <1>2, <2>1, <2>2 DEF Kept, Of
  <2>4. a.list \in Seq(Pair(x)) /\ a.selected[c].prio \in Nat
    BY <2>1 DEF Agent
  <2>5. p \in Pair(x)
    BY <2>2, <2>4
  <2>6. p.prio \in Nat \ {0}
    BY <2>5 DEF Pair
  <2> QED
    BY <2>3, <2>4, <2>6
<1> HIDE DEF b
<1>3. ASSUME a.selected[c].prio > 0 PROVE ChangeState(b, c, "READY") \in After(o, x, z, {}, E)
  BY <1>1, <1>3, ChangeStateKeeps
<1> QED
  BY <1>1, <1>2, <1>3 DEF StateForReady, b

\* A pair that is selected has been tried.
LEMMA UpdateSelectedKeeps ==
  ASSUME NEW o, NEW E, NEW x, NEW z \in Agent(x), NEW i, NEW a \in After(o, x, z, {i}, E),
         i \in DOMAIN a.list, Works(o, a.list[i].l, a.list[i].r)
  PROVE  UpdateSelected(a, i) \in After(o, x, z, {}, E)
<1> DEFINE p == a.list[i]
           c == Component[p.l]
           s == [l |-> p.l, r |-> p.r, prio |-> p.prio]
           selected == [a.selected EXCEPT ![c] = s]
           b == [a EXCEPT !.selected = selected]
<1>1. a \in Agent(x) /\ a.list \in Seq(Pair(x)) /\ Kept(o, a, {i}) /\ Grown(z, a)
  BY DEF After, Agent
<1>2. p \in Pair(x) /\ p.l \in Addresses /\ p.r \in Addresses /\ p.prio \in Nat \ {0}
  <2>1. p \in Pair(x)
    BY <1>1
  <2> QED
    BY <2>1 DEF Pair, Own
<1>3. Works(o, p.l, p.r)
  OBVIOUS
<1>4. c \in Components
  BY <1>2, AddressFacts
<1>5. \A d \in Components : a.selected[d].prio \in Nat
  BY <1>1 DEF Agent
<1>6. CASE p.prio > a.selected[c].prio
  <2>1. UpdateSelected(a, i) = b
    BY <1>6 DEF UpdateSelected
  <2>2. s.l = p.l /\ s.r = p.r /\ s.prio = p.prio
        /\ s \in [l : Addresses \cup {"none"}, r : Addresses \cup {"none"}, prio : Nat]
    BY <1>2
  <2> HIDE DEF s
  <2>3. /\ selected \in [Components -> [l : Addresses \cup {"none"}, r : Addresses \cup {"none"},
                                        prio : Nat]]
        /\ \A d \in Components : selected[d] = IF d = c THEN s ELSE a.selected[d]
    BY <1>1, <1>4, <2>2 DEF Agent
  <2> HIDE DEF selected, c, p
  <2>4. b \in Agent(x)
    BY <1>1, <2>3 DEF Agent
  <2>5. b.selected = selected /\ b.list = a.list /\ b.state = a.state /\ b.out = a.out
        /\ b.remote = a.remote /\ Agree(a, b) /\ b.ended = a.ended
    BY <1>1 DEF Agent, Agree
  <2> HIDE DEF b
  <2>6. Grown(z, b)
    BY <1>1, <2>5 DEF Grown, Asks
  <2>7. ASSUME NEW j \in DOMAIN a.list, Valid(a.list[j]), a.list[j].nom
        PROVE  a.list[j].prio <= selected[Component[a.list[j].l]].prio
    <3>1. a.list[j] \in Pair(x)
      BY <1>1
    <3>2. a.list[j].prio \in Nat /\ Component[a.list[j].l] \in Components
      BY <3>1, AddressFacts DEF Pair, Own
    <3>3. CASE j = i
      BY <1>2, <1>4, <2>2, <2>3, <3>3 DEF c, p
    <3>4. CASE j # i
      <4>1. a.list[j].prio <= a.selected[Component[a.list[j].l]].prio
        BY <1>1, <2>7, <3>4 DEF Kept
      <4> QED
        BY <1>2, <1>4, <1>5, <1>6, <2>2, <2>3, <3>2, <4>1
    <3> QED
      BY <3>3, <3>4
  <2>8. \A d \in Components :
          /\ a.state[d] = "READY" => selected[d].prio > 0
          /\ selected[d].prio > 0 =>
               /\ selected[d].l \in Addresses /\ selected[d].r \in Addresses
               /\ Works(o, selected[d].l, selected[d].r)
    BY <1>1, <1>2, <1>3, <2>2, <2>3 DEF Kept
  <2>9. Kept(o, b, {})
    BY <1>1, <2>5, <2>7, <2>8 DEF Kept
  <2>10. Tidy(x, b) /\ Tried(E, a, b)
    BY <2>5, Untouched DEF After
  <2>11. Tried(E, z, b)
    BY <1>1, <2>4, <2>5, <2>10, TriedAgain DEF After
  <2> QED
    BY <2>1, <2>4, <2>6, <2>9, <2>10, <2>11 DEF After
<1>7. CASE ~(p.prio > a.selected[c].prio)
  <2>1. UpdateSelected(a, i) = a
    BY <1>7 DEF UpdateSelected
  <2>2. p.prio <= a.selected[c].prio
    BY <1>2, <1>4, <1>5, <1>7, SMTT(60)
  <2>3. Kept(o, a, {})
    BY <1>1, <2>2 DEF Kept
  <2> QED
    BY <1>1, <2>1, <2>3 DEF After
<1> QED
  BY <1>6, <1>7

\* One pair has changed, and if it is valid it has been tried.
LEMMA OnePairChanges ==
  ASSUME NEW o, NEW E, NEW x, NEW z \in Agent(x), NEW a \in After(o, x, z, {}, E),
         NEW i \in DOMAIN a.list, NEW p \in Pair(x),
         p.l = a.list[i].l, p.r = a.list[i].r, Valid(p) => Works(o, p.l, p.r),
         Calm(E, i, a.list[i], p)
  PROVE  [a EXCEPT !.list = [a.list EXCEPT ![i] = p]] \in After(o, x, z, {i}, E)
<1> DEFINE list == [a.list EXCEPT ![i] = p]
           b == [a EXCEPT !.list = list]
<1>1. a \in Agent(x) /\ a.list \in Seq(Pair(x)) /\ z.list \in Seq(Pair(x))
  BY DEF After, Agent
<1>2. Kept(o, a, {}) /\ Grown(z, a)
  BY DEF After
<1>3. /\ list \in Seq(Pair(x)) /\ Len(list) = Len(a.list)
      /\ \A j \in DOMAIN a.list : list[j] = IF j = i THEN p ELSE a.list[j]
  BY <1>1, PairChanges
<1> HIDE DEF list
<1>4. b \in Agent(x) /\ b.list = list /\ b.selected = a.selected /\ b.state = a.state
      /\ b.remote = a.remote /\ b.out = a.out /\ Agree(a, b) /\ b.ended = a.ended
  BY <1>1, <1>3 DEF Agent, Agree
<1> HIDE DEF b
<1> DOMAIN list = DOMAIN a.list
  BY <1>1, <1>3
<1>5. Kept(o, b, {i})
  BY <1>2, <1>3, <1>4 DEF Kept
<1>6. Grown(z, b)
  <2>1. \A j \in DOMAIN z.list : j \in DOMAIN a.list
    BY <1>1, <1>2 DEF Grown
  <2>2. \A j \in DOMAIN z.list : b.list[j].l = z.list[j].l /\ b.list[j].r = z.list[j].r
    BY <1>2, <1>3, <1>4, <2>1 DEF Grown
  <2>3. \A m \in b.out \ z.out : Asks(b, m)
    BY <1>2, <1>3, <1>4 DEF Grown, Asks
  <2> QED
    BY <1>2, <1>3, <1>4, <2>2, <2>3 DEF Grown
<1>7. Tidy(x, b) /\ Tried(E, a, b)
  <2>1. \A j \in DOMAIN a.list :
          /\ list[j].l = a.list[j].l /\ list[j].r = a.list[j].r
          /\ Calm(E, j, a.list[j], list[j])
    BY <1>3 DEF Calm
  <2> QED
    BY <1>4, <2>1, CalmKeeps DEF After
<1>8. Tried(E, z, b)
  <2>1. \A j \in DOMAIN a.list : list[j].l = a.list[j].l /\ list[j].r = a.list[j].r
    BY <1>3
  <2> QED
    BY <1>1, <1>2, <1>3, <1>4, <1>7, <2>1, TriedAgain DEF After
<1> QED
  BY <1>4, <1>5, <1>6, <1>7, <1>8 DEF After, b, list

\* A handler that does nothing keeps what is kept about the agent.
LEMMA AfterItself ==
  ASSUME NEW o, NEW E, NEW x, NEW a \in Agent(x), NEW J, Kept(o, a, J), Tidy(x, a)
  PROVE  a \in After(o, x, a, J, E)
<1>1. a.list \in Seq(Pair(x))
  BY DEF Agent
<1>2. Grown(a, a)
  BY <1>1 DEF Grown
<1>3. Tried(E, a, a)
  BY DEF Tried
<1> QED
  BY <1>2, <1>3 DEF After

\* One operator after another: the list has grown in both, and the requests ask still.
LEMMA AfterAnother ==
  ASSUME NEW o, NEW E, NEW x, NEW I, NEW J, NEW z \in Agent(x), NEW a \in After(o, x, z, I, E),
         NEW b \in After(o, x, a, J, E)
  PROVE  b \in After(o, x, z, J, E)
<1>1. a.list \in Seq(Pair(x)) /\ b.list \in Seq(Pair(x)) /\ z.list \in Seq(Pair(x))
  BY DEF After, Agent
<1>2. Grown(z, a) /\ Grown(a, b)
  BY DEF After
<1>3. \A i \in DOMAIN z.list : i \in DOMAIN a.list
  BY <1>1, <1>2 DEF Grown
<1>4. \A i \in DOMAIN z.list : b.list[i].l = z.list[i].l /\ b.list[i].r = z.list[i].r
  BY <1>2, <1>3 DEF Grown
<1>5. ASSUME NEW m \in b.out \ z.out PROVE Asks(b, m)
  <2>1. CASE m \in a.out
    <3>1. Asks(a, m)
      BY <1>2, <1>5, <2>1 DEF Grown
    <3>2. \A i \in DOMAIN a.list : i \in DOMAIN b.list
      BY <1>1, <1>2 DEF Grown
    <3> QED
      BY <1>2, <3>1, <3>2 DEF Grown, Asks
  <2> QED
    BY <1>2, <1>5, <2>1 DEF Grown
<1>6. Len(z.list) <= Len(b.list)
  BY <1>1, <1>2 DEF Grown
<1>7. DOMAIN z.remote \subseteq DOMAIN b.remote
  BY <1>2 DEF Grown
<1>8. Grown(z, b)
  BY <1>4, <1>5, <1>6, <1>7 DEF Grown
<1>9. Tried(E, z, b)
  BY <1>2, TriedAgain DEF After, Grown
<1> QED
  BY <1>8, <1>9 DEF After

\* priv_mark_pair_nominated, one pair: a valid one is selected if it is better.
LEMMA NominateKeeps ==
  ASSUME NEW o, NEW E, NEW x, NEW z \in Agent(x), NEW a \in After(o, x, z, {}, E),
         NEW i \in DOMAIN a.list, NEW c \in Components, NEW r
  PROVE  Nominate(a, i, c, r) \in After(o, x, z, {}, E)
<1> DEFINE p == [a.list[i] EXCEPT !.nom = TRUE]
           list == [a.list EXCEPT ![i] = p]
           n == [a EXCEPT !.list = list]
<1>1. a \in Agent(x) /\ a.list \in Seq(Pair(x)) /\ Kept(o, a, {})
  BY DEF After, Agent
<1>2. n = [a EXCEPT !.list[i].nom = TRUE]
  OBVIOUS
<1>3. p \in Pair(x) /\ p.l = a.list[i].l /\ p.r = a.list[i].r /\ p.state = a.list[i].state
      /\ Calm(E, i, a.list[i], p)
  <2>1. a.list[i] \in Pair(x)
    BY <1>1
  <2>2. p \in Pair(x) /\ p.l = a.list[i].l /\ p.r = a.list[i].r /\ p.state = a.list[i].state
        /\ p.tx = a.list[i].tx
    BY <2>1 DEF Pair
  <2> HIDE DEF p
  <2> QED
    BY <2>2 DEF Calm
<1>4. Valid(p) => Works(o, p.l, p.r)
  BY <1>1, <1>3 DEF Kept, Valid
<1> HIDE DEF p
<1>5. n \in After(o, x, z, {i}, E)
  BY <1>3, <1>4, OnePairChanges
<1>6. list \in Seq(Pair(x)) /\ Len(list) = Len(a.list)
      /\ \A j \in DOMAIN a.list : list[j] = IF j = i THEN p ELSE a.list[j]
  BY <1>1, <1>3, PairChanges
<1>7. n.list = list /\ i \in DOMAIN list
  BY <1>1, <1>6 DEF Agent
<1> HIDE DEF list
<1>8. CASE Valid(n.list[i])
  <2>1. UpdateSelected(n, i) \in After(o, x, z, {}, E)
    <3> HIDE DEF n
    <3>1. Works(o, n.list[i].l, n.list[i].r)
      BY <1>5, <1>7, <1>8 DEF After, Kept
    <3> QED
      BY <1>5, <1>7, <3>1, UpdateSelectedKeeps
  <2> QED
    BY <1>2, <1>8, <2>1, StateForReadyKeeps DEF Nominate
<1>9. CASE ~Valid(n.list[i])
  <2>1. \A j \in DOMAIN a.list :
          /\ list[j] = a.list[j] \/ Drops(x, a.list[j], list[j])
          /\ Calm(E, j, a.list[j], list[j])
    BY <1>3, <1>6, <1>7, <1>9 DEF Drops, Calm
  <2>2. n \in After(o, x, z, {}, E)
    BY <1>6, <2>1, ListChanges
  <2> QED
    BY <1>2, <1>9, <2>2, StateForReadyKeeps DEF Nominate
<1> QED
  BY <1>8, <1>9

-----------------------------------------------------------------------------
(* The loops                                                               *)

\* priv_mark_pair_nominated: the loop over all pairs of a remote candidate.
LEMMA MarkNominatedKeeps ==
  ASSUME NEW o, NEW E, NEW x, NEW z \in Agent(x), NEW a \in After(o, x, z, {}, E),
         NEW c \in Components, NEW r
  PROVE  MarkNominated(a, c, r) \in After(o, x, z, {}, E)
<1> DEFINE S == After(o, x, a, {}, E)
           N == Len(a.list)
           step == [i \in 1..N |-> [b \in S |-> Nominate(b, i, c, r)]]
           k == CHOOSE k : k = [i \in 0..N |-> IF i = 0 THEN a ELSE Nominate(k[i - 1], i, c, r)]
<1>1. a \in Agent(x) /\ a.list \in Seq(Pair(x)) /\ a \in S /\ N \in Nat
  <2>1. a \in Agent(x) /\ Kept(o, a, {}) /\ Tidy(x, a)
    BY DEF After
  <2>2. a.list \in Seq(Pair(x))
    BY <2>1 DEF Agent
  <2> QED
    BY <2>1, <2>2, AfterItself
<1>2. ASSUME NEW i \in 1..N, NEW b \in S PROVE Nominate(b, i, c, r) \in S
  <2>1. b.list \in Seq(Pair(x)) /\ Len(a.list) <= Len(b.list)
    BY DEF After, Agent, Grown
  <2>2. i \in DOMAIN b.list
    BY <1>1, <2>1
  <2> QED
    BY <1>1, <2>2, NominateKeeps
<1>3. MarkNominated(a, c, r) = k[N]
  BY DEF MarkNominated
<1> HIDE DEF S, N
<1>4. k = [i \in 0..N |-> IF i = 0 THEN a ELSE Nominate(k[i - 1], i, c, r)]
  <2>1. step \in [1..N -> [S -> S]]
    BY <1>2
  <2>2. \A i \in 1..N, b \in S : step[i][b] = Nominate(b, i, c, r)
    OBVIOUS
  <2> HIDE DEF step
  <2> a \in S /\ N \in Nat
    BY <1>1
  <2> Iterates(S, a, N, step)
    BY <2>1, Iteration
  <2>3. PICK f \in [0..N -> S] : f[0] = a /\ \A n \in 1..N : f[n] = step[n][f[n - 1]]
    BY DEF Iterates
  <2> DEFINE C(i) == IF i = 0 THEN a ELSE Nominate(f[i - 1], i, c, r)
  <2>4. ASSUME NEW i \in 0..N PROVE f[i] = C(i)
    <3>1. CASE i = 0
      BY <2>3, <3>1
    <3>2. CASE i # 0
      <4>1. i \in 1..N /\ f[i - 1] \in S
        BY <1>1, <2>3, <3>2
      <4> QED
        BY <2>2, <2>3, <3>2, <4>1
    <3> QED
      BY <3>1, <3>2
  <2> HIDE DEF C
  <2>5. f = [i \in 0..N |-> C(i)]
    BY <2>3, <2>4
  <2> QED
    BY <2>5 DEF C
<1> HIDE DEF k
<1>5. k[N] \in S
  <2>1. k[0] = a /\ \A i \in 1..N : k[i] = Nominate(k[i - 1], i, c, r)
    BY <1>1, <1>4
  <2>2. k[0] \in S /\ \A n \in 1..N : k[n - 1] \in S => k[n] \in S
    BY <1>1, <1>2, <2>1
  <2> QED
    BY <1>1, <2>2, Repeated
<1> QED
  BY <1>3, <1>5, AfterAnother DEF S

-----------------------------------------------------------------------------
(* New pairs                                                               *)

\* Pairs that are added at the end are not valid, but for the pairs J.
LEMMA ListGrows ==
  ASSUME NEW o, NEW E, NEW x, NEW z \in Agent(x), NEW J, NEW a \in After(o, x, z, {}, E),
         NEW list \in Seq(Pair(x)), Len(a.list) <= Len(list),
         \A i \in DOMAIN a.list : list[i] = a.list[i],
         \A i \in DOMAIN list \ DOMAIN a.list :
           /\ list[i].r \in DOMAIN a.remote
           /\ Valid(list[i]) => i \in J /\ Works(o, list[i].l, list[i].r)
           /\ Component[list[i].l] = Component[list[i].r]
           /\ list[i].state # "FAILED" /\ list[i].state # "IN_PROGRESS"
  PROVE  [a EXCEPT !.list = list] \in After(o, x, z, J, E)
<1> DEFINE b == [a EXCEPT !.list = list]
<1>1. a \in Agent(x) /\ a.list \in Seq(Pair(x)) /\ z.list \in Seq(Pair(x))
  BY DEF After, Agent
<1>2. Kept(o, a, {}) /\ Grown(z, a)
  BY DEF After
<1>3. b \in Agent(x) /\ b.list = list /\ b.selected = a.selected /\ b.state = a.state
      /\ b.remote = a.remote /\ b.out = a.out /\ Agree(a, b) /\ b.ended = a.ended
  BY <1>1 DEF Agent, Agree
<1> HIDE DEF b
<1>4. Kept(o, b, J)
  <2>1. ASSUME NEW i \in DOMAIN list
        PROVE  /\ list[i].r \in DOMAIN a.remote
               /\ Valid(list[i]) =>
                    /\ Works(o, list[i].l, list[i].r)
                    /\ list[i].nom /\ i \notin J =>
                         list[i].prio <= a.selected[Component[list[i].l]].prio
    <3>1. CASE i \in DOMAIN a.list
      BY <1>2, <3>1 DEF Kept
    <3> QED
      BY <3>1
  <2>2. \A c \in Components :
          /\ a.state[c] = "READY" => a.selected[c].prio > 0
          /\ a.selected[c].prio > 0 =>
               /\ a.selected[c].l \in Addresses /\ a.selected[c].r \in Addresses
               /\ Works(o, a.selected[c].l, a.selected[c].r)
    BY <1>2 DEF Kept
  <2> QED
    BY <1>3, <2>1, <2>2 DEF Kept
<1>5. \A j \in DOMAIN a.list : j \in DOMAIN list
  BY <1>1
<1>6. Grown(z, b)
  <2>1. \A j \in DOMAIN z.list : j \in DOMAIN a.list
    BY <1>1, <1>2 DEF Grown
  <2>2. \A j \in DOMAIN z.list : b.list[j].l = z.list[j].l /\ b.list[j].r = z.list[j].r
    BY <1>2, <1>3, <2>1 DEF Grown
  <2>3. \A m \in b.out \ z.out : Asks(b, m)
    BY <1>2, <1>3, <1>5 DEF Grown, Asks
  <2>4. Len(z.list) <= Len(b.list)
    BY <1>1, <1>2, <1>3 DEF Grown
  <2> QED
    BY <1>2, <1>3, <2>2, <2>3, <2>4 DEF Grown
<1>7. Tidy(x, a)
  BY DEF After
<1>8. Tidy(x, b)
  <2>1. \A i \in DOMAIN list :
          /\ Component[list[i].l] = Component[list[i].r]
          /\ list[i].state = "IN_PROGRESS" => list[i].tx > 0
    BY <1>7 DEF Tidy
  <2>2. \A i \in DOMAIN a.list : Request(b, i) = Request(a, i)
    BY <1>3, SameRequest DEF Agree
  <2>3. \A i \in a.again : i \in DOMAIN list /\ Request(b, i) \in a.out
    BY <1>5, <1>7, <2>2 DEF Tidy
  <2> QED
    BY <1>3, <1>7, <2>1, <2>3, ZenonT(60) DEF Tidy, Agree
<1>9. Tried(E, a, b)
  BY <1>3 DEF Tried, Agree
<1>10. Tried(E, z, b)
  BY <1>1, <1>2, <1>3, <1>9, TriedAgain DEF After
<1> QED
  BY <1>3, <1>4, <1>6, <1>8, <1>10 DEF After, b

\* A pair that priv_add_new_check_pair makes is one of its agent, and not yet valid.
LEMMA NewPairs ==
  ASSUME NEW x, NEW a \in Agent(x), NEW l \in Own(x), NEW r \in DOMAIN a.remote,
         NEW state \in {"FROZEN", "WAITING"}, NEW nom \in BOOLEAN
  PROVE  LET p == NewPair(a, l, r, state, nom) IN
         p \in Pair(x) /\ p.l = l /\ p.r = r /\ ~Valid(p) /\ p.state = state
<1> DEFINE p == NewPair(a, l, r, state, nom)
<1>1. a.remote \in UNION {[known -> Nat \ {0}] : known \in SUBSET Addresses} /\ a.ctrl \in BOOLEAN
  BY DEF Agent
<1>2. r \in Addresses /\ a.remote[r] \in Nat
  BY <1>1
<1>3. LocalRank(l) \in Nat \ {0}
  BY Ranks DEF Own
<1>4. InRole(a.ctrl, LocalRank(l), a.remote[r]) \in Nat \ {0}
  BY <1>1, <1>2, <1>3, PairPriorities
<1>5. p \in Pair(x)
  BY <1>2, <1>4 DEF NewPair, Pair
<1>6. p.l = l /\ p.r = r /\ ~Valid(p) /\ p.state = state
  BY DEF NewPair, Valid
<1> QED
  BY <1>5, <1>6

\* priv_add_new_check_pair appends a pair that is not valid.
LEMMA AddPairKeeps ==
  ASSUME NEW o, NEW E, NEW x, NEW z \in Agent(x), NEW a \in After(o, x, z, {}, E),
         NEW l \in Own(x), NEW r \in DOMAIN a.remote, Component[l] = Component[r],
         NEW state \in {"FROZEN", "WAITING"}, NEW nom \in BOOLEAN
  PROVE  AddPair(a, l, r, state, nom) \in After(o, x, z, {}, E)
<1> DEFINE p == NewPair(a, l, r, state, nom)
           list == Append(a.list, p)
<1>1. a \in Agent(x) /\ a.list \in Seq(Pair(x))
  BY DEF After, Agent
<1>2. /\ p \in Pair(x) /\ p.r \in DOMAIN a.remote /\ ~Valid(p)
      /\ Component[p.l] = Component[p.r] /\ p.state # "FAILED" /\ p.state # "IN_PROGRESS"
  BY <1>1, NewPairs
<1> HIDE DEF p
<1>3. /\ list \in Seq(Pair(x)) /\ Len(a.list) <= Len(list)
      /\ \A i \in DOMAIN a.list : list[i] = a.list[i]
      /\ \A i \in DOMAIN list \ DOMAIN a.list : list[i] = p
  BY <1>1, <1>2
<1> HIDE DEF list
<1>4. [a EXCEPT !.list = list] \in After(o, x, z, {}, E)
  BY <1>2, <1>3, ListGrows
<1> QED
  BY <1>4 DEF AddPair, list, p

\* conn_check_add_for_candidate: the loop over the local candidates.
LEMMA AddForCandidateKeeps ==
  ASSUME NEW o, NEW E, NEW x, NEW z \in Agent(x),
         NEW a \in After(o, x, z, {}, E), NEW r \in DOMAIN a.remote
  PROVE  AddForCandidate(a, r) \in After(o, x, z, {}, E)
<1> DEFINE c == Component[r]
           New(n) == NewPair(a, a.local[c][n], r, "FROZEN", FALSE)
           new == [n \in DOMAIN a.local[c] |-> New(n)]
           list == a.list \o new
           b == [a EXCEPT !.list = list]
           state == IF a.state[c] \in {"GATHERING", "CONNECTING"} THEN "CONNECTING"
                    ELSE "CONNECTED"
<1>1. a \in Agent(x) /\ a.list \in Seq(Pair(x))
  BY DEF After, Agent
<1>2. r \in Addresses
  BY <1>1 DEF Agent
<1>3. c \in Components
  BY <1>2, AddressFacts
<1>4. AddForCandidate(a, r) = ChangeState(b, c, state)
  BY DEF AddForCandidate
<1> HIDE DEF c
<1>5. a.local[c] \in Seq(Own(x))
  BY <1>1, <1>3 DEF Agent
<1>6. ASSUME NEW n \in DOMAIN a.local[c]
      PROVE  /\ New(n) \in Pair(x) /\ New(n).r = r /\ ~Valid(New(n))
             /\ Component[New(n).l] = Component[r] /\ New(n).state = "FROZEN"
  <2> DEFINE l == a.local[c][n]
             frozen == "FROZEN"
             nom == FALSE
  <2>1. l \in Own(x) /\ frozen \in {"FROZEN", "WAITING"} /\ nom \in BOOLEAN /\ a \in Agent(x)
    BY <1>1, <1>5
  <2>2. New(n) = NewPair(a, l, r, frozen, nom)
    OBVIOUS
  <2>3. Component[l] = c
    BY <1>3 DEF After, Tidy, Range
  <2> HIDE DEF l, nom, New, frozen
  <2>4. New(n) \in Pair(x) /\ New(n).l = l /\ New(n).r = r
        /\ ~Valid(New(n)) /\ New(n).state = frozen
    BY <2>1, <2>2, NewPairs
  <2> QED
    BY <2>3, <2>4 DEF frozen, c
<1> HIDE DEF New
<1>7. /\ new \in Seq(Pair(x)) /\ DOMAIN new = 1..Len(new)
      /\ \A n \in 1..Len(new) : /\ new[n].r = r /\ ~Valid(new[n])
                                /\ Component[new[n].l] = Component[r] /\ new[n].state = "FROZEN"
  <2>1. Len(a.local[c]) \in Nat /\ DOMAIN a.local[c] = 1..Len(a.local[c])
    BY <1>5
  <2>2. new \in [1..Len(a.local[c]) -> Pair(x)]
    BY <1>6, <2>1
  <2>3. new \in Seq(Pair(x)) /\ Len(new) = Len(a.local[c])
    BY <2>1, <2>2, Tuples
  <2> QED
    BY <1>6, <2>1, <2>3
<1> HIDE DEF new
<1>8. /\ list \in Seq(Pair(x)) /\ Len(a.list) <= Len(list)
      /\ \A i \in DOMAIN a.list : list[i] = a.list[i]
      /\ \A i \in DOMAIN list \ DOMAIN a.list :
           /\ list[i].r = r /\ ~Valid(list[i])
           /\ Component[list[i].l] = Component[r] /\ list[i].state = "FROZEN"
  <2>1. Len(list) = Len(a.list) + Len(new) /\ list \in Seq(Pair(x))
    BY <1>1, <1>7
  <2>2. \A i \in 1..Len(list) :
          list[i] = IF i <= Len(a.list) THEN a.list[i] ELSE new[i - Len(a.list)]
    BY <1>1, <1>7
  <2> HIDE DEF list
  <2>3. ASSUME NEW i \in DOMAIN list \ DOMAIN a.list
        PROVE  i - Len(a.list) \in 1..Len(new) /\ list[i] = new[i - Len(a.list)]
    <3>1. i \in 1..Len(list) /\ ~(i <= Len(a.list)) /\ Len(a.list) \in Nat /\ Len(new) \in Nat
      BY <1>1, <1>7, <2>1
    <3> QED
      BY <2>1, <2>2, <3>1
  <2>4. \A i \in DOMAIN list \ DOMAIN a.list :
          /\ list[i].r = r /\ ~Valid(list[i])
          /\ Component[list[i].l] = Component[r] /\ list[i].state = "FROZEN"
    BY <1>7, <2>3
  <2> QED
    BY <1>1, <1>7, <2>1, <2>2, <2>4
<1> HIDE DEF list
<1>9. b \in After(o, x, z, {}, E)
  BY <1>8, ListGrows
<1> HIDE DEF b
<1>10. state \in {"GATHERING", "CONNECTING", "CONNECTED", "READY", "FAILED"}
       /\ state # "READY" /\ state # "FAILED"
  OBVIOUS
<1> HIDE DEF state
<1> QED
  BY <1>3, <1>4, <1>9, <1>10, ChangeStateKeeps

\* A remote candidate that becomes known.
LEMMA KnowsKeeps ==
  ASSUME NEW o, NEW E, NEW x, NEW z \in Agent(x),
         NEW a \in After(o, x, z, {}, E), NEW r \in Addresses,
         NEW prio \in Nat \ {0}, Component[r] <= a.told
  PROVE  Knows(a, r, prio) \in After(o, x, z, {}, E) /\ r \in DOMAIN Knows(a, r, prio).remote
<1> DEFINE remote == [s \in DOMAIN a.remote \cup {r} |-> IF s = r THEN prio ELSE a.remote[s]]
           b == [a EXCEPT !.remote = remote]
           Known == UNION {[known -> Nat \ {0}] : known \in SUBSET Addresses}
<1>1. a \in Agent(x) /\ a.remote \in Known
  BY DEF After, Agent
<1>2. remote \in Known /\ DOMAIN remote = DOMAIN a.remote \cup {r}
  <2>1. PICK known \in SUBSET Addresses : a.remote \in [known -> Nat \ {0}]
    BY <1>1
  <2>2. remote \in [known \cup {r} -> Nat \ {0}]
    BY <2>1
  <2> QED
    BY <2>2
<1>3. /\ b \in Agent(x) /\ b.remote = remote /\ b.list = a.list /\ b.selected = a.selected
      /\ b.state = a.state /\ b.out = a.out /\ b.again = a.again /\ b.ctrl = a.ctrl
      /\ b.told = a.told /\ b.local = a.local /\ b.stored = a.stored /\ b.ended = a.ended
  BY <1>1, <1>2 DEF Agent
<1> HIDE DEF b
<1>4. Alike(a, b)
  BY <1>2, <1>3 DEF Alike
<1>5. Tidy(x, b) /\ Tried(E, a, b)
  <2>1. \A i : Request(b, i) = Request(a, i)
    BY <1>3, SameRequest
  <2>2. Tidy(x, a)
    BY DEF After
  <2>3. \A t \in DOMAIN b.remote : Component[t] <= b.told
    BY <1>2, <1>3, <2>2 DEF Tidy
  <2>4. Tidy(x, b)
    BY <1>3, <2>1, <2>2, <2>3 DEF Tidy
  <2> QED
    BY <1>3, <2>4 DEF Tried
<1>6. b \in After(o, x, z, {}, E) /\ r \in DOMAIN b.remote /\ b.told = a.told
  BY <1>2, <1>3, <1>4, <1>5, AlikeKeeps
<1> QED
  BY <1>6 DEF Knows, b, remote

-----------------------------------------------------------------------------
(* The timer                                                               *)

\* priv_conn_check_tick_stream, one pair: it is sent again or fails.
LEMMA ExpireKeeps ==
  ASSUME NEW o, NEW E, NEW x, NEW z \in Agent(x), NEW a \in After(o, x, z, {}, E),
         NEW expired \in SUBSET DOMAIN a.list, expired \subseteq E
  PROVE  Expire(a, expired) \in After(o, x, z, {}, E)
<1> DEFINE last == {i \in expired : a.list[i].tx = 1}
           Change(i) == IF i \in last THEN [a.list[i] EXCEPT !.state = "FAILED", !.tx = 0]
                        ELSE IF i \in expired THEN [a.list[i] EXCEPT !.tx = @ - 1]
                        ELSE a.list[i]
           list == [i \in DOMAIN a.list |-> Change(i)]
           sent == {Request(a, i) : i \in expired \ last}
           b == [a EXCEPT !.list = list, !.out = a.out \cup sent]
<1>1. a \in Agent(x) /\ a.list \in Seq(Pair(x))
  BY DEF After, Agent
<1>2. b = Expire(a, expired)
  BY DEF Expire
<1>3. sent \subseteq Datagram /\ \A m \in sent : Asks(a, m)
  <2>1. \A i \in expired \ last : Request(a, i) \in Datagram /\ Asks(a, Request(a, i))
    BY <1>1, RequestAsks
  <2> QED
    BY <2>1
<1>11. Tidy(x, a)
  BY DEF After
<1>12. last \subseteq E /\ \A i \in expired \ last : a.list[i].tx # 1
  OBVIOUS
<1> HIDE DEF last, sent
<1>4. ASSUME NEW i \in DOMAIN a.list
      PROVE  /\ Change(i) \in Pair(x)
             /\ Change(i).l = a.list[i].l /\ Change(i).r = a.list[i].r
             /\ Valid(Change(i)) =>
                  /\ Valid(a.list[i]) /\ Change(i).prio = a.list[i].prio
                  /\ Change(i).nom = a.list[i].nom
             /\ Change(i).state = "FAILED" => i \in E \/ a.list[i].state = "FAILED"
             /\ Change(i).state = "IN_PROGRESS" =>
                  a.list[i].state = "IN_PROGRESS" /\ Change(i).tx > 0
  <2>1. a.list[i] \in Pair(x)
    BY <1>1
  <2>2. CASE i \in last
    <3>1. Drops(x, a.list[i], Change(i)) /\ Change(i).state = "FAILED"
      <4> DEFINE p == a.list[i]
                 q == [p EXCEPT !.state = "FAILED", !.tx = 0]
      <4>1. p \in Pair(x) /\ Change(i) = q
        BY <2>1, <2>2, SMTT(60)
      <4> HIDE DEF p, Change
      <4>2. Drops(x, p, q) /\ q.state = "FAILED"
        BY <4>1, PairFields, PairStates
      <4> HIDE DEF q
      <4> QED
        BY <4>1, <4>2 DEF p
    <3> HIDE DEF Change
    <3> QED
      BY <1>12, <2>2, <3>1 DEF Drops
  <2>3. CASE i \notin last /\ i \in expired
    <3>1. Change(i) = [a.list[i] EXCEPT !.tx = a.list[i].tx - 1]
      BY <2>3
    <3> HIDE DEF Change
    <3>2. /\ Change(i) \in Pair(x)
          /\ Change(i).l = a.list[i].l /\ Change(i).r = a.list[i].r
          /\ Change(i).state = a.list[i].state /\ Change(i).prio = a.list[i].prio
          /\ Change(i).nom = a.list[i].nom /\ Change(i).tx = a.list[i].tx - 1
      <4> DEFINE p == a.list[i]
                 tx == p.tx - 1
      <4>1. p \in Pair(x) /\ tx \in Int
        BY <2>1 DEF Pair
      <4>2. Change(i) = [p EXCEPT !.tx = tx]
        BY <3>1
      <4> HIDE DEF p, tx
      <4>3. /\ Change(i) \in Pair(x) /\ Change(i).l = p.l /\ Change(i).r = p.r
            /\ Change(i).state = p.state /\ Change(i).prio = p.prio /\ Change(i).nom = p.nom
            /\ Change(i).tx = tx
        BY <4>1, <4>2 DEF Pair
      <4> QED
        BY <4>3 DEF p, tx
    <3>3. a.list[i].state = "IN_PROGRESS" => Change(i).tx > 0
      <4>1. a.list[i].tx \in Int
        BY <2>1 DEF Pair
      <4> QED
        BY <1>11, <1>12, <2>3, <3>2, <4>1 DEF Tidy
    <3> QED
      BY <3>2, <3>3 DEF Valid
  <2>4. CASE i \notin last /\ i \notin expired
    BY <1>11, <2>1, <2>4 DEF Tidy
  <2> QED
    BY <2>2, <2>3, <2>4
<1> HIDE DEF Change
<1>5. list \in Seq(Pair(x)) /\ Len(list) = Len(a.list)
  <2>1. list \in [DOMAIN a.list -> Pair(x)]
    BY <1>4
  <2> QED
    BY <1>1, <2>1, Tuples, DOMAIN a.list = 1..Len(a.list)
<1>6. \A i \in DOMAIN a.list :
        /\ list[i].l = a.list[i].l /\ list[i].r = a.list[i].r
        /\ Valid(list[i]) =>
             /\ Valid(a.list[i]) /\ list[i].prio = a.list[i].prio
             /\ list[i].nom = a.list[i].nom
        /\ list[i].state = "FAILED" => i \in E \/ a.list[i].state = "FAILED"
        /\ list[i].state = "IN_PROGRESS" => a.list[i].state = "IN_PROGRESS" /\ list[i].tx > 0
  BY <1>4
<1> HIDE DEF list
<1>7. b \in Agent(x)
  BY <1>1, <1>3, <1>5 DEF Agent
<1>8. /\ b.list = list /\ b.out = a.out \cup sent /\ b.selected = a.selected
      /\ b.state = a.state /\ b.remote = a.remote /\ b.again = a.again /\ b.ctrl = a.ctrl
      /\ b.told = a.told /\ b.local = a.local /\ b.stored = a.stored /\ b.ended = a.ended
  BY <1>1 DEF Agent
<1> HIDE DEF b
<1>9. \A m \in sent : Asks(b, m)
  <2>1. DOMAIN list = DOMAIN a.list
    BY <1>1, <1>5
  <2> QED
    BY <1>3, <1>6, <1>8, <2>1 DEF Asks
<1>10. Alike(a, b)
  BY <1>5, <1>6, <1>8, <1>9 DEF Alike
<1>13. DOMAIN list = DOMAIN a.list
  BY <1>1, <1>5
<1>14. Tidy(x, b)
  <2>1. \A i \in DOMAIN a.list : Request(b, i) = Request(a, i)
    BY <1>6, <1>8, SameRequest
  <2>2. \A i \in DOMAIN list :
          /\ Component[list[i].l] = Component[list[i].r]
          /\ list[i].state = "IN_PROGRESS" => list[i].tx > 0
    BY <1>6, <1>11, <1>13 DEF Tidy
  <2>3. \A i \in a.again : i \in DOMAIN list /\ Request(b, i) \in a.out
    BY <1>11, <1>13, <2>1 DEF Tidy
  <2> QED
    BY <1>8, <1>11, <2>2, <2>3 DEF Tidy
<1>15. Tried(E, a, b)
  BY <1>6, <1>8, <1>13 DEF Tried
<1> QED
  BY <1>2, <1>7, <1>10, <1>14, <1>15, AlikeKeeps

\* The controlling agent tries a valid pair once more, to nominate it.
LEMMA RestartFirstKeeps ==
  ASSUME NEW o, NEW E, NEW x, NEW z \in Agent(x), NEW a \in After(o, x, z, {}, E)
  PROVE  RestartFirst(a) \in After(o, x, z, {}, E)
<1> DEFINE valid == {i \in DOMAIN a.list : Valid(a.list[i])}
<1>1. a.list \in Seq(Pair(x))
  BY DEF After, Agent
<1>2. RestartFirst(a) = IF valid = {} THEN a ELSE Initiate(a, First(valid))
  BY DEF RestartFirst
<1>3. valid \in SUBSET Nat /\ valid \subseteq DOMAIN a.list
  BY <1>1
<1> HIDE DEF valid
<1>4. ASSUME valid # {} PROVE Initiate(a, First(valid)) \in After(o, x, z, {}, E)
  <2>1. First(valid) \in DOMAIN a.list
    BY <1>3, <1>4, FirstIn
  <2> QED
    BY <2>1, InitiateKeeps
<1> QED
  BY <1>2, <1>4

\* The loop over components that restarts a check for each without a nomination.
LEMMA RestartKeeps ==
  ASSUME NEW o, NEW E, NEW x, NEW z \in Agent(x), NEW a \in After(o, x, z, {}, E)
  PROVE  Restart(a) \in After(o, x, z, {}, E)
<1> DEFINE S == After(o, x, z, {}, E)
           N == NComponents
           step == [n \in 1..N |-> [b \in S |-> RestartFirst(b)]]
           k == CHOOSE k : k = [n \in 0..N |-> IF n = 0 THEN a ELSE RestartFirst(k[n - 1])]
<1>1. \A b \in S : RestartFirst(b) \in S
  BY RestartFirstKeeps
<1>2. Restart(a) = k[N]
  BY DEF Restart
<1> a \in S /\ N \in Nat
  BY CheckAssumption
<1> HIDE DEF S, N
<1>3. k = [n \in 0..N |-> IF n = 0 THEN a ELSE RestartFirst(k[n - 1])]
  <2>1. step \in [1..N -> [S -> S]]
    BY <1>1
  <2>2. \A n \in 1..N, b \in S : step[n][b] = RestartFirst(b)
    OBVIOUS
  <2> HIDE DEF step
  <2> Iterates(S, a, N, step)
    BY <2>1, Iteration
  <2>3. PICK f \in [0..N -> S] : f[0] = a /\ \A n \in 1..N : f[n] = step[n][f[n - 1]]
    BY DEF Iterates
  <2> DEFINE C(n) == IF n = 0 THEN a ELSE RestartFirst(f[n - 1])
  <2>4. ASSUME NEW n \in 0..N PROVE f[n] = C(n)
    <3>1. CASE n = 0
      BY <2>3, <3>1
    <3>2. CASE n # 0
      <4>1. n \in 1..N /\ f[n - 1] \in S
        BY <2>3, <3>2
      <4> QED
        BY <2>2, <2>3, <3>2, <4>1
    <3> QED
      BY <3>1, <3>2
  <2> HIDE DEF C
  <2>5. f = [n \in 0..N |-> C(n)]
    BY <2>3, <2>4
  <2> QED
    BY <2>5 DEF C
<1> HIDE DEF k
<1>4. k[N] \in S
  <2>1. k[0] = a /\ \A n \in 1..N : k[n] = RestartFirst(k[n - 1])
    BY <1>3
  <2>2. k[0] \in S /\ \A n \in 1..N : k[n - 1] \in S => k[n] \in S
    BY <1>1, <1>2, <2>1
  <2> QED
    BY <1>1, <2>2, Repeated
<1> QED
  BY <1>2, <1>4 DEF S

\* priv_update_check_list_failed_components never makes a component ready.
LEMMA FailedComponentsKeeps ==
  ASSUME NEW o, NEW E, NEW x, NEW z \in Agent(x), NEW a \in After(o, x, z, {}, E)
  PROVE  FailedComponents(a) \in After(o, x, z, {}, E)
<1> DEFINE failed == {c \in Components : AllFailed(a, c)}
           state == [c \in Components |-> IF c \in failed THEN "FAILED" ELSE a.state[c]]
           ended == a.ended \/ \E c \in failed : a.state[c] # "FAILED"
           b == [a EXCEPT !.state = state, !.ended = ended]
<1>1. a \in Agent(x)
  BY DEF After
<1>2. b = FailedComponents(a)
  BY DEF FailedComponents
<1>8. ended => a.ended \/ \E c \in Components : c <= a.told /\ Down(E, a, c)
  <2> SUFFICES ASSUME NEW c \in Components, AllFailed(a, c) PROVE c <= a.told /\ Down(E, a, c)
    OBVIOUS
  <2>1. c <= a.told
    BY DEF AllFailed, After, Tidy
  <2>2. Down(E, a, c)
    BY DEF AllFailed, Down, Range
  <2> QED
    BY <2>1, <2>2
<1> HIDE DEF failed
<1>3. /\ state \in [Components -> {"GATHERING", "CONNECTING", "CONNECTED", "READY", "FAILED"}]
      /\ \A c \in Components : state[c] = "FAILED" \/ state[c] = a.state[c]
  BY <1>1 DEF Agent
<1>4. ended \in BOOLEAN
  BY <1>1 DEF Agent
<1> HIDE DEF state, ended
<1>5. b \in Agent(x)
  BY <1>1, <1>3, <1>4 DEF Agent
<1>6. b.state = state /\ b.list = a.list /\ b.out = a.out /\ b.selected = a.selected
      /\ b.remote = a.remote /\ b.ended = ended /\ Agree(a, b)
  BY <1>1 DEF Agent, Agree
<1> HIDE DEF b
<1>7. Alike(a, b)
  BY <1>3, <1>6 DEF Alike
<1>9. Tidy(x, b) /\ Tried(E, a, b)
  BY <1>6, <1>8, Untouched DEF After
<1> QED
  BY <1>2, <1>5, <1>7, <1>9, AlikeKeeps

\* The timer is no concern of the pairs.
LEMMA TimerKeeps ==
  ASSUME NEW o, NEW E, NEW x, NEW z \in Agent(x),
         NEW a \in After(o, x, z, {}, E), NEW timer \in BOOLEAN
  PROVE  [a EXCEPT !.timer = timer] \in After(o, x, z, {}, E)
<1> DEFINE b == [a EXCEPT !.timer = timer]
<1>1. a \in Agent(x)
  BY DEF After
<1>2. b \in Agent(x)
  BY <1>1 DEF Agent
<1>3. b.state = a.state /\ b.list = a.list /\ b.out = a.out /\ b.selected = a.selected
      /\ b.remote = a.remote /\ b.ended = a.ended /\ Agree(a, b)
  BY <1>1 DEF Agent, Agree
<1> HIDE DEF b
<1>4. Alike(a, b)
  BY <1>3 DEF Alike
<1>5. Tidy(x, b) /\ Tried(E, a, b)
  BY <1>3, Untouched DEF After
<1> QED
  BY <1>2, <1>4, <1>5, AlikeKeeps DEF b

\* The timer that finds nothing to do fails components and stops.
LEMMA StopTimerKeeps ==
  ASSUME NEW o, NEW E, NEW x, NEW z \in Agent(x), NEW a \in After(o, x, z, {}, E)
  PROVE  StopTimer(a) \in After(o, x, z, {}, E)
<1> DEFINE S == After(o, x, z, {}, E)
           N == NComponents
           e == FailedComponents(a)
           step == [c \in 1..N |-> [b \in S |-> StateForReady(b, c)]]
           k == CHOOSE k : k = [c \in 0..N |-> IF c = 0 THEN e ELSE StateForReady(k[c - 1], c)]
<1>1. \A c \in 1..N, b \in S : StateForReady(b, c) \in S
  BY StateForReadyKeeps DEF Components
<1>2. StopTimer(a) = [k[N] EXCEPT !.timer = FALSE]
  BY DEF StopTimer
<1> e \in S /\ N \in Nat
  BY CheckAssumption, FailedComponentsKeeps
<1> HIDE DEF S, N, e
<1>3. k = [c \in 0..N |-> IF c = 0 THEN e ELSE StateForReady(k[c - 1], c)]
  <2>1. step \in [1..N -> [S -> S]]
    BY <1>1
  <2>2. \A c \in 1..N, b \in S : step[c][b] = StateForReady(b, c)
    OBVIOUS
  <2> HIDE DEF step
  <2> Iterates(S, e, N, step)
    BY <2>1, Iteration
  <2>3. PICK f \in [0..N -> S] : f[0] = e /\ \A n \in 1..N : f[n] = step[n][f[n - 1]]
    BY DEF Iterates
  <2> DEFINE C(c) == IF c = 0 THEN e ELSE StateForReady(f[c - 1], c)
  <2>4. ASSUME NEW c \in 0..N PROVE f[c] = C(c)
    <3>1. CASE c = 0
      BY <2>3, <3>1
    <3>2. CASE c # 0
      <4>1. c \in 1..N /\ f[c - 1] \in S
        BY <2>3, <3>2
      <4> QED
        BY <2>2, <2>3, <3>2, <4>1
    <3> QED
      BY <3>1, <3>2
  <2> HIDE DEF C
  <2>5. f = [c \in 0..N |-> C(c)]
    BY <2>3, <2>4
  <2> QED
    BY <2>5 DEF C
<1> HIDE DEF k
<1>4. k[N] \in S
  <2>1. k[0] = e /\ \A c \in 1..N : k[c] = StateForReady(k[c - 1], c)
    BY <1>3
  <2>2. k[0] \in S /\ \A n \in 1..N : k[n - 1] \in S => k[n] \in S
    BY <1>1, <1>2, <2>1
  <2> QED
    BY <1>1, <2>2, Repeated
<1> DEFINE d == k[N]
           timer == FALSE
<1>5. d \in After(o, x, z, {}, E) /\ timer \in BOOLEAN
  BY <1>4 DEF S
<1>6. StopTimer(a) = [d EXCEPT !.timer = timer]
  BY <1>2
<1> HIDE DEF d, timer
<1> QED
  BY <1>5, <1>6, TimerKeeps

\* The timer leaves the agent sound whichever checks have expired.
LEMMA TickKeeps ==
  ASSUME NEW o, NEW E, NEW x, NEW z \in Agent(x),
         NEW a \in After(o, x, z, {}, E), NEW expired, expired \subseteq E
  PROVE  Tick(a, expired) \in After(o, x, z, {}, E)
<1> DEFINE S == After(o, x, a, {}, E)
           waiting == {i \in DOMAIN a.list : a.list[i].state = "WAITING"}
           begun == IF waiting # {} THEN Initiate(a, First(waiting)) ELSE UnfreezeNext(a)
           over == expired \cap InProgress(a)
           b == Expire(begun, over)
           keep == waiting # {} \/ Frozen(a) # {} \/ InProgress(b) # {} \/ Unnominated(b)
           n == IF Unnominated(b) /\ a.ctrl THEN Restart(b) ELSE b
<1>1. a \in Agent(x) /\ Kept(o, a, {}) /\ Tidy(x, a)
  BY DEF After
<1>2. a.list \in Seq(Pair(x))
  BY <1>1 DEF Agent
<1>3. a \in S
  <2> HIDE DEF waiting, begun, over, b, keep, n
  <2> QED
    BY <1>1, AfterItself
<1>4. begun \in S
  <2>1. UnfreezeNext(a) \in S
    BY <1>1, <1>3, UnfreezeKeeps
  <2>2. waiting \in SUBSET Nat /\ waiting \subseteq DOMAIN a.list
    BY <1>2
  <2> HIDE DEF waiting
  <2>3. ASSUME waiting # {} PROVE Initiate(a, First(waiting)) \in S
    <3>1. First(waiting) \in DOMAIN a.list
      BY <2>2, <2>3, FirstIn
    <3> QED
      BY <1>1, <1>3, <3>1, InitiateKeeps
  <2> QED
    BY <2>1, <2>3
<1>5. Tick(a, expired) = IF keep THEN [n EXCEPT !.timer = TRUE] ELSE StopTimer(n)
  BY DEF Tick
<1> HIDE DEF begun, waiting
<1>6. over \in SUBSET DOMAIN begun.list /\ over \subseteq E
  <2>1. begun.list \in Seq(Pair(x)) /\ Len(a.list) <= Len(begun.list)
    BY <1>4 DEF After, Agent, Grown
  <2>2. over \subseteq DOMAIN a.list /\ over \subseteq E
    BY DEF InProgress
  <2> HIDE DEF over
  <2> QED
    BY <1>2, <2>1, <2>2
<1> HIDE DEF over
<1>7. b \in S
  BY <1>1, <1>4, <1>6, ExpireKeeps
<1> HIDE DEF b
<1>8. n \in S
  BY <1>1, <1>7, RestartKeeps
<1> HIDE DEF n, keep
<1>9. [n EXCEPT !.timer = TRUE] \in S
  <2>1. TRUE \in BOOLEAN
    OBVIOUS
  <2> QED
    BY <1>1, <1>8, <2>1, TimerKeeps
<1>10. StopTimer(n) \in S
  BY <1>1, <1>8, StopTimerKeeps
<1>11. Tick(a, expired) \in S
  BY <1>5, <1>9, <1>10
<1> QED
  BY <1>11, AfterAnother

\* conn_check_schedule_next unfreezes one pair and starts the timer.
LEMMA ScheduleNextKeeps ==
  ASSUME NEW o, NEW E, NEW x, NEW z \in Agent(x),
         NEW a \in After(o, x, z, {}, E), NEW expired, expired \subseteq E
  PROVE  ScheduleNext(a, expired) \in After(o, x, z, {}, E)
BY UnfreezeKeeps, TickKeeps DEF ScheduleNext

-----------------------------------------------------------------------------
(* The peer's candidates and checks                                        *)

\* The other fields of an agent.
LEMMA OthersKeep ==
  ASSUME NEW o, NEW E, NEW x, NEW z \in Agent(x), NEW J,
         NEW a \in After(o, x, z, J, E), NEW b \in Agent(x),
         b.list = a.list, b.state = a.state, b.selected = a.selected, b.remote = a.remote,
         b.out = a.out, b.ctrl = a.ctrl, b.told = a.told, b.ended = a.ended, Tidy(x, b)
  PROVE  b \in After(o, x, z, J, E)
<1>1. Alike(a, b)
  BY DEF Alike
<1>2. Tried(E, a, b)
  BY DEF Tried
<1> QED
  BY <1>1, <1>2, AlikeKeeps

\* priv_schedule_triggered_check, in each of its cases.
LEMMA TriggeredKeeps ==
  ASSUME NEW o, NEW E, NEW x, NEW z \in Agent(x), NEW a \in After(o, x, z, {}, E), NEW s \in Own(x),
         NEW r \in DOMAIN a.remote, Component[s] = Component[r], NEW use \in BOOLEAN
  PROVE  Triggered(a, s, r, use) \in After(o, x, z, {}, E)
<1> DEFINE matching == {i \in DOMAIN a.list : a.list[i].r = r /\ SocketAt[a.list[i].l] = s}
           i == First(matching)
           p == a.list[i]
           b == StateForReady(a, Component[s])
<1>1. a \in Agent(x) /\ Kept(o, a, {}) /\ Tidy(x, a)
  BY DEF After
<1>2. a.list \in Seq(Pair(x))
  BY <1>1 DEF Agent
<1>3. AddPair(a, s, r, "WAITING", use) \in After(o, x, z, {}, E)
  <2> DEFINE waiting == "WAITING"
  <2>1. waiting \in {"FROZEN", "WAITING"}
    OBVIOUS
  <2> HIDE DEF waiting
  <2>2. AddPair(a, s, r, waiting, use) \in After(o, x, z, {}, E)
    BY <2>1, AddPairKeeps
  <2> QED
    BY <2>2 DEF waiting
<1>4. Triggered(a, s, r, use) =
        IF matching = {} THEN AddPair(a, s, r, "WAITING", use)
        ELSE IF p.state \in {"WAITING", "FROZEN"} THEN Initiate(a, i)
        ELSE IF Valid(p) THEN IF a.ctrl THEN Initiate(b, i) ELSE b
        ELSE a
  BY DEF Triggered
<1>5. matching \in SUBSET Nat /\ matching \subseteq DOMAIN a.list
  BY <1>2
<1>6. ASSUME matching # {} PROVE i \in DOMAIN a.list
  <2> HIDE DEF matching
  <2> QED
    BY <1>5, <1>6, FirstIn
<1>7. b \in After(o, x, a, {}, E)
  <2>1. Component[s] \in Components
    BY AddressFacts DEF Own
  <2>2. a \in After(o, x, a, {}, E)
    BY <1>1, AfterItself
  <2> QED
    BY <1>1, <2>1, <2>2, StateForReadyKeeps
<1>8. b \in After(o, x, z, {}, E)
  BY <1>7, AfterAnother
<1> HIDE DEF matching, p, i, b
<1>9. CASE matching = {}
  BY <1>3, <1>4, <1>9
<1>10. CASE matching # {}
  <2>1. i \in DOMAIN a.list
    BY <1>6, <1>10
  <2>2. Initiate(a, i) \in After(o, x, z, {}, E)
    BY <2>1, InitiateKeeps
  <2>3. i \in DOMAIN b.list
    <3>1. b.list \in Seq(Pair(x)) /\ Len(a.list) <= Len(b.list)
      BY <1>7 DEF After, Agent, Grown
    <3> QED
      BY <1>2, <2>1, <3>1
  <2>4. Initiate(b, i) \in After(o, x, z, {}, E)
    BY <1>8, <2>3, InitiateKeeps
  <2> QED
    BY <1>4, <1>8, <1>10, <2>2, <2>4
<1> QED
  BY <1>9, <1>10

\* A peer-reflexive candidate gets pairs of its own.
LEMMA LearnKeeps ==
  ASSUME NEW o, NEW E, NEW x, NEW z \in Agent(x),
         NEW a \in After(o, x, z, {}, E), NEW r \in Addresses,
         Component[r] <= z.told
  PROVE  Learn(a, r) \in After(o, x, z, {}, E) /\ r \in DOMAIN Learn(a, r).remote
<1> DEFINE prio == Rank("prflx", 1, Component[r])
           b == Knows(a, r, prio)
<1>1. prio \in Nat \ {0}
  <2>1. "prflx" \in DOMAIN TypePreference /\ 1 \in Nat /\ Component[r] \in Components
    BY AddressFacts DEF TypePreference
  <2> QED
    BY <2>1, Ranks
<1>2. Learn(a, r) = AddForCandidate(b, r)
  BY DEF Learn
<1> HIDE DEF prio
<1>3. b \in After(o, x, z, {}, E) /\ r \in DOMAIN b.remote
  <2>1. a.told = z.told
    BY DEF After, Tried
  <2> QED
    BY <1>1, <2>1, KnowsKeeps
<1> HIDE DEF b
<1>4. AddForCandidate(b, r) \in After(o, x, z, {}, E)
  BY <1>3, AddForCandidateKeeps
<1>5. AddForCandidate(b, r).remote = b.remote
  BY DEF AddForCandidate, ChangeState, After, Agent
<1> QED
  BY <1>2, <1>3, <1>4, <1>5

\* priv_add_remote_candidate, for a candidate that is new and for one learnt before.
LEMMA AddRemoteCandidateKeeps ==
  ASSUME NEW o, NEW E, NEW x, NEW z \in Agent(x),
         NEW a \in After(o, x, z, {}, E), NEW r \in Addresses,
         Component[r] <= z.told
  PROVE  AddRemoteCandidate(a, r) \in After(o, x, z, {}, E)
<1> DEFINE prio == Rank(Type[r], 0, Component[r])
           b == Knows(a, r, prio)
<1>1. prio \in Nat \ {0}
  <2>1. Type[r] \in DOMAIN TypePreference /\ 0 \in Nat /\ Component[r] \in Components
    BY AddressFacts, CheckAssumption
  <2> QED
    BY <2>1, Ranks
<1>2. AddRemoteCandidate(a, r) = AddForCandidate(b, r)
  BY DEF AddRemoteCandidate
<1> HIDE DEF prio
<1>3. b \in After(o, x, z, {}, E) /\ r \in DOMAIN b.remote
  <2>1. a.told = z.told
    BY DEF After, Tried
  <2> QED
    BY <1>1, <2>1, KnowsKeeps
<1> HIDE DEF b
<1> QED
  BY <1>2, <1>3, AddForCandidateKeeps

\* A pair that has not failed and may not fail is still there.
LEMMA StillThere ==
  ASSUME NEW o, NEW E, NEW x, NEW a \in Agent(x), NEW J, NEW b \in After(o, x, a, J, E),
         NEW i \in DOMAIN a.list, a.list[i].state # "FAILED", i \notin E
  PROVE  /\ i \in DOMAIN b.list /\ b.list[i].l = a.list[i].l /\ b.list[i].r = a.list[i].r
         /\ b.list[i].state # "FAILED"
<1>1. a.list \in Seq(Pair(x)) /\ b.list \in Seq(Pair(x))
  BY DEF After, Agent
<1>2. Grown(a, b) /\ Tried(E, a, b)
  BY DEF After
<1>3. i \in DOMAIN b.list /\ b.list[i].l = a.list[i].l /\ b.list[i].r = a.list[i].r
  BY <1>1, <1>2 DEF Grown
<1> QED
  BY <1>2, <1>3 DEF Tried

\* conn_check_add_for_candidate pairs the remote candidate with every local one.
LEMMA AddForCandidateAdds ==
  ASSUME NEW x, NEW a \in Agent(x), NEW r, Component[r] \in Components
  PROVE  LET b == AddForCandidate(a, r) IN
         /\ \A l \in Range(a.local[Component[r]]) : Has(b, l, r)
         /\ b.local = a.local /\ b.ended = a.ended
<1> DEFINE c == Component[r]
           New(n) == NewPair(a, a.local[c][n], r, "FROZEN", FALSE)
           new == [n \in DOMAIN a.local[c] |-> New(n)]
           list == a.list \o new
           d == [a EXCEPT !.list = list]
           state == IF a.state[c] \in {"GATHERING", "CONNECTING"} THEN "CONNECTING"
                    ELSE "CONNECTED"
           b == AddForCandidate(a, r)
<1>1. b = ChangeState(d, c, state)
  BY DEF AddForCandidate
<1>2. a.list \in Seq(Pair(x)) /\ a.ended \in BOOLEAN /\ a.local[c] \in Seq(Own(x))
  BY DEF Agent
<1>3. \A n : New(n).l = a.local[c][n] /\ New(n).r = r /\ New(n).state # "FAILED"
  BY DEF NewPair
<1> HIDE DEF New
<1>4. /\ new \in Seq({New(n) : n \in DOMAIN a.local[c]}) /\ Len(new) = Len(a.local[c])
      /\ \A n \in 1..Len(a.local[c]) : new[n] = New(n)
  <2> DEFINE N == Len(a.local[c])
             V == {New(n) : n \in DOMAIN a.local[c]}
  <2>1. N \in Nat /\ DOMAIN a.local[c] = 1..N
    BY <1>2
  <2>2. new \in [1..N -> V]
    BY <2>1
  <2>3. \A n \in 1..N : new[n] = New(n)
    BY <2>1
  <2> HIDE DEF new, N, V
  <2>4. new \in Seq(V) /\ Len(new) = N
    BY <2>1, <2>2, Tuples
  <2> QED
    BY <2>3, <2>4 DEF N, V
<1> HIDE DEF new
<1>5. d.list = list /\ d.local = a.local /\ d.ended = a.ended
  BY DEF Agent
<1>6. b.list = list /\ b.local = a.local /\ b.ended = a.ended
  <2>1. state # "FAILED"
    OBVIOUS
  <2> HIDE DEF state
  <2> QED
    BY <1>1, <1>2, <1>5, <2>1 DEF ChangeState, Agent
<1>7. ASSUME NEW l \in Range(a.local[c]) PROVE Has(b, l, r)
  <2>1. PICK n \in DOMAIN a.local[c] : l = a.local[c][n]
    BY DEF Range
  <2>2. n \in 1..Len(new)
    BY <1>2, <1>4, <2>1
  <2>3. Len(a.list) + n \in DOMAIN list /\ list[Len(a.list) + n] = new[n]
    <3> DEFINE old == a.list
               W == Pair(x) \cup {New(k) : k \in DOMAIN a.local[c]}
    <3>1. old \in Seq(W) /\ new \in Seq(W)
      BY <1>2, <1>4, SeqMonotonic
    <3> HIDE DEF old, W
    <3>2. Len(old) \in Nat /\ Len(new) \in Nat
      BY <3>1
    <3>3. Len(old \o new) = Len(old) + Len(new) /\ old \o new \in Seq(W)
      BY <3>1
    <3>4. DOMAIN (old \o new) = 1..(Len(old) + Len(new))
      BY <3>3
    <3>5. /\ Len(old) + n \in 1..(Len(old) + Len(new)) /\ ~(Len(old) + n <= Len(old))
          /\ (Len(old) + n) - Len(old) = n
      BY <2>2, <3>2
    <3>6. (old \o new)[Len(old) + n] = new[n]
      BY <3>1, <3>2, <3>5
    <3> QED
      BY <3>4, <3>5, <3>6 DEF old
  <2>4. list[Len(a.list) + n].l = l /\ list[Len(a.list) + n].r = r
        /\ list[Len(a.list) + n].state # "FAILED"
    BY <1>3, <1>4, <2>1, <2>2, <2>3, SMTT(60)
  <2> HIDE DEF list, b
  <2> QED
    BY <1>6, <2>3, <2>4 DEF Has
<1> HIDE DEF b
<1> QED
  BY <1>6, <1>7 DEF b

\* What there is to try when the candidates have been set: each with every local candidate.
Offers(a, rs, b) ==
  /\ b.local = a.local /\ b.ended = a.ended
  /\ \A j \in DOMAIN rs : \A l \in Range(a.local[Component[rs[j]]]) : Has(b, l, rs[j])

\* The loop of nice_agent_set_remote_candidates over the candidates it is given.
LEMMA AddRemoteCandidatesKeeps ==
  ASSUME NEW o, NEW E, NEW x, NEW z \in Agent(x), NEW a \in After(o, x, z, {}, E),
         NEW rs \in Seq(Addresses), \A i \in DOMAIN rs : Component[rs[i]] <= z.told
  PROVE  AddRemoteCandidates(a, rs) \in After(o, x, z, {}, E)
         /\ Offers(a, rs, AddRemoteCandidates(a, rs))
<1> DEFINE S == After(o, x, z, {}, E)
           N == Len(rs)
           step == [i \in 1..N |-> [b \in S |-> AddRemoteCandidate(b, rs[i])]]
           k == CHOOSE k : k = [i \in 0..N |-> IF i = 0 THEN a
                                               ELSE AddRemoteCandidate(k[i - 1], rs[i])]
<1>1. \A i \in 1..N, b \in S : AddRemoteCandidate(b, rs[i]) \in S
  <2>1. \A i \in 1..N : rs[i] \in Addresses /\ Component[rs[i]] <= z.told
    OBVIOUS
  <2> QED
    BY <2>1, AddRemoteCandidateKeeps
<1>2. AddRemoteCandidates(a, rs) = k[N]
  BY DEF AddRemoteCandidates
<1> a \in S /\ N \in Nat
  OBVIOUS
<1> HIDE DEF S, N
<1>3. k = [i \in 0..N |-> IF i = 0 THEN a ELSE AddRemoteCandidate(k[i - 1], rs[i])]
  <2>1. step \in [1..N -> [S -> S]]
    BY <1>1
  <2>2. \A i \in 1..N, b \in S : step[i][b] = AddRemoteCandidate(b, rs[i])
    OBVIOUS
  <2> HIDE DEF step
  <2> Iterates(S, a, N, step)
    BY <2>1, Iteration
  <2>3. PICK f \in [0..N -> S] : f[0] = a /\ \A n \in 1..N : f[n] = step[n][f[n - 1]]
    BY DEF Iterates
  <2> DEFINE C(i) == IF i = 0 THEN a ELSE AddRemoteCandidate(f[i - 1], rs[i])
  <2>4. ASSUME NEW i \in 0..N PROVE f[i] = C(i)
    <3>1. CASE i = 0
      BY <2>3, <3>1
    <3>2. CASE i # 0
      <4>1. i \in 1..N /\ f[i - 1] \in S
        BY <2>3, <3>2
      <4> QED
        BY <2>2, <2>3, <3>2, <4>1
    <3> QED
      BY <3>1, <3>2
  <2> HIDE DEF C
  <2>5. f = [i \in 0..N |-> C(i)]
    BY <2>3, <2>4
  <2> QED
    BY <2>5 DEF C
<1> HIDE DEF k
<1>4. k[0] = a /\ \A i \in 1..N : k[i] = AddRemoteCandidate(k[i - 1], rs[i])
  BY <1>3
<1>5. \A b \in S : b \in Agent(x) /\ b \in After(o, x, b, {}, {}) /\ b.told = z.told
  <2> SUFFICES ASSUME NEW b \in S
               PROVE b \in Agent(x) /\ b \in After(o, x, b, {}, {}) /\ b.told = z.told
    OBVIOUS
  <2>1. b \in Agent(x) /\ Kept(o, b, {}) /\ Tidy(x, b) /\ b.told = z.told
    BY DEF S, After, Tried
  <2> QED
    BY <2>1, AfterItself
<1> DEFINE Made(n) == /\ k[n] \in S /\ k[n].local = a.local /\ k[n].ended = a.ended
                      /\ \A j \in 1..n : \A l \in Range(a.local[Component[rs[j]]]) :
                           Has(k[n], l, rs[j])
           T == {n \in Nat : n <= N => Made(n)}
<1>6. 0 \in T
  BY <1>4
<1>7. ASSUME NEW n \in T PROVE n + 1 \in T
  <2> SUFFICES ASSUME n + 1 <= N PROVE Made(n + 1)
    OBVIOUS
  <2> DEFINE b == k[n]
             r == rs[n + 1]
             d == k[n + 1]
  <2>1. n + 1 \in 1..N /\ (n + 1) - 1 = n /\ Made(n)
    BY <1>7
  <2>2. d = AddRemoteCandidate(b, r) /\ r \in Addresses /\ Component[r] <= z.told
    BY <1>4, <2>1 DEF N
  <2>3. b \in S /\ b.local = a.local /\ b.ended = a.ended /\ Component[r] \in Components
    BY <2>1, <2>2, AddressFacts
  <2>4. d \in S
    BY <1>1, <2>1, <2>2, <2>3
  <2> HIDE DEF r, d
  <2>5. d \in After(o, x, b, {}, {})
    BY <1>5, <2>2, <2>3, AddRemoteCandidateKeeps
  <2>6. /\ \A l \in Range(a.local[Component[r]]) : Has(d, l, r)
        /\ d.local = a.local /\ d.ended = a.ended
    <3> DEFINE prio == Rank(Type[r], 0, Component[r])
               e == Knows(b, r, prio)
    <3>1. e \in Agent(x)
      <4>1. Type[r] \in DOMAIN TypePreference /\ 0 \in Nat
        BY <2>2, CheckAssumption
      <4>2. prio \in Nat \ {0}
        BY <2>3, <4>1, Ranks
      <4>3. e \in After(o, x, b, {}, {})
        BY <1>5, <2>2, <2>3, <4>2, KnowsKeeps
      <4> QED
        BY <4>3 DEF After
    <3>2. e.local = b.local /\ e.ended = b.ended
      BY <1>5, <2>3 DEF Knows, Agent
    <3>3. d = AddForCandidate(e, r)
      BY <2>2 DEF AddRemoteCandidate
    <3> HIDE DEF e
    <3> QED
      BY <2>3, <3>1, <3>2, <3>3, AddForCandidateAdds
  <2>7. ASSUME NEW j \in 1..n, NEW l \in Range(a.local[Component[rs[j]]])
        PROVE  Has(d, l, rs[j])
    <3>1. PICK i \in DOMAIN b.list :
            b.list[i].l = l /\ b.list[i].r = rs[j] /\ b.list[i].state # "FAILED"
      BY <2>1 DEF Has
    <3> HIDE DEF b
    <3>2. b \in Agent(x)
      BY <1>5, <2>3
    <3> DEFINE none == {}
    <3>4. i \notin none /\ d \in After(o, x, b, none, none)
      BY <2>5
    <3> HIDE DEF none
    <3>3. i \in DOMAIN d.list /\ d.list[i].l = b.list[i].l /\ d.list[i].r = b.list[i].r
          /\ d.list[i].state # "FAILED"
      BY <3>1, <3>2, <3>4, StillThere
    <3> QED
      BY <3>1, <3>3 DEF Has
  <2>8. \A j \in 1..n+1 : j \in 1..n \/ j = n + 1
    OBVIOUS
  <2>9. \A j \in 1..n+1 : \A l \in Range(a.local[Component[rs[j]]]) : Has(d, l, rs[j])
    <3> HIDE DEF b
    <3> QED
      BY <2>6, <2>7, <2>8 DEF r
  <2> HIDE DEF b
  <2> QED
    BY <2>4, <2>6, <2>9 DEF d
<1> HIDE DEF Made
<1>8. T = Nat
  <2> HIDE DEF T
  <2>1. T \in SUBSET Nat
    BY DEF T
  <2> QED
    BY <1>6, <1>7, <2>1, SetInduction
<1>9. Made(N)
  <2>1. N \in T
    BY <1>8
  <2> QED
    BY <2>1
<1> USE DEF Made
<1>10. DOMAIN rs = 1..N
  BY DEF N
<1> QED
  BY <1>2, <1>9, <1>10 DEF S, Offers

\* A check that came before the candidates.
Early(x) == [from : Addresses, socket : Own(x), use : BOOLEAN]

\* A stored check triggers one for the pair it is compared with.
LEMMA EarlyMatchKeeps ==
  ASSUME NEW o, NEW E, NEW x, NEW z \in Agent(x),
         NEW a \in After(o, x, z, {}, E), NEW k \in Early(x),
         NEW c \in Components, NEW p, p.r \in DOMAIN z.remote, p.l \in Addresses,
         Component[p.l] = Component[p.r]
  PROVE  EarlyMatch(a, k, c, p) \in After(o, x, z, {}, E)
<1> DEFINE r == p.r
           s == k.socket
           use == k.use
           b == IF use THEN MarkNominated(a, c, r) ELSE a
<1>1. s \in Own(x) /\ use \in BOOLEAN
  BY DEF Early
<1>2. EarlyMatch(a, k, c, p) = IF k.from = p.r /\ k.socket = SocketAt[p.l]
                               THEN Triggered(b, s, r, use) ELSE a
  BY DEF EarlyMatch
<1> r \in DOMAIN z.remote
  OBVIOUS
<1>6. k.socket = SocketAt[p.l] => Component[s] = Component[r]
  BY CheckAssumption
<1> HIDE DEF r, s, use
<1>3. b \in After(o, x, z, {}, E)
  BY MarkNominatedKeeps
<1> HIDE DEF b
<1>4. r \in DOMAIN b.remote
  BY <1>3 DEF After, Grown
<1>5. ASSUME Component[s] = Component[r]
      PROVE  Triggered(b, s, r, use) \in After(o, x, z, {}, E)
  BY <1>1, <1>3, <1>4, <1>5, TriggeredKeeps
<1> QED
  BY <1>2, <1>5, <1>6

\* A stored check of an unknown address makes a candidate of it.
LEMMA EarlyLearnKeeps ==
  ASSUME NEW o, NEW E, NEW x, NEW z \in Agent(x), NEW k \in Early(x),
         Component[k.from] <= z.told, Component[k.socket] = Component[k.from],
         NEW d \in [agent : After(o, x, z, {}, E), match : BOOLEAN]
  PROVE  EarlyLearn(d, k) \in [agent : After(o, x, z, {}, E), match : BOOLEAN]
<1> DEFINE S == After(o, x, z, {}, E)
           s == k.socket
           r == k.from
           use == k.use
           b == Learn(d.agent, r)
           t == Triggered(b, s, r, use)
<1>1. /\ s \in Own(x) /\ r \in Addresses /\ use \in BOOLEAN
      /\ Component[r] <= z.told /\ Component[s] = Component[r]
  BY DEF Early
<1>2. EarlyLearn(d, k) = IF d.match \/ r \in DOMAIN d.agent.remote
                         THEN [d EXCEPT !.match = TRUE] ELSE [d EXCEPT !.agent = t]
  BY DEF EarlyLearn
<1> HIDE DEF s, r, use
<1>3. b \in S /\ r \in DOMAIN b.remote
  BY <1>1, LearnKeeps
<1> HIDE DEF b
<1>4. t \in S
  BY <1>1, <1>3, TriggeredKeeps
<1> HIDE DEF t, S
<1>5. d \in [agent : S, match : BOOLEAN]
  BY DEF S
<1>6. [d EXCEPT !.match = TRUE] \in [agent : S, match : BOOLEAN]
  BY <1>5
<1>7. [d EXCEPT !.agent = t] \in [agent : S, match : BOOLEAN]
  BY <1>4, <1>5
<1> QED
  BY <1>2, <1>6, <1>7 DEF S

\* The stored checks of one component, one loop after the other.
LEMMA EarlyChecksKeeps ==
  ASSUME NEW o, NEW E, NEW x, NEW z \in Agent(x),
         NEW a \in After(o, x, z, {}, E), NEW c \in Components
  PROVE  EarlyChecks(a, c) \in After(o, x, z, {}, E)
<1> DEFINE S == After(o, x, a, {}, E)
           pairs == {i \in DOMAIN a.list : Of(c, a.list[i])}
           p == a.list[First(pairs)]
           checks == a.stored[c]
           N == Len(checks)
           matched == CHOOSE k : k = [i \in 0..N |-> IF i = 0 THEN a
                                                     ELSE EarlyMatch(k[i - 1], checks[i], c, p)]
           D == [agent : S, match : BOOLEAN]
           e == [agent |-> matched[N], match |-> FALSE]
           learnt == CHOOSE k : k = [i \in 0..N |-> IF i = 0 THEN e
                                                    ELSE EarlyLearn(k[i - 1], checks[i])]
<1>1. a \in Agent(x) /\ Kept(o, a, {}) /\ Tidy(x, a)
  BY DEF After
<1>2. a.list \in Seq(Pair(x)) /\ a.stored \in [Components -> Seq(Early(x))]
  BY <1>1 DEF Agent, Early
<1>3. /\ a \in S /\ N \in Nat
      /\ \A i \in 1..N : /\ checks[i] \in Early(x) /\ Component[checks[i].from] = c
                         /\ Component[checks[i].socket] = c
  <2>1. a \in S
    BY <1>1, AfterItself
  <2>2. checks \in Seq(Early(x))
    BY <1>2
  <2>4. \A k \in Range(checks) : Component[k.from] = c /\ Component[k.socket] = c
    BY <1>1 DEF Tidy
  <2> HIDE DEF checks, S
  <2>3. /\ N \in Nat
        /\ \A i \in 1..N : /\ checks[i] \in Early(x) /\ Component[checks[i].from] = c
                           /\ Component[checks[i].socket] = c
    BY <2>2, <2>4 DEF Range
  <2> QED
    BY <2>1, <2>3
<1>4. EarlyChecks(a, c) = IF pairs = {} THEN a
                          ELSE [learnt[N].agent EXCEPT !.stored[c] = <<>>]
  BY DEF EarlyChecks
<1>5. ASSUME pairs # {}
      PROVE  /\ p.r \in DOMAIN a.remote /\ p.l \in Addresses /\ Component[p.l] = Component[p.r]
             /\ c <= a.told
  <2>1. pairs \in SUBSET Nat /\ pairs \subseteq DOMAIN a.list
    BY <1>2
  <2>2. First(pairs) \in pairs
    <3> HIDE DEF pairs
    <3> QED
      BY <1>5, <2>1, FirstIn
  <2>3. First(pairs) \in DOMAIN a.list /\ Component[p.l] = c
    BY <2>2 DEF Of
  <2> HIDE DEF pairs
  <2>4. p \in Pair(x)
    BY <1>2, <2>3
  <2>5. p.l \in Addresses
    BY <2>4 DEF Pair, Own
  <2> QED
    BY <1>1, <2>3, <2>5 DEF Kept, Tidy
<1> HIDE DEF pairs, p, checks, N, S, D, e
<1>6. ASSUME pairs # {} PROVE matched[N] \in S
  <2> DEFINE step == [i \in 1..N |-> [b \in S |-> EarlyMatch(b, checks[i], c, p)]]
             k == matched
  <2>1. \A i \in 1..N, b \in S : EarlyMatch(b, checks[i], c, p) \in S
    BY <1>1, <1>3, <1>5, <1>6, EarlyMatchKeeps DEF S
  <2> a \in S /\ N \in Nat
    BY <1>3
  <2>2. k = [i \in 0..N |-> IF i = 0 THEN a ELSE EarlyMatch(k[i - 1], checks[i], c, p)]
    <3>1. step \in [1..N -> [S -> S]]
      BY <2>1
    <3>2. \A i \in 1..N, b \in S : step[i][b] = EarlyMatch(b, checks[i], c, p)
      OBVIOUS
    <3> HIDE DEF step
    <3> Iterates(S, a, N, step)
      BY <3>1, Iteration
    <3>3. PICK f \in [0..N -> S] : f[0] = a /\ \A n \in 1..N : f[n] = step[n][f[n - 1]]
      BY DEF Iterates
    <3> DEFINE C(i) == IF i = 0 THEN a ELSE EarlyMatch(f[i - 1], checks[i], c, p)
    <3>4. ASSUME NEW i \in 0..N PROVE f[i] = C(i)
      <4>1. CASE i = 0
        BY <3>3, <4>1
      <4>2. CASE i # 0
        <5>1. i \in 1..N /\ f[i - 1] \in S
          BY <3>3, <4>2
        <5> QED
          BY <3>2, <3>3, <4>2, <5>1
      <4> QED
        BY <4>1, <4>2
    <3> HIDE DEF C
    <3>5. f = [i \in 0..N |-> C(i)]
      BY <3>3, <3>4
    <3> QED
      BY <3>5 DEF C
  <2> HIDE DEF k
  <2>3. k[0] = a /\ \A i \in 1..N : k[i] = EarlyMatch(k[i - 1], checks[i], c, p)
    BY <2>2
  <2>4. k[0] \in S /\ \A n \in 1..N : k[n - 1] \in S => k[n] \in S
    BY <2>1, <2>3
  <2>5. k[N] \in S
    BY <2>4, Repeated
  <2> QED
    BY <2>5 DEF k
<1> HIDE DEF matched
<1>7. ASSUME pairs # {} PROVE learnt[N] \in D
  <2> DEFINE step == [i \in 1..N |-> [d \in D |-> EarlyLearn(d, checks[i])]]
             k == learnt
  <2>1. \A i \in 1..N, d \in D : EarlyLearn(d, checks[i]) \in D
    BY <1>1, <1>3, <1>5, <1>7, EarlyLearnKeeps DEF S, D
  <2> e \in D /\ N \in Nat
    BY <1>3, <1>6, <1>7 DEF D, e
  <2>2. k = [i \in 0..N |-> IF i = 0 THEN e ELSE EarlyLearn(k[i - 1], checks[i])]
    <3>1. step \in [1..N -> [D -> D]]
      BY <2>1
    <3>2. \A i \in 1..N, d \in D : step[i][d] = EarlyLearn(d, checks[i])
      OBVIOUS
    <3> HIDE DEF step
    <3> Iterates(D, e, N, step)
      BY <3>1, Iteration
    <3>3. PICK f \in [0..N -> D] : f[0] = e /\ \A n \in 1..N : f[n] = step[n][f[n - 1]]
      BY DEF Iterates
    <3> DEFINE C(i) == IF i = 0 THEN e ELSE EarlyLearn(f[i - 1], checks[i])
    <3>4. ASSUME NEW i \in 0..N PROVE f[i] = C(i)
      <4>1. CASE i = 0
        BY <3>3, <4>1
      <4>2. CASE i # 0
        <5>1. i \in 1..N /\ f[i - 1] \in D
          BY <3>3, <4>2
        <5> QED
          BY <3>2, <3>3, <4>2, <5>1
      <4> QED
        BY <4>1, <4>2
    <3> HIDE DEF C
    <3>5. f = [i \in 0..N |-> C(i)]
      BY <3>3, <3>4
    <3> QED
      BY <3>5 DEF C
  <2> HIDE DEF k
  <2>3. k[0] = e /\ \A i \in 1..N : k[i] = EarlyLearn(k[i - 1], checks[i])
    BY <2>2
  <2>4. k[0] \in D /\ \A n \in 1..N : k[n - 1] \in D => k[n] \in D
    BY <2>1, <2>3
  <2>5. k[N] \in D
    BY <2>4, Repeated
  <2> QED
    BY <2>5 DEF k
<1> HIDE DEF learnt
<1>8. ASSUME pairs # {} PROVE [learnt[N].agent EXCEPT !.stored[c] = <<>>] \in S
  <2> DEFINE b == learnt[N].agent
             stored == [b.stored EXCEPT ![c] = <<>>]
             d == [b EXCEPT !.stored = stored]
  <2>1. b \in S
    BY <1>7, <1>8 DEF D
  <2> HIDE DEF b
  <2>2. b \in Agent(x)
    BY <2>1 DEF S, After
  <2>3. /\ stored \in [Components -> Seq(Early(x))]
        /\ \A k \in Components : stored[k] = IF k = c THEN <<>> ELSE b.stored[k]
    <3>1. b.stored \in [Components -> Seq(Early(x))]
      BY <2>2 DEF Agent, Early
    <3> QED
      BY <3>1
  <2> HIDE DEF stored
  <2>4. d \in Agent(x)
    BY <2>2, <2>3 DEF Agent, Early
  <2>5. d.list = b.list /\ d.state = b.state /\ d.selected = b.selected /\ d.remote = b.remote
        /\ d.out = b.out /\ d.ctrl = b.ctrl /\ d.told = b.told /\ d.ended = b.ended
        /\ d.again = b.again /\ d.local = b.local /\ d.stored = stored
    BY <2>2 DEF Agent
  <2> HIDE DEF d
  <2>7. Tidy(x, d)
    <3>1. Tidy(x, b)
      BY <2>1 DEF S, After
    <3>2. \A i : Request(d, i) = Request(b, i)
      BY <2>5, SameRequest
    <3>3. \A j \in Components : \A k \in Range(stored[j]) :
            Component[k.from] = j /\ Component[k.socket] = j
      <4>1. Range(<<>>) = {}
        BY DEF Range
      <4> QED
        BY <2>3, <3>1, <4>1 DEF Tidy
    <3> QED
      BY <2>5, <3>1, <3>2, <3>3 DEF Tidy
  <2>6. d \in S
    BY <1>1, <2>1, <2>4, <2>5, <2>7, OthersKeep DEF S
  <2> QED
    BY <2>6 DEF d, stored, b
<1>9. EarlyChecks(a, c) \in S
  BY <1>3, <1>4, <1>8
<1> QED
  BY <1>9, AfterAnother DEF S

\* conn_check_remote_candidates_set: the loop over the components.
LEMMA RemoteCandidatesSetKeeps ==
  ASSUME NEW o, NEW E, NEW x, NEW z \in Agent(x), NEW a \in After(o, x, z, {}, E)
  PROVE  RemoteCandidatesSet(a) \in After(o, x, z, {}, E)
<1> DEFINE S == After(o, x, z, {}, E)
           N == NComponents
           step == [c \in 1..N |-> [b \in S |-> EarlyChecks(b, c)]]
           k == CHOOSE k : k = [c \in 0..N |-> IF c = 0 THEN a ELSE EarlyChecks(k[c - 1], c)]
<1>1. \A c \in 1..N, b \in S : EarlyChecks(b, c) \in S
  BY EarlyChecksKeeps DEF Components
<1>2. RemoteCandidatesSet(a) = k[N]
  BY DEF RemoteCandidatesSet
<1> a \in S /\ N \in Nat
  BY CheckAssumption
<1> HIDE DEF S, N
<1>3. k = [c \in 0..N |-> IF c = 0 THEN a ELSE EarlyChecks(k[c - 1], c)]
  <2>1. step \in [1..N -> [S -> S]]
    BY <1>1
  <2>2. \A c \in 1..N, b \in S : step[c][b] = EarlyChecks(b, c)
    OBVIOUS
  <2> HIDE DEF step
  <2> Iterates(S, a, N, step)
    BY <2>1, Iteration
  <2>3. PICK f \in [0..N -> S] : f[0] = a /\ \A n \in 1..N : f[n] = step[n][f[n - 1]]
    BY DEF Iterates
  <2> DEFINE C(c) == IF c = 0 THEN a ELSE EarlyChecks(f[c - 1], c)
  <2>4. ASSUME NEW c \in 0..N PROVE f[c] = C(c)
    <3>1. CASE c = 0
      BY <2>3, <3>1
    <3>2. CASE c # 0
      <4>1. c \in 1..N /\ f[c - 1] \in S
        BY <2>3, <3>2
      <4> QED
        BY <2>2, <2>3, <3>2, <4>1
    <3> QED
      BY <3>1, <3>2
  <2> HIDE DEF C
  <2>5. f = [c \in 0..N |-> C(c)]
    BY <2>3, <2>4
  <2> QED
    BY <2>5 DEF C
<1> HIDE DEF k
<1>4. k[N] \in S
  <2>1. k[0] = a /\ \A c \in 1..N : k[c] = EarlyChecks(k[c - 1], c)
    BY <1>3
  <2>2. k[0] \in S /\ \A n \in 1..N : k[n - 1] \in S => k[n] \in S
    BY <1>1, <2>1
  <2> QED
    BY <2>2, Repeated
<1> QED
  BY <1>2, <1>4 DEF S

-----------------------------------------------------------------------------
(* The answer to a check                                                   *)

\* Agent a has become b through g, in which the check over pair i is over and has left a pair
\* over the same way that has not failed; nothing fails after that.
Answers(o, x, a, i, J, b) ==
  \E g \in Agent(x) :
    /\ b \in After(o, x, g, J, {})
    /\ g.told = a.told /\ g.ended = a.ended /\ g.out = a.out
    /\ \A k \in DOMAIN a.list :
         /\ k \in DOMAIN g.list /\ g.list[k].l = a.list[k].l /\ g.list[k].r = a.list[k].r
         /\ k # i => g.list[k].state = a.list[k].state
    /\ \A k \in DOMAIN g.list :
         g.list[k].state = "IN_PROGRESS" => k # i /\ k \in DOMAIN a.list
    /\ \E j \in DOMAIN g.list :
         /\ g.list[j].r = a.list[i].r /\ SocketAt[g.list[j].l] = SocketAt[a.list[i].l]
         /\ Component[g.list[j].l] = Component[a.list[i].l] /\ g.list[j].state # "FAILED"

\* A pair that is answered has been tried, and so has the one it may stand for.
LEMMA AnsweredKeeps ==
  ASSUME NEW o, NEW E, NEW x, NEW z \in Agent(x),
         NEW a \in After(o, x, z, {}, E), NEW i \in DOMAIN a.list,
         NEW m, m.mapped \in Addresses, SocketAt[m.mapped] = SocketAt[a.list[i].l],
         Works(o, a.list[i].l, a.list[i].r), i \in E
  PROVE  Answered(a, i, m) \in After(o, x, z, {}, E) /\ Answers(o, x, a, i, {}, Answered(a, i, m))
<1> DEFINE p == a.list[i]
           c == Component[p.l]
           known == m.mapped \in Range(a.local[c]) \cup Reflexive(Owner(SocketAt[p.l]), c)
           state == IF known THEN "SUCCEEDED" ELSE "FAILED"
           q == [p EXCEPT !.state = state, !.tx = 0]
           b == [a EXCEPT !.list = [a.list EXCEPT ![i] = q]]
           discovered == [l |-> m.mapped, r |-> p.r, state |-> "DISCOVERED", nom |-> FALSE,
                          tx |-> 0,
                          prio |-> InRole(a.ctrl, LocalRank(m.mapped), p.prio % Word)]
           list == Append(b.list, discovered)
           local == [b.local EXCEPT ![c] = Append(b.local[c], m.mapped)]
           d == IF known THEN UnfreezeRelated(b, i)
                ELSE [b EXCEPT !.local = local, !.list = list]
           ok == IF known THEN i ELSE Len(d.list)
           e == IF a.state[c] = "READY" THEN d ELSE ChangeState(d, c, "CONNECTED")
           f == IF d.list[ok].nom THEN UpdateSelected(e, ok) ELSE e
           S(J) == After(o, x, a, J, E)
<1>1. a \in Agent(x) /\ Kept(o, a, {}) /\ Tidy(x, a)
  BY DEF After
<1>2. a.list \in Seq(Pair(x)) /\ a.ctrl \in BOOLEAN
  BY <1>1 DEF Agent
<1>3. a \in S({})
  BY <1>1, AfterItself
<1>4. p \in Pair(x)
  BY <1>2
<1>5. /\ p.l \in Own(x) /\ p.l \in Addresses /\ p.r \in Addresses /\ p.prio \in Nat
      /\ m.mapped \in Own(x) /\ c \in Components
      /\ Component[m.mapped] = c /\ Component[p.r] = c
  <2>1. p.l \in Own(x) /\ p.r \in Addresses /\ p.prio \in Nat
    BY <1>4 DEF Pair
  <2>2. Component[m.mapped] = c
    <3>1. p.l \in Addresses /\ SocketAt[m.mapped] = SocketAt[p.l]
      BY <2>1 DEF Own
    <3> QED
      BY <3>1, CheckAssumption
  <2>3. Component[p.r] = c
    BY <1>1 DEF Tidy
  <2> HIDE DEF c, p
  <2>4. p.l \in Addresses /\ m.mapped \in Own(x)
    BY <2>1 DEF Own, p
  <2>5. c \in Components
    BY <2>4, AddressFacts DEF c
  <2> QED
    BY <2>1, <2>2, <2>3, <2>4, <2>5
<1>6. Works(o, p.l, p.r) /\ Works(o, m.mapped, p.r)
  BY DEF Works
<1>7. Answered(a, i, m) = StateForReady(f, c)
  BY SMTT(60) DEF Answered
<1>8. /\ d \in S({ok}) /\ ok \in DOMAIN d.list /\ Works(o, d.list[ok].l, d.list[ok].r)
      /\ Answers(o, x, a, i, {ok}, d)
  <2>1. CASE known
    <3>1. q \in Pair(x) /\ q.l = p.l /\ q.r = p.r /\ q.state = "SUCCEEDED"
      <4> DEFINE t == [p EXCEPT !.state = "SUCCEEDED"]
                 n == 0
      <4>1. t \in Pair(x) /\ t.l = p.l /\ t.r = p.r /\ t.state = "SUCCEEDED" /\ n \in Int
        BY <1>4 DEF Pair
      <4>2. q = [t EXCEPT !.tx = n]
        BY <2>1
      <4> HIDE DEF t, n, q, p
      <4> QED
        BY <4>1, <4>2 DEF Pair
    <3> HIDE DEF q
    <3>2. b \in S({i})
      BY <1>1, <1>3, <1>6, <3>1, OnePairChanges DEF Calm
    <3>7. b.list = [a.list EXCEPT ![i] = q] /\ b.told = a.told /\ b.ended = a.ended
          /\ b.out = a.out
      BY <1>1 DEF Agent
    <3> HIDE DEF b
    <3>3. d = UnfreezeRelated(b, i) /\ ok = i
      BY <2>1
    <3> HIDE DEF d, ok, known
    <3>8. d \in After(o, x, b, {ok}, {})
      <4>1. b \in Agent(x) /\ Kept(o, b, {i}) /\ Tidy(x, b)
        BY <3>2 DEF After
      <4>2. b \in After(o, x, b, {i}, {})
        BY <4>1, AfterItself
      <4> QED
        BY <3>3, <4>1, <4>2, UnfreezeKeeps
    <3>9. /\ DOMAIN b.list = DOMAIN a.list
          /\ \A k \in DOMAIN a.list : b.list[k] = IF k = i THEN q ELSE a.list[k]
      BY <1>2, <3>7
    <3>10. Answers(o, x, a, i, {ok}, d)
      <4>1. b \in Agent(x)
        BY <3>2 DEF After
      <4>2. \A k \in DOMAIN a.list :
              /\ k \in DOMAIN b.list /\ b.list[k].l = a.list[k].l /\ b.list[k].r = a.list[k].r
              /\ k # i => b.list[k].state = a.list[k].state
        BY <3>1, <3>9
      <4>3. \A k \in DOMAIN b.list :
              b.list[k].state = "IN_PROGRESS" => k # i /\ k \in DOMAIN a.list
        BY <3>1, <3>9
      <4>4. /\ i \in DOMAIN b.list
            /\ b.list[i].r = a.list[i].r /\ SocketAt[b.list[i].l] = SocketAt[a.list[i].l]
            /\ Component[b.list[i].l] = Component[a.list[i].l] /\ b.list[i].state # "FAILED"
        BY <3>1, <3>9
      <4> HIDE DEF p
      <4> QED
        BY <3>7, <3>8, <4>1, <4>2, <4>3, <4>4 DEF Answers
    <3>4. d \in S({ok})
      BY <1>1, <3>2, <3>3, UnfreezeKeeps
    <3>5. Len(a.list) <= Len(d.list) /\ d.list \in Seq(Pair(x))
          /\ d.list[i].l = p.l /\ d.list[i].r = p.r
      BY <3>4 DEF After, Agent, Grown
    <3>6. ok \in DOMAIN d.list
      BY <1>2, <3>3, <3>5
    <3> QED
      BY <1>6, <3>3, <3>4, <3>5, <3>6, <3>10
  <2>2. CASE ~known
    <3>1. Drops(x, p, q) /\ q.state = "FAILED"
      <4> DEFINE t == [p EXCEPT !.state = "FAILED", !.tx = 0]
      <4>1. q = t
        BY <2>2, SMTT(60)
      <4> HIDE DEF p, q
      <4>2. Drops(x, p, t) /\ t.state = "FAILED"
        BY <1>4, PairFields, PairStates
      <4> QED
        BY <4>1, <4>2
    <3>2. [a.list EXCEPT ![i] = q] \in Seq(Pair(x)) /\ Len([a.list EXCEPT ![i] = q]) = Len(a.list)
          /\ \A j \in DOMAIN a.list : [a.list EXCEPT ![i] = q][j] = IF j = i THEN q ELSE a.list[j]
      <4> HIDE DEF q
      <4> QED
        BY <1>1, <1>2, <3>1, PairChanges DEF Drops
    <3> HIDE DEF q
    <3>3. b \in S({})
      <4> DEFINE l == [a.list EXCEPT ![i] = q]
      <4>1. \A j \in DOMAIN a.list :
              /\ l[j] = a.list[j] \/ Drops(x, a.list[j], l[j])
              /\ Calm(E, j, a.list[j], l[j])
        BY <3>1, <3>2 DEF Calm
      <4>2. l \in Seq(Pair(x)) /\ Len(l) = Len(a.list)
        BY <3>2
      <4> HIDE DEF l, p
      <4>3. [a EXCEPT !.list = l] \in S({})
        BY <1>1, <1>3, <4>1, <4>2, ListChanges
      <4> QED
        BY <4>3 DEF l
    <3> DEFINE b2 == [b EXCEPT !.local = local]
    <3>4. d = [b2 EXCEPT !.list = list] /\ ok = Len(d.list)
      BY <2>2
    <3>5. b.list = [a.list EXCEPT ![i] = q] /\ b.remote = a.remote /\ b.told = a.told
          /\ b.ended = a.ended /\ b.out = a.out
      BY <1>1 DEF Agent
    <3>6. b \in Agent(x)
      BY <3>3 DEF After
    <3> HIDE DEF b
    <3>7. discovered \in Pair(x)
      <4>1. p.prio % Word \in Nat
        BY <1>5 DEF Word
      <4>2. LocalRank(m.mapped) \in Nat \ {0}
        BY Ranks
      <4>3. InRole(a.ctrl, LocalRank(m.mapped), p.prio % Word) \in Nat \ {0}
        BY <1>2, <4>1, <4>2, PairPriorities
      <4> HIDE DEF p
      <4> QED
        BY <1>5, <4>3 DEF Pair
    <3>8. discovered.l = m.mapped /\ discovered.r = p.r /\ discovered.state = "DISCOVERED"
      OBVIOUS
    <3> HIDE DEF discovered
    <3>9. /\ local \in [Components -> Seq(Own(x))]
          /\ \A k \in Components : Range(local[k]) = IF k = c THEN Range(b.local[k]) \cup {m.mapped}
                                                     ELSE Range(b.local[k])
      <4>1. b.local \in [Components -> Seq(Own(x))]
        BY <3>6 DEF Agent
      <4> HIDE DEF c
      <4>2. Append(b.local[c], m.mapped) \in Seq(Own(x))
            /\ Range(Append(b.local[c], m.mapped)) = Range(b.local[c]) \cup {m.mapped}
        <5>1. b.local[c] \in Seq(Own(x))
          BY <1>5, <4>1
        <5> DEFINE s == b.local[c]
                   t == Append(s, m.mapped)
        <5>2. /\ t \in Seq(Own(x)) /\ Len(t) = Len(s) + 1 /\ Len(s) \in Nat
              /\ DOMAIN t = 1..Len(t) /\ DOMAIN s = 1..Len(s)
              /\ \A k \in 1..Len(s) : t[k] = s[k]
              /\ t[Len(s) + 1] = m.mapped
          BY <1>5, <5>1
        <5> HIDE DEF s, t
        <5>3. Range(t) = Range(s) \cup {m.mapped}
          BY <5>2 DEF Range
        <5> QED
          BY <5>2, <5>3 DEF s, t
      <4> QED
        BY <1>5, <4>1, <4>2
    <3> HIDE DEF local
    <3>10. /\ b2 \in S({}) /\ b2.list = b.list /\ b2.remote = b.remote /\ b2.told = b.told
           /\ b2.ended = b.ended /\ b2.out = b.out
      <4>1. b2 \in Agent(x)
        BY <3>6, <3>9 DEF Agent
      <4>2. b2.list = b.list /\ b2.remote = b.remote /\ b2.state = b.state
            /\ b2.selected = b.selected /\ b2.out = b.out /\ b2.ctrl = b.ctrl
            /\ b2.told = b.told /\ b2.ended = b.ended /\ b2.again = b.again
            /\ b2.stored = b.stored /\ b2.local = local
        BY <3>6 DEF Agent
      <4> HIDE DEF b2
      <4>3. Tidy(x, b)
        BY <3>3 DEF After
      <4>4. Tidy(x, b2)
        <5>1. \A k : Request(b2, k) = Request(b, k)
          BY <4>2, SameRequest
        <5>2. \A k \in Components :
                /\ Range(Gathered[x][k]) \subseteq Range(local[k])
                /\ \A l \in Range(local[k]) : Component[l] = k
          <6> HIDE DEF c, p
          <6>1. Component[m.mapped] = c
            BY <1>5
          <6>2. \A k \in Components :
                  /\ Range(Gathered[x][k]) \subseteq Range(b.local[k])
                  /\ \A l \in Range(b.local[k]) : Component[l] = k
            BY <4>3 DEF Tidy
          <6>3. \A k \in Components :
                  /\ k = c => Range(local[k]) = Range(b.local[k]) \cup {m.mapped}
                  /\ k # c => Range(local[k]) = Range(b.local[k])
            BY <3>9
          <6>4. ASSUME NEW k \in Components
                PROVE  /\ Range(Gathered[x][k]) \subseteq Range(local[k])
                       /\ \A l \in Range(local[k]) : Component[l] = k
            BY <6>1, <6>2, <6>3
          <6> QED
            BY <6>4
        <5> QED
          BY <4>2, <4>3, <5>1, <5>2 DEF Tidy
      <4> QED
        BY <1>1, <3>3, <4>1, <4>2, <4>4, OthersKeep
    <3>11. /\ list \in Seq(Pair(x)) /\ Len(list) = Len(b.list) + 1 /\ Len(b.list) \in Nat
           /\ \A j \in DOMAIN b.list : list[j] = b.list[j]
           /\ \A j \in DOMAIN list \ DOMAIN b.list : j = Len(list) /\ list[j] = discovered
           /\ list[Len(list)] = discovered
           /\ DOMAIN b.list = DOMAIN a.list /\ DOMAIN list = DOMAIN a.list \cup {Len(list)}
           /\ Len(list) \notin DOMAIN a.list
      BY <1>2, <3>2, <3>5, <3>7
    <3> HIDE DEF list, b2
    <3>12. d.list = list /\ d.told = b2.told /\ d.ended = b2.ended /\ d.out = b2.out
      BY <3>4, <3>10 DEF After, Agent
    <3> HIDE DEF d, ok
    <3>13. p.r \in DOMAIN a.remote
      BY <1>1 DEF Kept
    <3> HIDE DEF p, known
    <3>14. [b2 EXCEPT !.list = list] \in S({ok})
      <4>1. \A j \in DOMAIN list \ DOMAIN b2.list :
              /\ list[j].r \in DOMAIN b2.remote
              /\ Valid(list[j]) => j \in {ok} /\ Works(o, list[j].l, list[j].r)
              /\ Component[list[j].l] = Component[list[j].r]
              /\ list[j].state # "FAILED" /\ list[j].state # "IN_PROGRESS"
        BY <1>5, <1>6, <3>4, <3>5, <3>8, <3>10, <3>11, <3>12, <3>13
      <4>2. Len(b2.list) <= Len(list) /\ \A j \in DOMAIN b2.list : list[j] = b2.list[j]
        BY <3>10, <3>11
      <4> QED
        BY <1>1, <3>10, <3>11, <4>1, <4>2, ListGrows
    <3>15. ok \in DOMAIN d.list /\ d.list[ok] = discovered
      BY <3>4, <3>11, <3>12
    <3>16. d \in S({ok})
      BY <3>4, <3>14
    <3>17. Answers(o, x, a, i, {ok}, d)
      <4>1. d \in Agent(x) /\ Kept(o, d, {ok}) /\ Tidy(x, d)
        BY <3>16 DEF After
      <4>2. d \in After(o, x, d, {ok}, {})
        BY <4>1, AfterItself
      <4>3. \A k \in DOMAIN a.list : list[k] = IF k = i THEN q ELSE a.list[k]
        BY <3>2, <3>5, <3>11
      <4>4. \A k \in DOMAIN a.list :
              /\ k \in DOMAIN d.list /\ d.list[k].l = a.list[k].l /\ d.list[k].r = a.list[k].r
              /\ k # i => d.list[k].state = a.list[k].state
        BY <3>1, <3>11, <3>12, <4>3 DEF Drops, p
      <4>5. \A k \in DOMAIN d.list :
              d.list[k].state = "IN_PROGRESS" => k # i /\ k \in DOMAIN a.list
        BY <3>1, <3>8, <3>11, <3>12, <4>3
      <4>6. d.told = a.told /\ d.ended = a.ended /\ d.out = a.out
        BY <3>5, <3>10, <3>12
      <4>7. /\ ok \in DOMAIN d.list
            /\ d.list[ok].r = a.list[i].r /\ SocketAt[d.list[ok].l] = SocketAt[a.list[i].l]
            /\ Component[d.list[ok].l] = Component[a.list[i].l] /\ d.list[ok].state # "FAILED"
        BY <1>5, <3>8, <3>15 DEF p, c
      <4> QED
        BY <4>1, <4>2, <4>4, <4>5, <4>6, <4>7 DEF Answers
    <3> QED
      BY <1>6, <3>4, <3>8, <3>15, <3>16, <3>17
  <2> QED
    BY <2>1, <2>2
<1> HIDE DEF d, ok, known, p
<1>9. ASSUME NEW y \in Agent(x), NEW F, d \in After(o, x, y, {ok}, F)
      PROVE  StateForReady(f, c) \in After(o, x, y, {}, F)
  <2>1. e \in After(o, x, y, {ok}, F) /\ e.list = d.list
    <3> DEFINE connected == "CONNECTED"
    <3>1. connected \in {"GATHERING", "CONNECTING", "CONNECTED", "READY", "FAILED"}
          /\ connected # "READY" /\ connected # "FAILED"
      OBVIOUS
    <3>2. ChangeState(d, c, "CONNECTED") = ChangeState(d, c, connected)
      OBVIOUS
    <3> HIDE DEF connected, c
    <3>3. ChangeState(d, c, connected) \in After(o, x, y, {ok}, F)
      BY <1>5, <1>9, <3>1, ChangeStateKeeps
    <3>4. ChangeState(d, c, connected).list = d.list
      BY <1>9 DEF ChangeState, After, Agent
    <3> QED
      BY <1>9, <3>2, <3>3, <3>4
  <2> HIDE DEF e, c
  <2>2. f \in After(o, x, y, {}, F)
    <3>1. CASE d.list[ok].nom
      <4>1. UpdateSelected(e, ok) \in After(o, x, y, {}, F)
        BY <1>8, <2>1, UpdateSelectedKeeps
      <4> QED
        BY <3>1, <4>1
    <3>2. CASE ~d.list[ok].nom
      <4>1. Kept(o, e, {ok}) /\ Grown(y, e) /\ e \in Agent(x) /\ Tidy(x, e) /\ Tried(F, y, e)
        BY <2>1 DEF After
      <4>2. Kept(o, e, {})
        BY <2>1, <3>2, <4>1 DEF Kept
      <4> QED
        BY <3>2, <4>1, <4>2 DEF After
    <3> QED
      BY <3>1, <3>2
  <2> HIDE DEF f
  <2> QED
    BY <1>5, <2>2, StateForReadyKeeps
<1>10. StateForReady(f, c) \in S({})
  <2> HIDE DEF f, e, c
  <2> QED
    BY <1>1, <1>8, <1>9
<1>11. Answers(o, x, a, i, {}, StateForReady(f, c))
  <2> HIDE DEF f, e, c
  <2> QED
    BY <1>8, <1>9 DEF Answers
<1> HIDE DEF f, e, c
<1>12. StateForReady(f, c) \in After(o, x, z, {}, E)
  BY <1>10, AfterAnother
<1> QED
  BY <1>7, <1>11, <1>12

-----------------------------------------------------------------------------
(* The datagrams                                                           *)

\* The datagram m belongs to the transaction of socket s: a request goes over the pair it
\* names, and a response comes back over it, so the request had come through.
Stands(ag, o, m, s) ==
  /\ s \in Sockets
  /\ m.pair \in DOMAIN ag[Owner(s)].list
  /\ m.kind = "request" =>
       /\ s = m.from
       /\ m.from = SocketAt[ag[Owner(s)].list[m.pair].l]
       /\ m.to = ag[Owner(s)].list[m.pair].r
  /\ m.kind = "response" =>
       /\ s = SocketAt[m.to]
       /\ m.from = SocketAt[ag[Owner(s)].list[m.pair].r]
       /\ m.to = Seen[SocketAt[ag[Owner(s)].list[m.pair].l]] /\ m.mapped = m.to
       /\ <<SocketAt[ag[Owner(s)].list[m.pair].l], ag[Owner(s)].list[m.pair].r>> \in o

\* Whatever was lost: the agents between two handlers, and the datagrams on their way.
Sound ==
  /\ TypeOK
  /\ \A x \in Agents :
       /\ Kept(open, agents[x], {}) /\ Tidy(x, agents[x])
       /\ agents[x].out = {} /\ agents[x].again = {}
  /\ \A m \in net : <<m.from, m.to>> \in open /\ Stands(agents, open, m, m.owner)

\* A pair of the component over which datagrams pass has not failed.
Hope(o, a, c) ==
  \E i \in DOMAIN a.list :
    /\ Of(c, a.list[i]) /\ Promising(o, a.list[i].l, a.list[i].r)
    /\ a.list[i].state # "FAILED"

\* The components that the agent was told of and can reach, and what it gave up.
Hopeful(o, x, a) ==
  /\ \A c \in Components : c <= a.told /\ Reaches(x, c) => Hope(o, a, c)
  /\ a.ended => \E c \in Components : ~Reaches(x, c)

\* The pairs in progress that will be answered.
Running(o, a) ==
  {i \in DOMAIN a.list : /\ a.list[i].state = "IN_PROGRESS"
                         /\ Promising(o, a.list[i].l, a.list[i].r)}

\* What is kept when nothing is lost: the check over a pair that will be answered is on its
\* way, so it cannot be given up.
Hopes ==
  \A x \in Agents :
    /\ Hopeful(open, x, agents[x])
    /\ \A i \in Running(open, agents[x]) : InFlight(x, i)

\* The inductive invariant.
Inv == Sound /\ (lost = 0 => Hopes)

\* A transaction is still there when the check lists have grown.
LEMMA StandsStill ==
  ASSUME NEW ag, NEW o, NEW m, NEW s, Stands(ag, o, m, s), NEW new,
         \A i \in DOMAIN ag[Owner(s)].list :
           /\ i \in DOMAIN new[Owner(s)].list
           /\ new[Owner(s)].list[i].l = ag[Owner(s)].list[i].l
           /\ new[Owner(s)].list[i].r = ag[Owner(s)].list[i].r
  PROVE  Stands(new, o, m, s)
BY DEF Stands

\* A handler of x that makes b of it, out of z, which is x as it was but for the answers it
\* has to send: what it keeps and what it sends.
LEMMA DoneKeeps ==
  ASSUME Sound, NEW x \in Agents, NEW z \in Agent(x), NEW E, NEW b \in After(open, x, z, {}, E),
         z.list = agents[x].list,
         \A m \in z.out : m.kind = "response" /\ Stands(agents, open, m, SocketAt[m.to]),
         NEW rest \in SUBSET net, Done(x, b, rest), lost' \in 0..MaxLost
  PROVE  Sound'
<1> DEFINE d == [b EXCEPT !.out = {}, !.again = {}]
           Old(m) == IF Owner(m.owner) = x /\ m.pair \in b.again THEN [m EXCEPT !.stale = TRUE]
                     ELSE m
           New(m) == [kind |-> m.kind, from |-> m.from, to |-> m.to, use |-> m.use,
                      pair |-> m.pair, stale |-> m.stale, mapped |-> m.mapped,
                      owner |-> IF m.kind = "request" THEN m.from ELSE SocketAt[m.to]]
           Message == [ kind : {"request", "response"}, from : Addresses, to : Addresses,
                        use : BOOLEAN, pair : Nat, stale : BOOLEAN, mapped : Addresses,
                        owner : Sockets ]
<1>1. /\ agents' = [agents EXCEPT ![x] = d]
      /\ net' = {Old(m) : m \in rest}
               \cup {New(m) : m \in {q \in b.out : <<q.from, q.to>> \in open}}
      /\ open' = open
  BY DEF Done
<1>2. /\ DOMAIN agents = Agents /\ \A y \in Agents : agents[y] \in Agent(y)
      /\ net \subseteq Message
      /\ \A y \in Agents : /\ Kept(open, agents[y], {}) /\ Tidy(y, agents[y])
                            /\ agents[y].out = {} /\ agents[y].again = {}
      /\ \A m \in net : <<m.from, m.to>> \in open /\ Stands(agents, open, m, m.owner)
  BY DEF Sound, TypeOK
<1>3. b \in Agent(x) /\ Kept(open, b, {}) /\ Tidy(x, b) /\ Grown(z, b)
  BY DEF After
<1>4. /\ d \in Agent(x) /\ d.list = b.list /\ d.remote = b.remote /\ d.state = b.state
      /\ d.selected = b.selected /\ d.out = {} /\ d.again = {} /\ d.told = b.told
      /\ d.local = b.local /\ d.stored = b.stored
  BY <1>3 DEF Agent
<1> HIDE DEF d, Old, New
<1>5. Kept(open, d, {}) /\ Tidy(x, d)
  <2>1. Kept(open, d, {})
    BY <1>3, <1>4 DEF Kept
  <2>2. Tidy(x, d)
    BY <1>3, <1>4 DEF Tidy
  <2> QED
    BY <2>1, <2>2
<1>6. DOMAIN agents' = Agents /\ \A y \in Agents : agents'[y] = IF y = x THEN d ELSE agents[y]
  BY <1>1, <1>2
<1>7. \A y \in Agents :
        /\ agents'[y] \in Agent(y) /\ Kept(open, agents'[y], {}) /\ Tidy(y, agents'[y])
        /\ agents'[y].out = {} /\ agents'[y].again = {}
  BY <1>2, <1>4, <1>5, <1>6
<1>8. \A y \in Agents : \A i \in DOMAIN agents[y].list :
        /\ i \in DOMAIN agents'[y].list
        /\ agents'[y].list[i].l = agents[y].list[i].l
        /\ agents'[y].list[i].r = agents[y].list[i].r
  <2>1. \A i \in DOMAIN z.list :
          i \in DOMAIN d.list /\ d.list[i].l = z.list[i].l /\ d.list[i].r = z.list[i].r
    <3>1. z.list \in Seq(Pair(x)) /\ b.list \in Seq(Pair(x))
      BY <1>3 DEF Agent
    <3> QED
      BY <1>3, <1>4, <3>1 DEF Grown
  <2> QED
    BY <1>6, <2>1
<1>9. ASSUME NEW m, NEW s, Stands(agents, open, m, s) PROVE Stands(agents', open, m, s)
  <2>1. Owner(s) \in Agents
    BY <1>9, AddressFacts DEF Stands
  <2> QED
    BY <1>8, <1>9, <2>1, StandsStill, SMTT(60)
<1>10. ASSUME NEW m \in rest
       PROVE  /\ Old(m) \in Message /\ <<Old(m).from, Old(m).to>> \in open
              /\ Stands(agents', open, Old(m), Old(m).owner)
  <2>1. m \in Message /\ <<m.from, m.to>> \in open /\ Stands(agents', open, m, m.owner)
    BY <1>2, <1>9
  <2>2. /\ Old(m) \in Message /\ Old(m).kind = m.kind /\ Old(m).from = m.from
        /\ Old(m).to = m.to /\ Old(m).pair = m.pair /\ Old(m).mapped = m.mapped
        /\ Old(m).owner = m.owner
    BY <2>1 DEF Old
  <2> QED
    BY <2>1, <2>2 DEF Stands
<1>11. ASSUME NEW m \in b.out, <<m.from, m.to>> \in open
       PROVE  /\ New(m) \in Message /\ <<New(m).from, New(m).to>> \in open
              /\ Stands(agents', open, New(m), New(m).owner)
  <2>1. m \in Datagram
    BY <1>3 DEF Agent
  <2> DEFINE s == IF m.kind = "request" THEN m.from ELSE SocketAt[m.to]
  <2>2. Stands(agents', open, m, s)
    <3>1. CASE m \in z.out
      BY <1>9, <3>1, SMTT(60)
    <3>2. CASE m \notin z.out
      <4>1. Asks(b, m)
        BY <1>3, <3>2 DEF Grown
      <4>2. b.list[m.pair] \in Pair(x)
        <5>1. b.list \in Seq(Pair(x))
          BY <1>3 DEF Agent
        <5> QED
          BY <4>1, <5>1 DEF Asks
      <4>3. b.list[m.pair].l \in Own(x)
        BY <4>2 DEF Pair
      <4>4. m.from \in Sockets /\ Owner(m.from) = x
        BY <4>1, <4>3, AddressFacts, SMTT(60) DEF Asks, Own
      <4> QED
        BY <1>4, <1>6, <4>1, <4>4 DEF Asks, Stands
    <3> QED
      BY <3>1, <3>2
  <2>3. s \in Sockets
    BY <2>2 DEF Stands
  <2>4. /\ New(m) \in Message /\ New(m).kind = m.kind /\ New(m).from = m.from
        /\ New(m).to = m.to /\ New(m).pair = m.pair /\ New(m).mapped = m.mapped
        /\ New(m).owner = s
    BY <2>1, <2>3 DEF New, Datagram
  <2> HIDE DEF s
  <2> QED
    BY <1>11, <2>2, <2>4 DEF Stands
<1>12. /\ net' \subseteq Message
       /\ \A m \in net' : <<m.from, m.to>> \in open /\ Stands(agents', open, m, m.owner)
  BY <1>1, <1>10, <1>11
<1>13. TypeOK'
  BY <1>6, <1>7, <1>12 DEF TypeOK
<1> QED
  BY <1>1, <1>7, <1>12, <1>13 DEF Sound

\* A datagram of the transaction is on its way or about to leave.
Awaited(o, rest, out, y, i) ==
  \/ \E m \in rest : Owner(m.owner) = y /\ m.pair = i /\ ~m.stale
  \/ \E m \in out :
       /\ <<m.from, m.to>> \in o /\ m.pair = i /\ ~m.stale
       /\ Owner(IF m.kind = "request" THEN m.from ELSE SocketAt[m.to]) = y

\* The request over a pair that datagrams pass leaves.
LEMMA RequestLeaves ==
  ASSUME NEW o, NEW x, NEW a \in Agent(x), NEW i \in DOMAIN a.list,
         Promising(o, a.list[i].l, a.list[i].r), NEW rest, NEW out, Request(a, i) \in out
  PROVE  Awaited(o, rest, out, x, i)
<1> DEFINE p == a.list[i]
           m == Request(a, i)
<1>1. a.list \in Seq(Pair(x))
  BY DEF Agent
<1>2. p \in Pair(x)
  BY <1>1
<1>3. Owner(SocketAt[p.l]) = x
  BY <1>2 DEF Pair, Own
<1>4. <<SocketAt[p.l], p.r>> \in o
  BY DEF Promising, Works
<1>5. m.kind = "request" /\ m.from = SocketAt[p.l] /\ m.to = p.r /\ m.pair = i /\ ~m.stale
  BY DEF Request
<1> HIDE DEF p, m
<1>6. Owner(IF m.kind = "request" THEN m.from ELSE SocketAt[m.to]) = x
  BY <1>3, <1>5
<1>7. m \in out
  BY DEF m
<1> QED
  BY <1>4, <1>5, <1>6, <1>7 DEF Awaited

\* A handler of x makes b of it, out of g, of which only pairs that datagrams do not pass may
\* fail: what was on its way still is, and no component that can be reached is given up.
LEMMA DoneHopes ==
  ASSUME Sound, Hopes, NEW x \in Agents, NEW g \in Agent(x), NEW E,
         NEW b \in After(open, x, g, {}, E), Hopeful(open, x, g),
         \A i \in E : i \in DOMAIN g.list => ~Promising(open, g.list[i].l, g.list[i].r),
         NEW rest \in SUBSET net, Done(x, b, rest),
         \A i \in Running(open, g) : Awaited(open, rest, g.out, x, i),
         \A y \in Agents \ {x} : \A i \in Running(open, agents[y]) :
           Awaited(open, rest, g.out, y, i)
  PROVE  Hopes'
<1> DEFINE d == [b EXCEPT !.out = {}, !.again = {}]
           Old(m) == IF Owner(m.owner) = x /\ m.pair \in b.again THEN [m EXCEPT !.stale = TRUE]
                     ELSE m
           New(m) == [kind |-> m.kind, from |-> m.from, to |-> m.to, use |-> m.use,
                      pair |-> m.pair, stale |-> m.stale, mapped |-> m.mapped,
                      owner |-> IF m.kind = "request" THEN m.from ELSE SocketAt[m.to]]
<1>1. /\ agents' = [agents EXCEPT ![x] = d]
      /\ net' = {Old(m) : m \in rest}
               \cup {New(m) : m \in {q \in b.out : <<q.from, q.to>> \in open}}
      /\ open' = open
  BY DEF Done
<1>2. DOMAIN agents = Agents /\ \A y \in Agents : agents[y] \in Agent(y)
  BY DEF Sound, TypeOK
<1>3. b \in Agent(x) /\ Grown(g, b) /\ Tidy(x, b) /\ Tried(E, g, b)
  BY DEF After
<1>4. d \in Agent(x) /\ d.list = b.list /\ d.told = b.told /\ d.ended = b.ended
  BY <1>3 DEF Agent
<1>5. \A m : /\ New(m).pair = m.pair /\ New(m).stale = m.stale
             /\ New(m).owner = IF m.kind = "request" THEN m.from ELSE SocketAt[m.to]
  OBVIOUS
<1>6. \A m : (Owner(m.owner) # x \/ m.pair \notin b.again) => Old(m) = m
  OBVIOUS
<1> HIDE DEF d, Old, New
<1>7. \A y \in Agents : agents'[y] = IF y = x THEN d ELSE agents[y]
  BY <1>1, <1>2
<1>8. \A y, c : Reaches(y, c)' = Reaches(y, c)
  BY <1>1 DEF Reaches
<1>9. ASSUME NEW y, NEW i, Awaited(open, rest, b.out, y, i), y = x => i \notin b.again
      PROVE  InFlight(y, i)'
  <2>1. CASE \E m \in rest : Owner(m.owner) = y /\ m.pair = i /\ ~m.stale
    <3>1. PICK m \in rest : Owner(m.owner) = y /\ m.pair = i /\ ~m.stale
      BY <2>1
    <3>2. Old(m) = m
      BY <1>6, <1>9, <3>1
    <3>3. m \in net'
      BY <1>1, <3>2
    <3> QED
      BY <3>1, <3>3 DEF InFlight
  <2>2. CASE \E m \in b.out :
               /\ <<m.from, m.to>> \in open /\ m.pair = i /\ ~m.stale
               /\ Owner(IF m.kind = "request" THEN m.from ELSE SocketAt[m.to]) = y
    <3>1. PICK m \in b.out :
               /\ <<m.from, m.to>> \in open /\ m.pair = i /\ ~m.stale
               /\ Owner(IF m.kind = "request" THEN m.from ELSE SocketAt[m.to]) = y
      BY <2>2
    <3>2. New(m) \in net'
      BY <1>1, <3>1
    <3>3. Owner(New(m).owner) = y /\ New(m).pair = i /\ ~New(m).stale
      BY <1>5, <3>1
    <3> QED
      BY <3>2, <3>3 DEF InFlight
  <2> QED
    BY <1>9, <2>1, <2>2 DEF Awaited
<1>10. ASSUME NEW i \in DOMAIN b.list, Promising(open, b.list[i].l, b.list[i].r),
              Request(b, i) \in b.out
       PROVE  InFlight(x, i)'
  <2> DEFINE none == {}
  <2>1. Awaited(open, none, b.out, x, i)
    BY <1>3, <1>10, RequestLeaves
  <2>2. PICK m \in b.out :
               /\ <<m.from, m.to>> \in open /\ m.pair = i /\ ~m.stale
               /\ Owner(IF m.kind = "request" THEN m.from ELSE SocketAt[m.to]) = x
    BY <2>1 DEF Awaited
  <2>3. New(m) \in net'
    BY <1>1, <2>2
  <2>4. Owner(New(m).owner) = x /\ New(m).pair = i /\ ~New(m).stale
    BY <1>5, <2>2
  <2> QED
    BY <2>3, <2>4 DEF InFlight
<1>11. g.list \in Seq(Pair(x)) /\ b.list \in Seq(Pair(x))
  BY <1>3 DEF Agent
<1>12. g.out \subseteq b.out
  BY <1>3 DEF Tried
<1>13. \A y, i : Awaited(open, rest, g.out, y, i) => Awaited(open, rest, b.out, y, i)
  BY <1>12 DEF Awaited
<1>14. ASSUME NEW i \in Running(open, b) PROVE InFlight(x, i)'
  <2>1. i \in DOMAIN b.list /\ b.list[i].state = "IN_PROGRESS"
        /\ Promising(open, b.list[i].l, b.list[i].r)
    BY DEF Running
  <2>2. CASE Request(b, i) \in b.out
    BY <1>10, <2>1, <2>2
  <2>3. CASE Request(b, i) \notin b.out
    <3>1. i \in DOMAIN g.list /\ g.list[i].state = "IN_PROGRESS"
      BY <1>3, <2>1, <2>3 DEF Tried
    <3>2. b.list[i].l = g.list[i].l /\ b.list[i].r = g.list[i].r
      BY <1>3, <3>1 DEF Grown
    <3>3. Awaited(open, rest, b.out, x, i)
      BY <1>13, <2>1, <3>1, <3>2 DEF Running
    <3>4. i \notin b.again
      BY <1>3, <2>3 DEF Tidy
    <3> QED
      BY <1>9, <3>3, <3>4
  <2> QED
    BY <2>2, <2>3
<1>15. ASSUME NEW c \in Components, c <= b.told, Reaches(x, c) PROVE Hope(open, b, c)
  <2>1. b.told = g.told
    BY <1>3 DEF Tried
  <2>2. PICK i \in DOMAIN g.list :
          /\ Of(c, g.list[i]) /\ Promising(open, g.list[i].l, g.list[i].r)
          /\ g.list[i].state # "FAILED"
    BY <1>15, <2>1 DEF Hopeful, Hope
  <2>3. i \notin E
    BY <2>2
  <2>4. /\ i \in DOMAIN b.list /\ b.list[i].l = g.list[i].l /\ b.list[i].r = g.list[i].r
        /\ b.list[i].state # "FAILED"
    BY <2>2, <2>3, StillThere
  <2> QED
    BY <2>2, <2>4 DEF Hope, Of
<1>16. ASSUME b.ended PROVE \E c \in Components : ~Reaches(x, c)
  <2>1. CASE g.ended
    BY <2>1 DEF Hopeful
  <2>2. CASE ~g.ended
    <3>1. PICK c \in Components : c <= b.told /\ Down(E, g, c)
      BY <1>3, <1>16, <2>2 DEF Tried
    <3>2. b.told = g.told
      BY <1>3 DEF Tried
    <3>3. ~Hope(open, g, c)
      BY <3>1 DEF Hope, Down
    <3> QED
      BY <3>1, <3>2, <3>3 DEF Hopeful
  <2> QED
    BY <2>1, <2>2
<1>17. ASSUME NEW y \in Agents
       PROVE  /\ Hopeful(open, y, agents[y])'
              /\ \A i \in Running(open, agents[y])' : InFlight(y, i)'
  <2>1. CASE y = x
    <3>1. agents'[y] = d
      BY <1>7, <2>1
    <3>2. Running(open, agents[y])' = Running(open, b)
      BY <1>1, <1>4, <3>1 DEF Running, Promising, Works
    <3>3. ASSUME NEW c \in Components PROVE Hope(open, agents[y], c)' <=> Hope(open, b, c)
      <4>1. Hope(open, agents[y], c)' <=> Hope(open', agents'[y], c)
        BY DEF Hope, Of, Promising, Works
      <4>2. Hope(open, d, c) <=> Hope(open, b, c)
        BY <1>4 DEF Hope
      <4> QED
        BY <1>1, <3>1, <4>1, <4>2
    <3>4. Hopeful(open, y, agents[y])'
      BY <1>4, <1>8, <1>15, <1>16, <2>1, <3>1, <3>3 DEF Hopeful
    <3> QED
      BY <1>14, <2>1, <3>2, <3>4
  <2>2. CASE y # x
    <3>1. agents'[y] = agents[y]
      BY <1>7, <2>2, SMTT(60)
    <3>2. Running(open, agents[y])' = Running(open, agents[y])
      BY <1>1, <3>1 DEF Running, Promising, Works
    <3>3. ASSUME NEW c \in Components
          PROVE  Hope(open, agents[y], c)' <=> Hope(open, agents[y], c)
      <4>1. Hope(open, agents[y], c)' <=> Hope(open', agents'[y], c)
        BY DEF Hope, Of, Promising, Works
      <4> QED
        BY <1>1, <3>1, <4>1
    <3>4. Hopeful(open, y, agents[y])'
      BY <1>8, <3>1, <3>3 DEF Hopes, Hopeful
    <3>5. \A i \in Running(open, agents[y]) : InFlight(y, i)'
      BY <1>9, <1>13, <2>2
    <3> QED
      BY <3>2, <3>4, <3>5
  <2> QED
    BY <2>1, <2>2
<1> QED
  BY <1>17 DEF Hopes

-----------------------------------------------------------------------------
(* The actions                                                             *)

\* Nothing is lost beyond the bound, and nothing at all if no answer is late.
LEMMA Losses ==
  ASSUME Sound, NEW x \in Agents, NEW expired \in MayExpire(x)
  PROVE  /\ lost + Cardinality(Late(x, expired)) \in 0..MaxLost
         /\ lost + Cardinality(Late(x, expired)) = 0 => lost = 0 /\ Late(x, expired) = {}
<1>1. agents[x] \in Agent(x) /\ lost \in 0..MaxLost /\ MaxLost \in Nat
  BY CheckAssumption DEF Sound, TypeOK
<1>2. agents[x].list \in Seq(Pair(x))
  BY <1>1 DEF Agent
<1>3. Late(x, expired) \subseteq 1..Len(agents[x].list)
  BY <1>2 DEF Late, MayExpire, InProgress
<1>4. IsFiniteSet(Late(x, expired))
  BY <1>2, <1>3, FS_Interval, FS_Subset
<1>5. Cardinality(Late(x, expired)) \in Nat
  BY <1>4, FS_CardinalityType
<1>6. lost + Cardinality(Late(x, expired)) <= MaxLost
  BY DEF MayExpire
<1>7. Cardinality(Late(x, expired)) = 0 => Late(x, expired) = {}
  BY <1>4, FS_EmptySet
<1> QED
  BY <1>1, <1>5, <1>6, <1>7

\* An agent between two handlers.
LEMMA AtRest ==
  ASSUME Sound, NEW x \in Agents, NEW E
  PROVE  /\ agents[x] \in Agent(x) /\ agents[x].out = {} /\ agents[x].again = {}
         /\ Kept(open, agents[x], {}) /\ Tidy(x, agents[x])
         /\ agents[x] \in After(open, x, agents[x], {}, E)
<1>1. /\ agents[x] \in Agent(x) /\ Kept(open, agents[x], {}) /\ Tidy(x, agents[x])
      /\ agents[x].out = {} /\ agents[x].again = {}
  BY DEF Sound, TypeOK
<1> QED
  BY <1>1, AfterItself

\* A check that has timed out although nothing was lost would not have been answered.
LEMMA NoneIsLate ==
  ASSUME Sound, Hopes, NEW x \in Agents, NEW expired \in MayExpire(x), Late(x, expired) = {}
  PROVE  \A i \in expired :
           /\ i \in DOMAIN agents[x].list
           /\ ~Promising(open, agents[x].list[i].l, agents[x].list[i].r)
<1>1. ASSUME NEW i \in expired
      PROVE  /\ i \in DOMAIN agents[x].list
             /\ ~Promising(open, agents[x].list[i].l, agents[x].list[i].r)
  <2>1. i \in InProgress(agents[x])
    BY DEF MayExpire
  <2>2. ~InFlight(x, i)
    BY DEF Late
  <2>3. i \notin Running(open, agents[x])
    BY <2>2 DEF Hopes
  <2> QED
    BY <2>1, <2>3 DEF Running, InProgress
<1> QED
  BY <1>1

\* What is on its way to be answered is awaited while all of net is left.
LEMMA StillAwaited ==
  ASSUME Hopes, NEW y \in Agents, NEW i \in Running(open, agents[y]), NEW out
  PROVE  Awaited(open, net, out, y, i)
BY DEF Hopes, InFlight, Awaited

\* nice_agent_set_remote_candidates, the whole handler.
LEMMA SetRemoteCandidatesKeeps ==
  ASSUME Inv, NEW x \in Agents, SetRemoteCandidates(x)
  PROVE  Inv'
<1> DEFINE c == agents[x].told + 1
           rs == Signalled[Other(x)][c]
           a == [agents[x] EXCEPT !.told = c]
           b == AddRemoteCandidates(a, rs)
           g == RemoteCandidatesSet(b)
<1>1. /\ agents[x] \in Agent(x) /\ agents[x].out = {} /\ agents[x].again = {} /\ Sound
      /\ Kept(open, agents[x], {}) /\ Tidy(x, agents[x])
  BY AtRest DEF Inv
<1>2. c \in Components
  BY DEF SetRemoteCandidates
<1>3. PICK expired \in MayExpire(x) :
        /\ Done(x, ScheduleNext(g, expired), net)
        /\ lost' = lost + Cardinality(Late(x, expired))
  BY DEF SetRemoteCandidates
<1>4. /\ a \in Agent(x) /\ a.list = agents[x].list /\ a.told = c /\ a.local = agents[x].local
      /\ a.ended = agents[x].ended /\ a.out = {} /\ a.ctrl = agents[x].ctrl
      /\ Kept(open, a, {}) /\ Tidy(x, a)
  <2>1. c \in Nat /\ agents[x].told \in Nat /\ agents[x].told <= c
    BY <1>1 DEF Agent
  <2> HIDE DEF c
  <2>2. a \in Agent(x) /\ a.list = agents[x].list /\ a.state = agents[x].state
        /\ a.selected = agents[x].selected /\ a.remote = agents[x].remote
        /\ a.out = agents[x].out /\ a.again = agents[x].again /\ a.told = c
        /\ a.local = agents[x].local /\ a.stored = agents[x].stored
        /\ a.ended = agents[x].ended /\ a.ctrl = agents[x].ctrl
    BY <1>1, <2>1 DEF Agent
  <2> HIDE DEF a
  <2>3. Kept(open, a, {})
    BY <1>1, <2>2 DEF Kept
  <2>4. \A r \in DOMAIN a.remote : Component[r] <= a.told
    <3>1. a.remote \in UNION {[known -> Nat \ {0}] : known \in SUBSET Addresses}
      BY <2>2 DEF Agent
    <3>2. DOMAIN a.remote \subseteq Addresses
      BY <3>1
    <3>3. \A r \in Addresses : Component[r] \in Nat
      BY AddressFacts DEF Components
    <3>4. \A r \in DOMAIN a.remote : Component[r] <= agents[x].told
      BY <1>1, <2>2 DEF Tidy
    <3> QED
      BY <2>1, <2>2, <3>2, <3>3, <3>4
  <2>5. Tidy(x, a)
    BY <1>1, <2>2, <2>4 DEF Tidy
  <2> QED
    BY <1>1, <2>2, <2>3, <2>5
<1>5. rs \in Seq(Addresses) /\ \A j \in DOMAIN rs : Component[rs[j]] = c
  <2>1. Other(x) \in Agents
    BY CheckAssumption DEF Other
  <2>2. Signalled \in [Agents -> [Components -> Seq(Addresses)]]
    BY CheckAssumption
  <2>3. \A r \in Range(Signalled[Other(x)][c]) : Component[r] = c
    <3> HIDE DEF c
    <3> QED
      BY <1>2, <2>1, CheckAssumption
  <2> HIDE DEF c
  <2>4. rs \in Seq(Addresses)
    BY <1>2, <2>1, <2>2
  <2> QED
    BY <2>3, <2>4 DEF Range
<1> HIDE DEF a, c, rs
<1> DEFINE none == {}
           S(E) == After(open, x, a, {}, E)
<1>6. a \in S(none)
  BY <1>4, AfterItself
<1>7. \A j \in DOMAIN rs : Component[rs[j]] <= a.told
  <2>1. c <= c
    BY <1>2 DEF Components
  <2> QED
    BY <1>4, <1>5, <2>1
<1>8. b \in S(none) /\ Offers(a, rs, b)
  BY <1>4, <1>5, <1>6, <1>7, AddRemoteCandidatesKeeps
<1> HIDE DEF b
<1>9. b \in Agent(x) /\ Kept(open, b, {}) /\ Tidy(x, b) /\ Grown(a, b) /\ Tried(none, a, b)
  BY <1>8 DEF After
<1> DEFINE h == ScheduleNext(g, expired)
<1>10. h \in After(open, x, b, {}, expired)
  <2>1. b \in After(open, x, b, {}, expired)
    BY <1>9, AfterItself
  <2>2. g \in After(open, x, b, {}, expired)
    BY <1>9, <2>1, RemoteCandidatesSetKeeps
  <2> HIDE DEF g
  <2>3. expired \subseteq expired
    OBVIOUS
  <2> QED
    BY <1>9, <2>2, <2>3, ScheduleNextKeeps
<1>11. Done(x, h, net) /\ net \in SUBSET net
  BY <1>3
<1> HIDE DEF g, h
<1>12. lost' \in 0..MaxLost /\ (lost' = 0 => lost = 0 /\ Late(x, expired) = {})
  BY <1>1, <1>3, Losses
<1>13. Sound'
  <2>1. \A m \in a.out : m.kind = "response" /\ Stands(agents, open, m, SocketAt[m.to])
    BY <1>4
  <2>2. b \in After(open, x, a, {}, expired)
    <3>1. Tried(expired, a, b)
      BY <1>9 DEF Tried, Down
    <3> QED
      BY <1>9, <3>1 DEF After
  <2>3. h \in After(open, x, a, {}, expired)
    BY <1>4, <1>10, <2>2, AfterAnother
  <2> QED
    BY <1>1, <1>4, <1>11, <1>12, <2>1, <2>3, DoneKeeps
<1>14. ASSUME lost' = 0 PROVE Hopes'
  <2>1. Hopes /\ Late(x, expired) = {}
    BY <1>12, <1>14 DEF Inv
  <2>2. a.list \in Seq(Pair(x)) /\ b.list \in Seq(Pair(x))
    BY <1>4, <1>9 DEF Agent
  <2>3. \A i \in DOMAIN a.list :
          i \in DOMAIN b.list /\ b.list[i].l = a.list[i].l /\ b.list[i].r = a.list[i].r
    BY <1>9, <2>2 DEF Grown
  <2>4. \A i \in expired : ~Promising(open, b.list[i].l, b.list[i].r)
    BY <1>1, <1>4, <2>1, <2>3, NoneIsLate
  <2>5. ASSUME NEW i \in Running(open, b) PROVE Awaited(open, net, b.out, x, i)
    <3>1. i \in DOMAIN b.list /\ b.list[i].state = "IN_PROGRESS"
          /\ Promising(open, b.list[i].l, b.list[i].r)
      BY DEF Running
    <3>2. CASE Request(b, i) \in b.out
      BY <1>9, <3>1, <3>2, RequestLeaves
    <3>3. CASE Request(b, i) \notin b.out
      <4>1. i \in DOMAIN a.list /\ a.list[i].state = "IN_PROGRESS"
        BY <1>9, <3>1, <3>3 DEF Tried
      <4>2. i \in Running(open, agents[x])
        BY <1>4, <2>3, <3>1, <4>1 DEF Running
      <4> QED
        BY <2>1, <4>2, StillAwaited
    <3> QED
      BY <3>2, <3>3
  <2>6. \A y \in Agents \ {x} : \A i \in Running(open, agents[y]) :
          Awaited(open, net, b.out, y, i)
    BY <2>1, StillAwaited
  <2>7. ASSUME NEW d \in Components, d <= b.told, Reaches(x, d) PROVE Hope(open, b, d)
    <3>1. b.told = c
      BY <1>4, <1>9 DEF Tried
    <3>2. CASE d <= agents[x].told
      <4>1. PICK i \in DOMAIN a.list :
              /\ Of(d, a.list[i]) /\ Promising(open, a.list[i].l, a.list[i].r)
              /\ a.list[i].state # "FAILED"
        BY <1>4, <2>1, <2>7, <3>2 DEF Hopes, Hopeful, Hope
      <4>2. i \notin none
        OBVIOUS
      <4> HIDE DEF none
      <4>3. /\ i \in DOMAIN b.list /\ b.list[i].l = a.list[i].l /\ b.list[i].r = a.list[i].r
            /\ b.list[i].state # "FAILED"
        BY <1>4, <1>8, <4>1, <4>2, StillThere
      <4> QED
        BY <4>1, <4>3 DEF Hope, Of
    <3>3. CASE ~(d <= agents[x].told)
      <4>1. d = c
        BY <1>1, <2>7, <3>1, <3>3 DEF c, Components, Agent
      <4>2. PICK l \in Range(Gathered[x][c]), r \in Range(rs) :
              <<l, r>> \in open /\ <<SocketAt[r], Seen[l]>> \in open /\ Seen[SocketAt[r]] = r
        BY <2>7, <4>1 DEF Reaches, rs
      <4>3. l \in Sockets /\ SocketAt[l] = l /\ Component[l] = c
        <5>1. l \in Sockets
          BY <1>2 DEF Sockets
        <5>2. Component[l] = c
          BY <1>2, CheckAssumption
        <5> QED
          BY <5>1, <5>2, AddressFacts
      <4>4. PICK j \in DOMAIN rs : r = rs[j]
        BY DEF Range
      <4>5. l \in Range(a.local[Component[rs[j]]])
        BY <1>2, <1>4, <1>5 DEF Tidy
      <4>6. Has(b, l, r)
        BY <1>8, <4>4, <4>5 DEF Offers
      <4>7. Promising(open, l, r)
        BY <4>2, <4>3 DEF Promising, Works
      <4> QED
        BY <4>1, <4>3, <4>6, <4>7 DEF Has, Hope, Of
    <3> QED
      BY <3>2, <3>3
  <2>8. b.ended => \E d \in Components : ~Reaches(x, d)
    BY <1>4, <1>8, <2>1 DEF Offers, Hopes, Hopeful
  <2>9. Hopeful(open, x, b)
    BY <2>7, <2>8 DEF Hopeful
  <2> QED
    BY <1>1, <1>9, <1>10, <1>11, <2>1, <2>4, <2>5, <2>6, <2>9, DoneHopes
<1> QED
  BY <1>13, <1>14 DEF Inv

\* priv_conn_check_tick, for every set of checks that time out.
LEMMA TicksKeep ==
  ASSUME Inv, NEW x \in Agents, ConnCheckTick(x)
  PROVE  Inv'
<1> DEFINE a == agents[x]
<1>1. PICK expired \in MayExpire(x) : Ticks(x, expired)
  BY DEF ConnCheckTick
<1>2. Sound /\ a \in Agent(x) /\ a.out = {} /\ a \in After(open, x, a, {}, expired)
  BY AtRest DEF Inv
<1>3. Done(x, Tick(a, expired), net) /\ net \in SUBSET net
  BY <1>1 DEF Ticks
<1>4. lost' \in 0..MaxLost /\ (lost' = 0 => lost = 0 /\ Late(x, expired) = {})
  BY <1>1, <1>2, Losses DEF Ticks
<1>5. Tick(a, expired) \in After(open, x, a, {}, expired)
  <2>1. expired \subseteq expired
    OBVIOUS
  <2> HIDE DEF a
  <2> QED
    BY <1>2, <2>1, TickKeeps
<1>6. Sound'
  <2>1. \A m \in a.out : m.kind = "response" /\ Stands(agents, open, m, SocketAt[m.to])
    BY <1>2
  <2> QED
    BY <1>2, <1>3, <1>4, <1>5, <2>1, DoneKeeps
<1>7. ASSUME lost' = 0 PROVE Hopes'
  <2>1. Hopes /\ Late(x, expired) = {}
    BY <1>4, <1>7 DEF Inv
  <2>2. \A i \in expired : ~Promising(open, a.list[i].l, a.list[i].r)
    BY <1>2, <2>1, NoneIsLate
  <2>3. Hopeful(open, x, a)
    BY <2>1 DEF Hopes
  <2>4. \A y \in Agents : \A i \in Running(open, agents[y]) : Awaited(open, net, a.out, y, i)
    BY <2>1, StillAwaited
  <2> QED
    BY <1>2, <1>3, <1>5, <2>1, <2>2, <2>3, <2>4, DoneHopes
<1> QED
  BY <1>6, <1>7 DEF Inv

\* A request came over a way that is open; the answer records that it did, and is on its way
\* in its place.
LEMMA ReceiveRequestKeeps ==
  ASSUME Inv, NEW m \in net, ReceiveRequest(m)
  PROVE  Inv'
<1> DEFINE s == SocketAt[m.to]
           x == Owner(s)
           from == Seen[m.from]
           c == Component[s]
           use == m.use \/ agents[x].ctrl
           reply == [kind |-> "response", from |-> s, to |-> from, use |-> FALSE,
                     pair |-> m.pair, stale |-> m.stale, mapped |-> from]
           a == [agents[x] EXCEPT !.out = {reply}]
           b == IF from \in DOMAIN a.remote THEN a ELSE Learn(a, from)
           t == Triggered(b, s, from, use)
           n == IF use THEN MarkNominated(t, c, from) ELSE t
           early == [from |-> from, socket |-> s, use |-> use]
           stored == [a.stored EXCEPT ![c] = Append(a.stored[c], early)]
           e == [a EXCEPT !.stored = stored]
           none == {}
<1>1. /\ m.kind = "request" /\ lost' = lost
      /\ Done(x, IF \A r \in DOMAIN a.remote : Component[r] # c THEN e ELSE n, net \ {m})
  BY DEF ReceiveRequest
<1>2. /\ m.from \in Addresses /\ m.to \in Addresses /\ m.pair \in Nat /\ m.stale \in BOOLEAN
      /\ m.use \in BOOLEAN /\ <<m.from, m.to>> \in open /\ Stands(agents, open, m, m.owner)
      /\ lost \in 0..MaxLost /\ Sound
  BY DEF Inv, Sound, TypeOK
<1>3. s \in Sockets /\ x \in Agents /\ s \in Own(x) /\ from \in Addresses /\ c \in Components
      /\ s \in Addresses
  BY <1>2, AddressFacts DEF Own
<1>4. /\ agents[x] \in Agent(x) /\ Kept(open, agents[x], {}) /\ Tidy(x, agents[x])
      /\ agents[x].again = {}
  BY <1>2, <1>3, AtRest
<1>5. reply \in Datagram
  BY <1>2, <1>3, SMTT(60) DEF Datagram
<1>6. m.owner = m.from /\ m.from \in Sockets /\ SocketAt[from] = m.owner
  BY <1>1, <1>2, AddressFacts DEF Stands
<1>7. /\ reply.kind = "response" /\ reply.from = s /\ reply.to = from /\ reply.pair = m.pair
      /\ reply.mapped = from /\ reply.stale = m.stale
  BY SMTT(60)
<1> HIDE DEF reply
<1>8. Stands(agents, open, reply, SocketAt[reply.to])
  BY <1>1, <1>2, <1>6, <1>7, ZenonT(60) DEF Stands
<1>9. Component[from] = c
  <2> DEFINE y == Owner(m.owner)
             p == agents[y].list[m.pair]
  <2>1. /\ m.pair \in DOMAIN agents[y].list /\ m.from = SocketAt[p.l] /\ m.to = p.r
        /\ y \in Agents
    BY <1>1, <1>2, <1>6, AddressFacts DEF Stands
  <2>2. agents[y] \in Agent(y) /\ Tidy(y, agents[y])
    BY <1>2, <2>1, AtRest
  <2>3. agents[y].list \in Seq(Pair(y))
    BY <2>2 DEF Agent
  <2>4. p \in Pair(y)
    BY <2>1, <2>3
  <2>5. p.l \in Addresses /\ p.r \in Addresses
    BY <2>4, SMTT(60) DEF Pair, Own
  <2>6. Component[p.l] = Component[p.r]
    BY <2>1, <2>2 DEF Tidy
  <2> HIDE DEF p
  <2>7. Component[m.from] = Component[p.l] /\ Component[s] = Component[p.r]
    BY <2>1, <2>5, CheckAssumption
  <2>8. Component[SocketAt[from]] = Component[from]
    BY <1>3, CheckAssumption
  <2> QED
    BY <1>6, <2>6, <2>7, <2>8
<1>10. use \in BOOLEAN
  BY <1>2, <1>4 DEF Agent
<1>11. /\ a \in Agent(x) /\ a.list = agents[x].list /\ a.out = {reply} /\ a.told = agents[x].told
       /\ a.ended = agents[x].ended /\ Kept(open, a, {}) /\ Tidy(x, a) /\ a.again = {}
  <2>1. a \in Agent(x) /\ a.list = agents[x].list /\ a.out = {reply} /\ a.state = agents[x].state
        /\ a.selected = agents[x].selected /\ a.remote = agents[x].remote
        /\ a.told = agents[x].told /\ a.ended = agents[x].ended /\ a.again = {}
        /\ a.local = agents[x].local /\ a.stored = agents[x].stored
    BY <1>4, <1>5 DEF Agent
  <2> HIDE DEF a
  <2>2. Kept(open, a, {})
    BY <1>4, <2>1 DEF Kept
  <2> HIDE DEF x
  <2>3. Tidy(x, a)
    <3>1. \A i \in a.again : i \in DOMAIN a.list /\ Request(a, i) \in a.out
      BY <2>1
    <3> QED
      BY <1>4, <2>1, <3>1 DEF Tidy
  <2> QED
    BY <2>1, <2>2, <2>3
<1>12. from = Seen[m.from]
  OBVIOUS
<1> HIDE DEF a, from, c, use
<1>13. a \in After(open, x, a, {}, none)
  BY <1>11, AfterItself
<1>14. ASSUME ~(\A r \in DOMAIN a.remote : Component[r] # c)
       PROVE  n \in After(open, x, a, {}, none)
  <2>1. c <= a.told
    BY <1>11, <1>14 DEF Tidy
  <2> HIDE DEF s, x
  <2>2. b \in After(open, x, a, {}, none) /\ from \in DOMAIN b.remote
    BY <1>3, <1>9, <1>11, <1>13, <2>1, LearnKeeps
  <2> HIDE DEF b
  <2>3. Component[s] = Component[from]
    BY <1>9 DEF c
  <2>4. t \in After(open, x, a, {}, none)
    BY <1>3, <1>10, <1>11, <2>2, <2>3, TriggeredKeeps
  <2> HIDE DEF t
  <2> QED
    BY <1>3, <1>11, <2>4, MarkNominatedKeeps
<1>15. e \in After(open, x, a, {}, none)
  <2> HIDE DEF x, s
  <2>1. early \in Early(x) /\ Component[early.from] = c /\ Component[early.socket] = c
    BY <1>3, <1>9, <1>10 DEF Early, c
  <2> HIDE DEF early
  <2>2. a.stored \in [Components -> Seq(Early(x))]
    BY <1>11 DEF Agent, Early
  <2>3. /\ stored \in [Components -> Seq(Early(x))]
        /\ \A d \in Components : \A k \in Range(stored[d]) :
             Component[k.from] = d /\ Component[k.socket] = d
    <3>1. Append(a.stored[c], early) \in Seq(Early(x))
      BY <1>3, <2>1, <2>2
    <3>2. a.stored[c] \in Seq(Early(x))
      BY <1>3, <2>2
    <3>3. \A k \in Range(Append(a.stored[c], early)) : k \in Range(a.stored[c]) \/ k = early
      BY <2>1, <3>2 DEF Range
    <3>4. stored = [d \in Components |-> IF d = c THEN Append(a.stored[c], early)
                                         ELSE a.stored[d]]
      BY <2>2
    <3> HIDE DEF stored
    <3>5. \A d \in Components : \A k \in Range(a.stored[d]) :
            Component[k.from] = d /\ Component[k.socket] = d
      BY <1>11 DEF Tidy
    <3> QED
      BY <1>3, <2>1, <2>2, <3>1, <3>3, <3>4, <3>5
  <2> HIDE DEF stored
  <2>4. e \in Agent(x)
    BY <1>11, <2>3 DEF Agent, Early
  <2>5. e.list = a.list /\ e.state = a.state /\ e.selected = a.selected /\ e.remote = a.remote
        /\ e.out = a.out /\ e.ctrl = a.ctrl /\ e.told = a.told /\ e.ended = a.ended
        /\ e.again = a.again /\ e.local = a.local /\ e.stored = stored
    BY <1>11 DEF Agent
  <2> HIDE DEF e
  <2>6. Tidy(x, e)
    <3>1. \A i \in e.again : i \in DOMAIN e.list /\ Request(e, i) \in e.out
      BY <1>11, <2>5
    <3>2. \A i \in DOMAIN e.list :
            /\ Component[e.list[i].l] = Component[e.list[i].r]
            /\ e.list[i].state = "IN_PROGRESS" => e.list[i].tx > 0
      BY <1>11, <2>5 DEF Tidy
    <3>3. \A d \in Components :
            /\ Range(Gathered[x][d]) \subseteq Range(e.local[d])
            /\ \A l \in Range(e.local[d]) : Component[l] = d
            /\ \A k \in Range(e.stored[d]) : Component[k.from] = d /\ Component[k.socket] = d
      <4>1. \A d \in Components :
              /\ Range(Gathered[x][d]) \subseteq Range(a.local[d])
              /\ \A l \in Range(a.local[d]) : Component[l] = d
        BY <1>11 DEF Tidy
      <4>2. e.local = a.local /\ e.stored = stored
        BY <2>5
      <4> QED
        BY <2>3, <4>1, <4>2
    <3>4. \A r \in DOMAIN e.remote : Component[r] <= e.told
      BY <1>11, <2>5 DEF Tidy
    <3> QED
      BY <3>1, <3>2, <3>3, <3>4 DEF Tidy
  <2> QED
    BY <1>11, <1>13, <2>4, <2>5, <2>6, OthersKeep
<1> HIDE DEF n, e
<1> DEFINE h == IF \A r \in DOMAIN a.remote : Component[r] # c THEN e ELSE n
           rest == net \ {m}
<1>16. h \in After(open, x, a, {}, none) /\ Done(x, h, rest) /\ rest \in SUBSET net
  BY <1>1, <1>14, <1>15
<1> HIDE DEF h
<1>17. Sound'
  <2>1. \A q \in a.out : q.kind = "response" /\ Stands(agents, open, q, SocketAt[q.to])
    BY <1>7, <1>8, <1>11
  <2>2. lost' \in 0..MaxLost
    BY <1>1, <1>2
  <2> HIDE DEF rest, x
  <2> QED
    BY <1>2, <1>3, <1>11, <1>16, <2>1, <2>2, DoneKeeps
<1>18. ASSUME lost' = 0 PROVE Hopes'
  <2> HIDE DEF x
  <2>1. Hopes
    BY <1>1, <1>18 DEF Inv
  <2>2. ASSUME NEW y \in Agents, NEW i \in Running(open, agents[y])
        PROVE  Awaited(open, rest, a.out, y, i)
    <3>1. PICK q \in net : Owner(q.owner) = y /\ q.pair = i /\ ~q.stale
      BY <2>1 DEF Hopes, InFlight
    <3>2. CASE q # m
      BY <3>1, <3>2 DEF Awaited
    <3>3. CASE q = m
      <4>1. reply \in a.out /\ reply.pair = i /\ ~reply.stale
        BY <1>7, <1>11, <3>1, <3>3
      <4>2. Owner(IF reply.kind = "request" THEN reply.from ELSE SocketAt[reply.to]) = y
        BY <1>6, <1>7, <3>1, <3>3
      <4>3. <<SocketAt[agents[y].list[i].r], Seen[SocketAt[agents[y].list[i].l]]>> \in open
        BY DEF Running, Promising, Works
      <4>4. m.from = SocketAt[agents[y].list[i].l] /\ m.to = agents[y].list[i].r
        BY <1>1, <1>2, <3>1, <3>3 DEF Stands
      <4>5. <<reply.from, reply.to>> \in open
        BY <1>7, <1>12, <4>3, <4>4
      <4> QED
        BY <4>1, <4>2, <4>5 DEF Awaited
    <3> QED
      BY <3>2, <3>3
  <2> HIDE DEF rest
  <2>3. Hopeful(open, x, a)
    BY <1>3, <1>11, <2>1 DEF Hopes, Hopeful, Hope
  <2>4. Running(open, a) = Running(open, agents[x])
    BY <1>11 DEF Running
  <2>5. \A i \in none : i \in DOMAIN a.list => ~Promising(open, a.list[i].l, a.list[i].r)
    OBVIOUS
  <2> HIDE DEF none
  <2> QED
    BY <1>2, <1>3, <1>11, <1>16, <2>1, <2>2, <2>3, <2>4, <2>5, DoneHopes
<1> QED
  BY <1>1, <1>17, <1>18 DEF Inv

\* An answer shows that both ways are open, so its pair may become valid. One that is not
\* used was not awaited, or shows that the pair would never be answered from its address.
LEMMA ReceiveResponseKeeps ==
  ASSUME Inv, NEW m \in net, ReceiveResponse(m)
  PROVE  Inv'
<1> DEFINE x == Owner(SocketAt[m.to])
           a == agents[x]
           i == m.pair
           p == a.list[i]
           mine == ~m.stale /\ p.tx > 0
           q == [p EXCEPT !.state = "FAILED", !.tx = 0]
           list == [a.list EXCEPT ![i] = q]
           failed == [a EXCEPT !.list[i] = q]
           answered == Answered(a, i, m)
           h == IF ~mine THEN a ELSE IF Seen[m.from] # p.r THEN failed ELSE answered
           rest == net \ {m}
           none == {}
           one == {i}
<1>1. m.kind = "response" /\ lost' = lost /\ Done(x, h, rest)
  BY DEF ReceiveResponse
<1>2. /\ m.to \in Addresses /\ m.mapped \in Addresses /\ <<m.from, m.to>> \in open
      /\ Stands(agents, open, m, m.owner) /\ lost \in 0..MaxLost /\ Sound
  BY DEF Inv, Sound, TypeOK
<1>3. x \in Agents
  BY <1>2, AddressFacts
<1>4. a \in Agent(x) /\ a.out = {} /\ Kept(open, a, {}) /\ Tidy(x, a)
      /\ \A E : a \in After(open, x, a, {}, E)
  BY <1>2, <1>3, AtRest
<1>5. /\ i \in DOMAIN a.list /\ m.from = SocketAt[p.r] /\ m.to = Seen[SocketAt[p.l]]
      /\ m.mapped = m.to /\ <<SocketAt[p.l], p.r>> \in open /\ m.owner = SocketAt[m.to]
  BY <1>1, <1>2 DEF Stands
<1>6. p \in Pair(x)
  <2>1. a.list \in Seq(Pair(x))
    BY <1>4 DEF Agent
  <2>2. i \in DOMAIN a.list
    BY <1>5
  <2> HIDE DEF a, i, x
  <2> QED
    BY <2>1, <2>2
<1>7. p.l \in Addresses
  BY <1>6 DEF Pair, Own
<1>8. Works(open, p.l, p.r) /\ SocketAt[m.mapped] = SocketAt[p.l]
  <2>1. SocketAt[p.l] \in Sockets
    BY <1>7, AddressFacts
  <2> HIDE DEF p
  <2> QED
    BY <1>2, <1>5, <2>1, AddressFacts DEF Works
<1>9. Owner(m.owner) = x
  BY <1>5
<1>10. answered \in After(open, x, a, {}, one) /\ Answers(open, x, a, i, {}, answered)
  <2>1. i \in one
    OBVIOUS
  <2> HIDE DEF a, x, i, one
  <2> QED
    BY <1>2, <1>4, <1>5, <1>8, <2>1, AnsweredKeeps DEF p
<1>11. failed \in After(open, x, a, {}, one)
  <2>1. Drops(x, p, q) /\ q.state = "FAILED"
    <3> HIDE DEF p, x
    <3>1. Drops(x, p, q)
      BY <1>6, PairFields
    <3>2. q.state = "FAILED"
      BY <1>6, PairStates
    <3> QED
      BY <3>1, <3>2, SMTT(60)
  <2>2. failed = [a EXCEPT !.list = list]
    OBVIOUS
  <2>3. list \in Seq(Pair(x)) /\ Len(list) = Len(a.list)
        /\ \A j \in DOMAIN a.list : list[j] = IF j = i THEN q ELSE a.list[j]
    <3>1. a.list \in Seq(Pair(x))
      BY <1>4 DEF Agent
    <3> HIDE DEF q, a, x, i, p
    <3> QED
      BY <1>4, <1>5, <2>1, <3>1, PairChanges DEF Drops
  <2> HIDE DEF q, list, failed, a, x, i
  <2>4. \A j \in DOMAIN a.list : list[j] = a.list[j] \/ Drops(x, a.list[j], list[j])
    BY <2>1, <2>3 DEF p
  <2>5. \A j \in DOMAIN a.list : Calm(one, j, a.list[j], list[j])
    <3>1. "FAILED" # "IN_PROGRESS"
      OBVIOUS
    <3> QED
      BY <2>1, <2>3, <3>1 DEF Calm
  <2> HIDE DEF one
  <2> QED
    BY <1>4, <2>2, <2>3, <2>4, <2>5, ListChanges
<1> HIDE DEF failed, answered
<1>12. h \in After(open, x, a, {}, one)
  BY <1>4, <1>10, <1>11
<1>13. rest \in SUBSET net
  OBVIOUS
<1> HIDE DEF rest
<1>14. Sound'
  <2>1. \A r \in a.out : r.kind = "response" /\ Stands(agents, open, r, SocketAt[r.to])
    BY <1>4
  <2>2. lost' \in 0..MaxLost
    BY <1>1, <1>2
  <2>3. a.list = agents[x].list
    OBVIOUS
  <2> HIDE DEF h, x, a, one
  <2> QED
    BY <1>1, <1>2, <1>3, <1>4, <1>12, <1>13, <2>1, <2>2, <2>3, DoneKeeps
<1>15. ASSUME lost' = 0 PROVE Hopes'
  <2>1. Hopes
    BY <1>1, <1>15 DEF Inv
  <2>2. ASSUME NEW out, NEW y \in Agents, NEW k \in Running(open, agents[y]),
               y = x /\ k = i => ~mine
        PROVE  Awaited(open, rest, out, y, k)
    <3>1. PICK r \in net : Owner(r.owner) = y /\ r.pair = k /\ ~r.stale
      BY <2>1 DEF Hopes, InFlight
    <3>2. r # m
      <4> SUFFICES ASSUME r = m PROVE FALSE
        OBVIOUS
      <4>1. y = x /\ k = i /\ ~m.stale
        BY <1>9, <3>1
      <4>2. p.state = "IN_PROGRESS"
        BY <4>1, SMTT(60) DEF Running
      <4>3. p.tx > 0
        BY <1>4, <1>5, <4>2 DEF Tidy
      <4> QED
        BY <2>2, <4>1, <4>3
    <3> QED
      BY <3>1, <3>2 DEF Awaited, rest
  <2>3. Hopeful(open, x, a)
    BY <1>3, <2>1 DEF Hopes
  <2>4. ASSUME NEW out, NEW y \in Agents \ {x}, NEW k \in Running(open, agents[y])
        PROVE  Awaited(open, rest, out, y, k)
    BY <2>2
  <2>5. CASE ~mine
    <3>1. h = a
      BY <2>5
    <3>2. \A k \in Running(open, a) : Awaited(open, rest, a.out, x, k)
      BY <1>3, <2>2, <2>5
    <3>3. \A y \in Agents \ {x} : \A k \in Running(open, agents[y]) :
            Awaited(open, rest, a.out, y, k)
      BY <2>4
    <3>4. \A k \in none : k \in DOMAIN a.list => ~Promising(open, a.list[k].l, a.list[k].r)
      OBVIOUS
    <3> HIDE DEF x, a, h, none
    <3> QED
      BY <1>1, <1>2, <1>3, <1>4, <1>13, <2>1, <2>3, <3>1, <3>2, <3>3, <3>4, DoneHopes
  <2>6. CASE mine /\ Seen[m.from] # p.r
    <3>1. ~Promising(open, p.l, p.r)
      BY <1>5, <2>6 DEF Promising
    <3>2. \A k \in Running(open, a) : Awaited(open, rest, a.out, x, k)
      <4>1. \A k \in Running(open, a) : k # i
        BY <3>1 DEF Running
      <4> QED
        BY <1>3, <2>2, <4>1
    <3>3. \A y \in Agents \ {x} : \A k \in Running(open, agents[y]) :
            Awaited(open, rest, a.out, y, k)
      BY <2>4
    <3>4. \A k \in one : k \in DOMAIN a.list => ~Promising(open, a.list[k].l, a.list[k].r)
      BY <3>1
    <3> HIDE DEF x, a, h, one
    <3> QED
      BY <1>1, <1>2, <1>3, <1>4, <1>12, <1>13, <2>1, <2>3, <3>2, <3>3, <3>4, DoneHopes
  <2>7. CASE mine /\ ~(Seen[m.from] # p.r)
    <3>1. PICK g \in Agent(x) :
            /\ answered \in After(open, x, g, {}, {})
            /\ g.told = a.told /\ g.ended = a.ended /\ g.out = a.out
            /\ \A k \in DOMAIN a.list :
                 /\ k \in DOMAIN g.list /\ g.list[k].l = a.list[k].l /\ g.list[k].r = a.list[k].r
                 /\ k # i => g.list[k].state = a.list[k].state
            /\ \A k \in DOMAIN g.list :
                 g.list[k].state = "IN_PROGRESS" => k # i /\ k \in DOMAIN a.list
            /\ \E j \in DOMAIN g.list :
                 /\ g.list[j].r = a.list[i].r /\ SocketAt[g.list[j].l] = SocketAt[a.list[i].l]
                 /\ Component[g.list[j].l] = Component[a.list[i].l]
                 /\ g.list[j].state # "FAILED"
      BY <1>10, ZenonT(60) DEF Answers
    <3>2. PICK j \in DOMAIN g.list :
            /\ g.list[j].r = a.list[i].r /\ SocketAt[g.list[j].l] = SocketAt[a.list[i].l]
            /\ Component[g.list[j].l] = Component[a.list[i].l] /\ g.list[j].state # "FAILED"
      BY <3>1
    <3>3. h = answered
      BY <2>7
    <3> HIDE DEF x, a, h, i
    <3>4. ASSUME NEW k \in Running(open, g) PROVE Awaited(open, rest, g.out, x, k)
      <4>1. k \in DOMAIN g.list /\ g.list[k].state = "IN_PROGRESS" /\ k # i /\ k \in DOMAIN a.list
            /\ Promising(open, g.list[k].l, g.list[k].r)
        BY <3>1 DEF Running
      <4>2. k \in Running(open, a)
        BY <3>1, <4>1 DEF Running
      <4> QED
        BY <1>3, <2>2, <4>1, <4>2 DEF a
    <3>5. \A y \in Agents \ {x} : \A k \in Running(open, agents[y]) :
            Awaited(open, rest, g.out, y, k)
      BY <2>4
    <3>6. ASSUME NEW c \in Components, Hope(open, a, c) PROVE Hope(open, g, c)
      <4>1. PICK k \in DOMAIN a.list :
              /\ Of(c, a.list[k]) /\ Promising(open, a.list[k].l, a.list[k].r)
              /\ a.list[k].state # "FAILED"
        BY <3>6 DEF Hope
      <4>2. CASE k # i
        BY <3>1, <4>1, <4>2 DEF Hope, Of
      <4>3. CASE k = i
        BY <3>2, <4>1, <4>3 DEF Hope, Of, Promising, Works
      <4> QED
        BY <4>2, <4>3
    <3>7. Hopeful(open, x, g)
      BY <2>3, <3>1, <3>6 DEF Hopeful
    <3>8. \A k \in none : k \in DOMAIN g.list => ~Promising(open, g.list[k].l, g.list[k].r)
      OBVIOUS
    <3>9. h \in After(open, x, g, {}, none)
      BY <3>1, <3>3
    <3> HIDE DEF none
    <3> QED
      BY <1>1, <1>2, <1>3, <1>13, <2>1, <3>4, <3>5, <3>7, <3>8, <3>9, DoneHopes, SMTT(60)
  <2> QED
    BY <2>5, <2>6, <2>7
<1> QED
  BY <1>14, <1>15, SMTT(60) DEF Inv

\* A datagram fewer is on its way, and one more is lost.
LEMMA LoseKeeps ==
  ASSUME Inv, NEW m \in net, Lose(m)
  PROVE  Inv'
<1>1. net' \subseteq net /\ agents' = agents /\ open' = open /\ lost' = lost + 1 /\ lost < MaxLost
  BY DEF Lose
<1>2. lost' \in 0..MaxLost /\ lost' # 0
  BY <1>1, CheckAssumption, SMTT(60) DEF Inv, Sound, TypeOK
<1>3. TypeOK'
  BY <1>1, <1>2 DEF Inv, Sound, TypeOK
<1>4. Sound'
  BY <1>1, <1>3 DEF Inv, Sound
<1> QED
  BY <1>2, <1>4 DEF Inv

-----------------------------------------------------------------------------
(* The theorems                                                            *)

\* Two agents without pairs, and nothing on its way.
LEMMA InitKeeps == Init => Inv
<1> SUFFICES ASSUME Init PROVE Inv
  OBVIOUS
<1>1. ASSUME NEW x \in Agents
      PROVE  /\ NewAgent(x) \in Agent(x) /\ Kept(open, NewAgent(x), {}) /\ Tidy(x, NewAgent(x))
             /\ NewAgent(x).out = {} /\ NewAgent(x).again = {} /\ NewAgent(x).told = 0
             /\ NewAgent(x).list = <<>> /\ ~NewAgent(x).ended
  <2> DEFINE a == NewAgent(x)
  <2>1. Gathered[x] \in [Components -> Seq(Own(x))]
    <3>1. Gathered[x] \in [Components -> Seq(Addresses)]
      BY CheckAssumption
    <3> QED
      BY <3>1, AddressFacts
  <2>2. <<>> \in [{} -> Nat \ {0}] /\ {} \in SUBSET Addresses
    OBVIOUS
  <2>3. <<>> \in UNION {[known -> Nat \ {0}] : known \in SUBSET Addresses}
    BY <2>2
  <2>4. a \in Agent(x)
    <3> DEFINE none == [l |-> "none", r |-> "none", prio |-> 0]
               states == {"GATHERING", "CONNECTING", "CONNECTED", "READY", "FAILED"}
    <3>1. [c \in Components |-> <<>>] \in [Components -> Seq(Early(x))]
      OBVIOUS
    <3>2. [c \in Components |-> "GATHERING"] \in [Components -> states]
      OBVIOUS
    <3>3. none \in [l : Addresses \cup {"none"}, r : Addresses \cup {"none"}, prio : Nat]
      OBVIOUS
    <3> HIDE DEF none
    <3>4. [c \in Components |-> none] \in
            [Components -> [l : Addresses \cup {"none"}, r : Addresses \cup {"none"}, prio : Nat]]
      BY <3>3
    <3>5. (x = Controlling) \in BOOLEAN /\ <<>> \in Seq(Pair(x)) /\ 0 \in Nat
      OBVIOUS
    <3> QED
      BY <2>1, <2>3, <3>1, <3>2, <3>4, <3>5 DEF NewAgent, Agent, Early, none
  <2>5. a.list = <<>> /\ a.out = {} /\ a.state = [c \in Components |-> "GATHERING"]
        /\ a.selected = [c \in Components |-> [l |-> "none", r |-> "none", prio |-> 0]]
        /\ a.again = {} /\ a.told = 0 /\ ~a.ended /\ a.remote = <<>>
        /\ a.local = Gathered[x] /\ a.stored = [c \in Components |-> <<>>]
    BY DEF NewAgent
  <2> HIDE DEF a
  <2>6. Kept(open, a, {})
    BY <2>5 DEF Kept
  <2>7. Tidy(x, a)
    <3>1. DOMAIN a.list = {} /\ DOMAIN a.remote = {}
      BY <2>5
    <3>2. \A c \in Components : Range(a.stored[c]) = {}
      BY <2>5 DEF Range
    <3>3. \A c \in Components : \A l \in Range(a.local[c]) : Component[l] = c
      BY <2>5, CheckAssumption
    <3> QED
      BY <2>5, <3>1, <3>2, <3>3 DEF Tidy
  <2> QED
    BY <2>4, <2>5, <2>6, <2>7 DEF a
<1>2. agents = [x \in Agents |-> NewAgent(x)] /\ net = {} /\ lost = 0
  BY DEF Init
<1>3. TypeOK
  BY <1>1, <1>2, CheckAssumption DEF TypeOK
<1>4. Sound
  BY <1>1, <1>2, <1>3 DEF Sound
<1>5. Hopes
  <2>1. ASSUME NEW x \in Agents
        PROVE  Hopeful(open, x, agents[x]) /\ Running(open, agents[x]) = {}
    <3>1. agents[x] = NewAgent(x)
      BY <1>2
    <3>2. agents[x].told = 0 /\ agents[x].list = <<>> /\ ~agents[x].ended
      BY <1>1, <3>1
    <3>3. \A c \in Components : ~(c <= agents[x].told)
      BY <3>2, CheckAssumption DEF Components
    <3> QED
      BY <3>2, <3>3 DEF Hopeful, Running
  <2> QED
    BY <2>1 DEF Hopes
<1> QED
  BY <1>4, <1>5 DEF Inv

\* Every step keeps the invariant: the handlers, a loss, a stutter.
LEMMA NextKeeps == Inv /\ [Next]_vars => Inv'
<1> SUFFICES ASSUME Inv, [Next]_vars PROVE Inv'
  OBVIOUS
<1>1. ASSUME NEW x \in Agents, SetRemoteCandidates(x) PROVE Inv'
  BY <1>1, SetRemoteCandidatesKeeps
<1>2. ASSUME NEW x \in Agents, ConnCheckTick(x) PROVE Inv'
  BY <1>2, TicksKeep
<1>3. ASSUME NEW m \in net, Receive(m) PROVE Inv'
  BY <1>3, ReceiveRequestKeeps, ReceiveResponseKeeps DEF Receive
<1>4. ASSUME NEW m \in net, Lose(m) PROVE Inv'
  BY <1>4, LoseKeeps
<1>5. CASE UNCHANGED vars
  <2>1. agents' = agents /\ net' = net /\ lost' = lost /\ open' = open
    BY <1>5 DEF vars
  <2>2. Sound'
    BY <2>1 DEF Inv, Sound, TypeOK
  <2>3. Hopes' <=> Hopes
    <3>1. \A x, c : Reaches(x, c)' <=> Reaches(x, c)
      BY <2>1 DEF Reaches
    <3>2. ASSUME NEW x \in Agents
          PROVE  /\ Hopeful(open, x, agents[x])' <=> Hopeful(open, x, agents[x])
                 /\ (\A i \in Running(open, agents[x]) : InFlight(x, i))'
                      <=> \A i \in Running(open, agents[x]) : InFlight(x, i)
      <4>1. Running(open, agents[x])' = Running(open, agents[x])
        BY <2>1 DEF Running, Promising, Works
      <4>2. \A i : InFlight(x, i)' <=> InFlight(x, i)
        BY <2>1 DEF InFlight
      <4>3. ASSUME NEW c \in Components
            PROVE  Hope(open, agents[x], c)' <=> Hope(open, agents[x], c)
        <5>1. Hope(open, agents[x], c)' <=> Hope(open', agents'[x], c)
          BY DEF Hope, Of, Promising, Works
        <5> QED
          BY <2>1, <5>1
      <4>4. Hopeful(open, x, agents[x])' <=> Hopeful(open, x, agents[x])
        BY <2>1, <3>1, <4>3 DEF Hopeful
      <4> QED
        BY <4>1, <4>2, <4>4
    <3> QED
      BY <3>2 DEF Hopes
  <2> QED
    BY <2>1, <2>2, <2>3 DEF Inv
<1> QED
  BY <1>1, <1>2, <1>3, <1>4, <1>5 DEF Next

\* The inductive invariant holds: what an agent has valid was tried, every datagram stands for
\* a pair of the agent that asked, and when nothing is lost a check that will be answered is
\* on its way.
THEOREM ChecksStandForPairs == Spec => []Inv
  BY InitKeeps, NextKeeps, PTL DEF Spec

\* What priv_update_selected_pair selects has been tried in both directions, whenever the
\* nomination comes, and a component that is ready has selected a pair.
THEOREM SelectedAreTried == Spec => []SelectedWorks
<1>1. Inv => SelectedWorks
  BY DEF Inv, Sound, Kept, Works, SelectedWorks, HasSelected, Selected
<1> QED
  BY <1>1, ChecksStandForPairs, PTL

\* cscCallback has a call ended only over a component that the agent could not reach with its
\* own sockets and the candidates it was told of, in whichever order the two ends are told
\* and whatever the pairs do; unless a datagram was lost.
THEOREM NoCallEndsFalsely == Spec => []NoFalseEnd
<1>1. Inv => NoFalseEnd
  BY DEF Inv, Hopes, Hopeful, NoFalseEnd
<1> QED
  BY <1>1, ChecksStandForPairs, PTL

==============================================================================
