--------------------------- MODULE IceSessionProofs ---------------------------
(***************************************************************************)
(* The safety of the ICE session's unlocked flags, for any candidates.     *)
(***************************************************************************)
EXTENDS IceSession, TLAPS

AllReady == mCandidatesReady /\ mCredentialsSet /\ mNonInternalCandidates

\* The places of the two threads, as far as the argument needs their types.
Shape ==
  /\ at = [main |-> at.main, agent |-> at.agent]
  /\ nice = [gathering |-> nice.gathering, credentials |-> nice.credentials,
             remote |-> nice.remote]
  /\ copy = [t \in Threads |-> copy[t]]
  /\ mCredentialsSet \in BOOLEAN
  /\ overlap \in BOOLEAN

\* The callback runs, and has run, only for an agent that has gathered.
Gathered ==
  /\ mCandidatesReady => nice.gathering = "done"
  /\ \A t \in Threads : at[t] \in InCallback => nice.gathering = "done"

\* Who passes candidates on has seen the flag, and the flag says the agent knows.
Credentialed ==
  /\ mCredentialsSet => nice.credentials
  /\ at.main = "asksReady" => mCredentialsSet
  /\ \A t \in Threads : at[t] \in InUpdate => mCredentialsSet

\* The part of what is handed in that the main thread holds in its argument.
Held == IF at.main \in {"asksAll", "appends"} \cup InUpdate THEN given ELSE {}

\* Without an overlap the two threads are apart, and nothing is lost on the way from the
\* argument through the buffer to the agent.
OnItsWay ==
  ~overlap =>
    /\ ~Overlapping
    /\ at.main = "appends" => ~AllReady
    /\ \A t \in Threads :
         /\ at[t] = "hands" => mRemoteCandidates \subseteq copy[t]
         /\ at[t] = "clears" => mRemoteCandidates \subseteq nice.remote
    /\ at.main = "hands" => given \subseteq copy["main"]
    /\ at.main = "clears" => given \subseteq nice.remote
    /\ handed \subseteq nice.remote \cup mRemoteCandidates \cup Held

\* All three flags are up and nobody is about to empty the buffer: it is empty.
Flushed ==
  (/\ ~overlap /\ AllReady
   /\ at.main \notin {"asksReady", "asksAll", "appends", "asksCredentials"} \cup InUpdate
   /\ at.agent \notin {"asksCredentials"} \cup InUpdate)
  => mRemoteCandidates = {}

IInv == Shape /\ Gathered /\ Credentialed /\ OnItsWay /\ Flushed
Core == Shape /\ Gathered /\ Credentialed

-----------------------------------------------------------------------------
\* Nothing has been handed in and nobody is on the way.
LEMMA Initially == Init => IInv
<1> SUFFICES ASSUME Init PROVE IInv
  OBVIOUS
<1>1. /\ at = [main |-> "idle", agent |-> "created"]
      /\ at.main = "idle" /\ at.agent = "created"
  BY DEF Init
<1>2. Shape
  BY <1>1 DEF Init, Shape, Threads
<1>3. Gathered /\ Credentialed
  BY <1>1 DEF Init, Gathered, Credentialed, Threads, InCallback, InUpdate
<1>4. OnItsWay
  BY <1>1 DEF Init, OnItsWay, Overlapping, Threads, InCallback, InUpdate, Held
<1>5. Flushed
  BY DEF Init, Flushed
<1> QED BY <1>2, <1>3, <1>4, <1>5 DEF IInv

\* Types and the facts that hold with or without an overlap.
LEMMA CoreKept == ASSUME Core, Next PROVE Core'
<1> USE DEF Core, Shape, Gathered, Credentialed, Threads, InCallback, InUpdate, Go, flags
<1>o. overlap' \in BOOLEAN
  BY DEF Next, Overlapping
<1>1. CASE SetRemoteCredentials BY <1>1, <1>o DEF SetRemoteCredentials
<1>2. CASE AsksReady BY <1>2, <1>o DEF AsksReady
<1>3. CASE Leaves BY <1>3, <1>o DEF Leaves
<1>4. CASE SetRemoteCandidates BY <1>4, <1>o DEF SetRemoteCandidates, SetRemoteCandidatesInternal
<1>5. CASE AddJNRelay BY <1>5, <1>o DEF AddJNRelay, SetRemoteCandidatesInternal
<1>6. CASE AsksAll BY <1>6, <1>o DEF AsksAll
<1>7. CASE Appends BY <1>7, <1>o DEF Appends
<1>8. CASE GatherCandidates BY <1>8, <1>o DEF GatherCandidates
<1>9. CASE FreeData BY <1>9, <1>o DEF FreeData
<1>10. CASE AttachesQuitLoop BY <1>10, <1>o DEF AttachesQuitLoop
<1>11. CASE Joined BY <1>11, <1>o DEF Joined
<1>12. CASE AgentStep
  BY <1>12, <1>o DEF AgentStep, RunLoop, NextIteration, QuitLoop, WokenUp, DiscoveryEnds
<1>13. ASSUME NEW t \in Threads, Update(t) PROVE Core'
  <2>1. CASE Copies(t) BY <2>1, <1>o DEF Copies
  <2>2. CASE Hands(t) BY <2>2, <1>o DEF Hands
  <2>3. CASE Clears(t) BY <2>3, <1>o DEF Clears, Return
  <2>4. CASE CgdCallback(t) BY <2>4, <1>o DEF CgdCallback, Return
  <2>5. CASE AsksCredentials(t)
    <3>1. PICK seen \in CredentialsSeen : IF seen THEN Go(t, "copies") ELSE Return(t)
      BY <2>5 DEF AsksCredentials
    <3>2. seen \in BOOLEAN /\ (seen => mCredentialsSet)
      BY <3>1 DEF CredentialsSeen
    <3>3. /\ UNCHANGED <<flags, nice, copy>>
          /\ at[t] = "asksCredentials"
      BY <2>5 DEF AsksCredentials
    <3>4. CASE seen BY <3>1, <3>2, <3>3, <3>4, <1>o
    <3>5. CASE ~seen BY <3>1, <3>2, <3>3, <3>5, <1>o DEF Return
    <3> QED BY <3>2, <3>4, <3>5
  <2> QED BY <1>13, <2>1, <2>2, <2>3, <2>4, <2>5 DEF Update
<1> QED
  BY <1>1, <1>2, <1>3, <1>4, <1>5, <1>6, <1>7, <1>8, <1>9, <1>10, <1>11, <1>12, <1>13
     DEF Next, MainStep

\* On the way to the agent nothing is lost while the threads keep apart.
LEMMA OnItsWayKept == ASSUME IInv, Next PROVE OnItsWay'
<1> SUFFICES ASSUME ~overlap' PROVE OnItsWay'
  BY DEF OnItsWay
<1>a. ~overlap /\ ~Overlapping'
  BY DEF Next, IInv, Shape
<1> USE DEF IInv, Shape, Gathered, OnItsWay, AllReady, Held, Threads, InCallback, InUpdate, Go,
            flags, Overlapping
<1>1. CASE SetRemoteCredentials BY <1>1, <1>a DEF SetRemoteCredentials
<1>2. CASE AsksReady BY <1>2, <1>a DEF AsksReady
<1>3. CASE Leaves BY <1>3, <1>a DEF Leaves
<1>4. CASE SetRemoteCandidates BY <1>4, <1>a DEF SetRemoteCandidates, SetRemoteCandidatesInternal
<1>5. CASE AddJNRelay BY <1>5, <1>a DEF AddJNRelay, SetRemoteCandidatesInternal
<1>6. CASE AsksAll BY <1>6, <1>a DEF AsksAll
<1>7. CASE Appends BY <1>7, <1>a DEF Appends
<1>8. CASE GatherCandidates BY <1>8, <1>a DEF GatherCandidates
<1>9. CASE FreeData BY <1>9, <1>a DEF FreeData
<1>10. CASE AttachesQuitLoop BY <1>10, <1>a DEF AttachesQuitLoop
<1>11. CASE Joined BY <1>11, <1>a DEF Joined
<1>12. CASE AgentStep
  BY <1>12, <1>a DEF AgentStep, RunLoop, NextIteration, QuitLoop, WokenUp, DiscoveryEnds
<1>13. ASSUME NEW t \in Threads, Update(t) PROVE OnItsWay'
  <2>1. CASE Copies(t) BY <2>1, <1>a DEF Copies
  <2>2. CASE Hands(t) BY <2>2, <1>a DEF Hands
  <2>3. CASE Clears(t) BY <2>3, <1>a DEF Clears, Return
  <2>4. CASE CgdCallback(t) BY <2>4, <1>a DEF CgdCallback, Return
  <2>5. CASE AsksCredentials(t)
    <3>1. PICK seen \in CredentialsSeen : IF seen THEN Go(t, "copies") ELSE Return(t)
      BY <2>5 DEF AsksCredentials
    <3>2. seen \in BOOLEAN
      BY <3>1 DEF CredentialsSeen, IInv, Shape
    <3>3. /\ UNCHANGED <<flags, mRemoteCandidates, nice, copy, given, handed>>
          /\ at[t] = "asksCredentials"
      BY <2>5 DEF AsksCredentials
    <3>4. CASE seen BY <3>1, <3>3, <3>4, <1>a
    <3>5. CASE ~seen BY <3>1, <3>3, <3>5, <1>a DEF Return
    <3> QED BY <3>2, <3>4, <3>5
  <2> QED BY <1>13, <2>1, <2>2, <2>3, <2>4, <2>5 DEF Update
<1> QED
  BY <1>1, <1>2, <1>3, <1>4, <1>5, <1>6, <1>7, <1>8, <1>9, <1>10, <1>11, <1>12, <1>13
     DEF Next, MainStep

\* Whoever raises the last flag goes on to empty the buffer.
LEMMA FlushedKept == ASSUME IInv, Next PROVE Flushed'
<1> SUFFICES ASSUME ~overlap' PROVE Flushed'
  BY DEF Flushed
<1>a. ~overlap /\ ~Overlapping /\ ~Overlapping'
  BY DEF Next, IInv, Shape, OnItsWay
<1>b. at.main = "appends" => ~AllReady
  BY <1>a DEF IInv, OnItsWay
<1> USE DEF IInv, Shape, Gathered, Flushed, AllReady, Threads, InCallback, InUpdate, Go, flags,
            Overlapping
<1>1. CASE SetRemoteCredentials BY <1>1, <1>a DEF SetRemoteCredentials
<1>2. CASE AsksReady BY <1>2, <1>a DEF AsksReady
<1>3. CASE Leaves BY <1>3, <1>a DEF Leaves
<1>4. CASE SetRemoteCandidates BY <1>4, <1>a DEF SetRemoteCandidates, SetRemoteCandidatesInternal
<1>5. CASE AddJNRelay BY <1>5, <1>a DEF AddJNRelay, SetRemoteCandidatesInternal
<1>6. CASE AsksAll BY <1>6, <1>a DEF AsksAll
<1>7. CASE Appends BY <1>7, <1>a, <1>b DEF Appends
<1>8. CASE GatherCandidates BY <1>8, <1>a DEF GatherCandidates
<1>9. CASE FreeData BY <1>9, <1>a DEF FreeData
<1>10. CASE AttachesQuitLoop BY <1>10, <1>a DEF AttachesQuitLoop
<1>11. CASE Joined BY <1>11, <1>a DEF Joined
<1>12. CASE AgentStep
  BY <1>12, <1>a DEF AgentStep, RunLoop, NextIteration, QuitLoop, WokenUp, DiscoveryEnds
<1>13. ASSUME NEW t \in Threads, Update(t) PROVE Flushed'
  <2>1. CASE Copies(t) BY <2>1, <1>a DEF Copies
  <2>2. CASE Hands(t) BY <2>2, <1>a DEF Hands
  <2>3. CASE Clears(t) BY <2>3, <1>a DEF Clears, Return
  <2>4. CASE CgdCallback(t) BY <2>4, <1>a DEF CgdCallback, Return
  <2>5. CASE AsksCredentials(t)
    <3>1. PICK seen \in CredentialsSeen : IF seen THEN Go(t, "copies") ELSE Return(t)
      BY <2>5 DEF AsksCredentials
    <3>2. seen \in BOOLEAN /\ (~seen => ~mCredentialsSet \/ at.main \in {"asksReady", "leaves"})
      BY <3>1 DEF CredentialsSeen
    <3>3. /\ UNCHANGED <<flags, mRemoteCandidates>>
          /\ at[t] = "asksCredentials"
      BY <2>5 DEF AsksCredentials
    <3>4. CASE seen BY <3>1, <3>3, <3>4, <1>a
    <3>5. CASE ~seen BY <3>1, <3>2, <3>3, <3>5, <1>a DEF Return
    <3> QED BY <3>2, <3>4, <3>5
  <2> QED BY <1>13, <2>1, <2>2, <2>3, <2>4, <2>5 DEF Update
<1> QED
  BY <1>1, <1>2, <1>3, <1>4, <1>5, <1>6, <1>7, <1>8, <1>9, <1>10, <1>11, <1>12, <1>13
     DEF Next, MainStep

-----------------------------------------------------------------------------
\* The inductive invariant: however the calls of the main thread and the callback of the
\* agent's thread interleave (setRemoteCredentials, setRemoteCandidates, cgdCallback).
THEOREM Inductive == Spec => []IInv
<1>1. ASSUME IInv, [Next]_vars PROVE IInv'
  <2>1. CASE Next
    BY <1>1, <2>1, CoreKept, OnItsWayKept, FlushedKept DEF IInv, Core
  <2>2. CASE UNCHANGED vars
    BY <1>1, <2>2 DEF vars, IInv, Shape, Gathered, Credentialed, OnItsWay, Flushed, AllReady, Held,
                      Overlapping
  <2> QED BY <1>1, <2>1, <2>2
<1> QED BY Initially, <1>1, PTL DEF Spec

\* The agent is never given candidates while it would refuse them, so that the result
\* updateRemoteCandidates() does not look at is always a success.
THEOREM Accepted == Spec => []NeverRefused
<1>1. IInv => NeverRefused
  BY DEF IInv, Gathered, NeverRefused, Threads, InCallback, InUpdate
<1> QED BY <1>1, Inductive, PTL

\* Candidates reach the agent after the peer's credentials, on every path.
\* (The agent's list only grows in updateRemoteCandidates, which asks for the flag.)
THEOREM Authenticated == Spec => []CredentialsFirst
<1>1. Init => CredentialsFirst
  BY DEF Init, CredentialsFirst
<1>2. ASSUME IInv, CredentialsFirst, [Next]_vars PROVE CredentialsFirst'
  <2> USE DEF CredentialsFirst
  <2>1. CASE UNCHANGED nice BY <1>2, <2>1
  <2>2. CASE nice' = [nice EXCEPT !.credentials = TRUE]
    BY <1>2, <2>2 DEF IInv, Shape
  <2>3. CASE \E g \in {"running", "done"} : nice' = [nice EXCEPT !.gathering = g]
    BY <1>2, <2>3 DEF IInv, Shape
  <2>4. ASSUME NEW t \in Threads, Hands(t) PROVE CredentialsFirst'
    <3>1. nice.credentials
      BY <2>4, <1>2 DEF Hands, IInv, Credentialed, InUpdate
    <3> QED BY <2>4, <3>1, <1>2 DEF Hands, IInv, Shape
  <2>5. \/ UNCHANGED nice
        \/ nice' = [nice EXCEPT !.credentials = TRUE]
        \/ \E g \in {"running", "done"} : nice' = [nice EXCEPT !.gathering = g]
        \/ \E t \in Threads : Hands(t)
    <3>1. CASE MainStep
      BY <3>1 DEF MainStep, SetRemoteCredentials, AsksReady, Leaves, SetRemoteCandidates, AddJNRelay,
                  AsksAll, Appends, GatherCandidates, FreeData, AttachesQuitLoop, Joined
    <3>2. CASE AgentStep
      BY <3>2 DEF AgentStep, RunLoop, NextIteration, QuitLoop, WokenUp, DiscoveryEnds
    <3>3. ASSUME NEW t \in Threads, Update(t)
          PROVE  UNCHANGED nice \/ Hands(t)
      BY <3>3 DEF Update, Copies, Clears, CgdCallback, AsksCredentials
    <3> QED BY <1>2, <3>1, <3>2, <3>3 DEF Next, vars
  <2> QED BY <2>1, <2>2, <2>3, <2>4, <2>5
<1> QED BY <1>1, <1>2, Inductive, PTL DEF Spec

\* Everything handed in has reached the agent once the three flags are up and both threads
\* are out of the calls, whichever came last, if no call met the callback.
THEOREM Complete == Spec => []NothingLeftBehind
<1>1. IInv => NothingLeftBehind
  BY DEF IInv, OnItsWay, Flushed, AllReady, Held, NothingLeftBehind, Threads, InCallback, InUpdate
<1> QED BY <1>1, Inductive, PTL
==============================================================================
