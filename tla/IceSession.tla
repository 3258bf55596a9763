------------------------------ MODULE IceSession ------------------------------
(***************************************************************************)
(* One ICE session of a call (otICESession).  The main thread hands in     *)
(* what the peer has sent; the agent's thread runs the agent's main loop   *)
(* and calls back.  Both may pass the buffered candidates on to the agent: *)
(* whoever raises the last of three flags does, and no lock protects the   *)
(* flags or the buffer.  The end of candidate gathering is reported by the *)
(* agent's thread, or by the main thread when there is nothing to          *)
(* discover; cgdCallback runs under the agent's own lock in either case.   *)
(***************************************************************************)
EXTENDS FiniteSets, Naturals

CONSTANTS
  Candidates,   \* candidates of the peer
  JNRelays      \* candidates AddJNRelay() makes up for the relay's far end

ASSUME JNRelayAssumption == Candidates \cap JNRelays = {}

VARIABLES
  mCandidatesReady, mCredentialsSet, mNonInternalCandidates,
  mRemoteCandidates,   \* the buffer
  nice,        \* the agent: how far it gathered, its credentials, what it was given
  mMainLoop,   \* is_running of the loop, and whether the idle source is attached
  at,          \* where the two threads stand
  copy,        \* what each has read from the buffer in updateRemoteCandidates
  given,       \* the argument of the main thread's call
  handed,      \* history: all candidates handed in
  overlap      \* history: a call of the main thread met cgdCallback of the other

vars == <<mCandidatesReady, mCredentialsSet, mNonInternalCandidates, mRemoteCandidates,
          nice, mMainLoop, at, copy, given, handed, overlap>>

Threads == {"main", "agent"}
AllCandidates == Candidates \cup JNRelays
InUpdate == {"copies", "hands", "clears"}
InCallback == {"cgd", "asksCredentials"} \cup InUpdate

Init ==
  /\ mCandidatesReady = FALSE /\ mCredentialsSet = FALSE /\ mNonInternalCandidates = FALSE
  /\ mRemoteCandidates = {}
  /\ nice = [gathering |-> "not", credentials |-> FALSE, remote |-> {}]
  /\ mMainLoop = [running |-> FALSE, quitLoop |-> FALSE]
  /\ at = [main |-> "idle", agent |-> "created"]
  /\ copy = [t \in Threads |-> {}]
  /\ given = {}
  /\ handed = {}
  /\ overlap = FALSE

flags == <<mCandidatesReady, mCredentialsSet, mNonInternalCandidates>>

Go(t, place) == at' = [at EXCEPT ![t] = place]

\* Where a thread goes on when updateRemoteCandidates or cgdCallback returns.
Return(t) == Go(t, IF t = "main" THEN "idle" ELSE "loop")

\* The agent's lock is held throughout cgdCallback, which the agent calls.
Locked(t) == t = "main" /\ at.agent \in InCallback

-----------------------------------------------------------------------------
(* The main thread                                                         *)

\* Mutant: the buffered candidates are left to somebody else.
SetRemoteCredentialsOnly ==
  /\ at.main = "idle" /\ ~mCredentialsSet /\ ~Locked("main")
  /\ nice' = [nice EXCEPT !.credentials = TRUE]
  /\ mCredentialsSet' = TRUE
  /\ Go("main", "leaves")
  /\ given' = {}
  /\ UNCHANGED <<mCandidatesReady, mNonInternalCandidates, mRemoteCandidates, mMainLoop,
                 copy, handed>>

\* Mutant: the flag is raised for credentials the agent was never told.
SetRemoteCredentialsFlag ==
  /\ at.main = "idle" /\ ~mCredentialsSet
  /\ mCredentialsSet' = TRUE
  /\ Go("main", "asksReady")
  /\ given' = {}
  /\ UNCHANGED <<mCandidatesReady, mNonInternalCandidates, mRemoteCandidates, nice,
                 mMainLoop, copy, handed>>

\* SetRemoteCredentials, once per session (JingleSession.parseTranportCandidates).
SetRemoteCredentials ==
  /\ at.main = "idle" /\ ~mCredentialsSet /\ ~Locked("main")
  /\ nice' = [nice EXCEPT !.credentials = TRUE]
  /\ mCredentialsSet' = TRUE
  /\ Go("main", "asksReady")
  /\ given' = {}
  /\ UNCHANGED <<mCandidatesReady, mNonInternalCandidates, mRemoteCandidates, mMainLoop,
                 copy, handed>>

\* Its last lines look at the other two flags.
AsksReady ==
  /\ at.main = "asksReady"
  /\ Go("main", IF mCandidatesReady /\ mNonInternalCandidates THEN "copies" ELSE "leaves")
  /\ UNCHANGED <<flags, mRemoteCandidates, nice, mMainLoop, copy, given, handed>>

\* Until the call has returned the store to the flag may still be on its way to the
\* other processor: nothing between the store and the loads of the others orders them.
Leaves ==
  /\ at.main = "leaves"
  /\ Go("main", "idle")
  /\ UNCHANGED <<flags, mRemoteCandidates, nice, mMainLoop, copy, given, handed>>

CredentialsSeen ==
  {mCredentialsSet} \cup (IF at.main \in {"asksReady", "leaves"} THEN {FALSE} ELSE {})

SetRemoteCandidatesInternal(cands) ==
  /\ given' = cands
  /\ handed' = handed \cup cands
  /\ Go("main", "asksAll")

SetRemoteCandidates ==
  /\ at.main = "idle"
  /\ mNonInternalCandidates' = TRUE
  /\ \E cands \in SUBSET (Candidates \ handed) : SetRemoteCandidatesInternal(cands)
  /\ UNCHANGED <<mCandidatesReady, mCredentialsSet, mRemoteCandidates, nice, mMainLoop, copy>>

\* AddJNRelay() comes before GatherCandidates() wherever jingle.js calls the two.
AddJNRelay ==
  /\ at.main = "idle" /\ nice.gathering = "not"
  /\ handed \cap JNRelays = {}
  /\ SetRemoteCandidatesInternal(JNRelays)
  /\ UNCHANGED <<flags, mRemoteCandidates, nice, mMainLoop, copy>>

\* Mutant: candidates are passed on whether or not the agent has gathered its own.
AsksAllButReady ==
  /\ at.main = "asksAll"
  /\ Go("main", IF mCredentialsSet /\ mNonInternalCandidates THEN "copies" ELSE "appends")
  /\ UNCHANGED <<flags, mRemoteCandidates, nice, mMainLoop, copy, given, handed>>

AsksAll ==
  /\ at.main = "asksAll"
  /\ Go("main", IF mCandidatesReady /\ mCredentialsSet /\ mNonInternalCandidates
                THEN "copies" ELSE "appends")
  /\ UNCHANGED <<flags, mRemoteCandidates, nice, mMainLoop, copy, given, handed>>

Appends ==
  /\ at.main = "appends"
  /\ mRemoteCandidates' = mRemoteCandidates \cup given
  /\ Go("main", "idle")
  /\ UNCHANGED <<flags, nice, mMainLoop, copy, given, handed>>

\* nice_agent_gather_candidates: without a STUN or TURN server there is nothing to
\* discover, and the main thread runs cgdCallback itself.
GatherCandidates ==
  /\ at.main = "idle" /\ nice.gathering = "not"
  /\ \/ nice' = [nice EXCEPT !.gathering = "running"] /\ UNCHANGED at
     \/ nice' = [nice EXCEPT !.gathering = "done"] /\ Go("main", "cgd")
  /\ given' = {}
  /\ UNCHANGED <<flags, mRemoteCandidates, mMainLoop, copy, handed>>

\* FreeData: g_main_loop_quit, then an idle source that quits again, then the join.
FreeData ==
  /\ at.main = "idle"
  /\ mMainLoop' = [mMainLoop EXCEPT !.running = FALSE]
  /\ Go("main", "attaches")
  /\ UNCHANGED <<flags, mRemoteCandidates, nice, copy, given, handed>>

\* Mutant: quitting once is enough.
AttachesNothing ==
  /\ at.main = "attaches"
  /\ Go("main", "joins")
  /\ UNCHANGED <<flags, mRemoteCandidates, nice, mMainLoop, copy, given, handed>>

AttachesQuitLoop ==
  /\ at.main = "attaches"
  /\ mMainLoop' = [mMainLoop EXCEPT !.quitLoop = TRUE]
  /\ Go("main", "joins")
  /\ UNCHANGED <<flags, mRemoteCandidates, nice, copy, given, handed>>

Joined ==
  /\ at.main = "joins" /\ at.agent = "gone"
  /\ Go("main", "freed")
  /\ UNCHANGED <<flags, mRemoteCandidates, nice, mMainLoop, copy, given, handed>>

-----------------------------------------------------------------------------
(* updateRemoteCandidates and cgdCallback, on either thread                *)

Copies(t) ==
  /\ at[t] = "copies"
  /\ copy' = [copy EXCEPT ![t] =
                mRemoteCandidates \cup (IF t = "main" THEN given ELSE {})]
  /\ Go(t, "hands")
  /\ UNCHANGED <<flags, mRemoteCandidates, nice, mMainLoop, given, handed>>

\* nice_agent_set_remote_candidates, which refuses while the agent is gathering.
Hands(t) ==
  /\ at[t] = "hands" /\ ~Locked(t)
  /\ nice' = [nice EXCEPT !.remote = IF nice.gathering = "running" THEN @ ELSE @ \cup copy[t]]
  /\ Go(t, "clears")
  /\ UNCHANGED <<flags, mRemoteCandidates, mMainLoop, copy, given, handed>>

Clears(t) ==
  /\ at[t] = "clears"
  /\ mRemoteCandidates' = {}
  /\ copy' = [copy EXCEPT ![t] = {}]
  /\ Return(t)
  /\ UNCHANGED <<flags, nice, mMainLoop, given, handed>>

CgdCallback(t) ==
  /\ at[t] = "cgd"
  /\ IF mCandidatesReady
     THEN Return(t) /\ UNCHANGED mCandidatesReady
     ELSE Go(t, "asksCredentials") /\ mCandidatesReady' = TRUE
  /\ UNCHANGED <<mCredentialsSet, mNonInternalCandidates, mRemoteCandidates, nice,
                 mMainLoop, copy, given, handed>>

AsksCredentials(t) ==
  /\ at[t] = "asksCredentials"
  /\ \E seen \in CredentialsSeen : IF seen THEN Go(t, "copies") ELSE Return(t)
  /\ UNCHANGED <<flags, mRemoteCandidates, nice, mMainLoop, copy, given, handed>>

-----------------------------------------------------------------------------
(* The agent's thread                                                      *)

\* g_main_loop_run: a quit that came before is forgotten.
RunLoop ==
  /\ at.agent = "created"
  /\ mMainLoop' = [mMainLoop EXCEPT !.running = TRUE]
  /\ Go("agent", "loop")
  /\ UNCHANGED <<flags, mRemoteCandidates, nice, copy, given, handed>>

\* Between two iterations the loop looks whether it is still to run.
NextIteration ==
  /\ at.agent = "loop"
  /\ Go("agent", IF mMainLoop.running THEN "iterates" ELSE "gone")
  /\ UNCHANGED <<flags, mRemoteCandidates, nice, mMainLoop, copy, given, handed>>

\* quitLoopFun goes before the agent's sources.
QuitLoop ==
  /\ at.agent = "iterates" /\ mMainLoop.quitLoop
  /\ mMainLoop' = [mMainLoop EXCEPT !.running = FALSE]
  /\ Go("agent", "loop")
  /\ UNCHANGED <<flags, mRemoteCandidates, nice, copy, given, handed>>

\* g_main_loop_quit wakes an iteration that waits.
WokenUp ==
  /\ at.agent = "iterates" /\ ~mMainLoop.quitLoop /\ ~mMainLoop.running
  /\ Go("agent", "loop")
  /\ UNCHANGED <<flags, mRemoteCandidates, nice, mMainLoop, copy, given, handed>>

\* The last discovery is over: agent_gathering_done.
DiscoveryEnds ==
  /\ at.agent = "iterates" /\ ~mMainLoop.quitLoop
  /\ nice.gathering = "running"
  /\ nice' = [nice EXCEPT !.gathering = "done"]
  /\ Go("agent", "cgd")
  /\ UNCHANGED <<flags, mRemoteCandidates, mMainLoop, copy, given, handed>>

-----------------------------------------------------------------------------
MainStep ==
  \/ SetRemoteCredentials \/ AsksReady \/ Leaves
  \/ SetRemoteCandidates \/ AddJNRelay \/ AsksAll \/ Appends
  \/ GatherCandidates \/ FreeData \/ AttachesQuitLoop \/ Joined

AgentStep == RunLoop \/ NextIteration \/ QuitLoop \/ WokenUp \/ DiscoveryEnds

Update(t) == Copies(t) \/ Hands(t) \/ Clears(t) \/ CgdCallback(t) \/ AsksCredentials(t)

\* The main thread is inside one of the calls that share the flags and the buffer
\* while the agent's thread is inside cgdCallback.
Overlapping ==
  /\ at.agent \in InCallback
  /\ at.main \in {"asksReady", "leaves", "asksAll", "appends"} \cup InUpdate

Next ==
  /\ MainStep \/ AgentStep \/ \E t \in Threads : Update(t)
  /\ overlap' = (overlap \/ Overlapping')

Spec == Init /\ [][Next]_vars

\* Both threads run, and discovery ends (libnice gives up after its retransmissions);
\* nobody has to call anything.
Fairness ==
  /\ WF_vars(Next /\ (AsksReady \/ Leaves \/ AsksAll \/ Appends \/ AttachesQuitLoop \/ Joined))
  /\ WF_vars(Next /\ AgentStep)
  /\ \A t \in Threads : WF_vars(Next /\ Update(t))

FairSpec == Spec /\ Fairness

-----------------------------------------------------------------------------
(* Properties                                                              *)

\* Everything stays in its type.
TypeOK ==
  /\ mCandidatesReady \in BOOLEAN /\ mCredentialsSet \in BOOLEAN
  /\ mNonInternalCandidates \in BOOLEAN /\ overlap \in BOOLEAN
  /\ mRemoteCandidates \subseteq AllCandidates /\ handed \subseteq AllCandidates
  /\ given \subseteq AllCandidates
  /\ nice \in [gathering : {"not", "running", "done"}, credentials : BOOLEAN,
               remote : SUBSET AllCandidates]
  /\ mMainLoop \in [running : BOOLEAN, quitLoop : BOOLEAN]
  /\ at.main \in {"idle", "asksReady", "leaves", "asksAll", "appends", "attaches", "joins",
                  "freed"} \cup InCallback
  /\ at.agent \in {"created", "loop", "iterates", "gone"} \cup InCallback
  /\ DOMAIN at = Threads
  /\ copy \in [Threads -> SUBSET AllCandidates]

\* updateRemoteCandidates() ignores what nice_agent_set_remote_candidates() returns and
\* empties the buffer, so it must never run while the agent still refuses candidates.
NeverRefused ==
  \A t \in Threads : at[t] \in {"hands", "clears"} => nice.gathering = "done"

\* Connectivity checks are not sent without the peer's credentials (conn_check_send):
\* no candidate reaches the agent before them, whichever of the three calls passes it on.
CredentialsFirst == nice.remote # {} => nice.credentials

\* Whichever of credentials, candidates and the end of gathering comes last, everything
\* handed in has reached the agent, unless a call met cgdCallback of the other thread.
NothingLeftBehind ==
  (/\ ~overlap
   /\ at.main = "idle" /\ at.agent \notin InCallback
   /\ mCandidatesReady /\ mCredentialsSet /\ mNonInternalCandidates)
  => handed \subseteq nice.remote

\* FreeData() returns even when the loop is told to quit before it has begun to run.
FreeDataReturns == at.main = "attaches" ~> at.main = "freed"
==============================================================================
