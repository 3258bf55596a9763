---------------------------- MODULE CallLifecycle ----------------------------
(***************************************************************************)
(* What a voice call promises to the two people on it, with every detail   *)
(* of the signalling left out: a call is dialled or rings, both sides must *)
(* agree and a media path must exist before anybody talks, and a call that *)
(* has ended (or was refused because the line was busy) stays ended.       *)
(* Module Jingle implements it.                                            *)
(***************************************************************************)
CONSTANT Calls     \* the calls that can take place

VARIABLES phase,   \* [Calls -> Phases], where each call stands
          agreed,  \* the calls whose callee has agreed to talk
          path     \* the calls that have a working media path

vars == <<phase, agreed, path>>

Phases == {"new", "calling", "ringing", "connecting", "active",
           "ended", "refused"}

Pending == {"calling", "ringing"}
Live    == Pending \cup {"connecting", "active"}

Init ==
  /\ phase = [c \in Calls |-> "new"]
  /\ agreed = {}
  /\ path = {}

\* The user dials, or a call comes in and rings.
Begin(c) ==
  /\ phase[c] = "new"
  /\ \E p \in Pending : phase' = [phase EXCEPT ![c] = p]
  /\ UNCHANGED <<agreed, path>>

\* A call that comes in while the line is taken is refused at once.
Refuse(c) ==
  /\ phase[c] = "new"
  /\ phase' = [phase EXCEPT ![c] = "refused"]
  /\ UNCHANGED <<agreed, path>>

\* An incoming call whose offer cannot be used ends before it could ring.
Drop(c) ==
  /\ phase[c] = "new"
  /\ phase' = [phase EXCEPT ![c] = "ended"]
  /\ UNCHANGED <<agreed, path>>

\* The callee picks up; people talk at once if the media path is there.
Agree(c) ==
  /\ phase[c] \in Pending
  /\ agreed' = agreed \cup {c}
  /\ phase' = [phase EXCEPT ![c] = IF c \in path THEN "active" ELSE "connecting"]
  /\ UNCHANGED path

\* The media path comes up; people talk at once if the callee has agreed.
Connect(c) ==
  /\ phase[c] \in Live
  /\ path' = path \cup {c}
  /\ phase' = [phase EXCEPT ![c] = IF c \in agreed THEN "active" ELSE @]
  /\ UNCHANGED agreed

\* Either side hangs up, or the signalling fails.
End(c) ==
  /\ phase[c] \in Live
  /\ phase' = [phase EXCEPT ![c] = "ended"]
  /\ UNCHANGED <<agreed, path>>

Next ==
  \E c \in Calls : Begin(c) \/ Refuse(c) \/ Drop(c) \/ Agree(c) \/ Connect(c) \/ End(c)

Spec == Init /\ [][Next]_vars
==============================================================================
