----------------------------- MODULE MediaSession ------------------------------
(***************************************************************************)
(* The sound of a call: three threads and a chain of native objects.  The  *)
(* main thread connects the chain when the call starts and takes it apart  *)
(* when it ends; the agent's thread brings packets (otICESession ->        *)
(* otRTPDecoder), builds the decoder and opens the playback stream with    *)
(* the first one; PulseAudio's thread asks for frames (output <- decoder   *)
(* <- jitter buffer) and brings recorded ones (input -> encoder ->         *)
(* otRTPEncoder -> otICESession).                                          *)
(*                                                                         *)
(* "held" is the set of members that are not null.  Between two places of  *)
(* a thread nothing is read or written that another thread writes.         *)
(***************************************************************************)
EXTENDS FiniteSets, Naturals

Streams == {"input", "output"}

VARIABLES
  main, agent, pulse,   \* where the threads stand
  held,        \* the members of the chain's objects that are not null
  mLock,       \* who holds otRTPDecoder::mLock
  stream,      \* PulseAudio's view: the state of each stream, and what was asked of it
  mStarted, mTerminating,   \* members of the two streams
  missed       \* history: streams that became ready while Record() or Play() looked

vars == <<main, agent, pulse, held, mLock, stream, mStarted, mTerminating, missed>>

Decoding == {"rtpDec.mLock", "rtpDec.mBuffer", "rtpDec.mTarget", "decoder.mSpeexState",
             "decoder.mTarget", "output.mBuffer"}
Encoding == {"input.mTarget", "encoder.mSpeexState", "encoder.mTarget", "rtpEnc.mPacket",
             "rtpEnc.mTarget"}
Members == Decoding \cup Encoding \cup
           {"ice.mAgent", "ice.mTarget", "rtpDec.mCodecInfo", "rtpDec.mBufferManager",
            "output.mStream", "input.mStream"}
StreamOf == [s \in Streams |-> IF s = "input" THEN "input.mStream" ELSE "output.mStream"]
MemberStreams(h) == {s \in Streams : StreamOf[s] \in h}

NoStream == [state |-> "none", corked |-> TRUE, disconnect |-> FALSE]
NewStream == [NoStream EXCEPT !.state = "creating"]

Init ==
  /\ main = "idle" /\ agent = "loop" /\ pulse = [at |-> "loop", stream |-> "input"]
  /\ held = {"ice.mAgent"}
  /\ mLock = "free"
  /\ stream = [s \in Streams |-> NoStream]
  /\ mStarted = [s \in Streams |-> FALSE]
  /\ mTerminating = [s \in Streams |-> FALSE]
  /\ missed = {}

pulseVars == <<pulse, stream>>
streamVars == <<stream, mStarted, mTerminating, missed>>

-----------------------------------------------------------------------------
(* The main thread connects the chain: JingleSession._startMediaSession    *)

\* iceSession.setTarget(rtpDec): from here on packets reach the RTP decoder.
SetTarget ==
  /\ main = "idle"
  /\ main' = "createStreams"
  /\ held' = held \cup {"rtpDec.mLock", "ice.mTarget"}
  /\ UNCHANGED <<agent, pulse, mLock, streamVars>>

\* otPulseAudio::CreateStreams, the output: the decoder learns who manages its buffer.
CreateOutput ==
  /\ main = "createStreams"
  /\ main' = "createInput"
  /\ held' = held \cup {"output.mBuffer", "rtpDec.mBufferManager"}
  /\ UNCHANGED <<agent, pulse, mLock, streamVars>>

\* PulseAudio is not there: the exception is swallowed and the call goes on silently.
CreateStreamsFails ==
  /\ main = "createStreams"
  /\ main' = "talking"
  /\ UNCHANGED <<agent, pulse, held, mLock, streamVars>>

\* The input's stream is opened at once, but corked; then its targets are connected.
CreateInput ==
  /\ main = "createInput"
  /\ main' = "record"
  /\ held' = held \cup Encoding \cup {"input.mStream"}
  /\ stream' = [stream EXCEPT !["input"] = NewStream]
  /\ UNCHANGED <<agent, pulse, mLock, mStarted, mTerminating, missed>>

\* Record() and Play(): a stream that is ready is uncorked now, any other by its state
\* callback once mStarted is set.
Looks(s) == [stream EXCEPT ![s].corked =
               IF StreamOf[s] \in held /\ stream[s].state = "ready" THEN FALSE ELSE @]

StartsLooking(s, from, to) ==
  /\ main = from
  /\ main' = to
  /\ stream' = Looks(s)
  /\ UNCHANGED <<agent, pulse, held, mLock, mStarted, mTerminating, missed>>

Started(s, from, to) ==
  /\ main = from
  /\ main' = to
  /\ mStarted' = [mStarted EXCEPT ![s] = TRUE]
  /\ UNCHANGED <<agent, pulse, held, mLock, stream, mTerminating, missed>>

StartMedia ==
  \/ SetTarget \/ CreateOutput \/ CreateStreamsFails \/ CreateInput
  \/ StartsLooking("input", "record", "recording")
  \/ Started("input", "recording", "play")
  \/ StartsLooking("output", "play", "playing")
  \/ Started("output", "playing", "talking")

-----------------------------------------------------------------------------
(* The main thread takes it apart: JingleSession._sessionTerminated        *)

\* iceSession.setTarget(null) joins the agent's thread and lets go of the agent ...
EndCall ==
  /\ main \in {"idle", "talking"}
  /\ main' = "joining"
  /\ UNCHANGED <<agent, pulse, held, mLock, streamVars>>

Joined ==
  /\ main = "joining" /\ agent = "gone"
  /\ main' = IF "ice.mTarget" \in held THEN "freesOutput" ELSE "freesInput"
  /\ held' = held \ {"ice.mAgent", "ice.mTarget"}
  /\ UNCHANGED <<agent, pulse, mLock, streamVars>>

\* Mutant: the main thread does not wait for the stream's last callback.
FreesUnwaiting(s, from, waits, to) ==
  /\ main = from
  /\ main' = to
  /\ stream' = [stream EXCEPT ![s].disconnect = StreamOf[s] \in held]
  /\ UNCHANGED <<agent, pulse, held, mLock, mStarted, mTerminating, missed>>

\* otPulseAudioStreamBase::FreeData, in the stream's monitor: unless the stream is over
\* already, wait until its state callback says so.
Frees(s, from, waits, to) ==
  /\ main = from
  /\ stream' = [stream EXCEPT ![s].disconnect = StreamOf[s] \in held]
  /\ IF StreamOf[s] \in held /\ stream[s].state \notin {"failed", "terminated"}
     THEN main' = waits /\ mTerminating' = [mTerminating EXCEPT ![s] = TRUE]
     ELSE main' = to /\ UNCHANGED mTerminating
  /\ UNCHANGED <<agent, pulse, held, mLock, mStarted, missed>>

\* ... and otRTPDecoder::SourceSet(null) frees the decoder, then the jitter buffer. The
\* buffer manager is told a second time, when there is nothing left to free.
FreesDecoder ==
  /\ main = "freesDecoder"
  /\ main' = "freesInput"
  /\ held' = held \ (Decoding \cup
                     {"output.mStream", "rtpDec.mCodecInfo", "rtpDec.mBufferManager"})
  /\ UNCHANGED <<agent, pulse, mLock, streamVars>>

\* audioInput.setTarget(null): the stream first, then encoder and RTP encoder behind it.
FreesEncoder ==
  /\ main = "freesEncoder"
  /\ main' = "over"
  /\ held' = held \ (Encoding \cup {"input.mStream"})
  /\ UNCHANGED <<agent, pulse, mLock, streamVars>>

TakeApart ==
  \/ EndCall \/ Joined \/ FreesDecoder \/ FreesEncoder
  \/ Frees("output", "freesOutput", "waitsOutput", "freesDecoder")
  \/ Frees("input", "freesInput", "waitsInput", "freesEncoder")

-----------------------------------------------------------------------------
(* The agent's thread: recvCallback, otRTPDecoder::AcceptData              *)

\* A packet of another version or of an unknown payload type changes nothing and is no step.
\* The first one of a known type makes the decoder and its buffer ...
FirstPacketComes ==
  /\ agent = "loop" /\ "ice.mTarget" \in held /\ "rtpDec.mCodecInfo" \notin held
  /\ agent' = "connects"
  /\ held' = held \cup {"rtpDec.mCodecInfo", "rtpDec.mBuffer", "rtpDec.mTarget",
                        "decoder.mSpeexState"}
  /\ UNCHANGED <<main, pulse, mLock, streamVars>>

\* ... or fails to, and is not tried again: mCodecInfo is set already.
DecoderFails ==
  /\ agent = "loop" /\ "ice.mTarget" \in held /\ "rtpDec.mCodecInfo" \notin held
  /\ held' = held \cup {"rtpDec.mCodecInfo"}
  /\ UNCHANGED <<main, agent, pulse, mLock, streamVars>>

\* Any later packet goes into the buffer if there is one.
PacketComes ==
  /\ agent = "loop" /\ {"ice.mTarget", "rtpDec.mCodecInfo", "rtpDec.mBuffer"} \subseteq held
  /\ agent' = "puts"
  /\ UNCHANGED <<main, pulse, held, mLock, streamVars>>

\* Mutant: a decoder without a target is kept, as if it had one.
ConnectsAnyway ==
  /\ agent = "connects"
  /\ held' = held \cup {"output.mStream"}
  /\ stream' = [stream EXCEPT !["output"] = NewStream]
  /\ agent' = "asksStarted"
  /\ UNCHANGED <<main, pulse, mLock, mStarted, mTerminating, missed>>

\* decoder->SetTarget(mBufferManager): the output opens its stream. A packet that comes
\* before CreateStreams finds no manager, and SetTarget(null) takes the decoder away.
Connects ==
  /\ agent = "connects"
  /\ IF "rtpDec.mBufferManager" \in held
     THEN /\ held' = held \cup {"decoder.mTarget", "output.mStream"}
          /\ stream' = [stream EXCEPT !["output"] = NewStream]
          /\ agent' = "asksStarted"
     ELSE /\ held' = held \ {"decoder.mSpeexState"}
          /\ agent' = "puts"
          /\ UNCHANGED stream
  /\ UNCHANGED <<main, pulse, mLock, mStarted, mTerminating, missed>>

\* The last lines of otPulseAudioOutputStream::SourceSet: if (mStarted) Play().
AsksStarted ==
  /\ agent = "asksStarted"
  /\ agent' = "puts"
  /\ stream' = IF mStarted["output"] THEN Looks("output") ELSE stream
  /\ UNCHANGED <<main, pulse, held, mLock, mStarted, mTerminating, missed>>

Locks ==
  /\ agent = "puts" /\ mLock = "free"
  /\ agent' = "putting"
  /\ mLock' = "agent"
  /\ UNCHANGED <<main, pulse, held, streamVars>>

Unlocks ==
  /\ agent = "putting"
  /\ agent' = "loop"
  /\ mLock' = "free"
  /\ UNCHANGED <<main, pulse, held, streamVars>>

\* The main loop was told to quit.
AgentQuits ==
  /\ agent = "loop" /\ main \notin {"idle", "talking", "createStreams", "createInput",
                                    "record", "recording", "play", "playing"}
  /\ agent' = "gone"
  /\ UNCHANGED <<main, pulse, held, mLock, streamVars>>

AgentStep ==
  \/ FirstPacketComes \/ DecoderFails \/ PacketComes \/ Connects \/ AsksStarted
  \/ Locks \/ Unlocks \/ AgentQuits

-----------------------------------------------------------------------------
(* PulseAudio's thread                                                     *)

At(place, s) == pulse' = [at |-> place, stream |-> s]

\* The server answers: a stream is ready, fails, or has been disconnected.
StateChanges(s) ==
  /\ pulse.at = "loop"
  /\ \E state \in {"ready", "failed", "terminated"} :
       /\ \/ stream[s].state = "creating" /\ state # "terminated"
          \/ stream[s].state = "ready" /\ state = "failed"
          \/ stream[s].state \in {"creating", "ready"} /\ state = "terminated"
             /\ stream[s].disconnect
       /\ stream' = [stream EXCEPT ![s].state = state]
  /\ At("tells", s)
  /\ UNCHANGED <<main, agent, held, mLock, mStarted, mTerminating, missed>>

Waiting(s) == main = IF s = "input" THEN "waitsInput" ELSE "waitsOutput"
Looking(s) == main = IF s = "input" THEN "recording" ELSE "playing"

\* Mutant: a stream that gets ready is left to Record() and Play().
StateCbLazy(s) ==
  /\ pulse = [at |-> "tells", stream |-> s]
  /\ At("loop", s)
  /\ IF mTerminating[s] /\ stream[s].state \in {"failed", "terminated"}
     THEN /\ main' = IF s = "input" THEN "freesEncoder" ELSE "freesDecoder"
          /\ mTerminating' = [mTerminating EXCEPT ![s] = FALSE]
     ELSE UNCHANGED <<main, mTerminating>>
  /\ missed' = missed \cup (IF stream[s].state = "ready" /\ Looking(s) THEN {s} ELSE {})
  /\ UNCHANGED <<agent, held, mLock, stream, mStarted>>

\* Mutant: the waiting main thread is not notified.
StateCbSilent(s) ==
  /\ pulse = [at |-> "tells", stream |-> s]
  /\ At("loop", s)
  /\ missed' = missed \cup (IF stream[s].state = "ready" /\ Looking(s) THEN {s} ELSE {})
  /\ UNCHANGED <<main, agent, held, mLock, stream, mStarted, mTerminating>>

\* RecordingStateCb and PlaybackStateCb. The notification hands the monitor to FreeData.
StateCb(s) ==
  /\ pulse = [at |-> "tells", stream |-> s]
  /\ At("loop", s)
  /\ IF mTerminating[s]
     THEN /\ IF stream[s].state \in {"failed", "terminated"}
             THEN /\ main' = IF s = "input" THEN "freesEncoder" ELSE "freesDecoder"
                  /\ mTerminating' = [mTerminating EXCEPT ![s] = FALSE]
             ELSE UNCHANGED <<main, mTerminating>>
          /\ UNCHANGED stream
     ELSE /\ stream' = IF mStarted[s] THEN Looks(s) ELSE stream
          /\ UNCHANGED <<main, mTerminating>>
  /\ missed' = missed \cup (IF stream[s].state = "ready" /\ Looking(s) THEN {s} ELSE {})
  /\ UNCHANGED <<agent, held, mLock, mStarted>>

Flows(s) == stream[s].state = "ready" /\ ~stream[s].corked

\* WriteReadyCb, ReadReadyCb
DataWanted(s) ==
  /\ pulse.at = "loop" /\ Flows(s)
  /\ At(IF s = "output" THEN "delivers" ELSE "encodes", s)
  /\ UNCHANGED <<main, agent, held, mLock, streamVars>>

\* otRTPDecoder::DeliverData: all frames are decoded and written under the lock.
Delivers ==
  /\ pulse.at = "delivers" /\ mLock = "free"
  /\ mLock' = "pulse"
  /\ At("decodes", "output")
  /\ UNCHANGED <<main, agent, held, streamVars>>

Delivered ==
  /\ pulse.at = "decodes"
  /\ mLock' = "free"
  /\ At("loop", "output")
  /\ UNCHANGED <<main, agent, held, streamVars>>

\* otICESession::AcceptData looks at mAgent, and then uses it.
Encodes ==
  /\ pulse.at = "encodes"
  /\ At(IF "ice.mAgent" \in held THEN "sends" ELSE "loop", "input")
  /\ UNCHANGED <<main, agent, held, mLock, streamVars>>

Sends ==
  /\ pulse.at = "sends"
  /\ At("loop", "input")
  /\ UNCHANGED <<main, agent, held, mLock, streamVars>>

PulseStep ==
  \/ \E s \in Streams : StateChanges(s) \/ StateCb(s) \/ DataWanted(s)
  \/ Delivers \/ Delivered \/ Encodes \/ Sends

-----------------------------------------------------------------------------
Next == StartMedia \/ TakeApart \/ AgentStep \/ PulseStep

Spec == Init /\ [][Next]_vars

\* The threads run. PulseAudio answers what it was asked; it owes no data and no failure.
Fairness ==
  /\ WF_vars(StartMedia)
  /\ WF_vars(TakeApart /\ main \notin {"idle", "talking"})
  /\ SF_vars(AgentQuits)     \* the loop looks after every callback whether it shall quit
  /\ WF_vars(Connects \/ AsksStarted \/ Unlocks) /\ SF_vars(Locks)
  /\ WF_vars(Delivered \/ Encodes \/ Sends \/ \E s \in Streams : StateCb(s))
  /\ SF_vars(Delivers)
  /\ \A s \in Streams : SF_vars(StateChanges(s))

FairSpec == Spec /\ Fairness

-----------------------------------------------------------------------------
(* Properties                                                              *)

\* Every variable holds a value of its kind; only the chain's members are ever held.
TypeOK ==
  /\ main \in {"idle", "createStreams", "createInput", "record", "recording", "play",
               "playing", "talking", "joining", "freesOutput", "waitsOutput",
               "freesDecoder", "freesInput", "waitsInput", "freesEncoder", "over"}
  /\ agent \in {"loop", "connects", "asksStarted", "puts", "putting", "gone"}
  /\ pulse \in [at : {"loop", "tells", "delivers", "decodes", "encodes", "sends"},
                stream : Streams]
  /\ held \subseteq Members
  /\ mLock \in {"free", "agent", "pulse"}
  /\ stream \in [Streams -> [state : {"none", "creating", "ready", "failed", "terminated"},
                             corked : BOOLEAN, disconnect : BOOLEAN]]
  /\ mStarted \in [Streams -> BOOLEAN] /\ mTerminating \in [Streams -> BOOLEAN]
  /\ missed \subseteq Streams

\* Whatever the main thread takes apart, a thread that is inside the chain finds every
\* object it is going to use, and the lock is not destroyed while somebody holds it.
PartsInPlace ==
  /\ pulse.at = "delivers" => {"output.mBuffer", "rtpDec.mLock", "rtpDec.mBuffer"} \subseteq held
  /\ pulse.at = "decodes" => Decoding \subseteq held
  /\ pulse.at \in {"encodes", "sends"} => Encoding \subseteq held
  /\ agent \in {"puts", "putting"} => {"rtpDec.mLock", "rtpDec.mBuffer"} \subseteq held
  /\ mLock # "free" => "rtpDec.mLock" \in held

\* When the call has been taken apart nobody is inside it and nothing of it is left.
QuietAtTheEnd ==
  main = "over" => agent = "gone" /\ pulse.at \in {"loop", "tells"} /\ held = {}

\* A stream that was started plays as soon as PulseAudio has it ready, whichever thread
\* opened it, unless it became ready between Record() or Play() looking and setting mStarted.
SoundStarts ==
  main = "talking" =>
    \A s \in Streams \ missed :
      stream[s].state = "ready" /\ mStarted[s] /\ pulse # [at |-> "tells", stream |-> s]
        => ~stream[s].corked

\* The main thread gets through the join and both waits for PulseAudio: a call that ends
\* never hangs the windows.
CallEnds == main = "joining" ~> main = "over"
==============================================================================
