-------------------------- MODULE MediaSessionProofs --------------------------
(***************************************************************************)
(* Why the chain of a call's sound can be taken apart while PulseAudio's   *)
(* thread and the agent's may be inside it.  There is nothing to choose in *)
(* module MediaSession, so TLC sees all of it; the proof says why it is    *)
(* so: what each place of the main thread guarantees about the two others. *)
(***************************************************************************)
EXTENDS MediaSession, TLAPS

-----------------------------------------------------------------------------
(* The inductive invariant                                                 *)

\* The places of the main thread while the call is set up, and after each part is freed.
Building == {"idle", "createStreams", "createInput", "record", "recording", "play",
             "playing", "talking"}
DecoderOver == {"freesDecoder", "freesInput", "waitsInput", "freesEncoder", "over"}
DecoderFreed == DecoderOver \ {"freesDecoder"}
EncoderOver == {"freesEncoder", "over"}

States == {"none", "creating", "ready", "failed", "terminated"}
Dead == {"none", "failed", "terminated"}
Working == {"connects", "asksStarted", "puts", "putting"}

\* The agent's thread lives as long as the session has its agent.
Joining ==
  /\ agent = "gone" => main \notin Building
  /\ main \notin Building \cup {"joining"} => agent = "gone"
  /\ "ice.mAgent" \in held <=> main \in Building \cup {"joining"}
  /\ agent \in Working =>
       {"ice.mTarget", "rtpDec.mCodecInfo", "rtpDec.mBuffer", "rtpDec.mTarget"} \subseteq held
  /\ agent = "connects" => stream["output"].state = "none" /\ "decoder.mSpeexState" \in held

\* What is held while the main thread sets the chain up and takes it apart.
Chain ==
  /\ main = "idle" => held = {"ice.mAgent"}
  /\ main \in Building \ {"idle"} => "ice.mTarget" \in held
  /\ main = "joining" /\ "ice.mTarget" \notin held => held = {"ice.mAgent"}
  /\ "ice.mTarget" \in held => main \in Building \cup {"joining"} /\ "rtpDec.mLock" \in held
  /\ "rtpDec.mBufferManager" \in held => "output.mBuffer" \in held
  /\ "rtpDec.mBuffer" \in held => "rtpDec.mTarget" \in held
  /\ main \in DecoderFreed => held \subseteq Encoding \cup {"input.mStream"}
  /\ main = "over" => held = {}

\* A stream that PulseAudio knows has everything its callbacks use until it is dead.
Alive ==
  /\ stream["output"].state # "none" /\ main \notin DecoderFreed =>
       Decoding \cup {"output.mStream", "rtpDec.mCodecInfo"} \subseteq held
  /\ stream["input"].state # "none" /\ main # "over" =>
       Encoding \cup {"input.mStream"} \subseteq held
  /\ main \in {"idle", "createStreams", "createInput"} => stream["input"].state = "none"
  /\ main \in DecoderOver => stream["output"].state \in Dead
  /\ main \in EncoderOver => stream["input"].state \in Dead
  /\ \A s \in Streams : mTerminating[s] <=> Waiting(s)

\* PulseAudio's thread works on streams that are ready.
Callbacks ==
  /\ pulse.at \in {"delivers", "decodes"} => stream["output"].state = "ready"
  /\ pulse.at \in {"encodes", "sends"} => stream["input"].state = "ready"
  /\ mLock = "pulse" <=> pulse.at = "decodes"
  /\ mLock = "agent" <=> agent = "putting"

\* Once Record() or Play() has looked, a stream that is ready has been seen by somebody.
Sounding ==
  main \in Building =>
    \A s \in Streams \ missed :
      (Looking(s) \/ mStarted[s]) /\ stream[s].state = "ready"
      /\ pulse # [at |-> "tells", stream |-> s]
        => ~stream[s].corked

Inv == TypeOK /\ Joining /\ Chain /\ Alive /\ Callbacks /\ Sounding

-----------------------------------------------------------------------------
(* Steps that leave the streams alone                                      *)

\* From here on packets reach the RTP decoder.
LEMMA SetTargetKeeps ==
  ASSUME Inv, SetTarget
  PROVE  Inv'
<1>1. TypeOK'
  BY DEF SetTarget, streamVars, Inv, TypeOK, Members, Decoding, Encoding, Streams
<1>2. Joining'
  BY DEF SetTarget, streamVars, Inv, Joining, Chain, Alive, TypeOK, Streams, Building,
         DecoderOver, DecoderFreed, EncoderOver, Dead, Working
<1>3. Chain'
  BY DEF SetTarget, streamVars, Inv, Joining, Chain, Alive, Building, DecoderOver, DecoderFreed,
         EncoderOver, Dead, Working, Decoding, Encoding
<1>4. Alive'
  BY DEF SetTarget, streamVars, Inv, Joining, Chain, Alive, TypeOK, Waiting, Streams, Building,
         DecoderOver, DecoderFreed, EncoderOver, Dead, Working, Decoding, Encoding
<1>5. Callbacks'
  BY DEF SetTarget, streamVars, Inv, Joining, Alive, Callbacks, TypeOK, Streams
<1>6. Sounding'
  BY DEF SetTarget, streamVars, Inv, TypeOK, Sounding, Looking, Alive, Joining, Streams,
         Building, DecoderOver, DecoderFreed, EncoderOver, Dead, Working
<1> QED
  BY <1>1, <1>2, <1>3, <1>4, <1>5, <1>6 DEF Inv

\* The decoder learns who manages its buffer.
LEMMA CreateOutputKeeps ==
  ASSUME Inv, CreateOutput
  PROVE  Inv'
<1>1. TypeOK'
  BY DEF CreateOutput, streamVars, Inv, TypeOK, Members, Decoding, Encoding, Streams
<1>2. Joining'
  BY DEF CreateOutput, streamVars, Inv, Joining, Chain, Alive, TypeOK, Streams, Building,
         DecoderOver, DecoderFreed, EncoderOver, Dead, Working
<1>3. Chain'
  BY DEF CreateOutput, streamVars, Inv, Joining, Chain, Alive, Building, DecoderOver,
         DecoderFreed, EncoderOver, Dead, Working, Decoding, Encoding
<1>4. Alive'
  BY DEF CreateOutput, streamVars, Inv, Joining, Chain, Alive, TypeOK, Waiting, Streams,
         Building, DecoderOver, DecoderFreed, EncoderOver, Dead, Working, Decoding, Encoding
<1>5. Callbacks'
  BY DEF CreateOutput, streamVars, Inv, Joining, Alive, Callbacks, TypeOK, Streams
<1>6. Sounding'
  BY DEF CreateOutput, streamVars, Inv, TypeOK, Sounding, Looking, Alive, Joining, Streams,
         Building, DecoderOver, DecoderFreed, EncoderOver, Dead, Working
<1> QED
  BY <1>1, <1>2, <1>3, <1>4, <1>5, <1>6 DEF Inv

\* Without PulseAudio there is no stream at all.
LEMMA CreateStreamsFailsKeeps ==
  ASSUME Inv, CreateStreamsFails
  PROVE  Inv'
<1>1. TypeOK'
  BY DEF CreateStreamsFails, streamVars, Inv, TypeOK, Members, Decoding, Encoding, Streams
<1>2. Joining'
  BY DEF CreateStreamsFails, streamVars, Inv, Joining, Chain, Alive, TypeOK, Streams, Building,
         DecoderOver, DecoderFreed, EncoderOver, Dead, Working
<1>3. Chain'
  BY DEF CreateStreamsFails, streamVars, Inv, Joining, Chain, Alive, Building, DecoderOver,
         DecoderFreed, EncoderOver, Dead, Working, Decoding, Encoding
<1>4. Alive'
  BY DEF CreateStreamsFails, streamVars, Inv, Joining, Chain, Alive, TypeOK, Waiting, Streams,
         Building, DecoderOver, DecoderFreed, EncoderOver, Dead, Working, Decoding, Encoding
<1>5. Callbacks'
  BY DEF CreateStreamsFails, streamVars, Inv, Joining, Alive, Callbacks, TypeOK, Streams
<1>6. Sounding'
  BY DEF CreateStreamsFails, streamVars, Inv, TypeOK, Sounding, Looking, Alive, Joining,
         Streams, Building, DecoderOver, DecoderFreed, EncoderOver, Dead, Working
<1> QED
  BY <1>1, <1>2, <1>3, <1>4, <1>5, <1>6 DEF Inv

\* The call ends.
LEMMA EndCallKeeps ==
  ASSUME Inv, EndCall
  PROVE  Inv'
<1>1. TypeOK'
  BY DEF EndCall, streamVars, Inv, TypeOK, Members, Decoding, Encoding, Streams
<1>2. Joining'
  BY DEF EndCall, streamVars, Inv, Joining, Chain, Alive, TypeOK, Streams, Building,
         DecoderOver, DecoderFreed, EncoderOver, Dead, Working
<1>3. Chain'
  BY DEF EndCall, streamVars, Inv, Joining, Chain, Alive, Building, DecoderOver, DecoderFreed,
         EncoderOver, Dead, Working, Decoding, Encoding
<1>4. Alive'
  BY DEF EndCall, streamVars, Inv, Joining, Chain, Alive, TypeOK, Waiting, Streams, Building,
         DecoderOver, DecoderFreed, EncoderOver, Dead, Working, Decoding, Encoding
<1>5. Callbacks'
  BY DEF EndCall, streamVars, Inv, Joining, Alive, Callbacks, TypeOK, Streams
<1>6. Sounding'
  BY DEF EndCall, streamVars, Inv, TypeOK, Sounding, Looking, Alive, Joining, Streams, Building,
         DecoderOver, DecoderFreed, EncoderOver, Dead, Working
<1> QED
  BY <1>1, <1>2, <1>3, <1>4, <1>5, <1>6 DEF Inv

\* The agent's thread is gone, and with it whatever it would have done to the chain.
LEMMA JoinedKeeps ==
  ASSUME Inv, Joined
  PROVE  Inv'
<1>1. TypeOK'
  BY DEF Joined, streamVars, Inv, TypeOK, Members, Decoding, Encoding, Streams
<1>2. Joining'
  BY DEF Joined, streamVars, Inv, Joining, Chain, Alive, TypeOK, Streams, Building, DecoderOver,
         DecoderFreed, EncoderOver, Dead, Working
<1>3. Chain'
  BY DEF Joined, streamVars, Inv, Joining, Chain, Alive, Building, DecoderOver, DecoderFreed,
         EncoderOver, Dead, Working, Decoding, Encoding
<1>4. Alive'
  BY DEF Joined, streamVars, Inv, Joining, Chain, Alive, TypeOK, Waiting, Streams, Building,
         DecoderOver, DecoderFreed, EncoderOver, Dead, Working, Decoding, Encoding
<1>5. Callbacks'
  BY DEF Joined, streamVars, Inv, Joining, Alive, Callbacks, TypeOK, Streams
<1>6. Sounding'
  BY DEF Joined, streamVars, Inv, TypeOK, Sounding, Looking, Alive, Joining, Streams, Building,
         DecoderOver, DecoderFreed, EncoderOver, Dead, Working
<1> QED
  BY <1>1, <1>2, <1>3, <1>4, <1>5, <1>6 DEF Inv

\* The decoder is freed: its stream is dead, so no callback is inside it.
LEMMA FreesDecoderKeeps ==
  ASSUME Inv, FreesDecoder
  PROVE  Inv'
<1>1. TypeOK'
  BY DEF FreesDecoder, streamVars, Inv, TypeOK, Members, Decoding, Encoding, Streams
<1>2. Joining'
  BY DEF FreesDecoder, streamVars, Inv, Joining, Chain, Alive, TypeOK, Streams, Building,
         DecoderOver, DecoderFreed, EncoderOver, Dead, Working
<1>3. Chain'
  BY DEF FreesDecoder, streamVars, Inv, Joining, Chain, Alive, Building, DecoderOver,
         DecoderFreed, EncoderOver, Dead, Working, Decoding, Encoding, TypeOK, Members
<1>4. Alive'
  BY DEF FreesDecoder, streamVars, Inv, Joining, Chain, Alive, TypeOK, Waiting, Streams,
         Building, DecoderOver, DecoderFreed, EncoderOver, Dead, Working, Decoding, Encoding
<1>5. Callbacks'
  BY DEF FreesDecoder, streamVars, Inv, Joining, Alive, Callbacks, TypeOK, Streams
<1>6. Sounding'
  BY DEF FreesDecoder, streamVars, Inv, TypeOK, Sounding, Looking, Alive, Joining, Streams,
         Building, DecoderOver, DecoderFreed, EncoderOver, Dead, Working
<1> QED
  BY <1>1, <1>2, <1>3, <1>4, <1>5, <1>6 DEF Inv

\* The encoder is freed in the same way.
LEMMA FreesEncoderKeeps ==
  ASSUME Inv, FreesEncoder
  PROVE  Inv'
<1>1. TypeOK'
  BY DEF FreesEncoder, streamVars, Inv, TypeOK, Members, Decoding, Encoding, Streams
<1>2. Joining'
  BY DEF FreesEncoder, streamVars, Inv, Joining, Chain, Alive, TypeOK, Streams, Building,
         DecoderOver, DecoderFreed, EncoderOver, Dead, Working
<1>3. Chain'
  BY DEF FreesEncoder, streamVars, Inv, Joining, Chain, Alive, Building, DecoderOver,
         DecoderFreed, EncoderOver, Dead, Working, Decoding, Encoding
<1>4. Alive'
  BY DEF FreesEncoder, streamVars, Inv, Joining, Chain, Alive, TypeOK, Waiting, Streams,
         Building, DecoderOver, DecoderFreed, EncoderOver, Dead, Working, Decoding, Encoding
<1>5. Callbacks'
  BY DEF FreesEncoder, streamVars, Inv, Joining, Alive, Callbacks, TypeOK, Streams
<1>6. Sounding'
  BY DEF FreesEncoder, streamVars, Inv, TypeOK, Sounding, Looking, Alive, Joining, Streams,
         Building, DecoderOver, DecoderFreed, EncoderOver, Dead, Working
<1> QED
  BY <1>1, <1>2, <1>3, <1>4, <1>5, <1>6 DEF Inv

\* The first packet builds the decoder.
LEMMA FirstPacketComesKeeps ==
  ASSUME Inv, FirstPacketComes
  PROVE  Inv'
<1>1. TypeOK'
  BY DEF FirstPacketComes, streamVars, Inv, TypeOK, Members, Decoding, Encoding, Streams
<1>2. Joining'
  BY DEF FirstPacketComes, streamVars, Inv, Joining, Chain, Alive, TypeOK, Streams, Building,
         DecoderOver, DecoderFreed, EncoderOver, Dead, Working
<1>3. Chain'
  BY DEF FirstPacketComes, streamVars, Inv, Joining, Chain, Alive, Building, DecoderOver,
         DecoderFreed, EncoderOver, Dead, Working, Decoding, Encoding
<1>4. Alive'
  BY DEF FirstPacketComes, streamVars, Inv, Joining, Chain, Alive, TypeOK, Waiting, Streams,
         Building, DecoderOver, DecoderFreed, EncoderOver, Dead, Working, Decoding, Encoding
<1>5. Callbacks'
  BY DEF FirstPacketComes, streamVars, Inv, Joining, Alive, Callbacks, TypeOK, Streams
<1>6. Sounding'
  BY DEF FirstPacketComes, streamVars, Inv, TypeOK, Sounding, Looking, Alive, Joining, Streams,
         Building, DecoderOver, DecoderFreed, EncoderOver, Dead, Working
<1> QED
  BY <1>1, <1>2, <1>3, <1>4, <1>5, <1>6 DEF Inv

\* No decoder can be built.
LEMMA DecoderFailsKeeps ==
  ASSUME Inv, DecoderFails
  PROVE  Inv'
<1>1. TypeOK'
  BY DEF DecoderFails, streamVars, Inv, TypeOK, Members, Decoding, Encoding, Streams
<1>2. Joining'
  BY DEF DecoderFails, streamVars, Inv, Joining, Chain, Alive, TypeOK, Streams, Building,
         DecoderOver, DecoderFreed, EncoderOver, Dead, Working
<1>3. Chain'
  BY DEF DecoderFails, streamVars, Inv, Joining, Chain, Alive, Building, DecoderOver,
         DecoderFreed, EncoderOver, Dead, Working, Decoding, Encoding
<1>4. Alive'
  BY DEF DecoderFails, streamVars, Inv, Joining, Chain, Alive, TypeOK, Waiting, Streams,
         Building, DecoderOver, DecoderFreed, EncoderOver, Dead, Working, Decoding, Encoding
<1>5. Callbacks'
  BY DEF DecoderFails, streamVars, Inv, Joining, Alive, Callbacks, TypeOK, Streams
<1>6. Sounding'
  BY DEF DecoderFails, streamVars, Inv, TypeOK, Sounding, Looking, Alive, Joining, Streams,
         Building, DecoderOver, DecoderFreed, EncoderOver, Dead, Working
<1> QED
  BY <1>1, <1>2, <1>3, <1>4, <1>5, <1>6 DEF Inv

\* A packet is for the buffer.
LEMMA PacketComesKeeps ==
  ASSUME Inv, PacketComes
  PROVE  Inv'
<1>1. TypeOK'
  BY DEF PacketComes, streamVars, Inv, TypeOK, Members, Decoding, Encoding, Streams
<1>2. Joining'
  BY DEF PacketComes, streamVars, Inv, Joining, Chain, Alive, TypeOK, Streams, Building,
         DecoderOver, DecoderFreed, EncoderOver, Dead, Working
<1>3. Chain'
  BY DEF PacketComes, streamVars, Inv, Joining, Chain, Alive, Building, DecoderOver,
         DecoderFreed, EncoderOver, Dead, Working, Decoding, Encoding
<1>4. Alive'
  BY DEF PacketComes, streamVars, Inv, Joining, Chain, Alive, TypeOK, Waiting, Streams,
         Building, DecoderOver, DecoderFreed, EncoderOver, Dead, Working, Decoding, Encoding
<1>5. Callbacks'
  BY DEF PacketComes, streamVars, Inv, Joining, Alive, Callbacks, TypeOK, Streams
<1>6. Sounding'
  BY DEF PacketComes, streamVars, Inv, TypeOK, Sounding, Looking, Alive, Joining, Streams,
         Building, DecoderOver, DecoderFreed, EncoderOver, Dead, Working
<1> QED
  BY <1>1, <1>2, <1>3, <1>4, <1>5, <1>6 DEF Inv

\* The agent's thread takes the decoder's lock ...
LEMMA LocksKeeps ==
  ASSUME Inv, Locks
  PROVE  Inv'
<1>1. TypeOK'
  BY DEF Locks, streamVars, Inv, TypeOK, Members, Decoding, Encoding, Streams
<1>2. Joining'
  BY DEF Locks, streamVars, Inv, Joining, Chain, Alive, TypeOK, Streams, Building, DecoderOver,
         DecoderFreed, EncoderOver, Dead, Working
<1>3. Chain'
  BY DEF Locks, streamVars, Inv, Joining, Chain, Alive, Building, DecoderOver, DecoderFreed,
         EncoderOver, Dead, Working, Decoding, Encoding
<1>4. Alive'
  BY DEF Locks, streamVars, Inv, Joining, Chain, Alive, TypeOK, Waiting, Streams, Building,
         DecoderOver, DecoderFreed, EncoderOver, Dead, Working, Decoding, Encoding
<1>5. Callbacks'
  BY DEF Locks, streamVars, Inv, Joining, Alive, Callbacks, TypeOK, Streams
<1>6. Sounding'
  BY DEF Locks, streamVars, Inv, TypeOK, Sounding, Looking, Alive, Joining, Streams, Building,
         DecoderOver, DecoderFreed, EncoderOver, Dead, Working
<1> QED
  BY <1>1, <1>2, <1>3, <1>4, <1>5, <1>6 DEF Inv

\* ... and gives it back.
LEMMA UnlocksKeeps ==
  ASSUME Inv, Unlocks
  PROVE  Inv'
<1>1. TypeOK'
  BY DEF Unlocks, streamVars, Inv, TypeOK, Members, Decoding, Encoding, Streams
<1>2. Joining'
  BY DEF Unlocks, streamVars, Inv, Joining, Chain, Alive, TypeOK, Streams, Building,
         DecoderOver, DecoderFreed, EncoderOver, Dead, Working
<1>3. Chain'
  BY DEF Unlocks, streamVars, Inv, Joining, Chain, Alive, Building, DecoderOver, DecoderFreed,
         EncoderOver, Dead, Working, Decoding, Encoding
<1>4. Alive'
  BY DEF Unlocks, streamVars, Inv, Joining, Chain, Alive, TypeOK, Waiting, Streams, Building,
         DecoderOver, DecoderFreed, EncoderOver, Dead, Working, Decoding, Encoding
<1>5. Callbacks'
  BY DEF Unlocks, streamVars, Inv, Joining, Alive, Callbacks, TypeOK, Streams
<1>6. Sounding'
  BY DEF Unlocks, streamVars, Inv, TypeOK, Sounding, Looking, Alive, Joining, Streams, Building,
         DecoderOver, DecoderFreed, EncoderOver, Dead, Working
<1> QED
  BY <1>1, <1>2, <1>3, <1>4, <1>5, <1>6 DEF Inv

\* The agent's loop quits between two packets.
LEMMA AgentQuitsKeeps ==
  ASSUME Inv, AgentQuits
  PROVE  Inv'
<1>1. TypeOK'
  BY DEF AgentQuits, streamVars, Inv, TypeOK, Members, Decoding, Encoding, Streams
<1>2. Joining'
  BY DEF AgentQuits, streamVars, Inv, Joining, Chain, Alive, TypeOK, Streams, Building,
         DecoderOver, DecoderFreed, EncoderOver, Dead, Working
<1>3. Chain'
  BY DEF AgentQuits, streamVars, Inv, Joining, Chain, Alive, Building, DecoderOver,
         DecoderFreed, EncoderOver, Dead, Working, Decoding, Encoding
<1>4. Alive'
  BY DEF AgentQuits, streamVars, Inv, Joining, Chain, Alive, TypeOK, Waiting, Streams, Building,
         DecoderOver, DecoderFreed, EncoderOver, Dead, Working, Decoding, Encoding
<1>5. Callbacks'
  BY DEF AgentQuits, streamVars, Inv, Joining, Alive, Callbacks, TypeOK, Streams
<1>6. Sounding'
  BY DEF AgentQuits, streamVars, Inv, TypeOK, Sounding, Looking, Alive, Joining, Streams,
         Building, DecoderOver, DecoderFreed, EncoderOver, Dead, Working
<1> QED
  BY <1>1, <1>2, <1>3, <1>4, <1>5, <1>6 DEF Inv

\* PulseAudio wants data of a stream that is ready.
LEMMA DataWantedKeeps ==
  ASSUME Inv, NEW s \in Streams, DataWanted(s)
  PROVE  Inv'
<1>1. TypeOK'
  BY DEF DataWanted, streamVars, At, Flows, Inv, TypeOK, Members, Decoding, Encoding, Streams
<1>2. Joining'
  BY DEF DataWanted, streamVars, At, Flows, Inv, Joining, Chain, Alive, TypeOK, Streams,
         Building, DecoderOver, DecoderFreed, EncoderOver, Dead, Working
<1>3. Chain'
  BY DEF DataWanted, streamVars, At, Flows, Inv, Joining, Chain, Alive, Building, DecoderOver,
         DecoderFreed, EncoderOver, Dead, Working, Decoding, Encoding
<1>4. Alive'
  BY DEF DataWanted, streamVars, At, Flows, Inv, Joining, Chain, Alive, TypeOK, Waiting,
         Streams, Building, DecoderOver, DecoderFreed, EncoderOver, Dead, Working, Decoding,
         Encoding
<1>5. Callbacks'
  BY DEF DataWanted, streamVars, At, Flows, Inv, Joining, Alive, Callbacks, TypeOK, Streams
<1>6. Sounding'
  BY DEF DataWanted, streamVars, At, Flows, Inv, TypeOK, Sounding, Looking, Alive, Joining,
         Streams, Building, DecoderOver, DecoderFreed, EncoderOver, Dead, Working
<1> QED
  BY <1>1, <1>2, <1>3, <1>4, <1>5, <1>6 DEF Inv

\* Its thread takes the decoder's lock ...
LEMMA DeliversKeeps ==
  ASSUME Inv, Delivers
  PROVE  Inv'
<1>1. TypeOK'
  BY DEF Delivers, streamVars, At, Inv, TypeOK, Members, Decoding, Encoding, Streams
<1>2. Joining'
  BY DEF Delivers, streamVars, At, Inv, Joining, Chain, Alive, TypeOK, Streams, Building,
         DecoderOver, DecoderFreed, EncoderOver, Dead, Working
<1>3. Chain'
  BY DEF Delivers, streamVars, At, Inv, Joining, Chain, Alive, Building, DecoderOver,
         DecoderFreed, EncoderOver, Dead, Working, Decoding, Encoding
<1>4. Alive'
  BY DEF Delivers, streamVars, At, Inv, Joining, Chain, Alive, TypeOK, Waiting, Streams,
         Building, DecoderOver, DecoderFreed, EncoderOver, Dead, Working, Decoding, Encoding
<1>5. Callbacks'
  BY DEF Delivers, streamVars, At, Inv, Joining, Alive, Callbacks, TypeOK, Streams
<1>6. Sounding'
  BY DEF Delivers, streamVars, At, Inv, TypeOK, Sounding, Looking, Alive, Joining, Streams,
         Building, DecoderOver, DecoderFreed, EncoderOver, Dead, Working
<1> QED
  BY <1>1, <1>2, <1>3, <1>4, <1>5, <1>6 DEF Inv

\* ... and gives it back.
LEMMA DeliveredKeeps ==
  ASSUME Inv, Delivered
  PROVE  Inv'
<1>1. TypeOK'
  BY DEF Delivered, streamVars, At, Inv, TypeOK, Members, Decoding, Encoding, Streams
<1>2. Joining'
  BY DEF Delivered, streamVars, At, Inv, Joining, Chain, Alive, TypeOK, Streams, Building,
         DecoderOver, DecoderFreed, EncoderOver, Dead, Working
<1>3. Chain'
  BY DEF Delivered, streamVars, At, Inv, Joining, Chain, Alive, Building, DecoderOver,
         DecoderFreed, EncoderOver, Dead, Working, Decoding, Encoding
<1>4. Alive'
  BY DEF Delivered, streamVars, At, Inv, Joining, Chain, Alive, TypeOK, Waiting, Streams,
         Building, DecoderOver, DecoderFreed, EncoderOver, Dead, Working, Decoding, Encoding
<1>5. Callbacks'
  BY DEF Delivered, streamVars, At, Inv, Joining, Alive, Callbacks, TypeOK, Streams
<1>6. Sounding'
  BY DEF Delivered, streamVars, At, Inv, TypeOK, Sounding, Looking, Alive, Joining, Streams,
         Building, DecoderOver, DecoderFreed, EncoderOver, Dead, Working
<1> QED
  BY <1>1, <1>2, <1>3, <1>4, <1>5, <1>6 DEF Inv

\* Recorded frames are encoded, if the session still has its agent ...
LEMMA EncodesKeeps ==
  ASSUME Inv, Encodes
  PROVE  Inv'
<1>1. TypeOK'
  BY DEF Encodes, streamVars, At, Inv, TypeOK, Members, Decoding, Encoding, Streams
<1>2. Joining'
  BY DEF Encodes, streamVars, At, Inv, Joining, Chain, Alive, TypeOK, Streams, Building,
         DecoderOver, DecoderFreed, EncoderOver, Dead, Working
<1>3. Chain'
  BY DEF Encodes, streamVars, At, Inv, Joining, Chain, Alive, Building, DecoderOver,
         DecoderFreed, EncoderOver, Dead, Working, Decoding, Encoding
<1>4. Alive'
  BY DEF Encodes, streamVars, At, Inv, Joining, Chain, Alive, TypeOK, Waiting, Streams,
         Building, DecoderOver, DecoderFreed, EncoderOver, Dead, Working, Decoding, Encoding
<1>5. Callbacks'
  BY DEF Encodes, streamVars, At, Inv, Joining, Alive, Callbacks, TypeOK, Streams
<1>6. Sounding'
  BY DEF Encodes, streamVars, At, Inv, TypeOK, Sounding, Looking, Alive, Joining, Streams,
         Building, DecoderOver, DecoderFreed, EncoderOver, Dead, Working
<1> QED
  BY <1>1, <1>2, <1>3, <1>4, <1>5, <1>6 DEF Inv

\* ... and sent.
LEMMA SendsKeeps ==
  ASSUME Inv, Sends
  PROVE  Inv'
<1>1. TypeOK'
  BY DEF Sends, streamVars, At, Inv, TypeOK, Members, Decoding, Encoding, Streams
<1>2. Joining'
  BY DEF Sends, streamVars, At, Inv, Joining, Chain, Alive, TypeOK, Streams, Building,
         DecoderOver, DecoderFreed, EncoderOver, Dead, Working
<1>3. Chain'
  BY DEF Sends, streamVars, At, Inv, Joining, Chain, Alive, Building, DecoderOver, DecoderFreed,
         EncoderOver, Dead, Working, Decoding, Encoding
<1>4. Alive'
  BY DEF Sends, streamVars, At, Inv, Joining, Chain, Alive, TypeOK, Waiting, Streams, Building,
         DecoderOver, DecoderFreed, EncoderOver, Dead, Working, Decoding, Encoding
<1>5. Callbacks'
  BY DEF Sends, streamVars, At, Inv, Joining, Alive, Callbacks, TypeOK, Streams
<1>6. Sounding'
  BY DEF Sends, streamVars, At, Inv, TypeOK, Sounding, Looking, Alive, Joining, Streams,
         Building, DecoderOver, DecoderFreed, EncoderOver, Dead, Working
<1> QED
  BY <1>1, <1>2, <1>3, <1>4, <1>5, <1>6 DEF Inv

-----------------------------------------------------------------------------
(* Steps that change a stream                                              *)

\* A stream that is new.
LEMMA NewStreamFields ==
  /\ NewStream.state = "creating" /\ NewStream.corked = TRUE
  /\ NewStream \in [state : States, corked : BOOLEAN, disconnect : BOOLEAN]
  BY DEF NewStream, NoStream, States

\* Looking at a stream uncorks it if it is ready, and changes nothing else.
LEMMA LooksFields ==
  ASSUME TypeOK, NEW s \in Streams
  PROVE  LET d == Looks(s) IN
         /\ d \in [Streams -> [state : States, corked : BOOLEAN, disconnect : BOOLEAN]]
         /\ \A r \in Streams : d[r].state = stream[r].state
         /\ \A r \in Streams : r # s => d[r] = stream[r]
         /\ StreamOf[s] \in held /\ stream[s].state = "ready" => ~d[s].corked
         /\ ~stream[s].corked => ~d[s].corked
<1> DEFINE v == IF StreamOf[s] \in held /\ stream[s].state = "ready" THEN FALSE
                ELSE stream[s].corked
           r1 == [stream[s] EXCEPT !.corked = v]
<1>1. stream \in [Streams -> [state : States, corked : BOOLEAN, disconnect : BOOLEAN]]
  BY DEF TypeOK, States
<1>2. /\ stream[s] \in [state : States, corked : BOOLEAN, disconnect : BOOLEAN]
      /\ v \in BOOLEAN
  BY <1>1
<1>3. Looks(s) = [stream EXCEPT ![s] = r1]
  BY <1>1 DEF Looks
<1>4. /\ StreamOf[s] \in held /\ stream[s].state = "ready" => v = FALSE
      /\ ~stream[s].corked => v = FALSE
  BY <1>2
<1> HIDE DEF v
<1>5. /\ r1 \in [state : States, corked : BOOLEAN, disconnect : BOOLEAN]
      /\ r1.state = stream[s].state /\ r1.corked = v
  BY <1>2
<1> HIDE DEF r1
<1> QED
  BY <1>1, <1>3, <1>4, <1>5

\* The input's stream is opened, with everything behind it.
LEMMA CreateInputKeeps ==
  ASSUME Inv, CreateInput
  PROVE  Inv'
<1>0. /\ stream'["input"] = NewStream /\ stream'["output"] = stream["output"]
      /\ NewStream.state = "creating"
      /\ stream' \in [Streams -> [state : States, corked : BOOLEAN, disconnect : BOOLEAN]]
  BY NewStreamFields DEF CreateInput, Inv, TypeOK, Streams, States
<1>1. TypeOK'
  BY <1>0 DEF CreateInput, Inv, TypeOK, Members, Decoding, Encoding, Streams, States
<1>2. Joining'
  BY <1>0 DEF CreateInput, Inv, Joining, Chain, Alive, TypeOK, Streams, Building, DecoderOver,
              DecoderFreed, EncoderOver, Dead, Working
<1>3. Chain'
  BY <1>0 DEF CreateInput, Inv, Joining, Chain, Alive, Building, DecoderOver, DecoderFreed,
              EncoderOver, Dead, Working, Decoding, Encoding
<1>4. Alive'
  BY <1>0 DEF CreateInput, Inv, Joining, Chain, Alive, TypeOK, Waiting, Streams, Building,
              DecoderOver, DecoderFreed, EncoderOver, Dead, Working, Decoding, Encoding
<1>5. Callbacks'
  BY <1>0 DEF CreateInput, Inv, Joining, Alive, Callbacks, TypeOK, Streams
<1>6. Sounding'
  BY <1>0 DEF CreateInput, Inv, TypeOK, Sounding, Looking, Alive, Joining, Streams, Building,
              DecoderOver, DecoderFreed, EncoderOver, Dead, Working
<1> QED
  BY <1>1, <1>2, <1>3, <1>4, <1>5, <1>6 DEF Inv

\* Record() or Play() looks at its stream.
LEMMA StartsLookingKeeps ==
  ASSUME Inv, NEW s \in Streams, NEW from, NEW to,
         StartsLooking(s, from, to),
         \/ s = "input" /\ from = "record" /\ to = "recording"
         \/ s = "output" /\ from = "play" /\ to = "playing"
  PROVE  Inv'
<1>0. /\ stream' \in [Streams -> [state : States, corked : BOOLEAN, disconnect : BOOLEAN]]
      /\ \A r \in Streams : stream'[r].state = stream[r].state
      /\ \A r \in Streams : r # s => stream'[r] = stream[r]
      /\ StreamOf[s] \in held /\ stream[s].state = "ready" => ~stream'[s].corked
      /\ ~stream[s].corked => ~stream'[s].corked
  BY LooksFields DEF StartsLooking, Inv
<1>1. TypeOK'
  BY <1>0 DEF StartsLooking, StreamOf, Inv, TypeOK, Members, Decoding, Encoding, Streams, States
<1>2. Joining'
  BY <1>0 DEF StartsLooking, StreamOf, Inv, Joining, Chain, Alive, TypeOK, Streams, Building,
              DecoderOver, DecoderFreed, EncoderOver, Dead, Working
<1>3. Chain'
  BY <1>0 DEF StartsLooking, StreamOf, Inv, Joining, Chain, Alive, Building, DecoderOver,
              DecoderFreed, EncoderOver, Dead, Working, Decoding, Encoding
<1>4. Alive'
  BY <1>0 DEF StartsLooking, StreamOf, Inv, Joining, Chain, Alive, TypeOK, Waiting, Streams,
              Building, DecoderOver, DecoderFreed, EncoderOver, Dead, Working, Decoding,
              Encoding
<1>5. Callbacks'
  BY <1>0 DEF StartsLooking, StreamOf, Inv, Joining, Alive, Callbacks, TypeOK, Streams
<1>6. Sounding'
  BY <1>0 DEF StartsLooking, StreamOf, Inv, TypeOK, Sounding, Looking, Alive, Joining, Streams,
              Building, DecoderOver, DecoderFreed, EncoderOver, Dead, Working
<1> QED
  BY <1>1, <1>2, <1>3, <1>4, <1>5, <1>6 DEF Inv

\* It sets mStarted: whatever becomes ready from now on is uncorked by the callback.
LEMMA StartedKeeps ==
  ASSUME Inv, NEW s \in Streams, NEW from, NEW to,
         Started(s, from, to),
         \/ s = "input" /\ from = "recording" /\ to = "play"
         \/ s = "output" /\ from = "playing" /\ to = "talking"
  PROVE  Inv'
<1>1. TypeOK'
  BY DEF Started, Inv, TypeOK, Members, Decoding, Encoding, Streams
<1>2. Joining'
  BY DEF Started, Inv, Joining, Chain, Alive, TypeOK, Streams, Building, DecoderOver,
         DecoderFreed, EncoderOver, Dead, Working
<1>3. Chain'
  BY DEF Started, Inv, Joining, Chain, Alive, Building, DecoderOver, DecoderFreed, EncoderOver,
         Dead, Working, Decoding, Encoding
<1>4. Alive'
  BY DEF Started, Inv, Joining, Chain, Alive, TypeOK, Waiting, Streams, Building, DecoderOver,
         DecoderFreed, EncoderOver, Dead, Working, Decoding, Encoding
<1>5. Callbacks'
  BY DEF Started, Inv, Joining, Alive, Callbacks, TypeOK, Streams
<1>6. Sounding'
  BY DEF Started, Inv, TypeOK, Sounding, Looking, Alive, Joining, Streams, Building,
         DecoderOver, DecoderFreed, EncoderOver, Dead, Working
<1> QED
  BY <1>1, <1>2, <1>3, <1>4, <1>5, <1>6 DEF Inv

\* FreeData asks PulseAudio to disconnect and waits, unless the stream is dead.
LEMMA FreesKeeps ==
  ASSUME Inv, NEW s \in Streams, NEW from, NEW waits, NEW to,
         Frees(s, from, waits, to),
         \/ /\ s = "output" /\ from = "freesOutput"
            /\ waits = "waitsOutput" /\ to = "freesDecoder"
         \/ /\ s = "input" /\ from = "freesInput"
            /\ waits = "waitsInput" /\ to = "freesEncoder"
  PROVE  Inv'
<1> DEFINE v == StreamOf[s] \in held
           f == [stream[s] EXCEPT !.disconnect = v]
<1>a. stream \in [Streams -> [state : States, corked : BOOLEAN, disconnect : BOOLEAN]]
  BY DEF Inv, TypeOK, States
<1>b. stream' = [stream EXCEPT ![s] = f]
  BY <1>a DEF Frees
<1>c. /\ stream[s] \in [state : States, corked : BOOLEAN, disconnect : BOOLEAN]
      /\ v \in BOOLEAN
  BY <1>a
<1> HIDE DEF v
<1>d. /\ f \in [state : States, corked : BOOLEAN, disconnect : BOOLEAN]
      /\ f.state = stream[s].state /\ f.corked = stream[s].corked
  BY <1>c
<1> HIDE DEF f
<1>0. /\ stream' \in [Streams -> [state : States, corked : BOOLEAN, disconnect : BOOLEAN]]
      /\ \A r \in Streams : /\ stream'[r].state = stream[r].state
                            /\ stream'[r].corked = stream[r].corked
  BY <1>a, <1>b, <1>d
<1>1. TypeOK'
  <2>1. /\ main' = from \/ main' = waits \/ main' = to \/ main' = main
        /\ mTerminating' \in [Streams -> BOOLEAN]
    BY DEF Frees, Inv, TypeOK
  <2>2. waits \in {"waitsOutput", "waitsInput"} /\ to \in {"freesDecoder", "freesEncoder"}
        /\ from \in {"freesOutput", "freesInput"}
    OBVIOUS
  <2> QED
    BY <1>0, <2>1, <2>2 DEF Frees, Inv, TypeOK, States
<1>2. Joining'
  BY <1>0 DEF Frees, StreamOf, Inv, Joining, Chain, Alive, TypeOK, Streams, Building,
              DecoderOver, DecoderFreed, EncoderOver, Dead, Working
<1>3. Chain'
  BY <1>0 DEF Frees, StreamOf, Inv, Joining, Chain, Alive, Building, DecoderOver, DecoderFreed,
              EncoderOver, Dead, Working, Decoding, Encoding
<1>4. Alive'
  BY <1>0 DEF Frees, StreamOf, Inv, Joining, Chain, Alive, TypeOK, Waiting, Streams, Building,
              DecoderOver, DecoderFreed, EncoderOver, Dead, Working, Decoding, Encoding
<1>5. Callbacks'
  BY <1>0 DEF Frees, StreamOf, Inv, Joining, Alive, Callbacks, TypeOK, Streams
<1>6. Sounding'
  BY <1>0 DEF Frees, StreamOf, Inv, TypeOK, Sounding, Looking, Alive, Joining, Streams,
              Building, DecoderOver, DecoderFreed, EncoderOver, Dead, Working
<1> QED
  BY <1>1, <1>2, <1>3, <1>4, <1>5, <1>6 DEF Inv

\* The decoder's target is the output, which opens its stream, or the decoder goes again.
LEMMA ConnectsKeeps ==
  ASSUME Inv, Connects
  PROVE  Inv'
<1>0. /\ stream' \in [Streams -> [state : States, corked : BOOLEAN, disconnect : BOOLEAN]]
      /\ stream'["input"] = stream["input"]
      /\ stream'["output"] = IF "rtpDec.mBufferManager" \in held THEN NewStream
                            ELSE stream["output"]
      /\ NewStream.state = "creating"
  BY NewStreamFields DEF Connects, Inv, TypeOK, Streams, States
<1>1. TypeOK'
  BY <1>0 DEF Connects, Inv, TypeOK, Members, Decoding, Encoding, Streams, States
<1>2. Joining'
  BY <1>0 DEF Connects, Inv, Joining, Chain, Alive, TypeOK, Streams, Building, DecoderOver,
              DecoderFreed, EncoderOver, Dead, Working
<1>3. Chain'
  BY <1>0 DEF Connects, Inv, Joining, Chain, Alive, Building, DecoderOver, DecoderFreed,
              EncoderOver, Dead, Working, Decoding, Encoding
<1>4. Alive'
  BY <1>0 DEF Connects, Inv, Joining, Chain, Alive, TypeOK, Waiting, Streams, Building,
              DecoderOver, DecoderFreed, EncoderOver, Dead, Working, Decoding, Encoding
<1>5. Callbacks'
  BY <1>0 DEF Connects, Inv, Joining, Alive, Callbacks, TypeOK, Streams
<1>6. Sounding'
  BY <1>0 DEF Connects, Inv, TypeOK, Sounding, Looking, Alive, Joining, Streams, Building,
              DecoderOver, DecoderFreed, EncoderOver, Dead, Working
<1> QED
  BY <1>1, <1>2, <1>3, <1>4, <1>5, <1>6 DEF Inv

\* The new stream is started if Play() has been called already.
LEMMA AsksStartedKeeps ==
  ASSUME Inv, AsksStarted
  PROVE  Inv'
<1>0. /\ stream' \in [Streams -> [state : States, corked : BOOLEAN, disconnect : BOOLEAN]]
      /\ \A r \in Streams : stream'[r].state = stream[r].state
      /\ \A r \in Streams : ~stream[r].corked => ~stream'[r].corked
  <2>1. "output" \in Streams
    BY DEF Streams
  <2>2. CASE mStarted["output"]
    BY <2>1, <2>2, LooksFields DEF AsksStarted, Inv
  <2>3. CASE ~mStarted["output"]
    BY <2>3 DEF AsksStarted, Inv, TypeOK, States
  <2> QED
    BY <2>2, <2>3
<1>1. TypeOK'
  BY <1>0 DEF AsksStarted, Inv, TypeOK, Members, Decoding, Encoding, Streams, States
<1>2. Joining'
  BY <1>0 DEF AsksStarted, Inv, Joining, Chain, Alive, TypeOK, Streams, Building, DecoderOver,
              DecoderFreed, EncoderOver, Dead, Working
<1>3. Chain'
  BY <1>0 DEF AsksStarted, Inv, Joining, Chain, Alive, Building, DecoderOver, DecoderFreed,
              EncoderOver, Dead, Working, Decoding, Encoding
<1>4. Alive'
  BY <1>0 DEF AsksStarted, Inv, Joining, Chain, Alive, TypeOK, Waiting, Streams, Building,
              DecoderOver, DecoderFreed, EncoderOver, Dead, Working, Decoding, Encoding
<1>5. Callbacks'
  BY <1>0 DEF AsksStarted, Inv, Joining, Alive, Callbacks, TypeOK, Streams
<1>6. Sounding'
  BY <1>0 DEF AsksStarted, Inv, TypeOK, Sounding, Looking, Alive, Joining, Streams, Building,
              DecoderOver, DecoderFreed, EncoderOver, Dead, Working
<1> QED
  BY <1>1, <1>2, <1>3, <1>4, <1>5, <1>6 DEF Inv

\* The server answers.
LEMMA StateChangesKeeps ==
  ASSUME Inv, NEW s \in Streams, StateChanges(s)
  PROVE  Inv'
<1>0. /\ stream' \in [Streams -> [state : States, corked : BOOLEAN, disconnect : BOOLEAN]]
      /\ \A r \in Streams : r # s => stream'[r] = stream[r]
      /\ stream[s].state \notin Dead /\ stream'[s].state \in {"ready", "failed", "terminated"}
  <2>1. stream \in [Streams -> [state : States, corked : BOOLEAN, disconnect : BOOLEAN]]
    BY DEF Inv, TypeOK, States
  <2>2. PICK x \in {"ready", "failed", "terminated"} : stream' = [stream EXCEPT ![s].state = x]
    BY DEF StateChanges
  <2> DEFINE f == [stream[s] EXCEPT !.state = x]
  <2>3. /\ f \in [state : States, corked : BOOLEAN, disconnect : BOOLEAN] /\ f.state = x
    BY <2>1 DEF States
  <2>4. stream' = [stream EXCEPT ![s] = f]
    BY <2>1, <2>2
  <2> HIDE DEF f
  <2>5. stream[s].state \notin Dead
    BY DEF StateChanges, Dead
  <2> QED
    BY <2>1, <2>3, <2>4, <2>5
<1>1. TypeOK'
  BY <1>0 DEF StateChanges, At, Inv, TypeOK, Members, Decoding, Encoding, Streams, States
<1>2. Joining'
  BY <1>0 DEF StateChanges, At, Inv, Joining, Chain, Alive, TypeOK, Streams, Building,
              DecoderOver, DecoderFreed, EncoderOver, Dead, Working
<1>3. Chain'
  BY <1>0 DEF StateChanges, At, Inv, Joining, Chain, Alive, Building, DecoderOver, DecoderFreed,
              EncoderOver, Dead, Working, Decoding, Encoding
<1>4. Alive'
  BY <1>0 DEF StateChanges, At, Inv, Joining, Chain, Alive, TypeOK, Waiting, Streams, Building,
              DecoderOver, DecoderFreed, EncoderOver, Dead, Working, Decoding, Encoding
<1>5. Callbacks'
  BY <1>0 DEF StateChanges, At, Inv, Joining, Alive, Callbacks, TypeOK, Streams
<1>6. Sounding'
  BY <1>0 DEF StateChanges, At, Inv, TypeOK, Sounding, Looking, Alive, Joining, Streams,
              Building, DecoderOver, DecoderFreed, EncoderOver, Dead, Working
<1> QED
  BY <1>1, <1>2, <1>3, <1>4, <1>5, <1>6 DEF Inv

\* The callback of a stream wakes the main thread, which waits for it ...
LEMMA StateCbWakes ==
  ASSUME Inv, NEW s \in Streams, StateCb(s), mTerminating[s],
         stream[s].state \in {"failed", "terminated"}
  PROVE  Inv'
<1>0. /\ stream' = stream /\ main' = IF s = "input" THEN "freesEncoder" ELSE "freesDecoder"
      /\ mTerminating' = [mTerminating EXCEPT ![s] = FALSE]
      /\ main = IF s = "input" THEN "waitsInput" ELSE "waitsOutput"
  BY DEF StateCb, Inv, Alive, Waiting
<1>1. TypeOK'
  BY <1>0 DEF StateCb, At, StreamOf, Inv, TypeOK, Members, Decoding, Encoding, Streams, States
<1>2. Joining'
  BY <1>0 DEF StateCb, At, StreamOf, Inv, Joining, Chain, Alive, TypeOK, Streams, Building,
              DecoderOver, DecoderFreed, EncoderOver, Dead, Working
<1>3. Chain'
  BY <1>0 DEF StateCb, At, StreamOf, Inv, Joining, Chain, Alive, Building, DecoderOver,
              DecoderFreed, EncoderOver, Dead, Working, Decoding, Encoding
<1>4. Alive'
  BY <1>0 DEF StateCb, At, StreamOf, Inv, Joining, Chain, Alive, TypeOK, Waiting, Streams,
              Building, DecoderOver, DecoderFreed, EncoderOver, Dead, Working, Decoding,
              Encoding
<1>5. Callbacks'
  BY <1>0 DEF StateCb, At, StreamOf, Inv, Joining, Alive, Callbacks, TypeOK, Streams
<1>6. Sounding'
  BY <1>0 DEF StateCb, At, StreamOf, Inv, TypeOK, Sounding, Looking, Alive, Joining, Streams,
              Building, DecoderOver, DecoderFreed, EncoderOver, Dead, Working
<1> QED
  BY <1>1, <1>2, <1>3, <1>4, <1>5, <1>6 DEF Inv

\* ... or uncorks the stream, or leaves it alone.
LEMMA StateCbLooks ==
  ASSUME Inv, NEW s \in Streams, StateCb(s),
         ~(mTerminating[s] /\ stream[s].state \in {"failed", "terminated"})
  PROVE  Inv'
<1>0. /\ stream' \in [Streams -> [state : States, corked : BOOLEAN, disconnect : BOOLEAN]]
      /\ \A r \in Streams : stream'[r].state = stream[r].state
      /\ \A r \in Streams : r # s => stream'[r] = stream[r]
      /\ ~mTerminating[s] /\ mStarted[s] /\ StreamOf[s] \in held /\ stream[s].state = "ready"
           => ~stream'[s].corked
      /\ ~stream[s].corked => ~stream'[s].corked
  <2>1. CASE ~mTerminating[s] /\ mStarted[s]
    BY <2>1, LooksFields DEF StateCb, Inv
  <2>2. CASE mTerminating[s] \/ ~mStarted[s]
    BY <2>2 DEF StateCb, Inv, TypeOK, States
  <2> QED
    BY <2>1, <2>2
<1>m. /\ main' = main /\ mTerminating' = mTerminating /\ agent' = agent /\ held' = held
      /\ mLock' = mLock /\ mStarted' = mStarted
      /\ pulse = [at |-> "tells", stream |-> s] /\ pulse' = [at |-> "loop", stream |-> s]
      /\ missed' = missed \cup (IF stream[s].state = "ready" /\ Looking(s) THEN {s} ELSE {})
  BY DEF StateCb, At
<1>1. TypeOK'
  BY <1>0, <1>m DEF At, StreamOf, Inv, TypeOK, Members, Decoding, Encoding, Streams, States
<1>2. Joining'
  BY <1>0, <1>m DEF At, StreamOf, Inv, Joining, Chain, Alive, TypeOK, Streams, Building,
                    DecoderOver, DecoderFreed, EncoderOver, Dead, Working
<1>3. Chain'
  BY <1>0, <1>m DEF At, StreamOf, Inv, Joining, Chain, Alive, Building, DecoderOver,
                    DecoderFreed, EncoderOver, Dead, Working, Decoding, Encoding
<1>4. Alive'
  BY <1>0, <1>m DEF At, StreamOf, Inv, Joining, Chain, Alive, TypeOK, Waiting, Streams,
                    Building, DecoderOver, DecoderFreed, EncoderOver, Dead, Working, Decoding,
                    Encoding
<1>5. Callbacks'
  BY <1>0, <1>m DEF At, StreamOf, Inv, Joining, Alive, Callbacks, TypeOK, Streams
<1>6. Sounding'
  <2> SUFFICES ASSUME main \in Building, NEW r \in Streams, r \notin missed',
                      Looking(r) \/ mStarted[r], stream'[r].state = "ready",
                      pulse' # [at |-> "tells", stream |-> r]
               PROVE  ~stream'[r].corked
    BY <1>m DEF Sounding, Looking
  <2>1. CASE r # s
    BY <1>0, <1>m, <2>1 DEF Inv, Sounding
  <2>2. CASE r = s
    <3>1. mStarted[s] /\ stream[s].state = "ready"
      BY <1>0, <1>m, <2>2
    <3>2. ~mTerminating[s]
      BY DEF Inv, Alive, Waiting, Building
    <3>3. StreamOf[s] \in held
      BY <3>1 DEF Inv, Alive, Building, DecoderFreed, DecoderOver, StreamOf, Streams
    <3> QED
      BY <1>0, <2>2, <3>1, <3>2, <3>3
  <2> QED
    BY <2>1, <2>2
<1> QED
  BY <1>1, <1>2, <1>3, <1>4, <1>5, <1>6 DEF Inv

-----------------------------------------------------------------------------
(* Theorems                                                                *)

\* A call begins.
LEMMA Begins == Init => Inv
  BY DEF Init, NoStream, Inv, TypeOK, Joining, Chain, Alive, Callbacks, Sounding, Members, Streams,
         Building, DecoderOver, DecoderFreed, EncoderOver, Dead, Working, Waiting, Looking

\* Every step of the three threads keeps the invariant.
LEMMA StepKeeps == Inv /\ [Next]_vars => Inv'
<1> SUFFICES ASSUME Inv, [Next]_vars PROVE Inv'
  OBVIOUS
<1>1. CASE StartMedia
  <2>1. "input" \in Streams /\ "output" \in Streams
    BY DEF Streams
  <2> QED
    BY <1>1, <2>1, SetTargetKeeps, CreateOutputKeeps, CreateStreamsFailsKeeps, CreateInputKeeps,
       StartsLookingKeeps, StartedKeeps DEF StartMedia
<1>2. CASE TakeApart
  <2>1. "input" \in Streams /\ "output" \in Streams
    BY DEF Streams
  <2> QED
    BY <1>2, <2>1, EndCallKeeps, JoinedKeeps, FreesDecoderKeeps, FreesEncoderKeeps, FreesKeeps
       DEF TakeApart
<1>3. CASE AgentStep
  BY <1>3, FirstPacketComesKeeps, DecoderFailsKeeps, PacketComesKeeps, ConnectsKeeps,
     AsksStartedKeeps, LocksKeeps, UnlocksKeeps, AgentQuitsKeeps DEF AgentStep
<1>4. CASE PulseStep
  BY <1>4, StateChangesKeeps, StateCbWakes, StateCbLooks, DataWantedKeeps, DeliversKeeps,
     DeliveredKeeps, EncodesKeeps, SendsKeeps DEF PulseStep
<1>5. CASE UNCHANGED vars
  BY <1>5 DEF vars, pulseVars, streamVars, Inv, TypeOK, Joining, Chain, Alive, Callbacks, Sounding,
              Waiting, Looking
<1> QED
  BY <1>1, <1>2, <1>3, <1>4, <1>5 DEF Next

\* The inductive invariant of the chain.
THEOREM Inductive == Spec => []Inv
<1> QED
  BY Begins, StepKeeps, PTL DEF Spec

\* A thread that is inside the chain finds every object it is going to use, whatever the main
\* thread frees, and the lock is there while somebody holds it (FreeData, SourceSet).
THEOREM ChainInPlace == Spec => []PartsInPlace
<1>1. Inv => PartsInPlace
  BY DEF Inv, TypeOK, Joining, Chain, Alive, Callbacks, PartsInPlace, Decoding, Encoding,
         Building, DecoderOver, DecoderFreed, EncoderOver, Dead, Working
<1> QED
  BY Inductive, <1>1, PTL

\* When the call has been taken apart nobody is inside the chain and nothing of it is left.
THEOREM NothingStays == Spec => []QuietAtTheEnd
<1>1. Inv => QuietAtTheEnd
  BY DEF Inv, TypeOK, Joining, Chain, Alive, Callbacks, QuietAtTheEnd,
         Building, DecoderOver, EncoderOver, Dead
<1> QED
  BY Inductive, <1>1, PTL

\* A stream that was started plays as soon as PulseAudio has it ready, unless it became ready
\* between Record() or Play() looking and setting mStarted.
THEOREM StartedStreamsPlay == Spec => []SoundStarts
<1>1. Inv => SoundStarts
  BY DEF Inv, Sounding, SoundStarts, Building
<1> QED
  BY Inductive, <1>1, PTL
==============================================================================
