-------------------------- MODULE EngineProperties --------------------------
(***************************************************************************)
(* What the audio thread must guarantee.                                   *)
(***************************************************************************)
EXTENDS Engine

States == {"Stopped", "Loading", "Playing", "Paused", "Seeking"}
Phases == {"None", "Opening", "Ready", "Failed"}
Releasers == {"no", "command", "timer", "program"}
OptTrack == Tracks \cup {None}

EngineType ==
  [gapless : BOOLEAN, state : States, generation : Nat,
   loads : SUBSET [generation : Nat, target : Tracks \cup {Any}],
   pauseWhenReady : BOOLEAN,
   sink : Formats \cup {None}, held : BOOLEAN, stuck : BOOLEAN, flushes : BOOLEAN,
   released : BOOLEAN, releaseWhenReady : Releasers,
   current : OptTrack, source : OptTrack, spent : BOOLEAN, sinkPaused : BOOLEAN,
   outgoing : OptTrack, next : OptTrack, phase : Phases, ready : OptTrack,
   prefetchGeneration : Nat,
   prefetches : SUBSET [generation : Nat, track : Tracks], adopting : BOOLEAN,
   status : [state : States, track : OptTrack, output : {"Open", "Released", "Closed"}],
   told : OptTrack, orderly : BOOLEAN, owed : Nat]

(* The thread's fields have their types.                                   *)
TypeOK == engine \in EngineType

(* Listeners are told of every track the engine plays and of none other:   *)
(* each TrackStarted follows the TrackEnded of the track before, each      *)
(* TrackEnded is of the track last started (or, while none is under way,   *)
(* of one the device refused), and between handlers the track they believe *)
(* in is the one being heard, whatever was written, dropped, sought or     *)
(* handed over in between.                                                 *)
EventsFollowTheListener ==
  engine.orderly /\ engine.told = Heard(engine)

(* The status a client reads is never behind the thread: every handler     *)
(* leaves it as the fields are.                                            *)
StatusIsCurrent == engine.status = StatusOf(engine)

(* The engine knows of every pause of the device itself, or resuming would *)
(* not undo it: a device still paused is one whose engine is paused on a   *)
(* track that remembers it.  rebase forgets the pause because "the flush   *)
(* that always precedes this also unpaused the device", and that is so of  *)
(* every flush but one that fails: its error is told and the handler goes  *)
(* on, so that device stays paused and nobody knows, until it is resumed   *)
(* after another pause, flushed again, drained or closed.  "stuck" records *)
(* it; it is never the pause of an earlier device, nor one taken since.    *)
DevicePauseIsKnown ==
  /\ engine.held => /\ engine.state = "Paused"
                    /\ engine.sink # None
                    /\ engine.current # None
                    /\ engine.sinkPaused
  /\ engine.stuck => engine.sink # None /\ ~engine.held

(* Whatever late or superseded answers arrive, the samples played are      *)
(* those of the track the engine says it plays; only while it is reopened  *)
(* for a seek has it none.                                                 *)
SourceIsOfCurrent ==
  /\ engine.source # None => engine.source = engine.current
  /\ engine.source = None <=> engine.current = None \/ engine.state = "Seeking"
  /\ engine.phase = "Ready" => engine.ready = engine.next

(* An engine that seeks has an answer to wait for, of the track it keeps;  *)
(* one that adopts a track opened ahead has that answer to wait for; and   *)
(* no other state leaves a question open that could be answered into it.   *)
QuestionsAreOpen ==
  /\ engine.state = "Seeking" =>
       [generation |-> engine.generation, target |-> engine.current] \in engine.loads
  /\ engine.adopting =>
       /\ engine.state = "Loading"
       /\ [generation |-> engine.prefetchGeneration, track |-> engine.next]
             \in engine.prefetches
  /\ (\E load \in engine.loads : load.generation = engine.generation)
       => engine.state \in {"Loading", "Seeking"} /\ ~engine.adopting

(* Every program that asked for the device is answered exactly once, but   *)
(* the one whose request still waits for a track to be ready.              *)
AskersAreAnswered ==
  engine.owed = IF engine.releaseWhenReady = "program" THEN 1 ELSE 0

(* A track written behind another is not yet heard, is not announced, and  *)
(* leaves nothing opened ahead; it exists only while audio is under way.   *)
HandoverIsContained ==
  engine.outgoing # None =>
    /\ engine.current # None
    /\ engine.state \in {"Playing", "Paused"}
    /\ engine.next = None

(* A stopped engine holds nothing: neither a track nor the device, and     *)
(* nobody waits for it.                                                    *)
StoppedHoldsNothing ==
  engine.state = "Stopped" =>
    /\ Heard(engine) = None
    /\ engine.sink = None
    /\ ~engine.released
    /\ engine.releaseWhenReady = "no"

(* A device handed back is not at the same time open, and what opens ahead *)
(* has a name while it does.                                               *)
HoldingsAgree ==
  /\ engine.released => engine.sink = None
  /\ engine.phase = "None" <=> engine.next = None
  /\ engine.next # None => engine.state # "Stopped" /\ engine.state # "Seeking"
  /\ engine.state \in {"Playing", "Paused", "Seeking"} => engine.current # None
  /\ engine.state = "Loading" => engine.current = None

(* The fields of the thread agree with each other after every handler.     *)
ThreadIsConsistent == HandoverIsContained /\ StoppedHoldsNothing /\ HoldingsAgree

(* A seek that reopens the stream ends, and so does the wait for a track   *)
(* opened ahead, whatever is asked of the engine meanwhile: neither is     *)
(* left waiting for an answer that was dropped as stale.                   *)
WaitsEnd ==
  (engine.state = "Seeking" \/ engine.adopting)
    ~> ~(engine.state = "Seeking" \/ engine.adopting)

(* set_output says it "plays through sinks from now on, keeping the track  *)
(* and the exact position": what plays has an open output to play on.      *)
(* Refuted (EngineSwitchSeeking).                                          *)
PlayingHasOutput == engine.state = "Playing" => engine.sink # None

(* The track still opening when the wait for it is given up "will be       *)
(* started as it arrives": a loading engine waits for an answer that can   *)
(* still come.  Refuted (EngineSwitchAdopting).                            *)
LoadingAwaitsAnAnswer ==
  engine.state = "Loading" =>
    \/ engine.adopting
    \/ \E load \in engine.loads : load.generation = engine.generation

(* release_output "hands the audio device back, keeping the track and the  *)
(* exact position": the engine it leaves is paused, and does not take the  *)
(* device again by itself.  Refuted (EngineRelease).                       *)
ReleasePauses ==
  [][~engine.released /\ engine'.released => engine'.state = "Paused"]_vars
=============================================================================
