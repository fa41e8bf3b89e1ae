------------------------- MODULE PlaybackProperties -------------------------
(***************************************************************************)
(* What the audio thread and the sink must get right together.             *)
(***************************************************************************)
EXTENDS Playback, IdSequences

Frame == Nat \X Nat
Queues == {engine.playing.pending, engine.playing.recent, output.ring, output.server}

(* The parts have their types, and every buffer its bound.                 *)
TypeOK ==
  /\ engine.state \in {"Stopped", "Loading", "Playing", "Paused", "Seeking"}
  /\ engine.busy \in {"no", "decoding", "writing", "draining"}
  /\ engine.playing.next \in Nat /\ engine.playing.skip \in Nat
  /\ Queues \subseteq Seq(Frame)
  /\ Len(output.ring) <= Max({Capacity, Silence})
  /\ Len(output.server) <= Target
  /\ Len(engine.playing.recent) <= 2 * KeptFrames
  /\ download.avail \in Nat
  /\ listener.at \in Places /\ listener.position \in 0..Length[listener.at]

(* The end of a track is the beginning of the next.                        *)
Point(at, position) ==
  IF position = Length[at] /\ at < Len(Length) THEN <<at + 1, 0>> ELSE <<at, position>>

(* The position the engine reports is the listener's, to the frame, across *)
(* chunks, seeks, gapless boundaries, pauses and outputs that were closed: *)
(* "Position is this plus what has been heard since".  At a boundary the   *)
(* engine may not have noticed that the next track is heard already.       *)
PositionIsHeard ==
  engine.playing # NoTrack /\ output.gone = "no" /\ listener.lost = 0 =>
    LET handingOver == engine.outgoing # NoOutgoing
        reported == Position(engine, IF engine.sink THEN Delay(output) ELSE 0)
    IN \/ Point(IF handingOver THEN engine.outgoing.at ELSE engine.playing.at, reported)
            = Point(listener.at, listener.position)
       \/ /\ handingOver /\ listener.at = engine.playing.at
          /\ reported = Length[engine.outgoing.at]

(* "The engine keeps enough to replay all of it": what was written and not *)
(* heard is among the frames kept, so closing the output loses none.       *)
UnheardIsKept ==
  engine.playing # NoTrack /\ engine.sink =>
    LET unheard == Without(output.server \o output.ring, {Hush})
    IN Keep(engine.playing.recent, Len(unheard)) = unheard

(* "Silence goes in first so that it is what gets dropped": what the       *)
(* server drops when it starts is silence, after an opening, a flush and a *)
(* drain alike; only an output that ran out of frames unexpectedly drops   *)
(* audio.                                                                  *)
SilenceComesFirst ==
  LET frames == output.server \o output.ring
  IN ~output.starved /\ output.gone = "no" =>
       \A k \in 1..AtMost(output.dry, Len(frames)) : frames[k] = Hush

(* The audio thread never stays blocked: in the decoder while a download   *)
(* goes on, in a write while the ring is full, or in a drain, whatever the *)
(* output does meanwhile.                                                  *)
ThreadReturns == engine.busy # "no" ~> engine.busy = "no"

(* Every frame of every track is heard once and in order, unless the       *)
(* listener seeks or the output fails: across the download's segments, the *)
(* ring, gapless boundaries, and outputs handed back and taken again.      *)
Heardwise == INSTANCE Listening WITH at <- listener.at, position <- listener.position,
                                     jumps <- listener.jumps + listener.lost
HearsEveryFrame == Heardwise!Spec

(* "The audio queued in the device but not yet heard is set aside and      *)
(* played first when the device is taken again": none of it is lost.       *)
AudioSetAsideIsPlayed == listener.lost = 0
=============================================================================
