------------------------------ MODULE Playback ------------------------------
(***************************************************************************)
(* The frames of a track, from the download to the listener.               *)
(*                                                                         *)
(*   crates/phonia-core/src/stream.rs               the download           *)
(*   crates/phonia-core/src/dash.rs, openers.rs     where to reopen a track*)
(*   crates/phonia-core/src/engine/audio_thread.rs  counting the frames    *)
(*   crates/phonia-core/src/output/shared/mod.rs    the sink               *)
(*   crates/phonia-core/src/output/shared/ring.rs   its ring               *)
(*                                                                         *)
(* Five parts run at once: the download, the audio thread, the callback of *)
(* the sound server that draws from the ring, the server, and what may     *)
(* make the output go away.  Engine is about the thread's commands; this   *)
(* module is about its counting: what is written, what is heard, and what  *)
(* has to be written again when the device is closed before it was heard.  *)
(* A frame is a pair of its track's place in the list and its own in the   *)
(* track; times are counted in frames, all tracks have one format, and     *)
(* what lies between the server and the speaker (its latency) is left out. *)
(***************************************************************************)
EXTENDS Naturals, SequencesExt

CONSTANTS
  Length,        \* how many frames each track of the list has
  SeekMode,      \* how each can be sought in
  Segment,       \* frames of a segment of a download
  Ahead,         \* PREFETCH_DEPTH: segments that may wait for the decoder
  Chunk,         \* frames decoded at a time
  Period,        \* frames written at a time, at most
  Capacity,      \* frames the ring holds
  Target,        \* frames the server holds
  Silence,       \* frames of silence in front of audio after a stop
  Dropped,       \* frames the server drops when it starts or was dry
  MaxCommands,   \* bound: pauses, releases, seeks and switches
  MaxFailures    \* bound: what happens to outputs and downloads

Places == DOMAIN Length

ASSUME PlaybackAssumption ==
  /\ Len(Length) \in Nat \ {0}
  /\ Length \in Seq(Nat \ {0})
  /\ SeekMode \in [Places -> {"InPlace", "ForwardOnly", "Reopen", "None"}]
  /\ {Segment, Ahead, Chunk, Period, Capacity, Target} \subseteq Nat \ {0}
  /\ {Silence, Dropped, MaxCommands, MaxFailures} \subseteq Nat
  /\ Period <= Capacity
  /\ Dropped <= Silence

VARIABLES
  engine,     \* the audio thread: [state, busy, sink, playing, outgoing, ...]
  download,   \* of the playing track: [avail, ended]
  output,     \* ring, server and sink
  listener,   \* what was heard: [at, position], with the jumps of it and the losses
  spent       \* [commands, failures]
vars == <<engine, download, output, listener, spent>>

AtMost(x, y) == IF x <= y THEN x ELSE y
Less(x, y) == IF x > y THEN x - y ELSE 0

Frames(i, from, to) == [k \in 1..Less(to, from) |-> <<i, from + k - 1>>]
Hush == <<0, 0>>
Quiet(n) == [k \in 1..n |-> Hush]
Keep(s, n) == SubSeq(s, Len(s) - AtMost(n, Len(s)) + 1, Len(s))

---------------------------------------------------------------------------
(* The output: the sink's bookkeeping, the ring and the server.  "silent"  *)
(* is how many frames are left until the latest silence ends, counted as   *)
(* the server reads; "dry" how many the server still drops; "starved" that *)
(* it ran out of frames with none announced to follow.                     *)

Opened ==
  [ring |-> Quiet(Silence), server |-> <<>>, corked |-> FALSE, dry |-> Dropped,
   silent |-> Silence, needsSilence |-> FALSE, starved |-> FALSE, gone |-> "no"]
Closed == [Opened EXCEPT !.ring = <<>>, !.silent = 0]

\* Mutant: there is room unless the ring is already past its capacity.
RoomForOne(o, n) == Len(o.ring) <= Capacity

Room(o, n) == Len(o.ring) + n <= Capacity

(* delay_frames.  A server that no longer answers leaves what waits here.  *)
Delay(o) == Less(Len(o.ring) + Len(o.server), o.silent)

AddSilence(o) ==
  IF o.needsSilence
    THEN [o EXCEPT !.ring = @ \o Quiet(Silence),
                   !.silent = Len(o.server) + Len(o.ring) + Silence,
                   !.needsSilence = FALSE, !.starved = FALSE]
    ELSE o

\* Mutant: audio follows a flush with no silence in front.
FlushedOnly(o) ==
  [o EXCEPT !.ring = <<>>, !.server = <<>>, !.silent = 0, !.corked = FALSE,
            !.dry = Dropped, !.starved = FALSE]

Flushed(o) ==
  [o EXCEPT !.ring = <<>>, !.server = <<>>, !.silent = 0, !.needsSilence = TRUE,
            !.corked = FALSE, !.dry = Dropped, !.starved = FALSE]

(* poll_read: whole frames, as many as the server has room for.            *)
Pull ==
  /\ output.gone = "no"
  /\ output.ring # <<>>
  /\ Len(output.server) < Target
  /\ LET n == AtMost(Len(output.ring), Target - Len(output.server))
     IN output' = [output EXCEPT !.ring = SubSeq(@, n + 1, Len(@)),
                                 !.server = @ \o SubSeq(output.ring, 1, n)]
  /\ UNCHANGED <<engine, download, listener, spent>>

Jumped(at, position) ==
  [listener EXCEPT !.at = at, !.position = position, !.jumps = @ + 1]

(* The server plays a frame, or drops it while it starts.                  *)
Play ==
  /\ output.gone = "no"
  /\ ~output.corked
  /\ output.server # <<>>
  /\ LET frame == Head(output.server)
     IN /\ output' = [output EXCEPT !.server = Tail(@), !.silent = Less(@, 1),
                                    !.dry = Less(@, 1)]
        /\ listener' =
             IF frame = Hush THEN listener
             ELSE IF output.dry > 0 THEN Jumped(frame[1], frame[2] + 1)
             ELSE [listener EXCEPT !.at = frame[1], !.position = frame[2] + 1]
  /\ UNCHANGED <<engine, download, spent>>

RunDry ==
  /\ output.gone = "no"
  /\ ~output.corked
  /\ output.ring = <<>> /\ output.server = <<>>
  /\ output.dry = 0
  /\ output' = [output EXCEPT !.dry = Dropped, !.starved = ~output.needsSilence]
  /\ UNCHANGED <<engine, download, listener, spent>>

(* The watcher says that the output is gone, or the server stops taking    *)
(* audio without a word.                                                   *)
GoAway ==
  /\ engine.sink
  /\ output.gone = "no"
  /\ spent.failures < MaxFailures
  /\ spent' = [spent EXCEPT !.failures = @ + 1]
  /\ \E how \in {"said", "unsaid"} : output' = [output EXCEPT !.gone = how]
  /\ UNCHANGED <<engine, download, listener>>

---------------------------------------------------------------------------
(* The download: segments in order, a bounded number of them ahead of the  *)
(* decoder.  A segment that does not exist is an error as long as the      *)
(* manifest counted it.                                                    *)

From(start) == [avail |-> start, ended |-> "no"]

\* Mutant: a segment that does not exist ends the track, counted or not.
FetchOrEnd ==
  /\ engine.playing.source
  /\ download.ended = "no"
  /\ download.avail < Length[engine.playing.at]
  /\ Less(download.avail, engine.playing.next) <= (Ahead - 1) * Segment
  /\ \/ /\ download' = [download EXCEPT
             !.avail = AtMost((@ \div Segment + 1) * Segment, Length[engine.playing.at])]
        /\ UNCHANGED spent
     \/ /\ spent.failures < MaxFailures
        /\ spent' = [spent EXCEPT !.failures = @ + 1]
        /\ download' = [download EXCEPT !.ended = "end"]
  /\ UNCHANGED <<engine, output, listener>>

Fetch ==
  /\ engine.playing.source
  /\ download.ended = "no"
  /\ download.avail < Length[engine.playing.at]
  /\ Less(download.avail, engine.playing.next) <= (Ahead - 1) * Segment
  /\ \/ /\ download' = [download EXCEPT
             !.avail = AtMost((@ \div Segment + 1) * Segment, Length[engine.playing.at])]
        /\ UNCHANGED spent
     \/ /\ spent.failures < MaxFailures
        /\ spent' = [spent EXCEPT !.failures = @ + 1]
        /\ download' = [download EXCEPT !.ended = "error"]
  /\ UNCHANGED <<engine, output, listener>>

---------------------------------------------------------------------------
(* The audio thread.  Of Playing: "next" is the frame the source decodes   *)
(* next, of which it drops the first "skip"; "pending" is decoded and not  *)
(* written; "recent" was written last; the others are the fields of the    *)
(* code.  "busy" says where in a step the thread may be blocked.           *)

NoTrack ==
  [at |-> 0, source |-> FALSE, next |-> 0, skip |-> 0, pending |-> <<>>, recent |-> <<>>,
   written |-> 0, base |-> 0, leadIn |-> 0, done |-> FALSE, sinkPaused |-> FALSE]
NoOutgoing == [at |-> 0, end |-> 0]

Started(i) == [NoTrack EXCEPT !.at = i, !.source = TRUE]
Downloading(i, start) ==
  IF SeekMode[i] = "InPlace" THEN From(Length[i]) ELSE From(start)

Stopped(e) ==
  [e EXCEPT !.state = "Stopped", !.busy = "no", !.sink = FALSE,
            !.playing = NoTrack, !.outgoing = NoOutgoing]
StopPlaying == engine' = Stopped(engine) /\ output' = Closed

(* The track after place i: it is loaded, or the list ends.                *)
LoadAfter(e, i) ==
  IF i < Len(Length)
    THEN [e EXCEPT !.state = "Loading", !.busy = "no", !.loading = i + 1,
                   !.playing = NoTrack, !.outgoing = NoOutgoing]
    ELSE Stopped(e)

Heard(e, queued) == Less(e.playing.written, queued)

\* Mutant: what the track before wrote counts for the next.
PositionOfSink(e, queued) ==
  IF e.outgoing # NoOutgoing
    THEN Less(e.outgoing.end, Less(e.playing.leadIn, Heard(e, queued)))
    ELSE e.playing.base + Heard(e, queued)

(* heard_position.                                                         *)
Position(e, queued) ==
  IF e.outgoing # NoOutgoing
    THEN Less(e.outgoing.end, Less(e.playing.leadIn, Heard(e, queued)))
    ELSE e.playing.base + Less(Heard(e, queued), e.playing.leadIn)

(* check_crossing: the last of the track before was heard.                 *)
Crossed(e, queued) ==
  IF e.outgoing # NoOutgoing /\ e.sink /\ Heard(e, queued) >= e.playing.leadIn
    THEN [e EXCEPT !.outgoing = NoOutgoing] ELSE e

(* handover: the first chunk of the next track was decoded ahead.          *)
HandedOver(e) ==
  LET p == e.playing
      first == AtMost(Chunk, Length[p.at + 1])
  IN [e EXCEPT
       !.busy = "no",
       !.outgoing = [at |-> p.at, end |-> p.base + Less(p.written, p.leadIn)],
       !.playing = [Started(p.at + 1) EXCEPT
                      !.next = first, !.pending = Frames(p.at + 1, 0, first),
                      !.recent = p.recent, !.sinkPaused = p.sinkPaused,
                      !.written = p.written, !.leadIn = p.written]]

(* The next track is joined if it is open by now; else what was written is *)
(* drained first.  Frames set aside after the source was spent stay in     *)
(* pending, and are never written.                                         *)
TrackEnds(e) ==
  /\ listener' = IF e.playing.pending = <<>> THEN listener
                 ELSE [listener EXCEPT !.at = e.playing.at,
                                       !.position = Length[e.playing.at],
                                       !.lost = @ + 1]
  /\ \/ /\ e.playing.at < Len(Length)
        /\ engine' = Crossed(HandedOver(e), Delay(output))
        /\ download' = Downloading(e.playing.at + 1, AtMost(Chunk, Length[e.playing.at + 1]))
        /\ UNCHANGED output
     \/ /\ engine' = [e EXCEPT !.busy = "draining"]
        /\ output' = [output EXCEPT !.corked = FALSE]
        /\ UNCHANGED download

(* wait_for_next: while the next track opens, what is written plays out.   *)
(* How long that takes is left open.                                       *)
WaitForNext(e) ==
  /\ e.playing.at < Len(Length)
  /\ engine' = [e EXCEPT !.busy = "no"]
  /\ UNCHANGED <<download, output, listener>>

(* source_finished: one boundary at a time.                                *)
SourceFinished(e) ==
  \/ /\ e.outgoing # NoOutgoing
     /\ engine' = [e EXCEPT !.busy = "no"]
     /\ UNCHANGED <<download, output, listener>>
  \/ e.outgoing = NoOutgoing /\ (WaitForNext(e) \/ TrackEnds(e))

Free == engine.busy = "no"
Writing(e) == [e EXCEPT !.busy = "writing"]

(* play_step, up to where it may block.                                    *)
PlayStep ==
  /\ Free /\ engine.state = "Playing"
  /\ LET e == Crossed(engine, Delay(output))
     IN IF e.playing.done THEN SourceFinished(e)
        ELSE IF e.playing.pending = <<>>
          THEN /\ engine' = [e EXCEPT !.busy = "decoding"]
               /\ UNCHANGED <<download, output, listener>>
        ELSE /\ engine' = Writing(e)
             /\ output' = AddSilence(output)
             /\ UNCHANGED <<download, listener>>
  /\ UNCHANGED spent

Decode ==
  /\ engine.busy = "decoding"
  /\ LET p == engine.playing
         to == AtMost(p.next + Chunk, download.avail)
         kept == AtMost(p.next + p.skip, to)
         decoded == [engine EXCEPT !.playing.next = to,
                                   !.playing.skip = Less(@, to - p.next),
                                   !.playing.pending = Frames(p.at, kept, to)]
     IN \/ /\ p.next < download.avail /\ kept = to
           /\ engine' = decoded
           /\ UNCHANGED <<download, output, listener>>
        \/ /\ p.next < download.avail /\ kept < to
           /\ engine' = Writing(decoded)
           /\ output' = AddSilence(output)
           /\ UNCHANGED <<download, listener>>
        \/ /\ p.next = Length[p.at] \/ (p.next >= download.avail /\ download.ended = "end")
           /\ SourceFinished([engine EXCEPT !.playing.done = TRUE])
        \/ /\ p.next >= download.avail /\ download.ended = "error"
           /\ StopPlaying
           /\ UNCHANGED <<download, listener>>
  /\ UNCHANGED spent

KeptFrames == Capacity + Target
\* Mutant: what the server holds is all that can be unheard.
RecentOfServer(recent, written) == Keep(recent \o written, Target)

Recent(recent, written) ==
  LET all == recent \o written
  IN IF Len(all) > 2 * KeptFrames THEN Keep(all, KeptFrames) ELSE all

(* One period; never over the boundary of two tracks, whose gains differ.  *)
ToWrite(e) ==
  LET p == e.playing
      most == IF e.outgoing # NoOutgoing /\ p.written < p.leadIn
                THEN p.leadIn - p.written ELSE Period
  IN SubSeq(p.pending, 1, AtMost(AtMost(Period, most), Len(p.pending)))

Write ==
  /\ engine.busy = "writing"
  /\ output.gone # "said"
  /\ LET frames == ToWrite(engine)
         n == Len(frames)
     IN /\ Room(output, n)
        /\ output' = [output EXCEPT !.ring = @ \o frames]
        /\ engine' = [engine EXCEPT !.busy = "no",
                        !.playing.pending = SubSeq(@, n + 1, Len(@)),
                        !.playing.recent = Recent(@, frames),
                        !.playing.written = @ + n]
  /\ UNCHANGED <<download, listener, spent>>

---------------------------------------------------------------------------
(* Closing the output and keeping the position.                            *)

(* set_aside_unheard: what the device holds and was not heard is written   *)
(* again later, in front of what is pending.                               *)
SetAside(e, queued) ==
  LET crossed == Crossed(e, queued)
      p == crossed.playing
      keep == AtMost(AtMost(queued, Len(p.recent)), p.written)
      heard == p.written - keep
      aside == [p EXCEPT !.pending = Keep(p.recent, keep) \o @, !.recent = <<>>,
                         !.written = 0, !.sinkPaused = FALSE]
  IN [crossed EXCEPT !.busy = "no", !.sink = FALSE, !.state = "Paused",
       !.playing =
         IF crossed.outgoing # NoOutgoing
           THEN [aside EXCEPT !.leadIn = Less(@, heard)]
           ELSE [aside EXCEPT !.base = @ + Less(heard, p.leadIn), !.leadIn = 0]]

(* How many frames the sink says are not heard yet: if the server answers  *)
(* no more, those that wait in the ring.                                   *)
Queued == {Delay(output)} \cup (IF output.gone = "no" THEN {} ELSE {Len(output.ring)})

(* Where the listener is once an engine whose output is closed goes on.    *)
Resumes(e) ==
  [at |-> IF e.outgoing # NoOutgoing THEN e.outgoing.at ELSE e.playing.at,
   position |-> Position(e, 0)]

(* What a dead output held and was not heard is lost, or heard again.      *)
Aside(e) ==
  listener' = IF output.gone = "no" THEN listener
              ELSE Jumped(Resumes(e).at, Resumes(e).position)

\* Mutant: a write waits for room as long as the ring is not marked gone.
OutputSaidLost ==
  /\ engine.busy \in {"writing", "draining"}
  /\ output.gone = "said"
  /\ \E queued \in Queued :
       engine' = SetAside(engine, queued) /\ Aside(SetAside(engine, queued))
  /\ output' = Closed
  /\ UNCHANGED <<download, spent>>

(* output_lost: a write finds the output gone, or nothing drawn for 5 s;   *)
(* a drain finds it gone.                                                  *)
OutputLost ==
  /\ \/ /\ engine.busy = "writing"
        /\ \/ output.gone = "said"
           \/ (output.gone = "unsaid" /\ ~Room(output, Len(ToWrite(engine))))
     \/ engine.busy = "draining" /\ output.gone = "said"
  /\ \E queued \in Queued :
       engine' = SetAside(engine, queued) /\ Aside(SetAside(engine, queued))
  /\ output' = Closed
  /\ UNCHANGED <<download, spent>>

(* drain: all was played, or the server never finishes.                    *)
Drained ==
  /\ engine.busy = "draining"
  /\ \/ /\ output.gone # "said"
        /\ output.ring = <<>> /\ output.server = <<>>
        /\ engine' = LoadAfter(engine, engine.playing.at)
        /\ output' = IF engine'.sink THEN [output EXCEPT !.needsSilence = TRUE] ELSE Closed
     \/ /\ output.gone = "unsaid"
        /\ output.ring \o output.server # <<>>
        /\ StopPlaying
  /\ UNCHANGED <<download, listener, spent>>

Loaded ==
  /\ engine.state = "Loading"
  /\ engine' = [engine EXCEPT !.state = "Playing", !.playing = Started(engine.loading),
                              !.loading = 0, !.sink = TRUE]
  /\ output' = IF engine.sink THEN output ELSE Opened
  /\ download' = Downloading(engine.loading, 0)
  /\ UNCHANGED <<listener, spent>>

---------------------------------------------------------------------------
(* Commands, which the thread takes between two steps.                     *)

Asked ==
  /\ Free
  /\ spent.commands < MaxCommands
  /\ spent' = [spent EXCEPT !.commands = @ + 1]

Cork == [output EXCEPT !.corked = TRUE]

Pause ==
  /\ Asked
  /\ engine.state = "Playing"
  /\ IF output.gone = "no"
       THEN /\ engine' = [engine EXCEPT !.state = "Paused", !.playing.sinkPaused = TRUE]
            /\ output' = Cork
       ELSE StopPlaying
  /\ UNCHANGED <<download, listener>>

Resume ==
  /\ Free
  /\ engine.state = "Paused"
  /\ IF engine.sink /\ engine.playing.sinkPaused /\ output.gone # "no"
       THEN StopPlaying
       ELSE /\ engine' = [engine EXCEPT !.state = "Playing", !.sink = TRUE,
                                        !.playing.sinkPaused = FALSE]
            /\ output' = IF ~engine.sink THEN Opened
                         ELSE IF engine.playing.sinkPaused
                           THEN [output EXCEPT !.corked = FALSE] ELSE output
  /\ UNCHANGED <<download, listener, spent>>

(* release_output, and set_output, which opens the new output at once if   *)
(* it was playing.  Pausing an output that is gone stops the engine.       *)
HandOverOutput ==
  /\ Asked
  /\ engine.state \in {"Playing", "Paused"}
  /\ engine.sink
  /\ IF engine.state = "Playing" /\ output.gone # "no"
       THEN StopPlaying /\ UNCHANGED listener
       ELSE \E queued \in Queued, switch \in BOOLEAN :
              LET aside == SetAside(engine, queued)
                  reopens == switch /\ engine.state = "Playing"
              IN /\ engine' = [aside EXCEPT !.sink = reopens,
                                 !.state = IF reopens THEN "Playing" ELSE "Paused"]
                 /\ output' = IF reopens THEN Opened ELSE Closed
                 /\ Aside(aside)
  /\ UNCHANGED download

FlushSink == output' = IF engine.sink THEN Flushed(output) ELSE output

Rebased(p, position) ==
  [p EXCEPT !.base = position, !.written = 0, !.pending = <<>>, !.recent = <<>>,
            !.leadIn = 0, !.done = FALSE, !.sinkPaused = FALSE]

(* begin_load: the track is opened again at the segment of the target.     *)
Reopening(e, position) ==
  [e EXCEPT !.state = "Seeking", !.outgoing = NoOutgoing,
            !.pauseWhenReady = e.state = "Paused" \/ (e.state = "Seeking" /\ @),
            !.playing = [Rebased(@, position) EXCEPT !.source = FALSE]]

(* seek_forward_only: how far the source was decoded.                      *)
DecodedUntil(p) == p.base + p.written + Len(p.pending)

SeekInPlace(target) ==
  /\ engine' = [engine EXCEPT !.playing = [Rebased(@, target) EXCEPT !.next = target, !.skip = 0]]
  /\ listener' = Jumped(engine.playing.at, target)
  /\ FlushSink
  /\ UNCHANGED download

SeekForwardOnly(target) ==
  LET until == DecodedUntil(engine.playing)
  IN IF target < until
       THEN UNCHANGED <<engine, listener, output, download>>
       ELSE /\ engine' = [engine EXCEPT !.playing =
              [Rebased(engine.playing, target) EXCEPT !.skip = @ + target - until]]
            /\ listener' = Jumped(engine.playing.at, target)
            /\ FlushSink
            /\ UNCHANGED download

SeekReopen(at, target) ==
  /\ engine' = Reopening([engine EXCEPT !.playing.at = at], target)
  /\ listener' = Jumped(at, target)
  /\ FlushSink
  /\ download' = From(0)

(* Beyond the end: the track ends, and the next is loaded.                 *)
SeekPastTheEnd(at) ==
  /\ engine' = LoadAfter(engine, at)
  /\ listener' = IF at < Len(Length) THEN Jumped(at + 1, 0) ELSE listener
  /\ output' = IF ~engine'.sink THEN Closed ELSE Flushed(output)
  /\ UNCHANGED download

Seek ==
  /\ Asked
  /\ engine.state \in {"Playing", "Paused", "Seeking"}
  /\ LET handingOver == engine.outgoing # NoOutgoing
         at == IF handingOver THEN engine.outgoing.at ELSE engine.playing.at
     IN \E target \in 0..Length[at] :
          IF target = Length[at]
            THEN (handingOver \/ SeekMode[at] # "None") /\ SeekPastTheEnd(at)
          ELSE IF handingOver THEN SeekReopen(at, target)
          ELSE \/ SeekMode[at] = "InPlace" /\ SeekInPlace(target)
               \/ SeekMode[at] = "ForwardOnly" /\ SeekForwardOnly(target)
               \/ SeekMode[at] = "Reopen" /\ SeekReopen(at, target)

(* dash_opening and finish_seek: the segment that holds the target is the  *)
(* first, and what precedes the target in it is skipped.                   *)
SegmentStart(position) == (position \div Segment) * Segment

SeekReady ==
  /\ engine.state = "Seeking"
  /\ LET p == engine.playing
         start == SegmentStart(p.base)
     IN /\ engine' = [engine EXCEPT
                        !.state = IF engine.pauseWhenReady THEN "Paused" ELSE "Playing",
                        !.pauseWhenReady = FALSE,
                        !.playing.source = TRUE, !.playing.next = start,
                        !.playing.skip = p.base - start]
        /\ download' = Downloading(p.at, start)
  /\ UNCHANGED <<output, listener, spent>>

---------------------------------------------------------------------------
Init ==
  /\ engine = [state |-> "Loading", busy |-> "no", sink |-> FALSE, loading |-> 1,
               playing |-> NoTrack, outgoing |-> NoOutgoing, pauseWhenReady |-> FALSE]
  /\ download = From(0)
  /\ output = Closed
  /\ listener = [at |-> 1, position |-> 0, jumps |-> 0, lost |-> 0]
  /\ spent = [commands |-> 0, failures |-> 0]

Next ==
  \/ Fetch \/ PlayStep \/ Decode \/ Write \/ OutputLost \/ Drained \/ Loaded
  \/ Pull \/ Play \/ RunDry \/ GoAway
  \/ Pause \/ Resume \/ HandOverOutput \/ Seek \/ SeekReady

Spec == Init /\ [][Next]_vars

(* The thread, the callback, the server and the download keep going.       *)
Fairness ==
  /\ WF_vars(PlayStep) /\ WF_vars(Decode) /\ WF_vars(Write)
  /\ WF_vars(OutputLost) /\ WF_vars(Drained) /\ WF_vars(Loaded) /\ WF_vars(SeekReady)
  /\ WF_vars(Pull) /\ WF_vars(Play) /\ WF_vars(Fetch)

FairSpec == Spec /\ Fairness
=============================================================================
