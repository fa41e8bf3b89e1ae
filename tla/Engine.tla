------------------------------- MODULE Engine -------------------------------
(***************************************************************************)
(* The audio thread: crates/phonia-core/src/engine/audio_thread.rs.        *)
(*                                                                         *)
(* One thread handles, one at a time and each to its end, the commands of  *)
(* clients, the answers of the load tasks it started, requests for the     *)
(* device, and, while playing, one period of audio.  An operator below     *)
(* takes the thread's fields before a method and gives them after it, so   *)
(* that a handler is the composition of the methods it calls; an action is *)
(* one handler.  What the environment decides within a handler (whether a  *)
(* device opens, what the queue answers, how far the listener has heard)   *)
(* is a parameter the action chooses.                                      *)
(*                                                                         *)
(* Time is left out: a deadline may have passed whenever it can be set.    *)
(* So are positions and samples; of a track only its format and the way it *)
(* can be sought in are kept.                                              *)
(***************************************************************************)
EXTENDS Integers, FiniteSets

CONSTANTS
  Tracks,
  None,             \* no track, and no open device
  Any,              \* a load of whatever the queue gives next
  Formats,
  Format,           \* the sample format of each track
  SeekMode,         \* how each track can be sought in
  MaxGeneration,    \* bound: how often a track is asked for
  MaxPrefetch,      \* bound: how often a track is opened ahead
  MaxOwed           \* bound: how many programs wait for an answer

ASSUME EngineAssumption ==
  /\ None \notin Tracks \cup Formats
  /\ Any \notin Tracks \cup {None}
  /\ Format \in [Tracks -> Formats]
  /\ SeekMode \in [Tracks -> {"InPlace", "ForwardOnly", "Reopen", "None"}]
  /\ MaxGeneration \in Nat
  /\ MaxPrefetch \in Nat
  /\ MaxOwed \in Nat

VARIABLE engine
vars == engine

(***************************************************************************)
(* The fields of struct AudioThread.  Those of Playing are beside current: *)
(* source (the track its samples come from; None while it is reopened),    *)
(* spent (source_done) and sinkPaused.  phase and ready are those of Next. *)
(* "loads" and "prefetches" are the tasks, aborted ones included, whose    *)
(* answer has not been handled: an abort may come after the answer was     *)
(* sent.  "held" is the pause of the device itself, "stuck" that it is     *)
(* still paused after a flush that failed, "flushes" whether a paused one  *)
(* would let itself be flushed now, "status" what was last published.      *)
(* "told" and "orderly" follow the events: the track that TrackStarted     *)
(* named and no TrackEnded has, and whether each of them so far fitted the *)
(* one before.  "owed" is how many programs that asked for the device wait *)
(* for an answer.                                                          *)
(***************************************************************************)
Heard(e) == IF e.outgoing # None THEN e.outgoing ELSE e.current

StatusOf(e) ==
  [state |-> e.state,
   track |-> Heard(e),
   output |-> IF e.sink # None THEN "Open"
              ELSE IF e.released THEN "Released" ELSE "Closed"]

PublishStatus(e) == [e EXCEPT !.status = StatusOf(e)]

SetState(e, s) == PublishStatus([e EXCEPT !.state = s])

EmitStarted(e, t) ==
  [e EXCEPT !.told = t, !.orderly = @ /\ e.told = None]
EmitEnded(e, t) ==
  [e EXCEPT !.told = None, !.orderly = @ /\ e.told = t]
(* A track the device refuses ends without ever having started.            *)
EmitRefused(e, t) == [e EXCEPT !.orderly = @ /\ e.told = None]

---------------------------------------------------------------------------
(* The pieces handlers are made of.                                        *)

NoCurrent(e) ==
  [e EXCEPT !.current = None, !.source = None, !.spent = FALSE, !.sinkPaused = FALSE]

\* Mutant: forgetting the track opened ahead without ceasing to wait for it.
DropNextStillAdopting(e) ==
  [e EXCEPT !.next = None, !.phase = "None", !.ready = None]

DropNext(e) ==
  [e EXCEPT !.next = None, !.phase = "None", !.ready = None, !.adopting = FALSE]

(* The device itself is no longer paused.                                  *)
Unpaused(e) == [e EXCEPT !.held = FALSE, !.stuck = FALSE, !.flushes = TRUE]

(* Flushing throws away what is queued in the device, and unpauses it.  A  *)
(* device that fails stays paused, and the handler goes on all the same.   *)
FlushSink(e) ==
  IF e.flushes THEN Unpaused(e)
  ELSE [e EXCEPT !.held = FALSE, !.stuck = @ \/ e.held]

DropSink(e) == [Unpaused(e) EXCEPT !.sink = None]

(* Only another program waits for an answer, not a command or the timer.   *)
Answer(e, by) == IF by = "program" THEN [e EXCEPT !.owed = @ - 1] ELSE e

\* Mutant: the request is answered but stays to be answered again.
AnswerDeferredAgain(e) == Answer(e, e.releaseWhenReady)

(* A release put off until a track is ready is taken back and answered.    *)
AnswerDeferred(e) ==
  Answer([e EXCEPT !.releaseWhenReady = "no"], e.releaseWhenReady)

\* Mutant: the device is closed without a word to who asked for it.
CloseOutputSilently(e) ==
  [DropSink(e) EXCEPT !.released = FALSE, !.releaseWhenReady = "no"]

\* Mutant: the engine goes on saying that the device was handed back.
CloseOutputStillReleased(e) == AnswerDeferred(DropSink(e))

CloseOutput(e) == AnswerDeferred([DropSink(e) EXCEPT !.released = FALSE])

\* Mutant: the load is given up, but its answer would still count.
CancelLoadInName(e) == e

CancelLoad(e) == [e EXCEPT !.generation = @ + 1]

\* Mutant: the track written is ended, not the one heard.
EndWritten(e) ==
  IF e.current # None
    THEN EmitEnded(NoCurrent([e EXCEPT !.outgoing = None]), e.current) ELSE e

EndHeard(e) ==
  IF e.outgoing # None
    THEN EmitEnded(NoCurrent([e EXCEPT !.outgoing = None]), e.outgoing)
  ELSE IF e.current # None THEN EmitEnded(NoCurrent(e), e.current)
  ELSE e

\* Mutant: what is queued in the device is left in it.
InterruptUnflushed(e) == EndHeard(IF e.outgoing # None THEN DropNext(e) ELSE e)

(* While the next track is written behind the one heard, it is dropped too.*)
InterruptCurrent(e) ==
  IF Heard(e) = None THEN e
  ELSE FlushSink(EndHeard(IF e.outgoing # None THEN DropNext(e) ELSE e))

Stop(e) ==
  SetState(CloseOutput([CancelLoad(DropNext(InterruptCurrent(e)))
                          EXCEPT !.pauseWhenReady = FALSE]), "Stopped")

(* Failing differs from stopping in what the events say of it.             *)
Fail(e) ==
  SetState(CloseOutput([CancelLoad(DropNext(EndHeard(e)))
                          EXCEPT !.pauseWhenReady = FALSE]), "Stopped")

BeginLoad(e, target, s, paused) ==
  LET f == AnswerDeferred(DropNext(CancelLoad(e)))
  IN  SetState([f EXCEPT !.pauseWhenReady = paused,
                         !.loads = @ \cup {[generation |-> f.generation,
                                            target |-> target]}], s)

RequestLoad(e, target) == BeginLoad(e, target, "Loading", FALSE)

StartPrefetch(e, t) ==
  [e EXCEPT !.prefetchGeneration = @ + 1,
            !.prefetches = @ \cup {[generation |-> e.prefetchGeneration + 1,
                                    track |-> t]},
            !.next = t, !.phase = "Opening"]

(* The device is taken back from the desktop if it had been handed over.   *)
OpenSink(e, format) ==
  IF e.released
    THEN PublishStatus([Unpaused(e) EXCEPT !.sink = format, !.released = FALSE])
    ELSE [Unpaused(e) EXCEPT !.sink = format]

---------------------------------------------------------------------------
(* The boundary between two tracks written without a gap.  "boundary" says *)
(* whether the listener has heard the end of the first one, and if so      *)
(* whether the queue still has the second (TrackSupplier::started).        *)
Boundary == {"notYet", "kept", "removed"}
BoundaryOf(e) == IF e.outgoing = None THEN {"notYet"} ELSE Boundary

CheckCrossing(e, boundary) ==
  IF e.outgoing = None \/ e.sink = None \/ boundary = "notYet" THEN e
  ELSE LET f == EmitEnded([e EXCEPT !.outgoing = None], e.outgoing)
       IN  IF boundary = "removed"
             THEN RequestLoad(FlushSink(NoCurrent(f)), Any)
             ELSE EmitStarted(PublishStatus(f), f.current)

SetAsideUnheard(e, boundary) ==
  [CheckCrossing(e, boundary) EXCEPT !.sinkPaused = FALSE]

\* Mutant: the status is not published again.
LetGoUnpublished(e, boundary) ==
  [DropSink(SetAsideUnheard(DropNext(e), boundary)) EXCEPT !.released = TRUE]

(* The paused engine lets go of the device, the track kept.                *)
LetGo(e, boundary) ==
  PublishStatus([DropSink(SetAsideUnheard(DropNext(e), boundary))
                   EXCEPT !.released = TRUE])

OutputLost(e, boundary) == LetGo(SetState(e, "Paused"), boundary)

Failed(e, gone, boundary) ==
  IF gone /\ e.current # None /\ e.state \in {"Playing", "Paused"}
    THEN OutputLost(e, boundary) ELSE Fail(e)

Pause(e, pauses) ==
  CASE e.state \in {"Loading", "Seeking"} -> [e EXCEPT !.pauseWhenReady = TRUE]
    [] e.state = "Playing" ->
         IF e.current = None \/ e.sink = None THEN SetState(e, "Paused")
         ELSE IF pauses
           THEN SetState([e EXCEPT !.held = TRUE, !.stuck = FALSE, !.sinkPaused = TRUE],
                         "Paused")
         ELSE Fail(e)
    [] OTHER -> e

Resume(e, opens, resumes) ==
  CASE e.state \in {"Loading", "Seeking"} -> [e EXCEPT !.pauseWhenReady = FALSE]
    [] e.state = "Paused" ->
         IF e.current # None /\ e.sink = None /\ ~opens THEN e
         ELSE LET f == IF e.current # None /\ e.sink = None
                         THEN OpenSink(e, Format[e.current]) ELSE e
              IN  IF ~f.sinkPaused THEN SetState(f, "Playing")
                  ELSE IF resumes
                    THEN SetState([Unpaused(f) EXCEPT !.sinkPaused = FALSE], "Playing")
                  ELSE Fail(f)
    [] OTHER -> e

(* While a track loads, the release waits for it, and the track starts     *)
(* paused; an earlier release that waits is answered.                      *)
ReleaseOutput(e, by, pauses, boundary) ==
  CASE e.state \in {"Loading", "Seeking"} ->
         [AnswerDeferred(e) EXCEPT !.pauseWhenReady = TRUE, !.releaseWhenReady = by]
    [] e.state = "Stopped" -> Answer(e, by)
    [] OTHER ->
         IF e.sink = None THEN Answer(e, by)
         ELSE LET f == Pause(e, pauses)
              IN  Answer(IF f.state = "Paused" THEN LetGo(f, boundary) ELSE f, by)

ReleaseIfAsked(e) ==
  IF e.state = "Paused" /\ e.releaseWhenReady # "no"
    THEN ReleaseOutput([e EXCEPT !.releaseWhenReady = "no"], e.releaseWhenReady,
                       TRUE, "notYet")
    ELSE e

StateWhenReady(e) == IF e.pauseWhenReady THEN "Paused" ELSE "Playing"

StartTrack(e, t, opens) ==
  IF e.sink # Format[t] /\ ~opens THEN Fail(EmitRefused(DropSink(e), t))
  ELSE LET f == IF e.sink = Format[t] THEN e ELSE OpenSink(DropSink(e), Format[t])
           g == EmitStarted([f EXCEPT !.current = t, !.source = t, !.spent = FALSE,
                                      !.sinkPaused = FALSE], t)
       IN  ReleaseIfAsked(SetState([g EXCEPT !.pauseWhenReady = FALSE],
                                   StateWhenReady(e)))

(* A track opened ahead starts, unless it was removed from the queue.      *)
Outcomes == {"starts", "refused", "removed"}
StartOpenedAhead(e, t, outcome) ==
  IF outcome = "removed" THEN RequestLoad(e, Any)
  ELSE StartTrack(e, t, outcome = "starts")

TakenNext(e) == [e EXCEPT !.next = None, !.phase = "None", !.ready = None]

(* What the queue would give: a track, or None at its end or undecided.    *)
CanTakeNext(e, peeked) ==
  e.gapless /\ e.outgoing = None /\ e.phase = "Ready" /\ peeked = e.next

---------------------------------------------------------------------------
(* The end of a track.                                                     *)

Drains == {"drained", "gone", "fails"}

(* The track is over once the device, unpaused for it, has drained.        *)
Completed(e) == EmitEnded(NoCurrent(PublishStatus(Unpaused(e))), e.current)

TrackCompleted(e, drain) ==
  IF drain = "drained" THEN RequestLoad(Completed(e), Any)
  ELSE Failed(e, drain = "gone", "notYet")

Handover(e, boundary) ==
  CheckCrossing([TakenNext(e) EXCEPT !.outgoing = e.current, !.current = e.ready,
                                     !.source = e.ready, !.spent = FALSE], boundary)

JoinNext(e, drain, boundary, outcome) ==
  IF e.sink = Format[e.ready] THEN Handover(e, boundary)
  ELSE IF drain = "drained"
    THEN StartOpenedAhead(Completed(TakenNext(e)), e.ready, outcome)
  ELSE Failed(TakenNext(e), drain = "gone", "notYet")

(* Waiting is given up when the last audio is nearly gone: the track still *)
(* opening is then started as it arrives.                                  *)
GiveUpWaiting(e, drain) ==
  IF drain = "drained" THEN SetState([Completed(e) EXCEPT !.adopting = TRUE], "Loading")
  ELSE Failed(e, drain = "gone", "notYet")

(* The next track as the end of the source finds it: what was opened ahead *)
(* if that is still what comes next, or else one that starts opening now.  *)
NextAtEnd(e, peeked) ==
  LET f == IF e.next # peeked THEN DropNext(e) ELSE e
  IN  IF f.next = None THEN StartPrefetch(f, peeked) ELSE f

---------------------------------------------------------------------------
(* Actions.                                                                *)

Become(e) == engine' = e
Room == engine.generation < MaxGeneration

---------------------------------------------------------------------------
(* Commands.                                                               *)

PlayTrack(t) == Become(RequestLoad(InterruptCurrent(engine), t))

PlayNothing ==
  engine.state = "Stopped" /\ Become(RequestLoad(engine, Any))

SkipToNext(peeked) ==
  IF CanTakeNext(engine, peeked)
    THEN \E outcome \in Outcomes :
           Become(StartOpenedAhead(InterruptCurrent(TakenNext(engine)),
                                   engine.ready, outcome))
    ELSE Become(RequestLoad(InterruptCurrent(engine), Any))

(* A restart, when enough has been heard, is one more question too.        *)
Previous == Become(RequestLoad(InterruptCurrent(engine), Any))

StopCommand == Become(Stop(engine))

PauseCommand(pauses) == Become(Pause(engine, pauses))

ResumeCommand(opens, resumes) == Become(Resume(engine, opens, resumes))

TogglePause(opens, works) ==
  Become(IF engine.state \in {"Playing", "Loading", "Seeking"} /\ ~engine.pauseWhenReady
           THEN Pause(engine, works) ELSE Resume(engine, opens, works))

ReleaseCommand(pauses, boundary) ==
  Become(ReleaseOutput(engine, "command", pauses, boundary))

(* Another program wants the device.                                       *)
ReleaseRequested(pauses, boundary) ==
  /\ engine.owed < MaxOwed
  /\ Become(ReleaseOutput([engine EXCEPT !.owed = @ + 1], "program", pauses, boundary))

(* A pause has lasted long enough to give the device back.                 *)
IdleRelease ==
  /\ engine.state = "Paused" /\ engine.sink # None
  /\ \E boundary \in BoundaryOf(engine) :
       Become(ReleaseOutput(engine, "timer", TRUE, boundary))

(* Seeking.                                                                *)
Rebased(e) ==
  [FlushSink(e) EXCEPT !.spent = FALSE, !.sinkPaused = FALSE]

(* The stream cannot rewind: the track is opened again at the target.      *)
SeekReopen(e, paused) ==
  BeginLoad([Rebased(e) EXCEPT !.source = None], e.current, "Seeking", paused)

(* A seek while the next track is already written behind the one heard:    *)
(* it is the one heard that moves, and the next is dropped.                *)
SeekDuringHandover(pastEnd) ==
  LET e == DropNext([engine EXCEPT !.outgoing = None, !.current = None])
  IN  IF pastEnd
        THEN RequestLoad(FlushSink(EmitEnded(NoCurrent(e), engine.outgoing)), Any)
        ELSE SeekReopen([e EXCEPT !.current = engine.outgoing], engine.state = "Paused")

(* Beyond the end, the track ends.                                         *)
SeekPastTheEnd(peeked, outcome) ==
  LET e == FlushSink(EmitEnded(NoCurrent(engine), engine.current))
  IN  IF CanTakeNext(engine, peeked) THEN StartOpenedAhead(TakenNext(e), engine.ready, outcome)
      ELSE RequestLoad(e, Any)

(* A track that is being reopened can only be reopened again.              *)
ModeNow == IF engine.source = None THEN "Reopen" ELSE SeekMode[engine.current]

Seekable ==
  /\ engine.state \in {"Playing", "Paused", "Seeking"}
  /\ engine.current # None
  /\ ModeNow # "None"

Seek ==
  \/ \E pastEnd \in BOOLEAN :
       engine.outgoing # None /\ Become(SeekDuringHandover(pastEnd))
  \/ /\ engine.outgoing = None /\ Seekable
     /\ \/ \E peeked \in Tracks \cup {None} : \E outcome \in Outcomes :
             Become(SeekPastTheEnd(peeked, outcome))
        \/ /\ ModeNow = "Reopen"
           /\ Become(SeekReopen(engine, engine.state = "Paused" \/
                                 (engine.state = "Seeking" /\ engine.pauseWhenReady)))
        \/ ModeNow \in {"InPlace", "ForwardOnly"} /\ Become(PublishStatus(Rebased(engine)))
        \/ ModeNow = "InPlace" /\ Become(Fail(FlushSink(engine)))

(* Another output from now on, the track and its position kept.            *)
SetOutput(pauses, boundary, opens) ==
  LET e == DropNext(engine)
      moves == engine.state \in {"Playing", "Paused"} /\ engine.sink # None
      f == IF moves THEN Pause(e, pauses) ELSE e
      g == IF moves THEN SetAsideUnheard(f, boundary) ELSE f
      h == PublishStatus(CloseOutput(g))
  IN  Become(IF moves /\ f.state # "Paused" THEN f
             ELSE IF engine.state = "Playing" /\ h.state = "Paused"
               THEN Resume(h, opens, TRUE)
             ELSE h)

---------------------------------------------------------------------------
(* Answers of the tasks.                                                   *)

\* Mutant: any answer is taken for the one awaited.
IsAwaitedByState(load) == engine.state \in {"Loading", "Seeking"}

IsAwaited(load) ==
  engine.state \in {"Loading", "Seeking"} /\ load.generation = engine.generation

Answered(load) == [engine EXCEPT !.loads = @ \ {load}]

FinishSeek(e, t) ==
  IF e.current = None THEN e
  ELSE ReleaseIfAsked(SetState([e EXCEPT !.source = t, !.pauseWhenReady = FALSE],
                               StateWhenReady(e)))

Loaded(load, t, opens) ==
  /\ IsAwaited(load)
  /\ t \in IF load.target = Any THEN Tracks ELSE {load.target}
  /\ Become(IF engine.state = "Seeking" THEN FinishSeek(Answered(load), t)
             ELSE StartTrack(Answered(load), t, opens))

(* It could not be opened, or came back in another format for a seek.      *)
LoadFailed(load) == IsAwaited(load) /\ Become(Fail(Answered(load)))

QueueExhausted(load) ==
  load.target = Any /\ IsAwaited(load) /\ Become(Stop(Answered(load)))

(* The answer to a question nobody asks any more; or it was aborted.       *)
LateAnswer(load) == ~IsAwaited(load) /\ Become(Answered(load))

(* The track opened ahead is ready, or could not be.                       *)
Prefetched(prefetch, works, outcome) ==
  LET e == [engine EXCEPT !.prefetches = @ \ {prefetch}]
  IN  Become(
        IF e.next = None \/ e.prefetchGeneration # prefetch.generation THEN e
        ELSE IF e.adopting
          THEN IF works THEN StartOpenedAhead(DropNext(e), prefetch.track, outcome)
               ELSE RequestLoad(DropNext(e), Any)
        ELSE IF works THEN [e EXCEPT !.phase = "Ready", !.ready = prefetch.track]
        ELSE [e EXCEPT !.phase = "Failed"])

---------------------------------------------------------------------------
(* One period of audio (play_step), from e, where the boundary between two *)
(* tracks has been looked at.                                              *)

(* The source has nothing more to give.                                    *)
EndOfSource(e, peeked) ==
  IF ~e.gapless \/ peeked = None
    THEN \E drain \in Drains : Become(TrackCompleted(DropNext(e), drain))
    ELSE LET f == NextAtEnd(e, peeked)
         IN  \/ /\ f.phase = "Ready"
                /\ \E drain \in Drains, boundary \in Boundary, outcome \in Outcomes :
                     Become(JoinNext(f, drain, boundary, outcome))
             \/ f.phase = "Opening" /\ Become(f)
             \/ /\ f.phase = "Opening"
                /\ \E drain \in Drains : Become(GiveUpWaiting(f, drain))
             \/ /\ f.phase = "Failed"
                /\ \E drain \in Drains : Become(TrackCompleted(DropNext(f), drain))

SourceFinished(e) ==
  IF e.outgoing # None THEN Become(e)
  ELSE \E peeked \in Tracks \cup {None} :
         /\ engine.prefetchGeneration < MaxPrefetch \/ peeked \in {None, e.next}
         /\ EndOfSource(e, peeked)

(* What was opened ahead is dropped when the queue changed or the listener *)
(* went back; near its end, the track after it starts opening.             *)
MaybePrefetch(e, peeked, near) ==
  IF ~e.gapless \/ e.outgoing # None \/ (e.next # None /\ e.next = peeked) THEN e
  ELSE IF near /\ peeked # None THEN StartPrefetch(DropNext(e), peeked)
  ELSE DropNext(e)

Write(e) ==
  \/ Become(e)
  \/ \E peeked \in Tracks \cup {None}, near \in BOOLEAN :
       /\ engine.prefetchGeneration < MaxPrefetch \/ ~near
       /\ Become(PublishStatus(MaybePrefetch(e, peeked, near)))
  \/ e.gapless /\ e.outgoing = None /\ Become(PublishStatus(DropNext(e)))
  \/ \E gone \in BOOLEAN, boundary \in BoundaryOf(e) : Become(Failed(e, gone, boundary))

PlayStep ==
  /\ engine.state = "Playing"
  /\ \E boundary \in BoundaryOf(engine) :
       LET e == CheckCrossing(engine, boundary)
       IN  IF e.current = None THEN Become(e)
           ELSE IF e.spent THEN SourceFinished(e)
           ELSE IF e.sink = None \/ e.source = None THEN Become(Fail(e))
           ELSE Write(e) \/ SourceFinished([e EXCEPT !.spent = TRUE])

---------------------------------------------------------------------------
Init ==
  \E gapless \in BOOLEAN : engine =
    [gapless |-> gapless, state |-> "Stopped", generation |-> 0, loads |-> {}, pauseWhenReady |-> FALSE,
     sink |-> None, held |-> FALSE, stuck |-> FALSE, flushes |-> TRUE,
     released |-> FALSE, releaseWhenReady |-> "no",
     current |-> None, source |-> None, spent |-> FALSE, sinkPaused |-> FALSE,
     outgoing |-> None, next |-> None, phase |-> "None", ready |-> None,
     prefetchGeneration |-> 0, prefetches |-> {}, adopting |-> FALSE,
     status |-> [state |-> "Stopped", track |-> None, output |-> "Closed"],
     told |-> None, orderly |-> TRUE, owed |-> 0]

Transport ==
  \/ \E t \in Tracks : PlayTrack(t)
  \/ PlayNothing
  \/ \E peeked \in Tracks \cup {None} : SkipToNext(peeked)
  \/ Previous
  \/ StopCommand
  \/ Seek
  \/ \E works \in BOOLEAN : PauseCommand(works)
  \/ \E opens, works \in BOOLEAN : ResumeCommand(opens, works) \/ TogglePause(opens, works)

(* Whether the device can be flushed is told by nobody, and matters only   *)
(* while it is paused.  A handler flushes at most once.                    *)
DeviceTurns ==
  /\ engine.held \/ engine.stuck
  /\ Become([engine EXCEPT !.flushes = ~@])

Device ==
  \E boundary \in BoundaryOf(engine), works \in BOOLEAN :
    \/ ReleaseCommand(works, boundary)
    \/ ReleaseRequested(works, boundary)
    \/ \E opens \in BOOLEAN : SetOutput(works, boundary, opens)

Answers ==
  \/ \E load \in engine.loads :
       \/ LoadFailed(load) \/ QueueExhausted(load) \/ LateAnswer(load)
       \/ \E t \in Tracks, opens \in BOOLEAN : Loaded(load, t, opens)
  \/ \E prefetch \in engine.prefetches, works \in BOOLEAN, outcome \in Outcomes :
       Prefetched(prefetch, works, outcome)

Next ==
  \/ Room /\ (Transport \/ Device \/ DeviceTurns \/ IdleRelease \/ PlayStep)
  \/ Answers

Spec == Init /\ [][Next]_vars

(* A task that is awaited ends: the thread aborts only those it no longer  *)
(* awaits and reads its messages in turn, in every state (run).  That the  *)
(* supplier's calls themselves end is assumed of the network behind it.    *)
AwaitedAnswer ==
  \E load \in engine.loads :
    \/ LoadFailed(load) \/ QueueExhausted(load)
    \/ \E t \in Tracks, opens \in BOOLEAN : Loaded(load, t, opens)

PrefetchAnswer ==
  \E prefetch \in engine.prefetches, works \in BOOLEAN, outcome \in Outcomes :
    /\ prefetch.generation = engine.prefetchGeneration
    /\ Prefetched(prefetch, works, outcome)

FairSpec == Spec /\ WF_vars(AwaitedAnswer) /\ WF_vars(PrefetchAnswer)
=============================================================================
