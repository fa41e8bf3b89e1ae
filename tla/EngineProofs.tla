----------------------------- MODULE EngineProofs -----------------------------
(***************************************************************************)
(* For any tracks, formats, ways to seek and bounds: what the audio thread *)
(* says, publishes, owes and holds agrees after every handler, in whatever *)
(* order commands, answers, failures and requests for the device come.     *)
(***************************************************************************)
EXTENDS EngineProperties, TLAPS

Targets == Tracks \cup {Any}

---------------------------------------------------------------------------
(* The inductive invariant, of the fields e before or after a method.      *)

(* Every question has a number of its own, none above the last given out.  *)
Numbered(e) ==
  /\ \A l \in e.loads : l.generation <= e.generation
  /\ \A l, m \in e.loads : l.generation = m.generation => l = m
  /\ \A p \in e.prefetches : p.generation <= e.prefetchGeneration

(* What opens ahead has its question, which is about it.                   *)
AheadAgrees(e) ==
  /\ e.phase = "None" <=> e.next = None
  /\ e.phase = "Ready" => e.ready = e.next
  /\ e.phase = "Opening" =>
       [generation |-> e.prefetchGeneration, track |-> e.next] \in e.prefetches
  /\ \A p \in e.prefetches :
       p.generation = e.prefetchGeneration /\ e.next # None => p.track = e.next
  /\ e.adopting => e.phase = "Opening"

(* k programs wait beside the one whose request is put off.                *)
Owes(e, k) == e.owed = k + (IF e.releaseWhenReady = "program" THEN 1 ELSE 0)

Base(e, k) ==
  /\ e \in EngineType
  /\ Numbered(e)
  /\ AheadAgrees(e)
  /\ Owes(e, k)
  /\ e.released => e.sink = None
  /\ e.held \/ e.stuck => e.sink # None
  /\ ~(e.held /\ e.stuck)

(* Nothing is heard, or said to be.                                        *)
Hushed(e) ==
  /\ e.orderly /\ e.told = None
  /\ e.current = None /\ e.outgoing = None /\ e.source = None
Quiet(e) == Hushed(e) /\ ~e.held

NoNext(e) == e.next = None /\ ~e.adopting
NoOpen(e) == \A l \in e.loads : l.generation # e.generation
NoSink(e) == e.sink = None /\ ~e.held
Closed(e) == NoSink(e) /\ ~e.released /\ e.releaseWhenReady = "no"

(* What the fields must be like for the engine to be in state s.           *)
Fit(e, s) ==
  /\ e.source # None => e.source = e.current
  /\ e.source = None <=> e.current = None \/ s = "Seeking"
  /\ s = "Seeking" => [generation |-> e.generation, target |-> e.current] \in e.loads
  /\ e.adopting => s = "Loading"
  /\ ~NoOpen(e) => s \in {"Loading", "Seeking"} /\ ~e.adopting
  /\ e.outgoing # None =>
       e.current # None /\ s \in {"Playing", "Paused"} /\ e.next = None
  /\ s = "Stopped" => e.current = None /\ Closed(e)
  /\ e.next # None => s # "Stopped" /\ s # "Seeking"
  /\ s \in {"Playing", "Paused", "Seeking"} => e.current # None
  /\ s = "Loading" => e.current = None /\ (e.next # None => e.adopting)
  /\ e.held => s = "Paused" /\ e.sink # None /\ e.current # None /\ e.sinkPaused

Tells(e) == e.orderly /\ e.told = Heard(e)
Published(e) == e.status = StatusOf(e)

Full(e, k) == Base(e, k) /\ Tells(e) /\ Fit(e, e.state) /\ Published(e)

(* What has a track to end, or has none.                                   *)
Endable(e, k) ==
  Base(e, k) /\ Tells(e) /\ (e.current = None => e.source = None /\ e.outgoing = None)

(* What a method leaves alone.                                             *)
SameMusic(d, e) ==
  /\ d.current = e.current /\ d.source = e.source /\ d.outgoing = e.outgoing
  /\ d.spent = e.spent /\ d.sinkPaused = e.sinkPaused
  /\ d.told = e.told /\ d.orderly = e.orderly /\ d.gapless = e.gapless
SameQuestions(d, e) ==
  /\ d.generation = e.generation /\ d.loads = e.loads
  /\ d.next = e.next /\ d.phase = e.phase /\ d.ready = e.ready /\ d.adopting = e.adopting
  /\ d.prefetchGeneration = e.prefetchGeneration /\ d.prefetches = e.prefetches
SameDevice(d, e) ==
  /\ d.sink = e.sink /\ d.held = e.held /\ d.stuck = e.stuck /\ d.released = e.released
SameState(d, e) == d.state = e.state /\ d.status = e.status /\ d.pauseWhenReady = e.pauseWhenReady

---------------------------------------------------------------------------
(* The pieces.                                                             *)

(* The kinds of fields.                                                    *)
LEMMA Kinds ==
  /\ None \in OptTrack /\ None \in Formats \cup {None}
  /\ Tracks \subseteq OptTrack /\ None \notin Tracks
  /\ "None" \in Phases /\ "Opening" \in Phases /\ "Ready" \in Phases /\ "Failed" \in Phases
  /\ "no" \in Releasers /\ "command" \in Releasers /\ "timer" \in Releasers
  /\ "program" \in Releasers
  /\ "Stopped" \in States /\ "Loading" \in States /\ "Playing" \in States
  /\ "Paused" \in States /\ "Seeking" \in States
BY EngineAssumption DEF OptTrack, Phases, Releasers, States

LEMMA DropNextKeeps ==
  ASSUME NEW e, NEW k \in Nat, Base(e, k)
  PROVE  /\ Base(DropNext(e), k) /\ NoNext(DropNext(e))
         /\ Quiet(e) => Quiet(DropNext(e))
         /\ NoOpen(e) => NoOpen(DropNext(e))
         /\ Tells(e) => Tells(DropNext(e))
         /\ Full(e, k) => Full(DropNext(e), k)
<1>1. e \in EngineType
  BY DEF Base
<1>2. DropNext(e) \in EngineType
  BY ZenonT(40), <1>1, Kinds DEF EngineType, DropNext
<1>3. Base(DropNext(e), k)
  BY <1>2 DEF Base, EngineType, DropNext, Numbered, AheadAgrees, Owes
<1>4. NoNext(DropNext(e)) /\ (Quiet(e) => Quiet(DropNext(e)))
  BY <1>1 DEF EngineType, DropNext, NoNext, Quiet, Hushed
<1>5. NoOpen(e) <=> NoOpen(DropNext(e))
  BY <1>1 DEF EngineType, DropNext, NoOpen
<1>6. Tells(e) => Tells(DropNext(e))
  BY <1>1 DEF EngineType, DropNext, Tells, Heard
<1>7. Published(e) => Published(DropNext(e))
  BY <1>1 DEF EngineType, DropNext, Published, StatusOf, Heard
<1>8. Fit(e, e.state) => Fit(DropNext(e), DropNext(e).state)
  BY <1>1, <1>5 DEF EngineType, DropNext, Fit, Closed, NoSink
<1> QED BY <1>3, <1>4, <1>5, <1>6, <1>7, <1>8 DEF Full

LEMMA CancelLoadKeeps ==
  ASSUME NEW e, NEW k \in Nat, Base(e, k)
  PROVE  /\ Base(CancelLoad(e), k) /\ NoOpen(CancelLoad(e))
         /\ CancelLoad(e).generation = e.generation + 1
         /\ Quiet(e) => Quiet(CancelLoad(e))
         /\ NoNext(e) => NoNext(CancelLoad(e))
         /\ CancelLoad(e).current = e.current /\ CancelLoad(e).outgoing = e.outgoing
         /\ CancelLoad(e).source = e.source /\ CancelLoad(e).held = e.held
         /\ CancelLoad(e).orderly = e.orderly /\ CancelLoad(e).told = e.told
<1>1. e \in EngineType
  BY DEF Base
<1>2. CancelLoad(e) \in EngineType
  BY <1>1 DEF EngineType, CancelLoad
<1>3. Base(CancelLoad(e), k) /\ NoOpen(CancelLoad(e))
  BY <1>2 DEF Base, EngineType, CancelLoad, Numbered, AheadAgrees, Owes, NoOpen
<1>4. /\ Quiet(e) => Quiet(CancelLoad(e))
      /\ NoNext(e) => NoNext(CancelLoad(e))
  BY <1>1 DEF EngineType, CancelLoad, NoNext, Quiet, Hushed
<1> QED BY <1>1, <1>3, <1>4 DEF EngineType, CancelLoad

(* One who waits is answered.                                              *)
LEMMA AnswerKeeps ==
  ASSUME NEW e, NEW k \in Nat, NEW by,
         Base(e, IF by = "program" THEN k + 1 ELSE k)
  PROVE  /\ Base(Answer(e, by), k)
         /\ Tells(e) => Tells(Answer(e, by))
         /\ \A s : Fit(e, s) => Fit(Answer(e, by), s)
         /\ Published(e) => Published(Answer(e, by))
         /\ Quiet(e) => Quiet(Answer(e, by))
         /\ NoNext(e) => NoNext(Answer(e, by))
         /\ NoOpen(e) => NoOpen(Answer(e, by))
         /\ Answer(e, by).state = e.state
<1>1. CASE by # "program"
  BY <1>1 DEF Answer
<1>2. CASE by = "program"
  <2>1. e \in EngineType /\ e.owed = k + 1 + (IF e.releaseWhenReady = "program" THEN 1 ELSE 0)
    BY <1>2 DEF Base, Owes
  <2>2. Answer(e, by) = [e EXCEPT !.owed = @ - 1] /\ e.owed - 1 \in Nat
    BY <1>2, <2>1 DEF Answer
  <2>3. Answer(e, by) \in EngineType
    BY <2>1, <2>2 DEF EngineType
  <2>4. Base(Answer(e, by), k)
    BY <2>1, <2>2, <2>3 DEF Base, EngineType, Numbered, AheadAgrees, Owes
  <2>5. NoOpen(e) <=> NoOpen(Answer(e, by))
    BY <2>1, <2>2 DEF EngineType, NoOpen
  <2>6. \A s : Fit(e, s) => Fit(Answer(e, by), s)
    BY <2>1, <2>2, <2>5 DEF EngineType, Fit, Closed, NoSink
  <2>7. /\ Tells(e) => Tells(Answer(e, by))
        /\ Published(e) => Published(Answer(e, by))
    BY <2>1, <2>2 DEF EngineType, Tells, Published, StatusOf, Heard
  <2>8. /\ Quiet(e) => Quiet(Answer(e, by))
        /\ NoNext(e) => NoNext(Answer(e, by))
        /\ Answer(e, by).state = e.state
    BY <2>1, <2>2 DEF EngineType, Quiet, Hushed, NoNext
  <2> QED BY <2>4, <2>5, <2>6, <2>7, <2>8
<1> QED BY <1>1, <1>2

(* The base looks at the questions, at what is owed and at the device.     *)
LEMMA SameKeepsBase ==
  ASSUME NEW e, NEW k \in Nat, NEW d \in EngineType, Base(e, k),
         SameQuestions(d, e), SameDevice(d, e),
         d.releaseWhenReady = e.releaseWhenReady, d.owed = e.owed
  PROVE  Base(d, k)
BY DEF Base, Numbered, AheadAgrees, Owes, SameQuestions, SameDevice

(* Publishing makes the status what the fields are, and changes no other.  *)
LEMMA StatusHasItsType ==
  ASSUME NEW e \in EngineType
  PROVE  StatusOf(e) \in [state : States, track : OptTrack, output : {"Open", "Released", "Closed"}]
BY DEF StatusOf, Heard, EngineType

LEMMA PublishFits ==
  ASSUME NEW e, NEW k \in Nat, Base(e, k), Tells(e), Fit(e, e.state)
  PROVE  /\ Full(PublishStatus(e), k)
         /\ SameMusic(PublishStatus(e), e) /\ SameQuestions(PublishStatus(e), e)
         /\ SameDevice(PublishStatus(e), e) /\ PublishStatus(e).state = e.state
<1>1. e \in EngineType
  BY DEF Base
<1> DEFINE d == PublishStatus(e)
<1>2. d = [e EXCEPT !.status = StatusOf(e)]
  BY DEF PublishStatus
<1>3. d \in EngineType
  BY <1>1, <1>2, StatusHasItsType DEF EngineType
<1> HIDE DEF d
<1>4. Base(d, k)
  BY <1>1, <1>2, <1>3 DEF Base, EngineType, Numbered, AheadAgrees, Owes
<1>5. Tells(d) /\ (NoOpen(d) <=> NoOpen(e))
  BY <1>1, <1>2 DEF EngineType, Tells, Heard, NoOpen
<1>6. Fit(d, d.state)
  BY <1>1, <1>2, <1>5 DEF EngineType, Fit, Closed, NoSink
<1>7. StatusOf(d) = StatusOf(e)
  BY <1>1, <1>2 DEF EngineType, StatusOf, Heard
<1>8. d.status = StatusOf(d)
  BY <1>1, <1>2, <1>7 DEF EngineType
<1>9. SameMusic(d, e) /\ SameQuestions(d, e) /\ SameDevice(d, e) /\ d.state = e.state
  BY <1>1, <1>2 DEF EngineType, SameMusic, SameQuestions, SameDevice
<1> QED BY <1>4, <1>5, <1>6, <1>8, <1>9 DEF Full, Published, d

(* A release that was put off is no longer, and who waits for it answered. *)
LEMMA AnswerDeferredKeeps ==
  ASSUME NEW e, NEW k \in Nat, Base(e, k)
  PROVE  /\ Base(AnswerDeferred(e), k)
         /\ AnswerDeferred(e).releaseWhenReady = "no"
         /\ SameMusic(AnswerDeferred(e), e) /\ SameQuestions(AnswerDeferred(e), e)
         /\ SameDevice(AnswerDeferred(e), e) /\ SameState(AnswerDeferred(e), e)
<1> DEFINE d == [e EXCEPT !.releaseWhenReady = "no"]
           by == e.releaseWhenReady
<1>1. e \in EngineType /\ e.owed = k + (IF by = "program" THEN 1 ELSE 0)
  BY DEF Base, Owes
<1>2. d \in EngineType /\ d.owed = e.owed /\ d.releaseWhenReady = "no"
  BY <1>1, Kinds DEF EngineType
<1>3. Base(d, IF by = "program" THEN k + 1 ELSE k)
  BY <1>1, <1>2 DEF Base, EngineType, Numbered, AheadAgrees, Owes
<1>4. AnswerDeferred(e) = Answer(d, by)
  BY DEF AnswerDeferred
<1>5. AnswerDeferred(e).releaseWhenReady = "no"
  BY <1>1, <1>4 DEF Answer, EngineType
<1>6. SameMusic(AnswerDeferred(e), e) /\ SameQuestions(AnswerDeferred(e), e)
      /\ SameDevice(AnswerDeferred(e), e) /\ SameState(AnswerDeferred(e), e)
  BY <1>1, <1>4 DEF Answer, EngineType, SameMusic, SameQuestions, SameDevice, SameState
<1> HIDE DEF d, by
<1>7. Base(AnswerDeferred(e), k)
  BY <1>3, <1>4, AnswerKeeps
<1> QED BY <1>5, <1>6, <1>7

(* The output is closed, and who waits for it answered.                    *)
LEMMA CloseOutputKeeps ==
  ASSUME NEW e, NEW k \in Nat, Base(e, k)
  PROVE  /\ Base(CloseOutput(e), k) /\ Closed(CloseOutput(e))
         /\ SameMusic(CloseOutput(e), e) /\ SameQuestions(CloseOutput(e), e)
         /\ SameState(CloseOutput(e), e)
<1> DEFINE d == [DropSink(e) EXCEPT !.released = FALSE]
<1>1. e \in EngineType
  BY DEF Base
<1>2. d \in EngineType
  BY ZenonT(40), <1>1, Kinds DEF EngineType, DropSink, Unpaused
<1>3. Base(d, k)
  BY <1>1, <1>2 DEF Base, EngineType, DropSink, Unpaused, Numbered, AheadAgrees, Owes
<1>4. /\ d.sink = None /\ ~d.held /\ ~d.released
      /\ SameMusic(d, e) /\ SameQuestions(d, e) /\ SameState(d, e)
  BY <1>1 DEF EngineType, DropSink, Unpaused, SameMusic, SameQuestions, SameState
<1>5. CloseOutput(e) = AnswerDeferred(d)
  BY DEF CloseOutput
<1> HIDE DEF d
<1>6. /\ Base(CloseOutput(e), k) /\ CloseOutput(e).releaseWhenReady = "no"
      /\ SameMusic(CloseOutput(e), d) /\ SameQuestions(CloseOutput(e), d)
      /\ SameDevice(CloseOutput(e), d) /\ SameState(CloseOutput(e), d)
  BY <1>3, <1>5, AnswerDeferredKeeps
<1>7. Closed(CloseOutput(e))
  BY <1>4, <1>6 DEF Closed, NoSink, SameDevice
<1> QED BY <1>4, <1>6, <1>7 DEF SameMusic, SameQuestions, SameState

LEMMA SetStateFits ==
  ASSUME NEW e, NEW k \in Nat, NEW s \in States, Base(e, k), Tells(e), Fit(e, s)
  PROVE  Full(SetState(e, s), k) /\ SetState(e, s).state = s
<1>1. e \in EngineType
  BY DEF Base
<1> DEFINE d == [e EXCEPT !.state = s]
<1>2. d \in EngineType /\ d.state = s
  BY <1>1 DEF EngineType
<1>3. /\ Heard(d) = Heard(e) /\ (NoOpen(d) <=> NoOpen(e)) /\ Tells(d)
  BY <1>1 DEF EngineType, Heard, NoOpen, Tells
<1>4. Base(d, k)
  BY <1>1, <1>2 DEF Base, EngineType, Numbered, AheadAgrees, Owes
<1>5. Fit(d, d.state)
  BY <1>1, <1>2, <1>3 DEF EngineType, Fit, Closed, NoSink
<1>6. SetState(e, s) = PublishStatus(d)
  BY DEF SetState
<1> HIDE DEF d
<1> QED BY <1>2, <1>4, <1>3, <1>5, <1>6, PublishFits

(* Whatever the methods leave alone decides whether all is well.           *)
LEMMA SameIsFull ==
  ASSUME NEW e, NEW k \in Nat, NEW d \in EngineType, Full(e, k),
         SameQuestions(d, e), SameDevice(d, e), SameMusic(d, e),
         d.releaseWhenReady = e.releaseWhenReady, d.owed = e.owed,
         d.state = e.state, d.status = e.status
  PROVE  Full(d, k)
<1>1. Base(d, k)
  BY SameKeepsBase DEF Full
<1>2. Tells(d) /\ Published(d)
  BY DEF Full, Tells, Published, StatusOf, Heard, SameMusic, SameDevice
<1>3. Fit(d, d.state)
  BY DEF Full, Fit, Closed, NoSink, NoOpen, SameMusic, SameQuestions, SameDevice
<1> QED BY <1>1, <1>2, <1>3 DEF Full

---------------------------------------------------------------------------
(* The ends: of what is heard, and of everything.                          *)

(* Forgetting what is written, and telling of it, keeps the types.         *)
LEMMA NoCurrentHasItsType ==
  ASSUME NEW e \in EngineType
  PROVE  /\ NoCurrent(e) \in EngineType
         /\ [e EXCEPT !.outgoing = None] \in EngineType
BY ZenonT(40), Kinds DEF EngineType, NoCurrent

LEMMA EmittingHasItsType ==
  ASSUME NEW e \in EngineType, NEW t
  PROVE  /\ EmitEnded(e, t) \in EngineType /\ EmitRefused(e, t) \in EngineType
         /\ t \in Tracks => EmitStarted(e, t) \in EngineType
<1>1. ASSUME NEW x \in BOOLEAN, NEW y \in OptTrack
      PROVE  /\ [e EXCEPT !.told = y, !.orderly = x] \in EngineType
             /\ [e EXCEPT !.orderly = x] \in EngineType
  <2>1. [e EXCEPT !.told = y, !.orderly = x] \in EngineType
    BY ZenonT(40) DEF EngineType
  <2>2. [e EXCEPT !.orderly = x] \in EngineType
    BY ZenonT(40) DEF EngineType
  <2> QED BY <2>1, <2>2
<1>2. /\ [e EXCEPT !.told = None, !.orderly = e.orderly /\ e.told = t] \in EngineType
      /\ [e EXCEPT !.orderly = e.orderly /\ e.told = None] \in EngineType
  BY <1>1, Kinds
<1>3. ASSUME t \in Tracks
      PROVE  [e EXCEPT !.told = t, !.orderly = e.orderly /\ e.told = None] \in EngineType
  BY <1>1, <1>3, Kinds
<1> QED BY <1>2, <1>3 DEF EmitEnded, EmitRefused, EmitStarted

(* What is heard ends, and what was written behind it goes with it.        *)
LEMMA EndHeardKeeps ==
  ASSUME NEW e, NEW k \in Nat, Endable(e, k)
  PROVE  /\ Base(EndHeard(e), k) /\ Hushed(EndHeard(e))
         /\ SameQuestions(EndHeard(e), e) /\ SameDevice(EndHeard(e), e)
         /\ SameState(EndHeard(e), e) /\ EndHeard(e).releaseWhenReady = e.releaseWhenReady
<1>1. e \in EngineType /\ Tells(e) /\ Base(e, k)
  BY DEF Base, Endable
<1> DEFINE d == EndHeard(e)
<1>2. CASE e.outgoing # None
  <2>1. d = EmitEnded(NoCurrent([e EXCEPT !.outgoing = None]), e.outgoing)
    BY <1>2 DEF EndHeard
  <2>2. d \in EngineType
    BY <1>1, <2>1, NoCurrentHasItsType, EmittingHasItsType
  <2>3. Hushed(d)
    BY <1>1, <1>2, <2>1 DEF EngineType, EmitEnded, NoCurrent, Hushed, Tells, Heard
  <2>4. /\ SameQuestions(d, e) /\ SameDevice(d, e)
        /\ SameState(d, e) /\ d.releaseWhenReady = e.releaseWhenReady
        /\ d.owed = e.owed
    BY <1>1, <2>1 DEF EngineType, EmitEnded, NoCurrent, SameQuestions, SameDevice, SameState
  <2> HIDE DEF d
  <2>5. Base(d, k)
    BY <1>1, <2>2, <2>4, SameKeepsBase
  <2> QED BY <2>3, <2>4, <2>5 DEF d
<1>3. CASE e.outgoing = None /\ e.current # None
  <2>1. d = EmitEnded(NoCurrent(e), e.current)
    BY <1>3 DEF EndHeard
  <2>2. d \in EngineType
    BY <1>1, <2>1, NoCurrentHasItsType, EmittingHasItsType
  <2>3. Hushed(d)
    BY <1>1, <1>3, <2>1 DEF EngineType, EmitEnded, NoCurrent, Hushed, Tells, Heard
  <2>4. /\ SameQuestions(d, e) /\ SameDevice(d, e)
        /\ SameState(d, e) /\ d.releaseWhenReady = e.releaseWhenReady
        /\ d.owed = e.owed
    BY <1>1, <2>1 DEF EngineType, EmitEnded, NoCurrent, SameQuestions, SameDevice, SameState
  <2> HIDE DEF d
  <2>5. Base(d, k)
    BY <1>1, <2>2, <2>4, SameKeepsBase
  <2> QED BY <2>3, <2>4, <2>5 DEF d
<1>4. CASE e.outgoing = None /\ e.current = None
  <2>1. d = e
    BY <1>4 DEF EndHeard
  <2>2. Hushed(d)
    BY <1>1, <1>4, <2>1 DEF Hushed, Tells, Heard, Endable
  <2> QED BY <1>1, <2>1, <2>2 DEF SameQuestions, SameDevice, SameState
<1> QED BY <1>2, <1>3, <1>4

(* Once nothing is heard, the engine can stop.                             *)
LEMMA StopsHushed ==
  ASSUME NEW e, NEW k \in Nat, Base(e, k), Hushed(e)
  PROVE  LET d == SetState(CloseOutput([CancelLoad(DropNext(e)) EXCEPT !.pauseWhenReady = FALSE]),
                           "Stopped")
         IN  Full(d, k) /\ d.state = "Stopped"
<1> DEFINE a == DropNext(e)
           b == CancelLoad(a)
           c == [b EXCEPT !.pauseWhenReady = FALSE]
           d == CloseOutput(c)
<1>1. e \in EngineType
  BY DEF Base
<1>2. Base(a, k) /\ NoNext(a) /\ Hushed(a)
  <2>1. Hushed(a)
    BY <1>1 DEF EngineType, DropNext, Hushed
  <2> QED BY <2>1, DropNextKeeps
<1> HIDE DEF a
<1>3. Base(b, k) /\ NoOpen(b) /\ NoNext(b) /\ Hushed(b)
  <2>1. Hushed(b)
    BY <1>2, CancelLoadKeeps DEF Hushed
  <2> QED BY <2>1, <1>2, CancelLoadKeeps
<1> HIDE DEF b
<1>4. b \in EngineType
  BY <1>3 DEF Base
<1>5. /\ c \in EngineType /\ SameQuestions(c, b) /\ SameMusic(c, b) /\ SameDevice(c, b)
      /\ c.releaseWhenReady = b.releaseWhenReady /\ c.owed = b.owed
  BY ZenonT(40), <1>4 DEF EngineType, SameQuestions, SameMusic, SameDevice
<1> HIDE DEF c
<1>6. Base(c, k)
  BY <1>3, <1>5, SameKeepsBase
<1>7. Base(d, k) /\ Closed(d) /\ SameMusic(d, c) /\ SameQuestions(d, c)
  BY <1>6, CloseOutputKeeps
<1> HIDE DEF d
<1>8. NoOpen(d) /\ NoNext(d) /\ Hushed(d)
  BY <1>3, <1>5, <1>7 DEF NoOpen, NoNext, Hushed, SameMusic, SameQuestions
<1>9. Tells(d)
  BY <1>8 DEF Tells, Hushed, Heard
<1>10. Fit(d, "Stopped")
  BY <1>7, <1>8 DEF Fit, Hushed, NoNext, Closed, NoSink
<1>11. Full(SetState(d, "Stopped"), k) /\ SetState(d, "Stopped").state = "Stopped"
  BY <1>7, <1>9, <1>10, Kinds, SetStateFits
<1> QED BY <1>11 DEF a, b, c, d

LEMMA FailIsFull ==
  ASSUME NEW e, NEW k \in Nat, Endable(e, k)
  PROVE  Full(Fail(e), k) /\ Fail(e).state = "Stopped"
BY EndHeardKeeps, StopsHushed DEF Fail

(* Whether or not the device lets itself be flushed, a flush forgets its   *)
(* pause, and leaves alone all else but whether it is stuck.               *)
LEMMA FlushSinkIs ==
  ASSUME NEW e \in EngineType
  PROVE  /\ FlushSink(e) \in EngineType /\ SameQuestions(FlushSink(e), e)
         /\ SameMusic(FlushSink(e), e) /\ FlushSink(e).held = FALSE
         /\ FlushSink(e).stuck => e.stuck \/ e.held
         /\ FlushSink(e).sink = e.sink /\ FlushSink(e).released = e.released
         /\ FlushSink(e).releaseWhenReady = e.releaseWhenReady
         /\ FlushSink(e).owed = e.owed
         /\ FlushSink(e).state = e.state /\ FlushSink(e).status = e.status
         /\ FlushSink(e).pauseWhenReady = e.pauseWhenReady
<1> DEFINE d == Unpaused(e)
           stays == e.stuck \/ e.held
           f == [e EXCEPT !.held = FALSE, !.stuck = stays]
<1>1. /\ d \in EngineType /\ SameQuestions(d, e) /\ SameMusic(d, e)
      /\ d.held = FALSE /\ d.stuck = FALSE /\ d.sink = e.sink /\ d.released = e.released
      /\ d.releaseWhenReady = e.releaseWhenReady /\ d.owed = e.owed
      /\ d.state = e.state /\ d.status = e.status /\ d.pauseWhenReady = e.pauseWhenReady
  BY ZenonT(40) DEF EngineType, Unpaused, SameQuestions, SameMusic
<1>2. FlushSink(e) = IF e.flushes THEN d ELSE f
  BY DEF FlushSink
<1>3. stays \in BOOLEAN /\ (stays => e.stuck \/ e.held)
  OBVIOUS
<1> HIDE DEF d, stays
<1>4. /\ f.held = FALSE /\ f.stuck = stays
      /\ SameQuestions(f, e) /\ SameMusic(f, e) /\ f.sink = e.sink /\ f.released = e.released
      /\ f.releaseWhenReady = e.releaseWhenReady /\ f.owed = e.owed
      /\ f.state = e.state /\ f.status = e.status /\ f.pauseWhenReady = e.pauseWhenReady
  BY DEF EngineType, SameQuestions, SameMusic
<1>5. f \in EngineType
  BY ZenonT(40), <1>3 DEF EngineType
<1> HIDE DEF f
<1> QED BY <1>1, <1>2, <1>3, <1>4, <1>5

LEMMA FlushSinkKeeps ==
  ASSUME NEW e, NEW k \in Nat, Base(e, k)
  PROVE  /\ Base(FlushSink(e), k) /\ SameQuestions(FlushSink(e), e)
         /\ SameMusic(FlushSink(e), e) /\ FlushSink(e).held = FALSE
         /\ FlushSink(e).sink = e.sink /\ FlushSink(e).state = e.state
         /\ Hushed(e) => Quiet(FlushSink(e))
<1>1. e \in EngineType
  BY DEF Base
<1>2. Base(FlushSink(e), k)
  <2> DEFINE f == FlushSink(e)
  <2>1. /\ f \in EngineType /\ SameQuestions(f, e) /\ f.held = FALSE
        /\ f.stuck => e.stuck \/ e.held
        /\ f.sink = e.sink /\ f.released = e.released
        /\ f.releaseWhenReady = e.releaseWhenReady /\ f.owed = e.owed
    BY <1>1, FlushSinkIs
  <2> HIDE DEF f
  <2>2. f.stuck => f.sink # None
    BY <2>1 DEF Base
  <2>3. Base(f, k)
    BY <2>1, <2>2 DEF Base, Numbered, AheadAgrees, Owes, SameQuestions
  <2> QED BY <2>3 DEF f
<1> QED BY <1>1, <1>2, FlushSinkIs DEF Quiet, Hushed, SameMusic

(* What interrupts leaves nothing in the device.                           *)
LEMMA InterruptKeeps ==
  ASSUME NEW e, NEW k \in Nat, Endable(e, k), e.held => e.current # None
  PROVE  Base(InterruptCurrent(e), k) /\ Quiet(InterruptCurrent(e))
         /\ (NoOpen(e) => NoOpen(InterruptCurrent(e)))
         /\ InterruptCurrent(e).next \in {e.next, None}
         /\ (NoNext(e) => NoNext(InterruptCurrent(e)))
         /\ InterruptCurrent(e).state = e.state
<1>1. e \in EngineType /\ Base(e, k)
  BY DEF Base, Endable
<1>2. CASE Heard(e) = None
  <2>1. InterruptCurrent(e) = e /\ e.current = None /\ e.outgoing = None
    BY <1>2 DEF InterruptCurrent, Heard
  <2> QED BY <1>1, <2>1 DEF Quiet, Hushed, Endable, Tells, Heard
<1>3. CASE Heard(e) # None
  <2> DEFINE a == IF e.outgoing # None THEN DropNext(e) ELSE e
             b == EndHeard(a)
  <2>1. /\ Endable(a, k) /\ a.loads = e.loads /\ a.generation = e.generation
        /\ a.next \in {e.next, None} /\ (NoNext(e) => NoNext(a)) /\ a.state = e.state
    <3>1. CASE e.outgoing # None
      <4>1. /\ DropNext(e).current = e.current /\ DropNext(e).source = e.source
            /\ DropNext(e).outgoing = e.outgoing /\ DropNext(e).loads = e.loads
            /\ DropNext(e).generation = e.generation /\ DropNext(e).next = None
            /\ DropNext(e).state = e.state
        BY <1>1 DEF EngineType, DropNext
      <4> QED BY <1>1, <3>1, <4>1, DropNextKeeps DEF Endable
    <3>2. CASE e.outgoing = None
      BY <3>2
    <3> QED BY <3>1, <3>2
  <2> HIDE DEF a
  <2>2. /\ Base(b, k) /\ Hushed(b) /\ SameQuestions(b, a) /\ SameState(b, a)
    BY <2>1, EndHeardKeeps
  <2> HIDE DEF b
  <2>3. /\ Base(FlushSink(b), k) /\ Quiet(FlushSink(b))
        /\ SameQuestions(FlushSink(b), b) /\ FlushSink(b).state = b.state
    BY <2>2, FlushSinkKeeps
  <2>4. InterruptCurrent(e) = FlushSink(b)
    BY <1>3 DEF InterruptCurrent, a, b
  <2>5. /\ NoOpen(e) => NoOpen(FlushSink(b))
        /\ FlushSink(b).next \in {e.next, None}
        /\ NoNext(e) => NoNext(FlushSink(b))
    BY <2>1, <2>2, <2>3 DEF NoOpen, NoNext, SameQuestions
  <2>6. FlushSink(b).state = e.state
    BY <2>1, <2>2, <2>3 DEF SameState
  <2> QED BY <2>3, <2>4, <2>5, <2>6
<1> QED BY <1>2, <1>3

LEMMA StopIsFull ==
  ASSUME NEW e, NEW k \in Nat, Endable(e, k), e.held => e.current # None
  PROVE  Full(Stop(e), k) /\ Stop(e).state = "Stopped"
BY InterruptKeeps, StopsHushed DEF Stop, Quiet

(* An engine between two handlers has a track to end, or has none.         *)
LEMMA FullIsEndable ==
  ASSUME NEW e, NEW k \in Nat, Full(e, k)
  PROVE  Endable(e, k) /\ (e.held => e.current # None)
BY DEF Full, Endable, Fit

---------------------------------------------------------------------------
(* Questions.                                                              *)

(* Before a question is asked there is nothing to play: either nothing is  *)
(* heard, or the track to seek in has no samples.                          *)
Asks(e, target, s) ==
  /\ Tells(e) /\ ~e.held /\ e.source = None /\ e.outgoing = None
  /\ \/ s = "Loading" /\ e.current = None
     \/ s = "Seeking" /\ e.current = target /\ target \in Tracks

LEMMA BeginLoadIsFull ==
  ASSUME NEW e, NEW k \in Nat, NEW target \in Targets, NEW s, NEW paused \in BOOLEAN,
         Base(e, k), Asks(e, target, s)
  PROVE  Full(BeginLoad(e, target, s, paused), k) /\ BeginLoad(e, target, s, paused).state = s
<1> DEFINE a == CancelLoad(e)
           b == DropNext(a)
           f == AnswerDeferred(b)
           load == [generation |-> f.generation, target |-> target]
           d == [f EXCEPT !.pauseWhenReady = paused, !.loads = @ \cup {load}]
<1>1. /\ Base(a, k) /\ NoOpen(a) /\ a.generation = e.generation + 1
      /\ a.current = e.current /\ a.outgoing = e.outgoing /\ a.source = e.source
      /\ a.held = e.held /\ a.orderly = e.orderly /\ a.told = e.told
  BY CancelLoadKeeps
<1> HIDE DEF a
<1>2. Base(b, k) /\ NoNext(b) /\ NoOpen(b)
  BY <1>1, DropNextKeeps
<1>3. /\ b.current = e.current /\ b.outgoing = e.outgoing /\ b.source = e.source
      /\ b.held = e.held /\ b.orderly = e.orderly /\ b.told = e.told
  BY <1>1 DEF Base, EngineType, DropNext
<1> HIDE DEF b
<1>4. /\ Base(f, k) /\ f.releaseWhenReady = "no"
      /\ SameMusic(f, b) /\ SameQuestions(f, b) /\ SameDevice(f, b)
  BY <1>2, AnswerDeferredKeeps
<1> HIDE DEF f
<1>5. /\ NoOpen(f) /\ NoNext(f) /\ f \in EngineType
      /\ f.current = e.current /\ f.outgoing = None /\ f.source = None
      /\ ~f.held /\ f.orderly /\ f.told = e.current
  BY <1>2, <1>3, <1>4
     DEF Base, NoOpen, NoNext, SameMusic, SameQuestions, SameDevice, Asks, Tells, Heard
<1>6. load \in [generation : Nat, target : Targets]
  BY <1>5 DEF EngineType
<1>7. d \in EngineType
  BY ZenonT(40), <1>5, <1>6 DEF EngineType, Targets
<1>8. /\ d.generation = f.generation /\ d.loads = f.loads \cup {load}
      /\ d.prefetchGeneration = f.prefetchGeneration /\ d.prefetches = f.prefetches
      /\ d.next = f.next /\ d.phase = f.phase /\ d.ready = f.ready /\ d.adopting = f.adopting
      /\ d.releaseWhenReady = f.releaseWhenReady /\ d.owed = f.owed
      /\ d.sink = f.sink /\ d.held = f.held /\ d.stuck = f.stuck /\ d.released = f.released
      /\ d.current = f.current /\ d.outgoing = f.outgoing /\ d.source = f.source
      /\ d.orderly = f.orderly /\ d.told = f.told
  BY <1>5 DEF EngineType
<1> HIDE DEF d
<1>9. Numbered(d)
  <2>1. /\ load.generation = f.generation /\ f.generation \in Nat
        /\ \A l \in f.loads : l.generation # f.generation
    BY <1>5 DEF NoOpen, EngineType
  <2> HIDE DEF load
  <2> QED BY <1>4, <1>8, <2>1 DEF Base, Numbered
<1>10. Base(d, k)
  BY <1>4, <1>7, <1>8, <1>9 DEF Base, AheadAgrees, Owes
<1>11. Tells(d)
  BY <1>5, <1>8 DEF Tells, Heard
<1>12. Fit(d, s) /\ s \in States
  <2>1. CASE s = "Loading" /\ e.current = None
    BY <1>5, <1>8, <2>1, Kinds DEF Fit, NoNext
  <2>2. CASE s = "Seeking" /\ e.current = target /\ target \in Tracks
    BY <1>5, <1>8, <2>2, Kinds DEF Fit, NoNext
  <2> QED BY <2>1, <2>2 DEF Asks
<1>13. BeginLoad(e, target, s, paused) = SetState(d, s)
  BY DEF BeginLoad, d, load, f, b, a
<1> QED BY <1>10, <1>11, <1>12, <1>13, SetStateFits

LEMMA RequestLoadIsFull ==
  ASSUME NEW e, NEW k \in Nat, NEW target \in Targets, Base(e, k), Quiet(e)
  PROVE  Full(RequestLoad(e, target), k) /\ RequestLoad(e, target).state = "Loading"
<1>1. Asks(e, target, "Loading")
  BY DEF Asks, Tells, Heard, Quiet, Hushed
<1> QED BY ZenonT(40), <1>1, BeginLoadIsFull DEF RequestLoad

(* The flushed device is at the new position, with nothing written.        *)
LEMMA RebasedIs ==
  ASSUME NEW e \in EngineType
  PROVE  /\ Rebased(e) \in EngineType /\ SameQuestions(Rebased(e), e)
         /\ Rebased(e).state = e.state /\ Rebased(e).sink = e.sink
         /\ Rebased(e).held = FALSE /\ Rebased(e).released = e.released
         /\ Rebased(e).stuck => e.stuck \/ e.held
         /\ Rebased(e).releaseWhenReady = e.releaseWhenReady /\ Rebased(e).owed = e.owed
         /\ Rebased(e).current = e.current /\ Rebased(e).source = e.source
         /\ Rebased(e).outgoing = e.outgoing
         /\ Rebased(e).told = e.told /\ Rebased(e).orderly = e.orderly
<1> DEFINE f == FlushSink(e)
           d == [f EXCEPT !.spent = FALSE, !.sinkPaused = FALSE]
<1>1. /\ f \in EngineType /\ SameQuestions(f, e) /\ SameMusic(f, e) /\ f.held = FALSE
      /\ f.stuck => e.stuck \/ e.held
      /\ f.sink = e.sink /\ f.released = e.released /\ f.owed = e.owed
      /\ f.releaseWhenReady = e.releaseWhenReady /\ f.state = e.state
  BY FlushSinkIs
<1>2. Rebased(e) = d
  BY DEF Rebased
<1> HIDE DEF f
<1>3. d \in EngineType
  BY ZenonT(40), <1>1 DEF EngineType
<1>4. /\ SameQuestions(d, f) /\ d.state = f.state /\ d.sink = f.sink
      /\ d.held = f.held /\ d.stuck = f.stuck /\ d.released = f.released
      /\ d.releaseWhenReady = f.releaseWhenReady /\ d.owed = f.owed
      /\ d.current = f.current /\ d.source = f.source /\ d.outgoing = f.outgoing
      /\ d.told = f.told /\ d.orderly = f.orderly
  BY <1>1 DEF EngineType, SameQuestions
<1> HIDE DEF d
<1> QED BY <1>1, <1>2, <1>3, <1>4 DEF SameQuestions, SameMusic

LEMMA SeekReopenIsFull ==
  ASSUME NEW e, NEW k \in Nat, NEW paused \in BOOLEAN, Base(e, k), Tells(e),
         e.outgoing = None, e.current # None
  PROVE  Full(SeekReopen(e, paused), k) /\ SeekReopen(e, paused).state = "Seeking"
<1> DEFINE d == [Rebased(e) EXCEPT !.source = None]
<1>1. e \in EngineType
  BY DEF Base
<1>2. d \in EngineType
  <2>1. Rebased(e) \in EngineType
    BY <1>1, RebasedIs
  <2> QED BY <2>1, Kinds DEF EngineType
<1>3. /\ SameQuestions(d, e) /\ d.releaseWhenReady = e.releaseWhenReady /\ d.owed = e.owed
      /\ d.sink = e.sink /\ d.released = e.released /\ ~d.held
      /\ d.stuck => e.stuck \/ e.held
      /\ d.current = e.current /\ d.source = None /\ d.outgoing = e.outgoing
      /\ d.orderly = e.orderly /\ d.told = e.told
  <2> DEFINE f == Rebased(e)
  <2>1. /\ f \in EngineType /\ SameQuestions(f, e) /\ f.sink = e.sink
        /\ f.releaseWhenReady = e.releaseWhenReady /\ f.owed = e.owed
        /\ f.released = e.released /\ ~f.held /\ (f.stuck => e.stuck \/ e.held)
        /\ f.current = e.current /\ f.outgoing = e.outgoing
        /\ f.orderly = e.orderly /\ f.told = e.told
    BY <1>1, RebasedIs
  <2> HIDE DEF f
  <2>2. d = [f EXCEPT !.source = None]
    BY DEF f
  <2> QED BY <2>1, <2>2 DEF EngineType, SameQuestions
<1>4. SeekReopen(e, paused) = BeginLoad(d, e.current, "Seeking", paused)
  BY DEF SeekReopen
<1> HIDE DEF d
<1>5. Base(d, k)
  BY <1>2, <1>3 DEF Base, Numbered, AheadAgrees, Owes, SameQuestions
<1>6. e.current \in Tracks
  BY <1>1 DEF EngineType, OptTrack
<1>7. Asks(d, e.current, "Seeking")
  BY <1>3, <1>6 DEF Asks, Tells, Heard
<1> QED BY <1>4, <1>5, <1>6, <1>7, BeginLoadIsFull DEF Targets

(* The device is opened, and no longer handed back.                        *)
LEMMA OpenSinkKeeps ==
  ASSUME NEW e, NEW k \in Nat, NEW format \in Formats, Base(e, k)
  PROVE  /\ Base(OpenSink(e, format), k)
         /\ OpenSink(e, format).sink = format
         /\ ~OpenSink(e, format).held /\ ~OpenSink(e, format).released
         /\ SameMusic(OpenSink(e, format), e) /\ SameQuestions(OpenSink(e, format), e)
         /\ OpenSink(e, format).state = e.state
         /\ OpenSink(e, format).pauseWhenReady = e.pauseWhenReady
         /\ OpenSink(e, format).releaseWhenReady = e.releaseWhenReady
<1>1. e \in EngineType
  BY DEF Base
<1> DEFINE a == [Unpaused(e) EXCEPT !.sink = format, !.released = FALSE]
           b == [Unpaused(e) EXCEPT !.sink = format]
<1>2. CASE e.released
  <2>1. a \in EngineType
    BY ZenonT(40), <1>1 DEF EngineType, Unpaused
  <2>2. PublishStatus(a) \in EngineType
    BY ZenonT(40), <2>1, StatusHasItsType DEF EngineType, PublishStatus
  <2>3. OpenSink(e, format) = PublishStatus(a)
    BY <1>2 DEF OpenSink
  <2>4. /\ PublishStatus(a).sink = format /\ ~PublishStatus(a).held
        /\ ~PublishStatus(a).stuck
        /\ ~PublishStatus(a).released
        /\ SameMusic(PublishStatus(a), e) /\ SameQuestions(PublishStatus(a), e)
        /\ PublishStatus(a).state = e.state
        /\ PublishStatus(a).pauseWhenReady = e.pauseWhenReady
        /\ PublishStatus(a).releaseWhenReady = e.releaseWhenReady
        /\ PublishStatus(a).owed = e.owed
    BY <1>1 DEF EngineType, Unpaused, PublishStatus, SameMusic, SameQuestions
  <2> HIDE DEF a
  <2>5. Base(PublishStatus(a), k)
    BY <2>2, <2>4, EngineAssumption DEF Base, Numbered, AheadAgrees, Owes, SameQuestions
  <2> QED BY <2>3, <2>4, <2>5
<1>3. CASE ~e.released
  <2>1. b \in EngineType
    BY ZenonT(40), <1>1 DEF EngineType, Unpaused
  <2>2. OpenSink(e, format) = b
    BY <1>3 DEF OpenSink
  <2>3. /\ b.sink = format /\ ~b.held /\ ~b.stuck /\ ~b.released
        /\ SameMusic(b, e) /\ SameQuestions(b, e) /\ b.state = e.state
        /\ b.pauseWhenReady = e.pauseWhenReady
        /\ b.releaseWhenReady = e.releaseWhenReady /\ b.owed = e.owed
    BY <1>1, <1>3 DEF EngineType, Unpaused, SameMusic, SameQuestions
  <2> HIDE DEF b
  <2>4. Base(b, k)
    BY <2>1, <2>3, EngineAssumption DEF Base, Numbered, AheadAgrees, Owes, SameQuestions
  <2> QED BY <2>2, <2>3, <2>4
<1> QED BY <1>2, <1>3

---------------------------------------------------------------------------
(* The boundary, and the device handed back.                               *)

LEMMA CheckCrossingIsFull ==
  ASSUME NEW e, NEW k \in Nat, NEW boundary \in Boundary, Full(e, k)
  PROVE  /\ Full(CheckCrossing(e, boundary), k)
         /\ CheckCrossing(e, boundary).state \in {e.state, "Loading"}
         /\ e.state # "Stopped" => CheckCrossing(e, boundary).state # "Stopped"
<1>1. e \in EngineType /\ Base(e, k) /\ Tells(e) /\ Fit(e, e.state)
  BY DEF Full, Base
<1>2. CASE e.outgoing = None \/ e.sink = None \/ boundary = "notYet"
  BY <1>2 DEF CheckCrossing
<1>3. CASE ~(e.outgoing = None \/ e.sink = None \/ boundary = "notYet")
  <2> DEFINE a == [e EXCEPT !.outgoing = None]
             f == EmitEnded(a, e.outgoing)
  <2>1. a \in EngineType /\ f \in EngineType
    BY <1>1, NoCurrentHasItsType, EmittingHasItsType
  <2>2. /\ SameQuestions(f, e) /\ SameDevice(f, e) /\ f.state = e.state
        /\ f.releaseWhenReady = e.releaseWhenReady /\ f.owed = e.owed
        /\ f.outgoing = None /\ f.current = e.current /\ f.source = e.source
        /\ f.told = None /\ f.orderly /\ f.sinkPaused = e.sinkPaused
    BY <1>1, <1>3
       DEF EngineType, EmitEnded, SameQuestions, SameDevice, Tells, Heard
  <2>3. /\ e.state \in {"Playing", "Paused"} /\ e.next = None /\ NoOpen(e)
        /\ ~e.adopting /\ e.current # None
    BY <1>1, <1>3 DEF Fit
  <2> HIDE DEF f
  <2>4. Base(f, k)
    BY <1>1, <2>1, <2>2, SameKeepsBase
  <2>5. CASE boundary = "removed"
    <3> DEFINE g == NoCurrent(f)
               h == FlushSink(g)
    <3>1. g \in EngineType
      BY <2>1, NoCurrentHasItsType
    <3>2. /\ SameQuestions(g, f) /\ SameDevice(g, f) /\ Hushed(g)
          /\ g.releaseWhenReady = f.releaseWhenReady /\ g.owed = f.owed
      BY <2>1, <2>2 DEF EngineType, NoCurrent, SameQuestions, SameDevice, Hushed
    <3> HIDE DEF g
    <3>3. Base(g, k)
      BY <2>4, <3>1, <3>2, SameKeepsBase
    <3>4. Base(h, k) /\ Quiet(h)
      BY <3>1, <3>2, <3>3, FlushSinkKeeps
    <3> HIDE DEF h
    <3>5. Full(RequestLoad(h, Any), k) /\ RequestLoad(h, Any).state = "Loading"
      BY <3>4, RequestLoadIsFull DEF Targets
    <3>6. CheckCrossing(e, boundary) = RequestLoad(h, Any)
      BY <1>3, <2>5 DEF CheckCrossing, f, g, h
    <3> QED BY <3>5, <3>6
  <2>6. CASE boundary # "removed"
    <3> DEFINE g == PublishStatus(f)
               h == EmitStarted(g, f.current)
    <3>1. g \in EngineType
      BY <2>1, StatusHasItsType DEF EngineType, PublishStatus
    <3>2. /\ SameQuestions(g, f) /\ SameDevice(g, f) /\ g.state = f.state
          /\ g.releaseWhenReady = f.releaseWhenReady /\ g.owed = f.owed
          /\ g.outgoing = None /\ g.current = e.current /\ g.source = e.source
          /\ g.told = None /\ g.orderly /\ g.sinkPaused = e.sinkPaused
          /\ g.status = StatusOf(f) /\ g.released = f.released
      BY <2>1, <2>2 DEF EngineType, PublishStatus, SameQuestions, SameDevice
    <3>3. f.current = e.current /\ e.current \in Tracks
      BY <1>1, <2>2, <2>3 DEF EngineType, OptTrack
    <3> HIDE DEF g
    <3>4. h \in EngineType
      BY <3>1, <3>3, EmittingHasItsType
    <3>5. /\ SameQuestions(h, g) /\ SameDevice(h, g) /\ h.state = g.state
          /\ h.releaseWhenReady = g.releaseWhenReady /\ h.owed = g.owed
          /\ h.outgoing = None /\ h.current = e.current /\ h.source = e.source
          /\ h.told = e.current /\ h.orderly /\ h.sinkPaused = e.sinkPaused
          /\ h.status = StatusOf(f)
      BY <3>1, <3>2, <3>3 DEF EngineType, EmitStarted, SameQuestions, SameDevice
    <3> HIDE DEF h
    <3>6. Base(g, k)
      BY <2>4, <3>1, <3>2, SameKeepsBase
    <3>7. Base(h, k)
      BY <3>4, <3>5, <3>6, SameKeepsBase
    <3>8. h.status = StatusOf(h)
      BY <2>2, <3>2, <3>5 DEF StatusOf, Heard, SameDevice
    <3>9. NoOpen(h)
      BY <2>2, <2>3, <3>2, <3>5 DEF NoOpen, SameQuestions
    <3>10. Fit(h, h.state)
      <4>1. /\ h.next = None /\ ~h.adopting /\ h.held = e.held /\ h.sink = e.sink
            /\ h.state = e.state
        BY <2>2, <2>3, <3>2, <3>5 DEF SameQuestions, SameDevice
      <4> QED BY <1>1, <2>3, <3>5, <3>9, <4>1 DEF Fit
    <3>11. CheckCrossing(e, boundary) = h
      BY <1>3, <2>6 DEF CheckCrossing, f, g, h
    <3> QED BY <2>2, <2>3, <3>2, <3>5, <3>7, <3>8, <3>10, <3>11 DEF Full, Tells, Heard, Published
  <2> QED BY <2>5, <2>6
<1> QED BY <1>2, <1>3

(* What is set aside keeps everything but the pause of the device.         *)
LEMMA SetAsideKeeps ==
  ASSUME NEW e, NEW k \in Nat, NEW boundary \in Boundary, Full(e, k)
  PROVE  LET a == CheckCrossing(e, boundary)
             b == SetAsideUnheard(e, boundary)
         IN  /\ Base(b, k) /\ SameQuestions(b, a) /\ SameDevice(b, a) /\ SameState(b, a)
             /\ b.releaseWhenReady = a.releaseWhenReady /\ b.owed = a.owed
             /\ b.current = a.current /\ b.source = a.source /\ b.outgoing = a.outgoing
             /\ b.told = a.told /\ b.orderly = a.orderly
<1> DEFINE a == CheckCrossing(e, boundary)
           b == SetAsideUnheard(e, boundary)
<1>1. Base(a, k) /\ a \in EngineType
  BY CheckCrossingIsFull DEF Full, Base
<1>2. b = [a EXCEPT !.sinkPaused = FALSE]
  BY DEF SetAsideUnheard
<1> HIDE DEF a, b
<1>3. /\ b \in EngineType
      /\ SameQuestions(b, a) /\ SameDevice(b, a) /\ SameState(b, a)
      /\ b.releaseWhenReady = a.releaseWhenReady /\ b.owed = a.owed
      /\ b.current = a.current /\ b.source = a.source /\ b.outgoing = a.outgoing
      /\ b.told = a.told /\ b.orderly = a.orderly
  BY ZenonT(40), <1>1, <1>2 DEF EngineType, SameQuestions, SameDevice, SameState
<1>4. Base(b, k)
  BY <1>1, <1>3, SameKeepsBase
<1> QED BY <1>3, <1>4 DEF a, b

(* What fits with a device fits without.                                   *)
LEMMA FitsWithoutDevice ==
  ASSUME NEW a, NEW d, Fit(a, a.state), SameQuestions(d, a),
         d.current = a.current, d.source = a.source, d.outgoing = a.outgoing,
         ~d.held, a.state # "Stopped" \/ Closed(d)
  PROVE  Fit(d, a.state)
BY DEF Fit, SameQuestions, NoOpen

LEMMA LetGoIsFull ==
  ASSUME NEW e, NEW k \in Nat, NEW boundary \in Boundary, Full(e, k), e.state # "Stopped"
  PROVE  Full(LetGo(e, boundary), k)
<1> DEFINE c == DropNext(e)
           a == CheckCrossing(c, boundary)
           b == SetAsideUnheard(c, boundary)
           d == [DropSink(b) EXCEPT !.released = TRUE]
<1>1. Full(c, k) /\ c.state # "Stopped"
  <2>1. c.state = e.state
    BY DEF Full, Base, EngineType, DropNext
  <2> QED BY <2>1, DropNextKeeps DEF Full
<1> HIDE DEF c
<1>2. Full(a, k) /\ a.state # "Stopped"
  BY <1>1, CheckCrossingIsFull
<1>3. /\ Base(b, k) /\ SameQuestions(b, a) /\ SameDevice(b, a) /\ SameState(b, a)
      /\ b.releaseWhenReady = a.releaseWhenReady /\ b.owed = a.owed
      /\ b.current = a.current /\ b.source = a.source /\ b.outgoing = a.outgoing
      /\ b.told = a.told /\ b.orderly = a.orderly
  BY <1>1, SetAsideKeeps
<1> HIDE DEF a, b
<1>4. b \in EngineType
  BY <1>3 DEF Base
<1>5. d \in EngineType
  <2>1. DropSink(b) \in EngineType
    BY ZenonT(40), <1>4, Kinds DEF EngineType, DropSink, Unpaused
  <2> QED BY ZenonT(40), <2>1 DEF EngineType
<1>6. /\ SameQuestions(d, b) /\ d.state = b.state
      /\ d.releaseWhenReady = b.releaseWhenReady /\ d.owed = b.owed
      /\ d.current = b.current /\ d.source = b.source /\ d.outgoing = b.outgoing
      /\ d.told = b.told /\ d.orderly = b.orderly /\ ~d.held /\ ~d.stuck
      /\ d.sink = None
  BY <1>4 DEF EngineType, DropSink, Unpaused, SameQuestions
<1>7. LetGo(e, boundary) = PublishStatus(d)
  BY DEF LetGo, d, b, c
<1> HIDE DEF d
<1>8. Base(d, k)
  BY <1>3, <1>5, <1>6 DEF Base, Numbered, AheadAgrees, Owes, SameQuestions
<1>9. Tells(d)
  BY <1>2, <1>3, <1>6 DEF Full, Tells, Heard
<1>10. Fit(d, d.state)
  <2>1. /\ SameQuestions(d, a) /\ d.state = a.state
        /\ d.current = a.current /\ d.source = a.source /\ d.outgoing = a.outgoing
    BY <1>3, <1>6 DEF SameQuestions, SameState
  <2> QED BY <1>2, <1>6, <2>1, FitsWithoutDevice DEF Full
<1> QED BY <1>7, <1>8, <1>9, <1>10, PublishFits

LEMMA OutputLostIsFull ==
  ASSUME NEW e, NEW k \in Nat, NEW boundary \in Boundary, Full(e, k),
         e.current # None, e.state \in {"Playing", "Paused"}
  PROVE  Full(OutputLost(e, boundary), k)
<1>1. Fit(e, "Paused") /\ "Paused" \in States
  BY Kinds DEF Full, Fit
<1>2. Full(SetState(e, "Paused"), k) /\ SetState(e, "Paused").state = "Paused"
  BY <1>1, SetStateFits DEF Full
<1> QED BY <1>2, LetGoIsFull DEF OutputLost

LEMMA FailedIsFull ==
  ASSUME NEW e, NEW k \in Nat, NEW gone \in BOOLEAN, NEW boundary \in Boundary, Full(e, k)
  PROVE  Full(Failed(e, gone, boundary), k)
BY OutputLostIsFull, FailIsFull, FullIsEndable DEF Failed

---------------------------------------------------------------------------
(* Pausing, resuming, and handing the device back.                         *)

LEMMA PauseIsFull ==
  ASSUME NEW e, NEW k \in Nat, NEW pauses \in BOOLEAN, Full(e, k)
  PROVE  Full(Pause(e, pauses), k)
<1>1. /\ e \in EngineType /\ Base(e, k) /\ Tells(e) /\ Fit(e, e.state) /\ Published(e)
      /\ "Paused" \in States
  BY Kinds DEF Full, Base
<1>2. CASE e.state \in {"Loading", "Seeking"}
  <2> DEFINE d == [e EXCEPT !.pauseWhenReady = TRUE]
  <2>1. /\ d \in EngineType /\ SameQuestions(d, e) /\ SameDevice(d, e) /\ SameMusic(d, e)
        /\ d.releaseWhenReady = e.releaseWhenReady /\ d.owed = e.owed
        /\ d.state = e.state /\ d.status = e.status
    BY ZenonT(40), <1>1 DEF EngineType, SameQuestions, SameDevice, SameMusic
  <2>2. Pause(e, pauses) = d
    BY <1>2 DEF Pause
  <2> HIDE DEF d
  <2> QED BY <1>1, <2>1, <2>2, SameIsFull
<1>3. CASE e.state = "Playing"
  <2>1. e.current # None /\ Fit(e, "Paused")
    BY <1>1, <1>3 DEF Fit
  <2>2. CASE e.sink = None
    <3>1. Pause(e, pauses) = SetState(e, "Paused")
      BY <1>3, <2>2 DEF Pause
    <3> QED BY <1>1, <2>1, <3>1, SetStateFits
  <2>3. CASE e.sink # None /\ pauses
    <3> DEFINE d == [e EXCEPT !.held = TRUE, !.stuck = FALSE, !.sinkPaused = TRUE]
    <3>1. /\ d \in EngineType /\ SameQuestions(d, e)
          /\ d.sink = e.sink /\ d.released = e.released /\ d.held /\ d.sinkPaused
          /\ ~d.stuck
          /\ d.releaseWhenReady = e.releaseWhenReady /\ d.owed = e.owed
          /\ d.current = e.current /\ d.source = e.source /\ d.outgoing = e.outgoing
          /\ d.told = e.told /\ d.orderly = e.orderly
      BY ZenonT(40), <1>1 DEF EngineType, SameQuestions
    <3>2. Pause(e, pauses) = SetState(d, "Paused")
      BY <1>3, <2>1, <2>3 DEF Pause
    <3> HIDE DEF d
    <3>3. Base(d, k) /\ Tells(d)
      BY <1>1, <2>3, <3>1 DEF Base, Numbered, AheadAgrees, Owes, SameQuestions, Tells, Heard
    <3>4. Fit(d, "Paused")
      BY <2>1, <2>3, <3>1 DEF Fit, SameQuestions, NoOpen
    <3> QED BY <1>1, <3>2, <3>3, <3>4, SetStateFits
  <2>4. CASE e.sink # None /\ ~pauses
    <3>1. Pause(e, pauses) = Fail(e)
      BY <1>3, <2>1, <2>4 DEF Pause
    <3> QED BY <3>1, FailIsFull, FullIsEndable
  <2> QED BY <2>2, <2>3, <2>4
<1>4. CASE e.state \notin {"Loading", "Seeking", "Playing"}
  <2>1. Pause(e, pauses) = e
    BY <1>4 DEF Pause
  <2> QED BY <2>1
<1> QED BY <1>2, <1>3, <1>4

LEMMA ResumeIsFull ==
  ASSUME NEW e, NEW k \in Nat, NEW opens \in BOOLEAN, NEW resumes \in BOOLEAN, Full(e, k)
  PROVE  Full(Resume(e, opens, resumes), k)
<1>1. /\ e \in EngineType /\ Base(e, k) /\ Tells(e) /\ Fit(e, e.state) /\ Published(e)
      /\ "Playing" \in States
  BY Kinds DEF Full, Base
<1>2. CASE e.state \in {"Loading", "Seeking"}
  <2> DEFINE d == [e EXCEPT !.pauseWhenReady = FALSE]
  <2>1. /\ d \in EngineType /\ SameQuestions(d, e) /\ SameDevice(d, e) /\ SameMusic(d, e)
        /\ d.releaseWhenReady = e.releaseWhenReady /\ d.owed = e.owed
        /\ d.state = e.state /\ d.status = e.status
    BY ZenonT(40), <1>1 DEF EngineType, SameQuestions, SameDevice, SameMusic
  <2>2. Resume(e, opens, resumes) = d
    BY <1>2 DEF Resume
  <2> HIDE DEF d
  <2> QED BY <1>1, <2>1, <2>2, SameIsFull
<1>3. CASE e.state = "Paused" /\ ~(e.current # None /\ e.sink = None /\ ~opens)
  <2> DEFINE f == IF e.current # None /\ e.sink = None
                    THEN OpenSink(e, Format[e.current]) ELSE e
             d == [Unpaused(f) EXCEPT !.sinkPaused = FALSE]
  <2>1. Resume(e, opens, resumes) =
          IF ~f.sinkPaused THEN SetState(f, "Playing")
          ELSE IF resumes THEN SetState(d, "Playing") ELSE Fail(f)
    BY <1>3 DEF Resume
  <2>2. /\ Base(f, k) /\ SameMusic(f, e) /\ SameQuestions(f, e)
        /\ f.held => e.held
    <3>1. CASE e.current # None /\ e.sink = None
      <4>1. Format[e.current] \in Formats
        BY <1>1, <3>1, EngineAssumption DEF EngineType, OptTrack
      <4> QED BY <1>1, <3>1, <4>1, OpenSinkKeeps
    <3>2. CASE ~(e.current # None /\ e.sink = None)
      BY <1>1, <3>2 DEF SameMusic, SameQuestions
    <3> QED BY <3>1, <3>2
  <2> HIDE DEF f
  <2>3. f \in EngineType /\ Tells(f) /\ f.current # None
    BY <1>1, <1>3, <2>2 DEF Base, Tells, Heard, SameMusic, Fit
  <2>4. ASSUME ~f.held
        PROVE  Fit(f, "Playing")
    BY <1>1, <1>3, <2>2, <2>4 DEF Fit, SameMusic, SameQuestions, NoOpen
  <2>5. CASE ~f.sinkPaused
    <3>1. ~f.held
      BY <1>1, <2>2, <2>5 DEF Fit, SameMusic
    <3> QED BY <1>1, <2>1, <2>2, <2>3, <2>4, <2>5, <3>1, SetStateFits
  <2>6. CASE f.sinkPaused /\ resumes
    <3>1. /\ d \in EngineType /\ SameQuestions(d, f)
          /\ d.sink = f.sink /\ d.released = f.released /\ ~d.held /\ ~d.stuck
          /\ d.releaseWhenReady = f.releaseWhenReady /\ d.owed = f.owed
          /\ d.current = f.current /\ d.source = f.source /\ d.outgoing = f.outgoing
          /\ d.told = f.told /\ d.orderly = f.orderly
      BY ZenonT(40), <2>3 DEF EngineType, Unpaused, SameQuestions
    <3> HIDE DEF d
    <3>2. Base(d, k) /\ Tells(d)
      BY <2>2, <2>3, <3>1 DEF Base, Numbered, AheadAgrees, Owes, SameQuestions, Tells, Heard
    <3>3. Fit(d, "Playing")
      BY <1>1, <1>3, <2>2, <3>1 DEF Fit, SameMusic, SameQuestions, NoOpen
    <3> QED BY <1>1, <2>1, <2>6, <3>2, <3>3, SetStateFits
  <2>7. CASE f.sinkPaused /\ ~resumes
    <3>1. Endable(f, k)
      BY <2>2, <2>3 DEF Endable
    <3> QED BY <2>1, <2>7, <3>1, FailIsFull
  <2> QED BY <2>5, <2>6, <2>7
<1>4. CASE \/ e.state \notin {"Loading", "Seeking", "Paused"}
           \/ e.state = "Paused" /\ e.current # None /\ e.sink = None /\ ~opens
  <2>1. Resume(e, opens, resumes) = e
    BY <1>4 DEF Resume
  <2> QED BY <2>1
<1> QED BY <1>2, <1>3, <1>4

(* Who asks is one more that waits.                                        *)
With(by, k) == IF by = "program" THEN k + 1 ELSE k

LEMMA AnswerIsFull ==
  ASSUME NEW e, NEW k \in Nat, NEW by, Full(e, With(by, k))
  PROVE  Full(Answer(e, by), k)
BY AnswerKeeps DEF Full, With

LEMMA ReleaseOutputIsFull ==
  ASSUME NEW e, NEW k \in Nat, NEW by \in Releasers \ {"no"}, NEW pauses \in BOOLEAN,
         NEW boundary \in Boundary, Full(e, With(by, k))
  PROVE  Full(ReleaseOutput(e, by, pauses, boundary), k)
<1> DEFINE n == With(by, k)
<1>1. n \in Nat
  BY DEF With
<1>2. e \in EngineType /\ Base(e, n) /\ Tells(e) /\ Fit(e, e.state) /\ Published(e)
  BY DEF Full, Base
<1>3. CASE e.state \in {"Loading", "Seeking"}
  <2> DEFINE a == AnswerDeferred(e)
             d == [a EXCEPT !.pauseWhenReady = TRUE, !.releaseWhenReady = by]
  <2>1. ReleaseOutput(e, by, pauses, boundary) = d
    BY <1>3 DEF ReleaseOutput
  <2>2. /\ Base(a, n) /\ a.releaseWhenReady = "no"
        /\ SameMusic(a, e) /\ SameQuestions(a, e) /\ SameDevice(a, e) /\ SameState(a, e)
    BY <1>1, <1>2, AnswerDeferredKeeps
  <2> HIDE DEF a
  <2>3. /\ d \in EngineType /\ SameQuestions(d, a) /\ SameDevice(d, a) /\ SameMusic(d, a)
        /\ d.releaseWhenReady = by /\ d.owed = a.owed
        /\ d.state = a.state /\ d.status = a.status
    BY ZenonT(40), <2>2 DEF Base, EngineType, SameQuestions, SameDevice, SameMusic
  <2> HIDE DEF d
  <2>4. Base(d, k)
    <3>1. Owes(d, k)
      BY <1>1, <2>2, <2>3 DEF Base, Owes, With
    <3> QED BY <2>2, <2>3, <3>1
            DEF Base, Numbered, AheadAgrees, SameQuestions, SameDevice
  <2>5. Tells(d) /\ Published(d)
    BY <1>2, <2>2, <2>3
       DEF Tells, Published, StatusOf, Heard, SameMusic, SameDevice, SameState
  <2>6. Fit(d, d.state)
    BY <1>2, <1>3, <2>2, <2>3
       DEF Fit, NoOpen, SameMusic, SameQuestions, SameDevice, SameState
  <2> QED BY <2>1, <2>4, <2>5, <2>6 DEF Full
<1>4. CASE e.state = "Stopped" \/ (e.state \notin {"Loading", "Seeking"} /\ e.sink = None)
  <2>1. ReleaseOutput(e, by, pauses, boundary) = Answer(e, by)
    BY <1>4 DEF ReleaseOutput
  <2> QED BY <2>1, AnswerIsFull
<1>5. CASE e.state \notin {"Loading", "Seeking", "Stopped"} /\ e.sink # None
  <2> DEFINE f == Pause(e, pauses)
             g == IF f.state = "Paused" THEN LetGo(f, boundary) ELSE f
  <2>1. ReleaseOutput(e, by, pauses, boundary) = Answer(g, by)
    BY <1>5 DEF ReleaseOutput
  <2>2. Full(f, n)
    BY <1>1, PauseIsFull
  <2> HIDE DEF f
  <2>3. Full(g, n)
    BY <1>1, <2>2, LetGoIsFull
  <2> HIDE DEF g
  <2> QED BY <2>1, <2>3, AnswerIsFull
<1> QED BY <1>3, <1>4, <1>5

(* The release that waited for the track is made, and counts as asked now. *)
LEMMA ReleaseIfAskedIsFull ==
  ASSUME NEW e, NEW k \in Nat, Full(e, k)
  PROVE  Full(ReleaseIfAsked(e), k)
<1>1. CASE e.state = "Paused" /\ e.releaseWhenReady # "no"
  <2> DEFINE d == [e EXCEPT !.releaseWhenReady = "no"]
             by == e.releaseWhenReady
  <2>1. e \in EngineType /\ Base(e, k) /\ Tells(e) /\ Fit(e, e.state) /\ Published(e)
    BY DEF Full, Base
  <2>2. by \in Releasers \ {"no"}
    BY <1>1, <2>1 DEF EngineType
  <2>3. /\ d \in EngineType /\ SameQuestions(d, e) /\ SameDevice(d, e) /\ SameMusic(d, e)
        /\ d.releaseWhenReady = "no" /\ d.owed = e.owed
        /\ d.state = e.state /\ d.status = e.status
    BY <2>1, Kinds DEF EngineType, SameQuestions, SameDevice, SameMusic
  <2>4. ReleaseIfAsked(e) = ReleaseOutput(d, by, TRUE, "notYet")
    BY <1>1 DEF ReleaseIfAsked
  <2> HIDE DEF d
  <2>5. Base(d, With(by, k))
    <3>1. Owes(d, With(by, k))
      BY <2>1, <2>3 DEF Base, Owes, With
    <3> QED BY <2>1, <2>3, <3>1
            DEF Base, Numbered, AheadAgrees, SameQuestions, SameDevice
  <2>6. Tells(d) /\ Published(d)
    BY <2>1, <2>3
       DEF Tells, Published, StatusOf, Heard, SameMusic, SameDevice
  <2>7. Fit(d, d.state)
    BY <1>1, <2>1, <2>3 DEF Fit, NoOpen, SameMusic, SameQuestions, SameDevice
  <2>8. Full(d, With(by, k))
    BY <2>5, <2>6, <2>7 DEF Full
  <2> HIDE DEF by
  <2> QED BY <2>2, <2>4, <2>8, ReleaseOutputIsFull DEF Boundary
<1>2. CASE ~(e.state = "Paused" /\ e.releaseWhenReady # "no")
  BY <1>2 DEF ReleaseIfAsked
<1> QED BY <1>1, <1>2

---------------------------------------------------------------------------
(* Starting a track, and what ends one.                                    *)

(* Nothing is heard, opened or asked for.                                  *)
Clear(e, k) == Base(e, k) /\ Quiet(e) /\ NoOpen(e) /\ NoNext(e)

LEMMA StartTrackIsFull ==
  ASSUME NEW e, NEW k \in Nat, NEW t \in Tracks, NEW opens \in BOOLEAN, Clear(e, k)
  PROVE  Full(StartTrack(e, t, opens), k)
<1> DEFINE x == DropSink(e)
<1>1. /\ e \in EngineType /\ Base(e, k) /\ Quiet(e) /\ Format[t] \in Formats
      /\ NoOpen(e) /\ NoNext(e) /\ Format[t] # None
  BY EngineAssumption DEF Clear, Base
<1>2. /\ x \in EngineType /\ SameQuestions(x, e) /\ SameMusic(x, e)
      /\ x.sink = None /\ ~x.held /\ ~x.stuck /\ x.pauseWhenReady = e.pauseWhenReady
      /\ x.releaseWhenReady = e.releaseWhenReady /\ x.owed = e.owed
  BY ZenonT(40), <1>1, Kinds DEF EngineType, DropSink, Unpaused, SameQuestions, SameMusic
<1>3. Base(x, k) /\ Quiet(x) /\ NoOpen(x) /\ NoNext(x)
  <2> HIDE DEF x
  <2>1. Base(x, k)
    BY <1>1, <1>2 DEF Base, Numbered, AheadAgrees, Owes, SameQuestions
  <2> QED BY <1>1, <1>2, <2>1
          DEF Quiet, Hushed, NoOpen, NoNext, SameQuestions, SameMusic
<1>4. CASE e.sink # Format[t] /\ ~opens
  <2> DEFINE y == EmitRefused(x, t)
  <2>1. y \in EngineType
    BY <1>2, EmittingHasItsType
  <2>2. /\ SameQuestions(y, x) /\ SameDevice(y, x)
        /\ y.releaseWhenReady = x.releaseWhenReady /\ y.owed = x.owed
        /\ y.current = x.current /\ y.source = x.source /\ y.outgoing = x.outgoing
        /\ y.orderly /\ y.told = None
    BY <1>2, <1>3
       DEF EngineType, EmitRefused, SameQuestions, SameDevice, Quiet, Hushed
  <2>3. StartTrack(e, t, opens) = Fail(y)
    BY <1>4 DEF StartTrack
  <2> HIDE DEF x, y
  <2>4. Base(y, k)
    BY <1>3, <2>1, <2>2, SameKeepsBase
  <2>5. Endable(y, k)
    BY <1>3, <2>2, <2>4 DEF Endable, Tells, Heard, Quiet, Hushed
  <2> QED BY <2>3, <2>5, FailIsFull
<1>5. CASE ~(e.sink # Format[t] /\ ~opens)
  <2> DEFINE f == IF e.sink = Format[t] THEN e ELSE OpenSink(DropSink(e), Format[t])
             i == [f EXCEPT !.current = t, !.source = t, !.spent = FALSE, !.sinkPaused = FALSE]
             g == EmitStarted(i, t)
             h == [g EXCEPT !.pauseWhenReady = FALSE]
             s == StateWhenReady(e)
  <2>1. StartTrack(e, t, opens) = ReleaseIfAsked(SetState(h, s))
    BY <1>5 DEF StartTrack
  <2>2. /\ Base(f, k) /\ Quiet(f) /\ NoOpen(f) /\ NoNext(f)
    <3> HIDE DEF x
    <3>1. CASE e.sink # Format[t]
      <4>1. f = OpenSink(x, Format[t])
        BY <3>1 DEF x
      <4> HIDE DEF f
      <4>2. /\ Base(f, k) /\ ~f.held /\ SameMusic(f, x) /\ SameQuestions(f, x)
        BY <1>1, <1>3, <4>1, OpenSinkKeeps
      <4> QED BY <1>3, <4>2
              DEF Quiet, Hushed, NoOpen, NoNext, SameQuestions, SameMusic
    <3>2. CASE e.sink = Format[t]
      BY <1>1, <3>2
    <3> QED BY <3>1, <3>2
  <2> HIDE DEF f, x
  <2>3. f \in EngineType /\ t \in OptTrack /\ s \in {"Playing", "Paused"}
    BY <2>2, Kinds DEF Base, StateWhenReady
  <2>4. /\ i \in EngineType /\ SameQuestions(i, f) /\ SameDevice(i, f)
        /\ i.current = t /\ i.source = t /\ i.outgoing = f.outgoing
        /\ i.told = f.told /\ i.orderly = f.orderly
        /\ i.releaseWhenReady = f.releaseWhenReady /\ i.owed = f.owed
    BY ZenonT(40), <2>3 DEF EngineType, SameQuestions, SameDevice
  <2> HIDE DEF i
  <2>5. /\ g \in EngineType
    BY <2>4, EmittingHasItsType
  <2>6. /\ SameQuestions(g, i) /\ SameDevice(g, i)
        /\ g.current = t /\ g.source = t /\ g.outgoing = None
        /\ g.told = t /\ g.orderly
        /\ g.releaseWhenReady = i.releaseWhenReady /\ g.owed = i.owed
    BY <2>2, <2>4 DEF EngineType, EmitStarted, SameQuestions, SameDevice, Quiet, Hushed
  <2> HIDE DEF g
  <2>7. /\ h \in EngineType /\ SameQuestions(h, g) /\ SameDevice(h, g)
        /\ h.current = t /\ h.source = t /\ h.outgoing = None
        /\ h.told = t /\ h.orderly
        /\ h.releaseWhenReady = g.releaseWhenReady /\ h.owed = g.owed
    BY ZenonT(40), <2>5, <2>6 DEF EngineType, SameQuestions, SameDevice
  <2> HIDE DEF h, s
  <2>8. Base(i, k) /\ Base(g, k) /\ Base(h, k)
    BY <2>2, <2>4, <2>5, <2>6, <2>7, SameKeepsBase
  <2>9. Tells(h) /\ t # None
    BY <2>7, Kinds DEF Tells, Heard
  <2>10. NoOpen(h) /\ NoNext(h) /\ ~h.held
    BY <2>2, <2>4, <2>6, <2>7 DEF NoOpen, NoNext, SameQuestions, SameDevice, Quiet
  <2>11. Fit(h, s) /\ s \in States
    BY <2>3, <2>7, <2>9, <2>10, Kinds DEF Fit, NoNext
  <2>12. Full(SetState(h, s), k)
    BY <2>8, <2>9, <2>11, SetStateFits
  <2> QED BY <2>1, <2>12, ReleaseIfAskedIsFull
<1> QED BY <1>4, <1>5

LEMMA StartOpenedAheadIsFull ==
  ASSUME NEW e, NEW k \in Nat, NEW t \in Tracks, NEW outcome \in Outcomes, Clear(e, k)
  PROVE  Full(StartOpenedAhead(e, t, outcome), k)
BY StartTrackIsFull, RequestLoadIsFull DEF StartOpenedAhead, Targets, Clear

(* What was opened ahead is ready to be taken.                             *)
LEMMA TakenNextIsFull ==
  ASSUME NEW e, NEW k \in Nat, Full(e, k), e.phase = "Ready"
  PROVE  /\ Full(TakenNext(e), k) /\ NoNext(TakenNext(e)) /\ NoOpen(TakenNext(e))
         /\ e.ready = e.next /\ e.ready \in Tracks /\ e.state \in {"Playing", "Paused"}
         /\ SameMusic(TakenNext(e), e) /\ SameDevice(TakenNext(e), e)
         /\ TakenNext(e).ready = None /\ TakenNext(e).next = None
         /\ TakenNext(e).phase = "None" /\ TakenNext(e).state = e.state
         /\ TakenNext(e).releaseWhenReady = e.releaseWhenReady
         /\ TakenNext(e).owed = e.owed /\ TakenNext(e).status = e.status
<1> DEFINE d == TakenNext(e)
<1>1. e \in EngineType /\ Base(e, k) /\ Tells(e) /\ Fit(e, e.state) /\ Published(e)
  BY DEF Full, Base
<1>2. e.ready = e.next /\ e.next # None /\ ~e.adopting
  BY <1>1 DEF Base, AheadAgrees
<1>3. e.ready \in Tracks
  BY <1>1, <1>2 DEF EngineType, OptTrack
<1>4. e.state \in {"Playing", "Paused"} /\ NoOpen(e)
  <2>1. e.state \in States
    BY <1>1 DEF EngineType
  <2> QED BY <1>1, <1>2, <2>1 DEF Fit, States
<1>5. /\ d \in EngineType /\ SameMusic(d, e) /\ SameDevice(d, e)
      /\ d.ready = None /\ d.next = None /\ d.phase = "None" /\ d.adopting = e.adopting
      /\ d.generation = e.generation /\ d.loads = e.loads
      /\ d.prefetchGeneration = e.prefetchGeneration /\ d.prefetches = e.prefetches
      /\ d.state = e.state /\ d.releaseWhenReady = e.releaseWhenReady
      /\ d.owed = e.owed /\ d.status = e.status
  BY ZenonT(40), <1>1, Kinds DEF EngineType, TakenNext, SameMusic, SameDevice
<1> HIDE DEF d
<1>6. Base(d, k)
  BY <1>1, <1>2, <1>5 DEF Base, Numbered, AheadAgrees, Owes, SameDevice
<1>7. Tells(d) /\ Published(d)
  BY <1>1, <1>5 DEF Tells, Published, StatusOf, Heard, SameMusic, SameDevice
<1>8. NoNext(d) /\ NoOpen(d)
  BY <1>2, <1>4, <1>5 DEF NoNext, NoOpen
<1>9. Fit(d, d.state)
  BY <1>1, <1>4, <1>5, <1>8 DEF Fit, NoNext, SameMusic, SameDevice
<1> QED BY <1>2, <1>3, <1>4, <1>5, <1>6, <1>7, <1>8, <1>9 DEF Full, d

(* The track that plays alone, with or without one opened ahead.           *)
Alone(e, k) == Full(e, k) /\ e.state = "Playing" /\ e.outgoing = None

LEMMA CompletedKeeps ==
  ASSUME NEW e, NEW k \in Nat, Alone(e, k)
  PROVE  /\ Base(Completed(e), k) /\ Quiet(Completed(e)) /\ NoOpen(Completed(e))
         /\ SameQuestions(Completed(e), e) /\ ~e.adopting
<1> DEFINE u == Unpaused(e)
           a == PublishStatus(u)
           b == NoCurrent(a)
           d == Completed(e)
<1>1. /\ e \in EngineType /\ Base(e, k) /\ Tells(e) /\ Fit(e, e.state)
      /\ e.state = "Playing" /\ e.outgoing = None
  BY DEF Alone, Full, Base
<1>2. NoOpen(e) /\ ~e.adopting /\ ~e.held
  BY <1>1 DEF Fit
<1>3. /\ u \in EngineType /\ SameQuestions(u, e) /\ u.sink = e.sink /\ ~u.held /\ ~u.stuck
       /\ u.released = e.released /\ u.outgoing = None /\ u.told = e.told
       /\ u.orderly = e.orderly /\ u.releaseWhenReady = e.releaseWhenReady
       /\ u.owed = e.owed
  BY ZenonT(40), <1>1 DEF EngineType, Unpaused, SameQuestions
<1> HIDE DEF u
<1>4. a \in EngineType
  BY <1>3, StatusHasItsType DEF EngineType, PublishStatus
<1>5. /\ SameQuestions(a, e) /\ a.outgoing = None /\ a.told = e.current
      /\ a.sink = e.sink /\ ~a.held /\ ~a.stuck /\ a.released = e.released
      /\ a.orderly /\ a.releaseWhenReady = e.releaseWhenReady /\ a.owed = e.owed
  BY <1>1, <1>3 DEF EngineType, PublishStatus, SameQuestions, Tells, Heard
<1> HIDE DEF a
<1>6. b \in EngineType
  BY <1>4, NoCurrentHasItsType
<1>7. /\ SameQuestions(b, a) /\ SameDevice(b, a) /\ b.outgoing = None /\ b.told = e.current
      /\ b.orderly /\ b.releaseWhenReady = a.releaseWhenReady /\ b.owed = a.owed
      /\ b.current = None /\ b.source = None
  BY <1>4, <1>5 DEF EngineType, NoCurrent, SameQuestions, SameDevice
<1>8. d = EmitEnded(b, e.current)
  BY DEF Completed, a, u
<1> HIDE DEF b
<1>9. d \in EngineType
  BY <1>6, <1>8, EmittingHasItsType
<1>10. /\ SameQuestions(d, b) /\ SameDevice(d, b)
      /\ d.releaseWhenReady = b.releaseWhenReady /\ d.owed = b.owed /\ Hushed(d)
  BY <1>6, <1>7, <1>8 DEF EngineType, EmitEnded, SameQuestions, SameDevice, Hushed
<1> HIDE DEF d
<1>11. Base(a, k)
  BY <1>1, <1>4, <1>5 DEF Base, Numbered, AheadAgrees, Owes, SameQuestions
<1>12. Base(b, k) /\ Base(d, k)
  BY <1>11, <1>6, <1>7, <1>9, <1>10, SameKeepsBase
<1>13. SameQuestions(d, e) /\ NoOpen(d) /\ Quiet(d)
  BY <1>2, <1>5, <1>7, <1>10 DEF SameQuestions, NoOpen, Quiet, SameDevice
<1> QED BY <1>2, <1>12, <1>13 DEF d

LEMMA TrackCompletedIsFull ==
  ASSUME NEW e, NEW k \in Nat, NEW drain \in Drains, Alone(e, k)
  PROVE  Full(TrackCompleted(e, drain), k)
BY CompletedKeeps, RequestLoadIsFull, FailedIsFull
   DEF TrackCompleted, Targets, Boundary, Alone

LEMMA GiveUpWaitingIsFull ==
  ASSUME NEW e, NEW k \in Nat, NEW drain \in Drains, Alone(e, k), e.phase = "Opening"
  PROVE  Full(GiveUpWaiting(e, drain), k)
<1>1. CASE drain = "drained"
  <2> DEFINE c == Completed(e)
             d == [c EXCEPT !.adopting = TRUE]
  <2>1. /\ Base(c, k) /\ Quiet(c) /\ NoOpen(c) /\ c.phase = "Opening"
    BY CompletedKeeps DEF SameQuestions
  <2>2. GiveUpWaiting(e, drain) = SetState(d, "Loading")
    BY <1>1 DEF GiveUpWaiting
  <2> HIDE DEF c
  <2>3. /\ d \in EngineType /\ SameMusic(d, c) /\ SameDevice(d, c)
        /\ d.releaseWhenReady = c.releaseWhenReady /\ d.owed = c.owed /\ d.adopting
        /\ d.generation = c.generation /\ d.loads = c.loads
        /\ d.next = c.next /\ d.phase = c.phase /\ d.ready = c.ready
        /\ d.prefetchGeneration = c.prefetchGeneration /\ d.prefetches = c.prefetches
    BY ZenonT(40), <2>1 DEF Base, EngineType, SameMusic, SameDevice
  <2> HIDE DEF d
  <2>4. Base(d, k)
    BY <2>1, <2>3 DEF Base, Numbered, AheadAgrees, Owes, SameDevice
  <2>5. Tells(d)
    BY <2>1, <2>3 DEF Tells, Heard, Quiet, Hushed, SameMusic
  <2>6. Fit(d, "Loading") /\ "Loading" \in States
    BY <2>1, <2>3, Kinds DEF Fit, NoOpen, Quiet, Hushed, SameMusic, SameDevice
  <2> QED BY <2>2, <2>4, <2>5, <2>6, SetStateFits
<1>2. CASE drain # "drained"
  BY <1>2, FailedIsFull DEF GiveUpWaiting, Boundary, Alone
<1> QED BY <1>1, <1>2

LEMMA HandoverIsFull ==
  ASSUME NEW e, NEW k \in Nat, NEW boundary \in Boundary, Alone(e, k), e.phase = "Ready"
  PROVE  Full(Handover(e, boundary), k)
<1> DEFINE c == TakenNext(e)
           d == [c EXCEPT !.outgoing = e.current, !.current = e.ready,
                          !.source = e.ready, !.spent = FALSE]
<1>1. /\ Full(c, k) /\ NoNext(c) /\ NoOpen(c) /\ c.state = "Playing"
      /\ c.outgoing = None /\ c.current = e.current
      /\ e.ready \in Tracks
  BY TakenNextIsFull DEF Alone, SameMusic
<1>2. c \in EngineType /\ Base(c, k) /\ Tells(c) /\ Fit(c, c.state) /\ Published(c)
  BY <1>1 DEF Full, Base
<1>3. Handover(e, boundary) = CheckCrossing(d, boundary)
  BY DEF Handover
<1> HIDE DEF c
<1>4. e.current # None /\ e.current \in OptTrack /\ e.ready \in OptTrack /\ e.ready # None
  BY <1>1, <1>2, Kinds DEF Fit, EngineType
<1>5. /\ d \in EngineType /\ SameQuestions(d, c) /\ SameDevice(d, c)
      /\ d.releaseWhenReady = c.releaseWhenReady /\ d.owed = c.owed
      /\ d.state = c.state /\ d.status = c.status
      /\ d.told = c.told /\ d.orderly = c.orderly
      /\ d.outgoing = e.current /\ d.current = e.ready /\ d.source = e.ready
  BY ZenonT(40), <1>2, <1>4 DEF EngineType, SameQuestions, SameDevice
<1> HIDE DEF d
<1>6. Base(d, k)
  BY <1>2, <1>5, SameKeepsBase
<1>7. Tells(d) /\ Published(d)
  BY <1>1, <1>2, <1>4, <1>5 DEF Tells, Published, StatusOf, Heard, SameDevice
<1>8. NoNext(d) /\ NoOpen(d) /\ ~d.held
  BY <1>1, <1>2, <1>5 DEF NoNext, NoOpen, SameQuestions, SameDevice, Fit
<1>9. Fit(d, d.state)
  BY <1>1, <1>4, <1>5, <1>8 DEF Fit, NoNext
<1> QED BY <1>3, <1>6, <1>7, <1>9, CheckCrossingIsFull DEF Full

LEMMA JoinNextIsFull ==
  ASSUME NEW e, NEW k \in Nat, NEW drain \in Drains, NEW boundary \in Boundary,
         NEW outcome \in Outcomes, Alone(e, k), e.phase = "Ready"
  PROVE  Full(JoinNext(e, drain, boundary, outcome), k)
<1> DEFINE c == TakenNext(e)
<1>1. Alone(c, k) /\ NoNext(c) /\ e.ready \in Tracks
  BY TakenNextIsFull DEF Alone, SameMusic
<1>2. CASE e.sink = Format[e.ready]
  BY <1>2, HandoverIsFull DEF JoinNext
<1>3. CASE e.sink # Format[e.ready] /\ drain = "drained"
  <2> HIDE DEF c
  <2>1. Clear(Completed(c), k)
    BY <1>1, CompletedKeeps DEF Clear, NoNext, SameQuestions
  <2> QED BY <1>1, <1>3, <2>1, StartOpenedAheadIsFull DEF JoinNext, c
<1>4. CASE e.sink # Format[e.ready] /\ drain # "drained"
  <2> HIDE DEF c
  <2>1. Full(Failed(c, drain = "gone", "notYet"), k)
    BY <1>1, FailedIsFull DEF Alone, Boundary
  <2> QED BY <1>4, <2>1 DEF JoinNext, c
<1> QED BY <1>2, <1>3, <1>4

LEMMA StartPrefetchIsFull ==
  ASSUME NEW e, NEW k \in Nat, NEW t \in Tracks, Alone(e, k), e.next = None
  PROVE  Alone(StartPrefetch(e, t), k)
<1> DEFINE d == StartPrefetch(e, t)
           question == [generation |-> e.prefetchGeneration + 1, track |-> t]
<1>1. /\ e \in EngineType /\ Base(e, k) /\ Tells(e) /\ Fit(e, e.state) /\ Published(e)
      /\ e.state = "Playing" /\ e.outgoing = None /\ t # None
  BY Kinds DEF Alone, Full, Base
<1>2. /\ question \in [generation : Nat, track : Tracks]
      /\ t \in OptTrack
  BY <1>1, Kinds DEF EngineType
<1>3. d \in EngineType
  BY ZenonT(40), <1>1, <1>2, Kinds DEF EngineType, StartPrefetch
<1>4. /\ SameMusic(d, e) /\ SameDevice(d, e) /\ d.state = e.state /\ d.status = e.status
      /\ d.releaseWhenReady = e.releaseWhenReady /\ d.owed = e.owed
      /\ d.generation = e.generation /\ d.loads = e.loads
      /\ d.next = t /\ d.phase = "Opening" /\ d.adopting = e.adopting
      /\ d.prefetchGeneration = e.prefetchGeneration + 1
      /\ d.prefetches = e.prefetches \cup {question}
  BY <1>1 DEF EngineType, StartPrefetch, SameMusic, SameDevice
<1>5. question.generation = e.prefetchGeneration + 1 /\ question.track = t
  OBVIOUS
<1>6. [generation |-> d.prefetchGeneration, track |-> d.next] \in d.prefetches
  BY <1>4
<1> HIDE DEF d, question
<1>7. Numbered(d) /\ AheadAgrees(d)
  <2>1. e.prefetchGeneration \in Nat /\ \A p \in e.prefetches : p.generation \in Nat
    BY <1>1 DEF EngineType
  <2> QED BY <1>1, <1>4, <1>5, <1>6, <2>1 DEF Base, Numbered, AheadAgrees
<1>8. Base(d, k)
  BY <1>1, <1>3, <1>4, <1>7 DEF Base, Owes, SameDevice
<1>9. Tells(d) /\ Published(d)
  BY <1>1, <1>4 DEF Tells, Published, StatusOf, Heard, SameMusic, SameDevice
<1>10. Fit(d, d.state)
  BY <1>1, <1>4 DEF Fit, NoOpen, SameMusic, SameDevice
<1> QED BY <1>1, <1>4, <1>8, <1>9, <1>10 DEF Alone, Full, SameMusic, d

LEMMA DropNextIsAlone ==
  ASSUME NEW e, NEW k \in Nat, Alone(e, k)
  PROVE  Alone(DropNext(e), k) /\ DropNext(e).next = None
<1>1. e \in EngineType /\ Base(e, k)
  BY DEF Alone, Full, Base
<1>2. DropNext(e).state = e.state /\ DropNext(e).outgoing = e.outgoing
  BY <1>1 DEF EngineType, DropNext
<1> QED BY <1>1, <1>2, DropNextKeeps DEF Alone, NoNext

LEMMA NextAtEndIsFull ==
  ASSUME NEW e, NEW k \in Nat, NEW peeked \in Tracks, Alone(e, k)
  PROVE  Alone(NextAtEnd(e, peeked), k)
BY DropNextIsAlone, StartPrefetchIsFull DEF NextAtEnd

---------------------------------------------------------------------------
(* The handlers.                                                           *)

Inv == Full(engine, 0)

LEMMA InvFacts ==
  ASSUME Inv
  PROVE  /\ engine \in EngineType /\ Base(engine, 0) /\ Tells(engine)
         /\ Fit(engine, engine.state) /\ Published(engine)
         /\ Endable(engine, 0) /\ (engine.held => engine.current # None)
         /\ engine.state \in States /\ Any \in Targets /\ Tracks \subseteq Targets
         /\ "notYet" \in Boundary /\ BoundaryOf(engine) \subseteq Boundary
<1>1. engine \in EngineType
  BY DEF Inv, Full, Base
<1>2. engine.state \in States
  BY <1>1 DEF EngineType
<1> QED BY <1>1, <1>2, FullIsEndable DEF Inv, Full, Targets, Boundary, BoundaryOf

LEMMA AsksAfterInterrupting ==
  ASSUME Inv, NEW target \in Targets, engine' = RequestLoad(InterruptCurrent(engine), target)
  PROVE  Inv'
<1>1. Full(RequestLoad(InterruptCurrent(engine), target), 0)
  BY InvFacts, InterruptKeeps, RequestLoadIsFull
<1> QED BY <1>1 DEF Inv

LEMMA PlayTrackKeeps == ASSUME Inv, NEW t \in Tracks, PlayTrack(t) PROVE Inv'
BY InvFacts, AsksAfterInterrupting DEF PlayTrack, Become

LEMMA PlayNothingKeeps == ASSUME Inv, PlayNothing PROVE Inv'
<1>1. Quiet(engine)
  BY InvFacts DEF PlayNothing, Fit, Closed, NoSink, Tells, Heard, Quiet, Hushed
<1>2. Full(RequestLoad(engine, Any), 0)
  BY <1>1, InvFacts, RequestLoadIsFull
<1> QED BY <1>2 DEF Inv, PlayNothing, Become

LEMMA SkipToNextKeeps == ASSUME Inv, NEW peeked, SkipToNext(peeked) PROVE Inv'
<1>1. CASE CanTakeNext(engine, peeked)
  <2> DEFINE c == TakenNext(engine)
             d == InterruptCurrent(c)
  <2>1. PICK outcome \in Outcomes : engine' = StartOpenedAhead(d, engine.ready, outcome)
    BY <1>1 DEF SkipToNext, Become
  <2>2. Full(c, 0) /\ NoNext(c) /\ NoOpen(c) /\ engine.ready \in Tracks
    BY <1>1, TakenNextIsFull DEF Inv, CanTakeNext
  <2> HIDE DEF c
  <2>3. Clear(d, 0)
    BY <2>2, FullIsEndable, InterruptKeeps DEF Clear
  <2> HIDE DEF d
  <2>4. Full(StartOpenedAhead(d, engine.ready, outcome), 0)
    BY <2>2, <2>3, StartOpenedAheadIsFull
  <2> QED BY <2>1, <2>4 DEF Inv
<1>2. CASE ~CanTakeNext(engine, peeked)
  BY <1>2, InvFacts, AsksAfterInterrupting DEF SkipToNext, Become
<1> QED BY <1>1, <1>2

LEMMA PreviousKeeps == ASSUME Inv, Previous PROVE Inv'
BY InvFacts, AsksAfterInterrupting DEF Previous, Become

LEMMA StopKeeps == ASSUME Inv, StopCommand PROVE Inv'
<1>1. Full(Stop(engine), 0)
  BY InvFacts, StopIsFull
<1> QED BY <1>1 DEF Inv, StopCommand, Become

LEMMA PauseCommandKeeps ==
  ASSUME Inv, NEW works \in BOOLEAN, PauseCommand(works)
  PROVE  Inv'
<1>1. Full(Pause(engine, works), 0)
  BY PauseIsFull DEF Inv
<1> QED BY <1>1 DEF Inv, PauseCommand, Become

LEMMA ResumeCommandKeeps ==
  ASSUME Inv, NEW opens \in BOOLEAN, NEW works \in BOOLEAN,
         ResumeCommand(opens, works) \/ TogglePause(opens, works)
  PROVE  Inv'
<1>1. Full(Pause(engine, works), 0) /\ Full(Resume(engine, opens, works), 0)
  BY PauseIsFull, ResumeIsFull DEF Inv
<1>2. engine' = Pause(engine, works) \/ engine' = Resume(engine, opens, works)
  BY DEF ResumeCommand, TogglePause, Become
<1> QED BY <1>1, <1>2 DEF Inv

LEMMA ReleaseCommandKeeps ==
  ASSUME Inv, NEW works \in BOOLEAN, NEW boundary \in Boundary, ReleaseCommand(works, boundary)
  PROVE  Inv'
<1>1. Full(engine, With("command", 0)) /\ "command" \in Releasers \ {"no"}
  BY Kinds DEF Inv, With
<1>2. Full(ReleaseOutput(engine, "command", works, boundary), 0)
  BY <1>1, ReleaseOutputIsFull
<1> QED BY <1>2 DEF Inv, ReleaseCommand, Become

LEMMA ReleaseRequestedKeeps ==
  ASSUME Inv, NEW works \in BOOLEAN, NEW boundary \in Boundary, ReleaseRequested(works, boundary)
  PROVE  Inv'
<1> DEFINE d == [engine EXCEPT !.owed = @ + 1]
<1>1. /\ d \in EngineType /\ SameQuestions(d, engine) /\ SameDevice(d, engine)
      /\ SameMusic(d, engine) /\ d.state = engine.state /\ d.status = engine.status
      /\ d.releaseWhenReady = engine.releaseWhenReady /\ d.owed = engine.owed + 1
  BY InvFacts DEF EngineType, SameQuestions, SameDevice, SameMusic
<1>2. engine' = ReleaseOutput(d, "program", works, boundary)
  BY DEF ReleaseRequested, Become
<1> HIDE DEF d
<1>3. Base(d, 1)
  <2>1. Owes(d, 1)
    BY <1>1, InvFacts DEF Base, Owes
  <2> QED BY <1>1, <2>1, InvFacts
          DEF Base, Numbered, AheadAgrees, SameQuestions, SameDevice
<1>4. Tells(d) /\ Published(d)
  BY <1>1, InvFacts DEF Tells, Published, StatusOf, Heard, SameMusic, SameDevice
<1>5. Fit(d, d.state)
  BY <1>1, InvFacts
     DEF Fit, Closed, NoSink, NoOpen, SameMusic, SameQuestions, SameDevice
<1>6. With("program", 0) = 1 /\ "program" \in Releasers \ {"no"}
  BY Kinds DEF With
<1>7. Full(ReleaseOutput(d, "program", works, boundary), 0)
  BY <1>3, <1>4, <1>5, <1>6, ReleaseOutputIsFull DEF Full
<1> QED BY <1>2, <1>7 DEF Inv

LEMMA IdleReleaseKeeps == ASSUME Inv, IdleRelease PROVE Inv'
<1>1. PICK boundary \in Boundary : engine' = ReleaseOutput(engine, "timer", TRUE, boundary)
  BY InvFacts DEF IdleRelease, Become
<1>2. Full(engine, With("timer", 0)) /\ "timer" \in Releasers \ {"no"}
  BY Kinds DEF Inv, With
<1>3. Full(ReleaseOutput(engine, "timer", TRUE, boundary), 0)
  BY <1>2, ReleaseOutputIsFull
<1> QED BY <1>1, <1>3 DEF Inv

---------------------------------------------------------------------------
(* Seeking, and another output.                                            *)

LEMMA SeekDuringHandoverKeeps ==
  ASSUME Inv, engine.outgoing # None, NEW pastEnd \in BOOLEAN,
         engine' = SeekDuringHandover(pastEnd)
  PROVE  Inv'
<1> DEFINE a == [engine EXCEPT !.outgoing = None, !.current = None]
           e == DropNext(a)
           b == NoCurrent(e)
           c == EmitEnded(b, engine.outgoing)
           h == FlushSink(c)
           d == [e EXCEPT !.current = engine.outgoing]
<1>1. /\ a \in EngineType /\ SameQuestions(a, engine) /\ SameDevice(a, engine)
      /\ a.releaseWhenReady = engine.releaseWhenReady /\ a.owed = engine.owed
      /\ a.outgoing = None /\ a.told = engine.outgoing /\ a.orderly
      /\ engine.outgoing \in OptTrack
  BY ZenonT(40), InvFacts, Kinds DEF EngineType, SameQuestions, SameDevice, Tells, Heard
<1> HIDE DEF a
<1>2. Base(a, 0)
  BY <1>1, InvFacts, SameKeepsBase
<1>3. Base(e, 0) /\ e \in EngineType
  BY <1>2, DropNextKeeps DEF Base
<1>4. e.outgoing = None /\ e.told = engine.outgoing /\ e.orderly
  BY <1>1 DEF EngineType, DropNext
<1>5. engine' = IF pastEnd THEN RequestLoad(h, Any)
                ELSE SeekReopen(d, engine.state = "Paused")
  BY DEF SeekDuringHandover, a
<1> HIDE DEF e
<1>6. CASE pastEnd
  <2>1. b \in EngineType
    BY <1>3, NoCurrentHasItsType
  <2>2. /\ SameQuestions(b, e) /\ SameDevice(b, e)
        /\ b.releaseWhenReady = e.releaseWhenReady /\ b.owed = e.owed
        /\ b.outgoing = None /\ b.told = engine.outgoing /\ b.orderly
        /\ b.current = None /\ b.source = None
    BY <1>3, <1>4 DEF EngineType, NoCurrent, SameQuestions, SameDevice
  <2> HIDE DEF b
  <2>3. c \in EngineType
    BY <2>1, EmittingHasItsType
  <2>4. /\ SameQuestions(c, b) /\ SameDevice(c, b) /\ Hushed(c)
        /\ c.releaseWhenReady = b.releaseWhenReady /\ c.owed = b.owed
    BY <2>1, <2>2 DEF EngineType, EmitEnded, SameQuestions, SameDevice, Hushed
  <2> HIDE DEF c
  <2>5. Base(b, 0) /\ Base(c, 0)
    BY <1>3, <2>1, <2>2, <2>3, <2>4, SameKeepsBase
  <2>6. Base(h, 0) /\ Quiet(h)
    BY <2>4, <2>5, FlushSinkKeeps
  <2> HIDE DEF h
  <2>7. Full(RequestLoad(h, Any), 0)
    BY <2>6, InvFacts, RequestLoadIsFull
  <2> QED BY <1>5, <1>6, <2>7 DEF Inv
<1>7. CASE ~pastEnd
  <2>1. /\ d \in EngineType /\ SameQuestions(d, e) /\ SameDevice(d, e)
        /\ d.releaseWhenReady = e.releaseWhenReady /\ d.owed = e.owed
        /\ d.outgoing = None /\ d.told = engine.outgoing /\ d.orderly
        /\ d.current = engine.outgoing
    BY <1>1, <1>3, <1>4 DEF EngineType, SameQuestions, SameDevice
  <2> HIDE DEF d
  <2>2. Base(d, 0) /\ Tells(d)
    BY <1>3, <2>1, SameKeepsBase DEF Tells, Heard
  <2>3. \A paused \in BOOLEAN : Full(SeekReopen(d, paused), 0)
    BY <2>1, <2>2, SeekReopenIsFull
  <2>4. (engine.state = "Paused") \in BOOLEAN
    OBVIOUS
  <2> QED BY <1>5, <1>7, <2>3, <2>4 DEF Inv
<1> QED BY <1>6, <1>7

LEMMA SeekPastTheEndKeeps ==
  ASSUME Inv, engine.outgoing = None, Seekable, NEW peeked, NEW outcome \in Outcomes,
         engine' = SeekPastTheEnd(peeked, outcome)
  PROVE  Inv'
<1> DEFINE b == NoCurrent(engine)
           c == EmitEnded(b, engine.current)
           e == FlushSink(c)
<1>1. b \in EngineType
  BY InvFacts, NoCurrentHasItsType
<1>2. /\ SameQuestions(b, engine) /\ SameDevice(b, engine)
      /\ b.releaseWhenReady = engine.releaseWhenReady /\ b.owed = engine.owed
      /\ b.outgoing = None /\ b.told = engine.current /\ b.orderly
      /\ b.current = None /\ b.source = None
  BY InvFacts DEF EngineType, NoCurrent, SameQuestions, SameDevice, Tells, Heard
<1> HIDE DEF b
<1>3. c \in EngineType
  BY <1>1, EmittingHasItsType
<1>4. /\ SameQuestions(c, b) /\ SameDevice(c, b) /\ Hushed(c)
      /\ c.releaseWhenReady = b.releaseWhenReady /\ c.owed = b.owed
  BY <1>1, <1>2 DEF EngineType, EmitEnded, SameQuestions, SameDevice, Hushed
<1>5. engine' = IF CanTakeNext(engine, peeked)
                  THEN StartOpenedAhead(TakenNext(e), engine.ready, outcome)
                  ELSE RequestLoad(e, Any)
  BY DEF SeekPastTheEnd, b
<1> HIDE DEF c
<1>6. Base(b, 0) /\ Base(c, 0)
  BY InvFacts, <1>1, <1>2, <1>3, <1>4, SameKeepsBase
<1>7. Base(e, 0) /\ Quiet(e) /\ SameQuestions(e, c)
  BY <1>4, <1>6, FlushSinkKeeps
<1> HIDE DEF e
<1>8. CASE CanTakeNext(engine, peeked)
  <2> DEFINE d == TakenNext(e)
  <2>1. NoOpen(engine) /\ ~engine.adopting /\ engine.ready \in Tracks
    <3>1. engine.phase = "Ready"
      BY <1>8 DEF CanTakeNext
    <3> QED BY <3>1, InvFacts, TakenNextIsFull DEF Inv, Fit
  <2>2. e \in EngineType /\ NoOpen(e) /\ ~e.adopting
    BY <1>2, <1>4, <1>7, <2>1 DEF Base, NoOpen, SameQuestions
  <2>3. /\ d \in EngineType /\ SameMusic(d, e) /\ SameDevice(d, e)
        /\ d.next = None /\ d.phase = "None" /\ d.adopting = e.adopting
        /\ d.generation = e.generation /\ d.loads = e.loads
        /\ d.prefetchGeneration = e.prefetchGeneration /\ d.prefetches = e.prefetches
        /\ d.releaseWhenReady = e.releaseWhenReady /\ d.owed = e.owed
    BY ZenonT(40), <2>2, Kinds DEF EngineType, TakenNext, SameMusic, SameDevice
  <2> HIDE DEF d
  <2>4. Base(d, 0)
    BY <1>7, <2>2, <2>3 DEF Base, Numbered, AheadAgrees, Owes, SameDevice
  <2>5. Clear(d, 0)
    BY <1>7, <2>2, <2>3, <2>4
       DEF Clear, NoOpen, NoNext, Quiet, Hushed, SameMusic, SameDevice
  <2>6. Full(StartOpenedAhead(d, engine.ready, outcome), 0)
    BY <2>1, <2>5, StartOpenedAheadIsFull
  <2> QED BY <1>5, <1>8, <2>6 DEF Inv, d
<1>9. CASE ~CanTakeNext(engine, peeked)
  <2>1. Full(RequestLoad(e, Any), 0)
    BY <1>7, InvFacts, RequestLoadIsFull
  <2> QED BY <1>5, <1>9, <2>1 DEF Inv
<1> QED BY <1>8, <1>9

(* Where the device is flushed and the track goes on from elsewhere.       *)
LEMMA RebasedKeeps ==
  ASSUME Inv, engine.outgoing = None
  PROVE  Full(PublishStatus(Rebased(engine)), 0)
<1> DEFINE d == Rebased(engine)
<1>1. d \in EngineType
  BY InvFacts, RebasedIs
<1>2. /\ SameQuestions(d, engine) /\ d.state = engine.state
      /\ d.sink = engine.sink /\ ~d.held /\ d.released = engine.released
      /\ d.stuck => engine.stuck \/ engine.held
      /\ d.releaseWhenReady = engine.releaseWhenReady /\ d.owed = engine.owed
      /\ d.current = engine.current /\ d.source = engine.source
      /\ d.outgoing = engine.outgoing /\ d.told = engine.told /\ d.orderly = engine.orderly
  BY InvFacts, RebasedIs
<1> HIDE DEF d
<1>3. Base(d, 0) /\ Tells(d)
  BY <1>1, <1>2, InvFacts
     DEF Base, Numbered, AheadAgrees, Owes, SameQuestions, Tells, Heard
<1>4. Fit(d, d.state)
  BY <1>2, InvFacts DEF Fit, Closed, NoSink, NoOpen, SameQuestions
<1> QED BY <1>3, <1>4, PublishFits DEF d

LEMMA SeekKeeps == ASSUME Inv, Seek PROVE Inv'
<1>1. CASE \E pastEnd \in BOOLEAN :
             engine.outgoing # None /\ Become(SeekDuringHandover(pastEnd))
  BY <1>1, SeekDuringHandoverKeeps DEF Become
<1>2. CASE /\ engine.outgoing = None /\ Seekable
           /\ \E peeked \in Tracks \cup {None} : \E outcome \in Outcomes :
                Become(SeekPastTheEnd(peeked, outcome))
  BY <1>2, SeekPastTheEndKeeps DEF Become
<1>3. CASE /\ engine.outgoing = None /\ Seekable
           /\ Become(SeekReopen(engine, engine.state = "Paused" \/
                       (engine.state = "Seeking" /\ engine.pauseWhenReady)))
  <2>1. \A paused \in BOOLEAN : Full(SeekReopen(engine, paused), 0)
    BY <1>3, InvFacts, SeekReopenIsFull DEF Seekable
  <2>2. (engine.state = "Paused" \/ (engine.state = "Seeking" /\ engine.pauseWhenReady))
          \in BOOLEAN
    OBVIOUS
  <2> QED BY <1>3, <2>1, <2>2 DEF Inv, Become
<1>4. CASE engine.outgoing = None /\ Become(PublishStatus(Rebased(engine)))
  BY <1>4, RebasedKeeps DEF Inv, Become
<1>5. CASE engine.outgoing = None /\ Become(Fail(FlushSink(engine)))
  <2> DEFINE d == FlushSink(engine)
  <2>1. Base(d, 0) /\ SameMusic(d, engine)
    BY InvFacts, FlushSinkKeeps
  <2> HIDE DEF d
  <2>2. Endable(d, 0)
    BY <2>1, InvFacts DEF Endable, Tells, Heard, SameMusic
  <2>3. Full(Fail(d), 0)
    BY <2>2, FailIsFull
  <2> QED BY <1>5, <2>3 DEF Inv, Become, d
<1> QED BY <1>1, <1>2, <1>3, <1>4, <1>5 DEF Seek

(* Closing the output keeps the rest as it was.                            *)
LEMMA ClosingIsFull ==
  ASSUME NEW a, NEW b, NEW k \in Nat, Full(a, k), Base(b, k),
         SameQuestions(b, a), b.state = a.state,
         b.current = a.current, b.source = a.source, b.outgoing = a.outgoing,
         b.told = a.told, b.orderly = a.orderly
  PROVE  Full(PublishStatus(CloseOutput(b)), k)
<1> DEFINE d == CloseOutput(b)
<1>1. /\ Base(d, k) /\ Closed(d) /\ SameMusic(d, b) /\ SameQuestions(d, b) /\ SameState(d, b)
  BY CloseOutputKeeps
<1> HIDE DEF d
<1>2. Tells(d)
  BY <1>1 DEF Full, Tells, Heard, SameMusic
<1>3. SameQuestions(d, a) /\ d.state = a.state /\ ~d.held
  BY <1>1 DEF SameQuestions, SameState, Closed, NoSink
<1>4. Fit(d, d.state)
  BY <1>1, <1>3, FitsWithoutDevice DEF Full, SameMusic
<1> QED BY <1>1, <1>2, <1>4, PublishFits DEF d

LEMMA SetOutputKeeps ==
  ASSUME Inv, NEW works \in BOOLEAN, NEW boundary \in Boundary, NEW opens \in BOOLEAN,
         SetOutput(works, boundary, opens)
  PROVE  Inv'
<1> DEFINE e == DropNext(engine)
           moves == engine.state \in {"Playing", "Paused"} /\ engine.sink # None
           f == IF moves THEN Pause(e, works) ELSE e
           g == IF moves THEN SetAsideUnheard(f, boundary) ELSE f
           h == PublishStatus(CloseOutput(g))
<1>1. engine' = IF moves /\ f.state # "Paused" THEN f
                ELSE IF engine.state = "Playing" /\ h.state = "Paused"
                  THEN Resume(h, opens, TRUE)
                ELSE h
  BY DEF SetOutput, Become
<1>2. Full(e, 0)
  BY InvFacts, DropNextKeeps DEF Inv
<1> HIDE DEF e, moves
<1>3. Full(f, 0)
  BY <1>2, PauseIsFull
<1> HIDE DEF f
<1>4. Full(h, 0)
  <2>1. CASE moves
    <3> DEFINE a == CheckCrossing(f, boundary)
               b == SetAsideUnheard(f, boundary)
    <3>1. Full(a, 0)
      BY <1>3, CheckCrossingIsFull
    <3>2. /\ Base(b, 0) /\ SameQuestions(b, a) /\ SameState(b, a)
          /\ b.current = a.current /\ b.source = a.source /\ b.outgoing = a.outgoing
          /\ b.told = a.told /\ b.orderly = a.orderly
      BY <1>3, SetAsideKeeps
    <3>3. h = PublishStatus(CloseOutput(b))
      BY <2>1
    <3> HIDE DEF a, b, h
    <3>4. Full(PublishStatus(CloseOutput(b)), 0)
      BY <3>1, <3>2, ClosingIsFull DEF SameState
    <3> QED BY <3>3, <3>4
  <2>2. CASE ~moves
    <3>1. h = PublishStatus(CloseOutput(f))
      BY <2>2
    <3>2. SameQuestions(f, f) /\ Base(f, 0)
      BY <1>3 DEF SameQuestions, Full
    <3> HIDE DEF h
    <3>3. Full(PublishStatus(CloseOutput(f)), 0)
      BY <1>3, <3>2, ClosingIsFull
    <3> QED BY <3>1, <3>3
  <2> QED BY <2>1, <2>2
<1> HIDE DEF g, h
<1>5. Full(Resume(h, opens, TRUE), 0)
  BY <1>4, ResumeIsFull
<1> QED BY <1>1, <1>3, <1>4, <1>5 DEF Inv

---------------------------------------------------------------------------
(* The answers of the tasks.                                               *)

LEMMA AnsweredKeeps ==
  ASSUME Inv, NEW load \in engine.loads
  PROVE  LET d == Answered(load)
         IN  /\ Base(d, 0) /\ Tells(d) /\ Endable(d, 0) /\ (d.held => d.current # None)
             /\ Published(d) /\ d.generation = engine.generation
             /\ d.loads = engine.loads \ {load} /\ d.state = engine.state
             /\ SameMusic(d, engine) /\ SameDevice(d, engine)
             /\ d.next = engine.next /\ d.adopting = engine.adopting
             /\ d.releaseWhenReady = engine.releaseWhenReady
             /\ load.generation = engine.generation => NoOpen(d)
<1> DEFINE d == Answered(load)
<1>1. /\ d \in EngineType /\ SameMusic(d, engine) /\ SameDevice(d, engine)
      /\ d.generation = engine.generation /\ d.loads = engine.loads \ {load}
      /\ d.state = engine.state /\ d.status = engine.status
      /\ d.next = engine.next /\ d.phase = engine.phase /\ d.ready = engine.ready
      /\ d.adopting = engine.adopting
      /\ d.prefetchGeneration = engine.prefetchGeneration /\ d.prefetches = engine.prefetches
      /\ d.releaseWhenReady = engine.releaseWhenReady /\ d.owed = engine.owed
  BY InvFacts DEF EngineType, Answered, SameMusic, SameDevice
<1> HIDE DEF d
<1>2. Base(d, 0)
  BY <1>1, InvFacts DEF Base, Numbered, AheadAgrees, Owes, SameDevice
<1>3. Tells(d) /\ Published(d)
  BY <1>1, InvFacts DEF Tells, Published, StatusOf, Heard, SameMusic, SameDevice
<1>4. Endable(d, 0) /\ (d.held => d.current # None)
  BY <1>1, <1>2, <1>3, InvFacts DEF Endable, SameMusic, SameDevice
<1>5. load.generation = engine.generation => NoOpen(d)
  BY <1>1, InvFacts DEF Base, Numbered, NoOpen
<1> QED BY <1>1, <1>2, <1>3, <1>4, <1>5 DEF d

LEMMA FinishSeekIsFull ==
  ASSUME NEW e, NEW k \in Nat, NEW t, Base(e, k), Tells(e), NoOpen(e), NoNext(e), ~e.held,
         e.current # None, e.outgoing = None, t = e.current
  PROVE  Full(FinishSeek(e, t), k)
<1> DEFINE d == [e EXCEPT !.source = t, !.pauseWhenReady = FALSE]
           s == StateWhenReady(e)
<1>1. FinishSeek(e, t) = ReleaseIfAsked(SetState(d, s))
  BY DEF FinishSeek
<1>2. e \in EngineType /\ s \in {"Playing", "Paused"}
  BY DEF Base, StateWhenReady
<1>3. t \in OptTrack
  BY <1>2 DEF EngineType
<1>4. /\ d \in EngineType /\ SameQuestions(d, e) /\ SameDevice(d, e)
      /\ d.releaseWhenReady = e.releaseWhenReady /\ d.owed = e.owed
      /\ d.current = e.current /\ d.source = t /\ d.outgoing = e.outgoing
      /\ d.told = e.told /\ d.orderly = e.orderly
  BY ZenonT(40), <1>2, <1>3 DEF EngineType, SameQuestions, SameDevice
<1> HIDE DEF d, s
<1>5. Base(d, k) /\ Tells(d)
  BY <1>4, SameKeepsBase DEF Tells, Heard
<1>6. NoOpen(d) /\ NoNext(d) /\ ~d.held
  BY <1>4 DEF NoOpen, NoNext, SameQuestions, SameDevice
<1>7. Fit(d, s) /\ s \in States
  BY <1>2, <1>4, <1>6, Kinds DEF Fit, NoNext
<1>8. Full(SetState(d, s), k)
  BY <1>5, <1>7, SetStateFits
<1> QED BY <1>1, <1>8, ReleaseIfAskedIsFull

LEMMA LoadedKeeps ==
  ASSUME Inv, NEW load \in engine.loads, NEW t \in Tracks, NEW opens \in BOOLEAN,
         Loaded(load, t, opens)
  PROVE  Inv'
<1> DEFINE d == Answered(load)
<1>1. /\ load.generation = engine.generation /\ engine.state \in {"Loading", "Seeking"}
      /\ t \in IF load.target = Any THEN Tracks ELSE {load.target}
      /\ engine' = IF engine.state = "Seeking" THEN FinishSeek(d, t)
                   ELSE StartTrack(d, t, opens)
  BY DEF Loaded, IsAwaited, Become
<1>2. /\ Base(d, 0) /\ Tells(d) /\ NoOpen(d) /\ SameMusic(d, engine) /\ SameDevice(d, engine)
      /\ d.next = engine.next /\ d.adopting = engine.adopting
  BY <1>1, AnsweredKeeps
<1> HIDE DEF d
<1>3. ~NoOpen(engine)
  BY <1>1 DEF NoOpen
<1>4. NoNext(d) /\ ~d.held
  BY <1>1, <1>2, <1>3, InvFacts DEF Fit, NoNext, SameDevice
<1>5. CASE engine.state = "Seeking"
  <2>1. [generation |-> engine.generation, target |-> engine.current] \in engine.loads
    BY <1>5, InvFacts DEF Fit
  <2>2. load.target = engine.current /\ engine.current # Any
    <3>1. load = [generation |-> engine.generation, target |-> engine.current]
      BY <1>1, <2>1, InvFacts DEF Base, Numbered
    <3>2. engine.current \in Tracks \cup {None}
      BY InvFacts DEF EngineType, OptTrack
    <3> QED BY <3>1, <3>2, EngineAssumption
  <2>3. t = d.current /\ d.current # None /\ d.outgoing = None
    BY <1>1, <1>2, <1>5, <2>2, InvFacts DEF Fit, SameMusic
  <2>4. Full(FinishSeek(d, t), 0)
    BY <1>2, <1>4, <2>3, FinishSeekIsFull
  <2> QED BY <1>1, <1>5, <2>4 DEF Inv
<1>6. CASE engine.state = "Loading"
  <2>1. Clear(d, 0)
    BY <1>2, <1>4, <1>6, InvFacts
       DEF Clear, Quiet, Hushed, Tells, Heard, Fit, SameMusic
  <2>2. Full(StartTrack(d, t, opens), 0)
    BY <2>1, StartTrackIsFull
  <2> QED BY <1>1, <1>6, <2>2 DEF Inv
<1> QED BY <1>1, <1>5, <1>6

LEMMA LoadEndsKeeps ==
  ASSUME Inv, NEW load \in engine.loads,
         LoadFailed(load) \/ QueueExhausted(load) \/ LateAnswer(load)
  PROVE  Inv'
<1> DEFINE d == Answered(load)
<1>1. /\ Base(d, 0) /\ Tells(d) /\ Endable(d, 0) /\ (d.held => d.current # None)
      /\ Published(d) /\ d.generation = engine.generation
      /\ d.loads = engine.loads \ {load} /\ d.state = engine.state
      /\ SameMusic(d, engine) /\ SameDevice(d, engine)
      /\ d.next = engine.next /\ d.adopting = engine.adopting
      /\ d.releaseWhenReady = engine.releaseWhenReady
  BY AnsweredKeeps
<1>2. \/ engine' = Fail(d)
      \/ engine' = Stop(d)
      \/ ~IsAwaited(load) /\ engine' = d
  BY DEF LoadFailed, QueueExhausted, LateAnswer, Become
<1> HIDE DEF d
<1>3. Full(Fail(d), 0) /\ Full(Stop(d), 0)
  BY <1>1, FailIsFull, StopIsFull
<1>4. ~IsAwaited(load) => Full(d, 0)
  <2> SUFFICES ASSUME ~IsAwaited(load) PROVE Fit(d, d.state)
    BY <1>1 DEF Full
  <2>1. ~NoOpen(d) => ~NoOpen(engine)
    BY <1>1 DEF NoOpen
  <2>2. engine.state = "Seeking" =>
          [generation |-> engine.generation, target |-> engine.current] \in engine.loads \ {load}
    BY InvFacts DEF IsAwaited, Fit
  <2> QED BY <1>1, <2>1, <2>2, InvFacts
          DEF Fit, Closed, NoSink, SameMusic, SameDevice
<1> QED BY <1>2, <1>3, <1>4 DEF Inv

LEMMA PrefetchedKeeps ==
  ASSUME Inv, NEW prefetch \in engine.prefetches, NEW works \in BOOLEAN,
         NEW outcome \in Outcomes, Prefetched(prefetch, works, outcome)
  PROVE  Inv'
<1> DEFINE e == [engine EXCEPT !.prefetches = @ \ {prefetch}]
           c == DropNext(e)
           ready == [e EXCEPT !.phase = "Ready", !.ready = prefetch.track]
           failed == [e EXCEPT !.phase = "Failed"]
           stale == engine.next = None \/ engine.prefetchGeneration # prefetch.generation
<1>1. /\ e \in EngineType /\ SameMusic(e, engine) /\ SameDevice(e, engine)
      /\ e.generation = engine.generation /\ e.loads = engine.loads
      /\ e.state = engine.state /\ e.status = engine.status
      /\ e.next = engine.next /\ e.phase = engine.phase /\ e.ready = engine.ready
      /\ e.adopting = engine.adopting
      /\ e.prefetchGeneration = engine.prefetchGeneration
      /\ e.prefetches = engine.prefetches \ {prefetch}
      /\ e.releaseWhenReady = engine.releaseWhenReady /\ e.owed = engine.owed
  BY InvFacts DEF EngineType, SameMusic, SameDevice
<1>2. engine' =
        IF e.next = None \/ e.prefetchGeneration # prefetch.generation THEN e
        ELSE IF e.adopting
          THEN IF works THEN StartOpenedAhead(c, prefetch.track, outcome)
               ELSE RequestLoad(c, Any)
        ELSE IF works THEN ready ELSE failed
  BY DEF Prefetched, Become
<1> HIDE DEF e
<1>3. /\ prefetch.track \in Tracks /\ prefetch.track \in OptTrack
      /\ ~stale => prefetch.track = engine.next
  BY InvFacts, Kinds DEF EngineType, Base, AheadAgrees
<1>4. /\ Owes(e, 0) /\ Numbered(e) /\ (e.released => e.sink = None)
      /\ (e.held \/ e.stuck => e.sink # None) /\ ~(e.held /\ e.stuck)
      /\ (NoOpen(e) <=> NoOpen(engine))
  BY <1>1, InvFacts DEF Base, Numbered, Owes, NoOpen, SameDevice
<1>5. CASE stale
  <2>1. Base(e, 0)
    <3>1. engine.phase = "Opening" =>
            [generation |-> engine.prefetchGeneration, track |-> engine.next] # prefetch
      BY <1>5, InvFacts DEF Base, AheadAgrees
    <3> QED BY <1>1, <1>4, <3>1, InvFacts DEF Base, AheadAgrees
  <2>2. Tells(e) /\ Published(e)
    BY <1>1, InvFacts DEF Tells, Published, StatusOf, Heard, SameMusic, SameDevice
  <2>3. Fit(e, e.state)
    BY <1>1, <1>4, InvFacts DEF Fit, Closed, NoSink, SameMusic, SameDevice
  <2> QED BY <1>1, <1>2, <1>5, <2>1, <2>2, <2>3 DEF Inv, Full
<1>6. CASE ~stale /\ engine.adopting
  <2>1. /\ c \in EngineType /\ SameMusic(c, e) /\ SameDevice(c, e)
        /\ c.generation = e.generation /\ c.loads = e.loads /\ NoNext(c)
        /\ c.phase = "None" /\ c.prefetchGeneration = e.prefetchGeneration
        /\ c.prefetches = e.prefetches
        /\ c.releaseWhenReady = e.releaseWhenReady /\ c.owed = e.owed
    BY ZenonT(40), <1>1, Kinds DEF EngineType, DropNext, SameMusic, SameDevice, NoNext
  <2> HIDE DEF c
  <2>2. Base(c, 0)
    BY <1>1, <1>4, <2>1 DEF Base, Numbered, AheadAgrees, Owes, SameDevice, NoNext
  <2>3. NoOpen(c) /\ engine.state = "Loading"
    BY <1>4, <1>6, <2>1, InvFacts DEF Fit, NoOpen
  <2>4. Clear(c, 0)
    BY <1>1, <2>1, <2>2, <2>3, InvFacts
       DEF Clear, Quiet, Hushed, Tells, Heard, Fit, SameMusic, SameDevice
  <2>5. Full(StartOpenedAhead(c, prefetch.track, outcome), 0) /\ Full(RequestLoad(c, Any), 0)
    BY <1>3, <2>4, InvFacts, StartOpenedAheadIsFull, RequestLoadIsFull DEF Clear
  <2> QED BY <1>1, <1>2, <1>6, <2>5 DEF Inv
<1>7. CASE ~stale /\ ~engine.adopting
  <2>1. ASSUME NEW d \in EngineType, SameMusic(d, e), SameDevice(d, e),
               d.generation = e.generation, d.loads = e.loads,
               d.state = e.state, d.status = e.status, d.next = e.next,
               d.adopting = e.adopting, d.prefetchGeneration = e.prefetchGeneration,
               d.prefetches = e.prefetches, d.releaseWhenReady = e.releaseWhenReady,
               d.owed = e.owed,
               (d.phase = "Ready" /\ d.ready = prefetch.track) \/ d.phase = "Failed"
        PROVE  Full(d, 0)
    <3>1. AheadAgrees(d)
      BY <1>1, <1>3, <1>7, <2>1, InvFacts DEF Base, AheadAgrees
    <3>2. Base(d, 0)
      BY <1>4, <2>1, <3>1 DEF Base, Numbered, Owes, SameDevice
    <3>3. Tells(d) /\ Published(d)
      BY <1>1, <2>1, InvFacts
         DEF Tells, Published, StatusOf, Heard, SameMusic, SameDevice
    <3>4. NoOpen(d) <=> NoOpen(engine)
      BY <1>4, <2>1 DEF NoOpen
    <3>5. Fit(d, d.state)
      BY <1>1, <2>1, <3>4, InvFacts DEF Fit, Closed, NoSink, SameMusic, SameDevice
    <3> QED BY <3>2, <3>3, <3>5 DEF Full
  <2>2. Full(ready, 0)
    <3>1. /\ ready \in EngineType /\ SameMusic(ready, e) /\ SameDevice(ready, e)
          /\ ready.generation = e.generation /\ ready.loads = e.loads
          /\ ready.state = e.state /\ ready.status = e.status /\ ready.next = e.next
          /\ ready.adopting = e.adopting /\ ready.prefetchGeneration = e.prefetchGeneration
          /\ ready.prefetches = e.prefetches /\ ready.releaseWhenReady = e.releaseWhenReady
          /\ ready.owed = e.owed /\ ready.phase = "Ready" /\ ready.ready = prefetch.track
      BY ZenonT(40), <1>1, <1>3, Kinds DEF EngineType, SameMusic, SameDevice
    <3> HIDE DEF ready
    <3> QED BY <2>1, <3>1
  <2>3. Full(failed, 0)
    <3>1. /\ failed \in EngineType /\ SameMusic(failed, e) /\ SameDevice(failed, e)
          /\ failed.generation = e.generation /\ failed.loads = e.loads
          /\ failed.state = e.state /\ failed.status = e.status /\ failed.next = e.next
          /\ failed.adopting = e.adopting /\ failed.prefetchGeneration = e.prefetchGeneration
          /\ failed.prefetches = e.prefetches /\ failed.releaseWhenReady = e.releaseWhenReady
          /\ failed.owed = e.owed /\ failed.phase = "Failed"
      BY <1>1, Kinds DEF EngineType, SameMusic, SameDevice
    <3> HIDE DEF failed
    <3> QED BY <2>1, <3>1
  <2> QED BY <1>1, <1>2, <1>7, <2>2, <2>3 DEF Inv
<1> QED BY <1>5, <1>6, <1>7

---------------------------------------------------------------------------
(* One period of audio.                                                    *)

LEMMA EndOfSourceKeeps ==
  ASSUME NEW e, Alone(e, 0), NEW peeked \in Tracks \cup {None}, EndOfSource(e, peeked)
  PROVE  Inv'
<1>1. CASE ~e.gapless \/ peeked = None
  <2>1. PICK drain \in Drains : engine' = TrackCompleted(DropNext(e), drain)
    BY <1>1 DEF EndOfSource, Become
  <2>2. Full(TrackCompleted(DropNext(e), drain), 0)
    BY DropNextIsAlone, TrackCompletedIsFull
  <2> QED BY <2>1, <2>2 DEF Inv
<1>2. CASE ~(~e.gapless \/ peeked = None)
  <2> DEFINE f == NextAtEnd(e, peeked)
  <2>1. \/ f.phase = "Ready" /\ \E drain \in Drains, boundary \in Boundary, outcome \in Outcomes :
             engine' = JoinNext(f, drain, boundary, outcome)
        \/ engine' = f
        \/ f.phase = "Opening" /\ \E drain \in Drains : engine' = GiveUpWaiting(f, drain)
        \/ \E drain \in Drains : engine' = TrackCompleted(DropNext(f), drain)
    BY <1>2 DEF EndOfSource, Become
  <2>2. Alone(f, 0)
    BY <1>2, NextAtEndIsFull
  <2> HIDE DEF f
  <2>3. CASE f.phase = "Ready" /\ \E drain \in Drains, boundary \in Boundary, outcome \in Outcomes :
               engine' = JoinNext(f, drain, boundary, outcome)
    <3>1. PICK drain \in Drains, boundary \in Boundary, outcome \in Outcomes :
            engine' = JoinNext(f, drain, boundary, outcome)
      BY <2>3
    <3>2. Full(JoinNext(f, drain, boundary, outcome), 0)
      BY <2>2, <2>3, JoinNextIsFull
    <3> QED BY <3>1, <3>2 DEF Inv
  <2>4. CASE engine' = f
    BY <2>2, <2>4 DEF Alone, Inv
  <2>5. CASE f.phase = "Opening" /\ \E drain \in Drains : engine' = GiveUpWaiting(f, drain)
    <3>1. PICK drain \in Drains : engine' = GiveUpWaiting(f, drain)
      BY <2>5
    <3>2. Full(GiveUpWaiting(f, drain), 0)
      BY <2>2, <2>5, GiveUpWaitingIsFull
    <3> QED BY <3>1, <3>2 DEF Inv
  <2>6. CASE \E drain \in Drains : engine' = TrackCompleted(DropNext(f), drain)
    <3>1. PICK drain \in Drains : engine' = TrackCompleted(DropNext(f), drain)
      BY <2>6
    <3>2. Full(TrackCompleted(DropNext(f), drain), 0)
      BY <2>2, DropNextIsAlone, TrackCompletedIsFull
    <3> QED BY <3>1, <3>2 DEF Inv
  <2> QED BY <2>1, <2>3, <2>4, <2>5, <2>6
<1> QED BY <1>1, <1>2

LEMMA SourceFinishedKeeps ==
  ASSUME NEW e, Full(e, 0), e.state = "Playing", SourceFinished(e)
  PROVE  Inv'
<1>1. CASE e.outgoing # None
  BY <1>1 DEF SourceFinished, Become, Inv
<1>2. CASE e.outgoing = None
  <2>1. Alone(e, 0) /\ \E peeked \in Tracks \cup {None} : EndOfSource(e, peeked)
    BY <1>2 DEF SourceFinished, Alone
  <2> QED BY <2>1, EndOfSourceKeeps
<1> QED BY <1>1, <1>2

LEMMA MaybePrefetchIsFull ==
  ASSUME NEW e, Full(e, 0), e.state = "Playing",
         NEW peeked \in Tracks \cup {None}, NEW near \in BOOLEAN
  PROVE  Full(MaybePrefetch(e, peeked, near), 0)
<1>1. CASE ~e.gapless \/ e.outgoing # None \/ (e.next # None /\ e.next = peeked)
  BY <1>1 DEF MaybePrefetch
<1>2. CASE ~(~e.gapless \/ e.outgoing # None \/ (e.next # None /\ e.next = peeked))
  <2>1. Alone(e, 0)
    BY <1>2 DEF Alone
  <2> QED BY <1>2, <2>1, DropNextIsAlone, StartPrefetchIsFull DEF MaybePrefetch, Alone
<1> QED BY <1>1, <1>2

LEMMA PublishedAgain ==
  ASSUME NEW e, Full(e, 0)
  PROVE  Full(PublishStatus(e), 0)
BY PublishFits DEF Full

LEMMA WriteKeeps ==
  ASSUME NEW e, Full(e, 0), e.state = "Playing", Write(e)
  PROVE  Inv'
<1>1. CASE Become(e)
  BY <1>1 DEF Become, Inv
<1>2. CASE \E peeked \in Tracks \cup {None}, near \in BOOLEAN :
             Become(PublishStatus(MaybePrefetch(e, peeked, near)))
  <2>1. PICK peeked \in Tracks \cup {None}, near \in BOOLEAN :
          engine' = PublishStatus(MaybePrefetch(e, peeked, near))
    BY <1>2 DEF Become
  <2>2. Full(PublishStatus(MaybePrefetch(e, peeked, near)), 0)
    BY MaybePrefetchIsFull, PublishedAgain
  <2> QED BY <2>1, <2>2 DEF Inv
<1>3. CASE Become(PublishStatus(DropNext(e)))
  <2>1. Full(PublishStatus(DropNext(e)), 0)
    BY DropNextKeeps, PublishedAgain DEF Full
  <2> QED BY <1>3, <2>1 DEF Become, Inv
<1>4. CASE \E gone \in BOOLEAN, boundary \in BoundaryOf(e) : Become(Failed(e, gone, boundary))
  <2>1. PICK gone \in BOOLEAN, boundary \in Boundary : engine' = Failed(e, gone, boundary)
    BY <1>4 DEF Become, BoundaryOf, Boundary
  <2>2. Full(Failed(e, gone, boundary), 0)
    BY FailedIsFull
  <2> QED BY <2>1, <2>2 DEF Inv
<1> QED BY <1>1, <1>2, <1>3, <1>4 DEF Write

LEMMA PlayStepKeeps == ASSUME Inv, PlayStep PROVE Inv'
<1>1. PICK boundary \in Boundary :
        LET e == CheckCrossing(engine, boundary)
        IN  IF e.current = None THEN Become(e)
            ELSE IF e.spent THEN SourceFinished(e)
            ELSE IF e.sink = None \/ e.source = None THEN Become(Fail(e))
            ELSE Write(e) \/ SourceFinished([e EXCEPT !.spent = TRUE])
  BY InvFacts DEF PlayStep
<1> DEFINE e == CheckCrossing(engine, boundary)
           d == [e EXCEPT !.spent = TRUE]
<1>2. Full(e, 0) /\ e.state \in {"Playing", "Loading"}
  BY CheckCrossingIsFull DEF Inv, PlayStep
<1> HIDE DEF e
<1>3. CASE e.current = None
  BY <1>1, <1>2, <1>3 DEF Become, Inv, e
<1>4. CASE e.current # None
  <2>1. e.state = "Playing" /\ e \in EngineType
    BY <1>2, <1>4 DEF Full, Fit, Base
  <2>2. Full(Fail(e), 0)
    BY <1>2, FailIsFull, FullIsEndable
  <2>3. Full(d, 0) /\ d.state = "Playing"
    <3>1. /\ d \in EngineType /\ SameQuestions(d, e) /\ SameDevice(d, e)
          /\ d.releaseWhenReady = e.releaseWhenReady /\ d.owed = e.owed
          /\ d.state = e.state /\ d.status = e.status
          /\ d.current = e.current /\ d.source = e.source /\ d.outgoing = e.outgoing
          /\ d.sinkPaused = e.sinkPaused /\ d.told = e.told /\ d.orderly = e.orderly
      BY ZenonT(40), <2>1 DEF EngineType, SameQuestions, SameDevice
    <3> HIDE DEF d
    <3>2. Base(d, 0)
      BY <1>2, <3>1, SameKeepsBase DEF Full
    <3>3. Tells(d) /\ Published(d)
      BY <1>2, <3>1 DEF Full, Tells, Published, StatusOf, Heard, SameDevice
    <3>4. Fit(d, d.state)
      BY <1>2, <3>1
         DEF Full, Fit, Closed, NoSink, NoOpen, SameQuestions, SameDevice
    <3> QED BY <2>1, <3>1, <3>2, <3>3, <3>4 DEF Full
  <2>4. \/ engine' = Fail(e) \/ SourceFinished(e) \/ Write(e) \/ SourceFinished(d)
    BY <1>1, <1>4 DEF Become, e
  <2> HIDE DEF d
  <2> QED BY <1>2, <2>1, <2>2, <2>3, <2>4, SourceFinishedKeeps, WriteKeeps DEF Inv
<1> QED BY <1>3, <1>4

---------------------------------------------------------------------------
(* The theorems.                                                           *)

LEMMA InitInv == Init => Inv
<1> SUFFICES ASSUME Init PROVE Inv
  OBVIOUS
<1>1. /\ engine.state = "Stopped" /\ engine.generation = 0 /\ engine.loads = {}
      /\ engine.sink = None /\ engine.held = FALSE /\ engine.released = FALSE
      /\ engine.stuck = FALSE
      /\ engine.releaseWhenReady = "no" /\ engine.current = None /\ engine.source = None
      /\ engine.outgoing = None /\ engine.next = None /\ engine.phase = "None"
      /\ engine.prefetchGeneration = 0 /\ engine.prefetches = {} /\ engine.adopting = FALSE
      /\ engine.status = [state |-> "Stopped", track |-> None, output |-> "Closed"]
      /\ engine.told = None /\ engine.orderly = TRUE /\ engine.owed = 0
  BY DEF Init
<1>2. engine \in EngineType
  BY Kinds DEF Init, EngineType
<1>3. Base(engine, 0)
  BY <1>1, <1>2 DEF Base, Numbered, AheadAgrees, Owes
<1>4. Tells(engine) /\ Published(engine)
  BY <1>1 DEF Tells, Published, StatusOf, Heard
<1>5. Fit(engine, engine.state)
  BY <1>1 DEF Fit, NoOpen, Closed, NoSink
<1> QED BY <1>3, <1>4, <1>5 DEF Inv, Full

(* Whether the device can be flushed changes nothing that is known of it.  *)
LEMMA DeviceTurnsKeeps == ASSUME Inv, DeviceTurns PROVE Inv'
<1> DEFINE turned == ~engine.flushes
           d == [engine EXCEPT !.flushes = turned]
<1>1. engine' = d
  BY DEF DeviceTurns, Become
<1>2. turned \in BOOLEAN
  OBVIOUS
<1> HIDE DEF turned
<1>3. /\ d \in EngineType /\ SameQuestions(d, engine) /\ SameDevice(d, engine)
      /\ SameMusic(d, engine)
      /\ d.releaseWhenReady = engine.releaseWhenReady /\ d.owed = engine.owed
      /\ d.state = engine.state /\ d.status = engine.status
  BY ZenonT(40), InvFacts, <1>2 DEF EngineType, SameQuestions, SameDevice, SameMusic
<1> HIDE DEF d
<1>4. Full(d, 0)
  BY <1>3, SameIsFull DEF Inv
<1> QED BY <1>1, <1>4 DEF Inv

LEMMA StepInv == Inv /\ [Next]_vars => Inv'
<1> SUFFICES ASSUME Inv, [Next]_vars PROVE Inv'
  OBVIOUS
<1>1. CASE Transport
  BY <1>1, PlayTrackKeeps, PlayNothingKeeps, SkipToNextKeeps, PreviousKeeps, StopKeeps,
     SeekKeeps, PauseCommandKeeps, ResumeCommandKeeps DEF Transport
<1>2. CASE Device
  BY <1>2, InvFacts, ReleaseCommandKeeps, ReleaseRequestedKeeps, SetOutputKeeps DEF Device
<1>3. CASE IdleRelease
  BY <1>3, IdleReleaseKeeps
<1>4. CASE PlayStep
  BY <1>4, PlayStepKeeps
<1>5. CASE Answers
  BY <1>5, LoadedKeeps, LoadEndsKeeps, PrefetchedKeeps DEF Answers
<1>6. CASE DeviceTurns
  BY <1>6, DeviceTurnsKeeps
<1>7. CASE UNCHANGED vars
  BY <1>7 DEF Inv, vars
<1> QED BY <1>1, <1>2, <1>3, <1>4, <1>5, <1>6, <1>7 DEF Next

(* After every handler the fields agree, whatever came before it.          *)
THEOREM Invariance == Spec => []Inv
<1> QED BY InitInv, StepInv, PTL DEF Spec

(* The fields keep their types, however many tracks, formats and answers.  *)
THEOREM TypesHold == Spec => []TypeOK
<1>1. Inv => TypeOK
  BY InvFacts DEF TypeOK
<1> QED BY <1>1, Invariance, PTL

(* Every TrackStarted follows the TrackEnded of the one before, and the    *)
(* track listeners believe in is the one that is heard.                    *)
THEOREM ListenersAreToldRight == Spec => []EventsFollowTheListener
<1>1. Inv => EventsFollowTheListener
  BY InvFacts DEF EventsFollowTheListener, Tells
<1> QED BY <1>1, Invariance, PTL

(* No handler leaves the published status behind the fields.               *)
THEOREM StatusIsPublished == Spec => []StatusIsCurrent
<1>1. Inv => StatusIsCurrent
  BY InvFacts DEF StatusIsCurrent, Published
<1> QED BY <1>1, Invariance, PTL

(* A device still paused belongs to an engine that knows it paused it, but *)
(* for one whose flush failed, which is still open and not paused again.   *)
THEOREM PausesAreKnown == Spec => []DevicePauseIsKnown
<1>1. Inv => DevicePauseIsKnown
  BY InvFacts DEF DevicePauseIsKnown, Fit, Base
<1> QED BY <1>1, Invariance, PTL

(* The samples are those of the track the engine says it plays.            *)
THEOREM SamplesAreOfTheTrack == Spec => []SourceIsOfCurrent
<1>1. Inv => SourceIsOfCurrent
  BY InvFacts DEF SourceIsOfCurrent, Fit, Base, AheadAgrees
<1> QED BY <1>1, Invariance, PTL

(* An engine that waits can be answered, and no other has an open question.*)
THEOREM WaitsCanEnd == Spec => []QuestionsAreOpen
<1>1. Inv => QuestionsAreOpen
  BY InvFacts DEF QuestionsAreOpen, Fit, Base, AheadAgrees, NoOpen
<1> QED BY <1>1, Invariance, PTL

(* Each program that asks for the device is answered exactly once.         *)
THEOREM ProgramsAreAnswered == Spec => []AskersAreAnswered
<1>1. Inv => AskersAreAnswered
  BY InvFacts DEF AskersAreAnswered, Base, Owes
<1> QED BY <1>1, Invariance, PTL

(* A handover is contained, a stopped engine holds nothing, and what is    *)
(* held agrees with the state.                                             *)
THEOREM FieldsAgree == Spec => []ThreadIsConsistent
<1>1. Inv => HandoverIsContained
  BY InvFacts DEF HandoverIsContained, Fit
<1>2. Inv => StoppedHoldsNothing
  BY InvFacts DEF StoppedHoldsNothing, Fit, Closed, NoSink, Heard
<1>3. Inv => HoldingsAgree
  BY InvFacts DEF HoldingsAgree, Fit, Base, AheadAgrees
<1> QED BY <1>1, <1>2, <1>3, Invariance, PTL DEF ThreadIsConsistent
=============================================================================
