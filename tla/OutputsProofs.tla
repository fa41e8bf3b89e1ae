---------------------------- MODULE OutputsProofs ----------------------------
(***************************************************************************)
(* Whatever outputs there are, and however many commands, failures and     *)
(* requests of other programs: the card is open only while it is reserved, *)
(* and is given back when it is not wanted.                                *)
(***************************************************************************)
EXTENDS OutputsProperties, TLAPS

Outs == Streams \cup {Card}
Threads ==
  [state : {"Stopped", "Playing", "Paused"}, busy : {"no", "reserving", "opening", "streaming"},
   why : {"none", "start", "resume", "switch"}, fits : BOOLEAN, sinks : Factories,
   onShared : BOOLEAN, noBus : BOOLEAN, open : Streams \cup {Card, None}]
Askers == [step : {"idle", "waiting", "granted"}, same : BOOLEAN]
Owners == {"nobody", "phonia", "another"}

(* A factory's number is not 0, and one that falls back is of the card.    *)
Known(sinks) == sinks.number # 0 /\ (sinks.kind = "fallback" => sinks.of = Card)

(* What the thread is doing, and what is open meanwhile.                   *)
ThreadAgrees ==
  /\ thread \in Threads /\ Known(thread.sinks)
  /\ thread.busy # "no" => thread.open = None
  /\ thread.busy \in {"reserving", "opening"} => thread.sinks.of = Card
  /\ thread.busy = "streaming" =>
       IF thread.sinks.kind = "fallback" THEN ~thread.fits ELSE thread.sinks.of # Card
  /\ thread.busy = "no" /\ thread.state = "Stopped" => thread.open = None

(* What is reserved is of the card's factory, its name is ours unless an   *)
(* open failed, and a stream is open only once it was given back.  The     *)
(* card is opened with nothing reserved only when there was no bus.        *)
ReservedAgrees ==
  /\ held \in {0, thread.sinks.number} /\ owner \in Owners /\ leftover \in BOOLEAN
  /\ thread.busy = "opening" => (thread.noBus <=> held = 0)
  /\ thread.busy = "streaming" => held = 0
  /\ thread.busy = "no" /\ thread.state = "Stopped" => held = 0
  /\ held # 0 =>
       /\ thread.sinks.of = Card
       /\ owner = "phonia" \/ leftover
       /\ thread.open \notin Streams
       /\ thread.busy = "no" /\ thread.open = None => leftover /\ thread.state = "Paused"
  /\ leftover => held # 0
  /\ thread.open = Card => (thread.noBus <=> held = 0)

(* A request that phonia's connection was asked and that was granted gives *)
(* up the name: nothing is open then but by a slot left over.              *)
AskerAgrees ==
  /\ asker \in Askers
  /\ asker.same => held # 0
  /\ asker.step = "granted" /\ asker.same => leftover

Core == ThreadAgrees /\ ReservedAgrees /\ AskerAgrees /\ ClimbsBack

(* What is sent to the thread, and what the bounds count.                  *)
Messages == [what : {"release", "switch"}, sinks : Factories]
MailKnown ==
  /\ inbox \in Seq(Messages)
  /\ \A i \in 1 .. Len(inbox) : Known(inbox[i].sinks)
  /\ spent \in [switches : Nat, opens : Nat, failures : Nat, asks : Nat, fallbacks : Nat]

(* The daemon's part.                                                      *)
Steps == {"idle", "moving", "listing", "switched"}
Moves == [from : Outs, to : Outs, number : Nat]
DaemonTypes ==
  /\ request \in [step : Steps, to : Streams \cup {Card, None}]
  /\ request.step # "idle" => request.to \in Outs
  /\ note \in [step : Steps \ {"moving"}, to : Streams \cup {Card, None}]
  /\ note.step # "idle" => note.to \in Outs
  /\ switches \in Seq(Moves)
  /\ {route, shown} \subseteq Outs

Inv == Core /\ MailKnown /\ DaemonTypes

---------------------------------------------------------------------------
(* The operators the handlers are built from.                              *)

(* A record that differs from a thread in a few fields is a thread.        *)
LEMMA ThreadFields ==
  ASSUME NEW t \in Threads
  PROVE  /\ t.state \in {"Stopped", "Playing", "Paused"}
         /\ t.busy \in {"no", "reserving", "opening", "streaming"}
         /\ t.why \in {"none", "start", "resume", "switch"}
         /\ t.fits \in BOOLEAN /\ t.onShared \in BOOLEAN /\ t.noBus \in BOOLEAN
         /\ t.sinks \in Factories
         /\ t.sinks.number \in Nat /\ t.sinks.kind \in {"fallback", "plain"}
         /\ t.sinks.of \in Outs
         /\ t.open \in Streams \cup {Card, None}
BY DEF Threads, Factories, Outs

(* Giving back leaves nothing reserved, and nobody to give the name to.    *)
LEMMA GivenBack ==
  ASSUME Core, GiveBack
  PROVE  /\ held' = 0 /\ leftover' = FALSE /\ owner' \in Owners
         /\ asker' \in Askers /\ asker'.same = FALSE
<1>1. asker \in Askers /\ (held = 0 => asker.same = FALSE)
  BY DEF Core, AskerAgrees, Askers
<1>2. asker' \in Askers /\ asker'.same = FALSE
  <2>1. CASE held = 0
    BY <1>1, <2>1 DEF GiveBack
  <2>2. CASE held # 0
    <3>1. asker' = [asker EXCEPT !.same = FALSE]
      BY <2>2 DEF GiveBack
    <3> QED BY <1>1, <3>1 DEF Askers
  <2> QED BY <2>1, <2>2
<1>3. owner' \in Owners
  BY DEF Core, ReservedAgrees, GiveBack, Freed, Owners
<1> QED BY <1>2, <1>3 DEF GiveBack

(* With nothing reserved, only the thread itself is left to look at.       *)
LEMMA CoreWithoutCard ==
  ASSUME ThreadAgrees', held' = 0, leftover' = FALSE, owner' \in Owners,
         asker' \in Askers, asker'.same = FALSE,
         thread'.busy # "opening", thread'.open # Card, ClimbsBack'
  PROVE  Core'
<1>1. ReservedAgrees'
  BY DEF ReservedAgrees
<1>2. AskerAgrees'
  BY DEF AskerAgrees
<1> QED BY <1>1, <1>2 DEF Core

(* An open that fails: a start gives the card back, the others keep it.    *)
LEMMA FailedKeepsCore ==
  ASSUME Core, thread.busy # "no", OpenFailed
  PROVE  Core'
<1>1. thread \in Threads /\ thread.open = None /\ Known(thread.sinks)
  BY DEF Core, ThreadAgrees
<1>2. None # Card
  BY OutputsAssumption
<1>3. CASE thread.why = "start"
  <2>1. thread' = [thread EXCEPT !.busy = "no", !.why = "none", !.state = "Stopped"] /\ GiveBack
    BY <1>3 DEF OpenFailed, Rests
  <2>2. /\ thread' \in Threads /\ thread'.busy = "no" /\ thread'.state = "Stopped"
        /\ thread'.open = None /\ thread'.sinks = thread.sinks
    BY <1>1, <2>1 DEF Threads
  <2>3. ThreadAgrees' /\ ClimbsBack'
    BY <1>1, <2>2 DEF ThreadAgrees, ClimbsBack, Free, Known
  <2> QED BY <1>2, <2>1, <2>2, <2>3, GivenBack, CoreWithoutCard
<1>4. CASE thread.why # "start"
  <2>1. /\ thread' = [thread EXCEPT !.busy = "no", !.why = "none", !.state = "Paused"]
        /\ leftover' = (held # 0) /\ UNCHANGED <<held, owner, asker>>
    BY <1>4 DEF OpenFailed, Rests
  <2>2. /\ thread' \in Threads /\ thread'.busy = "no" /\ thread'.state = "Paused"
        /\ thread'.open = None /\ thread'.sinks = thread.sinks
    BY <1>1, <2>1 DEF Threads
  <2>3. ThreadAgrees' /\ ClimbsBack'
    BY <1>1, <2>2 DEF ThreadAgrees, ClimbsBack, Free, Known
  <2>4. ReservedAgrees'
    BY <1>1, <1>2, <2>1, <2>2, OutputsAssumption DEF Core, ReservedAgrees
  <2>5. AskerAgrees'
    BY <2>1 DEF Core, AskerAgrees
  <2> QED BY <2>3, <2>4, <2>5 DEF Core
<1> QED BY <1>3, <1>4

(* The sink is open: a stream when nothing is reserved, the card when it   *)
(* is, or when there was no bus.                                           *)
LEMMA OpenedKeepsCore ==
  ASSUME Core, thread.busy # "no", NEW out \in Outs, NEW shared \in BOOLEAN, Opened(out, shared),
         UNCHANGED bus,
         out = Card => (thread.noBus <=> held = 0),
         out # Card => held = 0,
         thread.sinks.kind = "fallback" => (out = Card <=> thread.fits)
  PROVE  Core'
<1>1. thread \in Threads /\ Known(thread.sinks)
  BY DEF Core, ThreadAgrees
<1>2. None \notin Outs
  BY OutputsAssumption DEF Outs
<1>3. thread' = [thread EXCEPT !.busy = "no", !.why = "none", !.state = "Playing", !.open = out,
                   !.onShared = IF thread.sinks.kind = "fallback" THEN shared ELSE thread.onShared]
  BY <1>1 DEF Opened, Rests, Threads
<1>4. /\ thread' \in Threads /\ thread'.busy = "no" /\ thread'.state = "Playing"
      /\ thread'.open = out /\ thread'.sinks = thread.sinks /\ thread'.fits = thread.fits
      /\ thread'.noBus = thread.noBus
  BY <1>1, <1>3 DEF Threads, Outs
<1>5. ThreadAgrees'
  BY <1>1, <1>2, <1>4 DEF ThreadAgrees, Known
<1>6. ClimbsBack'
  BY <1>4 DEF ClimbsBack, Free
<1>7. ReservedAgrees'
  BY <1>2, <1>4, OutputsAssumption DEF Core, ReservedAgrees, bus, Outs
<1>8. AskerAgrees'
  BY DEF Core, AskerAgrees, bus
<1> QED BY <1>5, <1>6, <1>7, <1>8 DEF Core

(* A new opening starts with nothing open.                                 *)
LEMMA OpeningKeepsCore ==
  ASSUME ThreadAgrees, held = 0 \/ (held = thread.sinks.number /\ thread.sinks.of = Card),
         owner \in Owners, leftover \in BOOLEAN, leftover => held # 0,
         held # 0 => owner = "phonia" \/ leftover, AskerAgrees,
         NEW t \in Threads, Known(t.sinks), t.sinks = thread.sinks,
         NEW why \in {"start", "resume", "switch"}, thread' = Opening(t, why), UNCHANGED bus
  PROVE  Core'
<1>1. None \notin Outs
  BY OutputsAssumption DEF Outs
<1>2. /\ thread' \in Threads /\ thread'.open = None /\ thread'.sinks = t.sinks
      /\ thread'.busy = IF t.sinks.of = Card THEN "reserving" ELSE "streaming"
  BY DEF Opening, Threads
<1>3. t.sinks.kind = "fallback" => t.sinks.of = Card
  BY DEF Known
<1>4. ThreadAgrees' /\ ClimbsBack'
  BY <1>2, <1>3 DEF ThreadAgrees, ClimbsBack, Free
<1>5. ReservedAgrees'
  BY <1>1, <1>2, OutputsAssumption DEF ReservedAgrees, bus, Outs
<1>6. AskerAgrees'
  BY DEF AskerAgrees, bus
<1> QED BY <1>4, <1>5, <1>6 DEF Core

(* A thread that closes what was open and gives the card back.             *)
LEMMA ClosedKeepsCore ==
  ASSUME Core, Free, NEW state \in {"Stopped", "Paused"},
         thread' = [thread EXCEPT !.state = state, !.open = None], GiveBack
  PROVE  Core'
<1>1. thread \in Threads /\ Known(thread.sinks) /\ None # Card
  BY OutputsAssumption DEF Core, ThreadAgrees
<1>2. /\ thread' \in Threads /\ thread'.busy = "no"
      /\ thread'.open = None /\ thread'.sinks = thread.sinks
  BY <1>1 DEF Threads, Free
<1>3. ThreadAgrees' /\ ClimbsBack'
  BY <1>1, <1>2 DEF ThreadAgrees, ClimbsBack, Free, Known
<1> QED BY <1>1, <1>2, <1>3, GivenBack, CoreWithoutCard

---------------------------------------------------------------------------
(* The thread's part, an action at a time.                                 *)

LEMMA ReserveKeepsCore == ASSUME Core, Reserve PROVE Core'
<1>1. /\ thread \in Threads /\ thread.busy = "reserving" /\ thread.open = None
      /\ thread.sinks.of = Card /\ Known(thread.sinks)
  BY DEF Core, ThreadAgrees, Reserve
<1>2. None # Card
  BY OutputsAssumption
<1>3. CASE thread' = [thread EXCEPT !.busy = "opening", !.noBus = FALSE]
           /\ held' = thread.sinks.number
           /\ UNCHANGED <<asker, leftover>> /\ owner' \in Owners
           /\ (owner' = "phonia" \/ (owner' = owner /\ held # 0))
           /\ (held # 0 => held' = held)
  <2>1. /\ thread' \in Threads /\ thread'.busy = "opening" /\ thread'.open = None
        /\ thread'.sinks = thread.sinks
    BY <1>1, <1>3 DEF Threads
  <2>2. thread'.noBus = FALSE
    BY <1>1, <1>3 DEF Threads
  <2>3. ThreadAgrees' /\ ClimbsBack'
    BY <1>1, <2>1 DEF ThreadAgrees, ClimbsBack, Free, Known
  <2>4. ReservedAgrees'
    BY <1>1, <1>2, <1>3, <2>1, <2>2, OutputsAssumption DEF Core, ReservedAgrees, Known
  <2>5. AskerAgrees'
    BY <1>1, <1>3 DEF Core, AskerAgrees, Known
  <2> QED BY <2>3, <2>4, <2>5 DEF Core
<1>4. CASE /\ held = thread.sinks.number
           /\ thread' = [thread EXCEPT !.busy = "opening", !.noBus = FALSE]
           /\ UNCHANGED bus
  BY <1>1, <1>3, <1>4 DEF bus, Core, ReservedAgrees, Known
<1>5. CASE /\ held # thread.sinks.number
           /\ owner' = "phonia" /\ held' = thread.sinks.number
           /\ thread' = [thread EXCEPT !.busy = "opening", !.noBus = FALSE]
           /\ UNCHANGED <<asker, leftover>>
  BY <1>3, <1>5 DEF Core, ReservedAgrees, Owners
<1>6. CASE /\ held # thread.sinks.number
           /\ thread' = [thread EXCEPT !.busy = "opening", !.noBus = TRUE]
           /\ UNCHANGED bus
  <2>1. /\ thread' \in Threads /\ thread'.busy = "opening" /\ thread'.open = None
        /\ thread'.sinks = thread.sinks /\ thread'.noBus = TRUE
    BY <1>1, <1>6 DEF Threads
  <2>2. ThreadAgrees' /\ ClimbsBack'
    BY <1>1, <2>1 DEF ThreadAgrees, ClimbsBack, Free, Known
  <2>3. held = 0
    BY <1>6 DEF Core, ReservedAgrees
  <2>4. ReservedAgrees'
    BY <1>2, <1>6, <2>1, <2>3 DEF Core, ReservedAgrees, bus
  <2>5. AskerAgrees'
    BY <1>6 DEF Core, AskerAgrees, bus
  <2> QED BY <2>2, <2>4, <2>5 DEF Core
<1>7. CASE OpenFailed
  BY <1>1, <1>7, FailedKeepsCore
<1> QED BY <1>4, <1>5, <1>6, <1>7 DEF Reserve

LEMMA OpenCardKeepsCore == ASSUME Core, OpenCard PROVE Core'
<1>1. /\ thread \in Threads /\ thread.busy = "opening" /\ thread.open = None
      /\ thread.sinks.of = Card /\ Known(thread.sinks)
      /\ (thread.noBus <=> held = 0)
  BY DEF Core, ThreadAgrees, ReservedAgrees, OpenCard
<1>2. None # Card /\ Card \in Outs
  BY OutputsAssumption DEF Outs
<1>3. CASE thread.fits /\ Opened(Card, FALSE) /\ UNCHANGED bus
  BY <1>1, <1>2, <1>3, OpenedKeepsCore
<1>4. CASE OpenFailed
  BY <1>1, <1>4, FailedKeepsCore
<1>5. CASE /\ ~thread.fits /\ thread.sinks.kind = "fallback"
           /\ thread' = [thread EXCEPT !.busy = "streaming"] /\ GiveBack
  <2>1. /\ thread' \in Threads /\ thread'.busy = "streaming" /\ thread'.open = None
        /\ thread'.sinks = thread.sinks /\ thread'.fits = thread.fits
    BY <1>1, <1>5 DEF Threads
  <2>2. ThreadAgrees' /\ ClimbsBack'
    BY <1>1, <1>5, <2>1 DEF ThreadAgrees, ClimbsBack, Free, Known
  <2> QED BY <1>2, <1>5, <2>1, <2>2, GivenBack, CoreWithoutCard
<1> QED BY <1>3, <1>4, <1>5 DEF OpenCard

LEMMA OpenStreamKeepsCore == ASSUME Core, OpenStream PROVE Core'
<1>1. /\ thread \in Threads /\ thread.busy = "streaming" /\ held = 0
      /\ Known(thread.sinks)
      /\ IF thread.sinks.kind = "fallback" THEN ~thread.fits ELSE thread.sinks.of # Card
  BY DEF Core, ThreadAgrees, ReservedAgrees, OpenStream
<1> DEFINE out == IF thread.sinks.kind = "fallback" THEN Fallback ELSE thread.sinks.of
<1>2. CASE Opened(out, TRUE) /\ UNCHANGED bus
  <2>1. out \in Outs /\ out # Card
    BY <1>1, ThreadFields, OutputsAssumption DEF Outs
  <2> QED BY <1>1, <1>2, <2>1, OpenedKeepsCore
<1>3. CASE OpenFailed
  BY <1>1, <1>3, FailedKeepsCore
<1> QED BY <1>2, <1>3 DEF OpenStream

(* A sink that is open plays on.                                           *)
LEMMA PlaysOn ==
  ASSUME Core, Free, thread.open # None, thread' = [thread EXCEPT !.state = "Playing"],
         UNCHANGED bus
  PROVE  Core'
<1>1. /\ thread \in Threads /\ thread.busy = "no"
  BY DEF Core, ThreadAgrees, Free
<1>2. /\ thread' \in Threads /\ thread'.busy = "no" /\ thread'.state = "Playing"
      /\ thread'.open = thread.open /\ thread'.sinks = thread.sinks /\ thread'.fits = thread.fits
      /\ thread'.noBus = thread.noBus
  BY <1>1 DEF Threads
<1>3. ThreadAgrees' /\ ClimbsBack'
  BY <1>1, <1>2 DEF Core, ThreadAgrees, ClimbsBack, Free, Known
<1>4. ReservedAgrees' /\ AskerAgrees'
  BY <1>1, <1>2 DEF Core, ReservedAgrees, AskerAgrees, bus
<1> QED BY <1>3, <1>4 DEF Core

LEMMA StartKeepsCore == ASSUME Core, Start PROVE Core'
<1>1. thread \in Threads /\ thread.busy = "no" /\ Known(thread.sinks) /\ UNCHANGED bus
  BY DEF Core, ThreadAgrees, Start, Free
<1>2. CASE \E fits \in BOOLEAN : thread' = Opening([thread EXCEPT !.fits = fits], "start")
  <2>1. PICK fits \in BOOLEAN : thread' = Opening([thread EXCEPT !.fits = fits], "start")
    BY <1>2
  <2> DEFINE t == [thread EXCEPT !.fits = fits]
  <2>2. t \in Threads /\ t.sinks = thread.sinks
    BY <1>1 DEF Threads
  <2> HIDE DEF t
  <2>3. thread' = Opening(t, "start")
    BY <2>1 DEF t
  <2> QED BY <1>1, <2>2, <2>3, OpeningKeepsCore DEF Core, ReservedAgrees
<1>3. CASE thread.open # None /\ thread' = [thread EXCEPT !.state = "Playing"]
  BY <1>1, <1>3, PlaysOn DEF Free
<1> QED BY <1>2, <1>3 DEF Start

LEMMA PauseKeepsCore == ASSUME Core, Pause PROVE Core'
<1>1. /\ thread \in Threads /\ thread.busy = "no" /\ thread.state = "Playing"
      /\ thread' = [thread EXCEPT !.state = "Paused"] /\ UNCHANGED bus
  BY DEF Core, ThreadAgrees, Pause, Free
<1>2. /\ thread' \in Threads /\ thread'.busy = "no" /\ thread'.state = "Paused"
      /\ thread'.open = thread.open /\ thread'.sinks = thread.sinks /\ thread'.fits = thread.fits
      /\ thread'.noBus = thread.noBus
  BY <1>1 DEF Threads
<1>3. ThreadAgrees' /\ ClimbsBack'
  BY <1>1, <1>2 DEF Core, ThreadAgrees, ClimbsBack, Free, Known
<1>4. ReservedAgrees' /\ AskerAgrees'
  BY <1>1, <1>2 DEF Core, ReservedAgrees, AskerAgrees, bus
<1> QED BY <1>3, <1>4 DEF Core

LEMMA ResumeKeepsCore == ASSUME Core, Resume PROVE Core'
<1>1. thread \in Threads /\ thread.busy = "no" /\ Known(thread.sinks) /\ UNCHANGED bus
  BY DEF Core, ThreadAgrees, Resume, Free
<1>2. CASE thread' = Opening(thread, "resume")
  BY <1>1, <1>2, OpeningKeepsCore DEF Core, ReservedAgrees
<1>3. CASE thread.open # None /\ thread' = [thread EXCEPT !.state = "Playing"]
  BY <1>1, <1>3, PlaysOn DEF Free
<1> QED BY <1>2, <1>3 DEF Resume

LEMMA StopKeepsCore == ASSUME Core, Stop PROVE Core'
BY ClosedKeepsCore DEF Stop

LEMMA ReleaseAfterPauseKeepsCore == ASSUME Core, ReleaseAfterPause PROVE Core'
BY ClosedKeepsCore DEF ReleaseAfterPause, LetGo

LEMMA LoseOutputKeepsCore == ASSUME Core, LoseOutput PROVE Core'
BY ClosedKeepsCore DEF LoseOutput, LetGo

(* A request of another program: at once where nothing is open.            *)
LEMMA TakeReleaseKeepsCore == ASSUME Core, TakeRelease PROVE Core'
<1>1. /\ thread \in Threads /\ thread.busy = "no" /\ asker \in Askers /\ owner \in Owners
      /\ None # Card
  BY OutputsAssumption DEF Core, ThreadAgrees, ReservedAgrees, AskerAgrees, TakeRelease, Free
<1>2. CASE thread.state = "Stopped" \/ thread.open = None
  <2>1. asker' = Granted(asker) /\ UNCHANGED <<thread, held, owner, leftover>>
    BY <1>2 DEF TakeRelease
  <2>2. asker' \in Askers /\ asker'.same = asker.same
    <3>1. CASE asker.step = "waiting"
      <4>1. asker' = [asker EXCEPT !.step = "granted"]
        BY <2>1, <3>1 DEF Granted
      <4> QED BY <1>1, <4>1 DEF Askers
    <3>2. CASE asker.step # "waiting"
      BY <1>1, <2>1, <3>2 DEF Granted
    <3> QED BY <3>1, <3>2
  <2>3. held # 0 => leftover
    BY <1>1, <1>2 DEF Core, ReservedAgrees, ThreadAgrees
  <2>4. AskerAgrees'
    BY <2>1, <2>2, <2>3 DEF Core, AskerAgrees
  <2> QED BY <2>1, <2>4 DEF Core, ThreadAgrees, ReservedAgrees, ClimbsBack, Free
<1>3. CASE ~(thread.state = "Stopped" \/ thread.open = None)
  <2>1. /\ thread' = [thread EXCEPT !.state = "Paused", !.open = None]
        /\ held' = 0 /\ leftover' = FALSE
        /\ owner' = IF held = 0 THEN owner ELSE Freed
        /\ asker' = Granted(IF held = 0 THEN asker ELSE [asker EXCEPT !.same = FALSE])
    BY <1>3 DEF TakeRelease
  <2> DEFINE a == IF held = 0 THEN asker ELSE [asker EXCEPT !.same = FALSE]
  <2>2. a \in Askers /\ a.same = FALSE
    <3>1. CASE held = 0
      BY <1>1, <3>1 DEF Core, AskerAgrees, Askers
    <3>2. CASE held # 0
      BY <1>1, <3>2 DEF Askers
    <3> QED BY <3>1, <3>2
  <2> HIDE DEF a
  <2>3. asker' = IF a.step = "waiting" THEN [a EXCEPT !.step = "granted"] ELSE a
    BY <2>1 DEF Granted, a
  <2>4. asker' \in Askers /\ asker'.same = FALSE
    BY <2>2, <2>3 DEF Askers
  <2>5. owner' \in Owners
    BY <1>1, <2>1 DEF Freed, Owners
  <2>6. /\ thread' \in Threads /\ thread'.busy = "no" /\ thread'.state = "Paused"
        /\ thread'.open = None /\ thread'.sinks = thread.sinks
    BY <1>1, <2>1 DEF Threads
  <2>7. ThreadAgrees' /\ ClimbsBack'
    BY <1>1, <2>6 DEF Core, ThreadAgrees, ClimbsBack, Free, Known
  <2> QED BY <1>1, <2>1, <2>4, <2>5, <2>6, <2>7, CoreWithoutCard
<1> QED BY <1>2, <1>3

(* The first message in the thread's queue.                                *)
LEMMA FirstMessage ==
  ASSUME MailKnown, inbox # <<>>
  PROVE  Head(inbox) \in Messages /\ Known(Head(inbox).sinks)
<1>1. inbox \in Seq(Messages) /\ 1 \in 1 .. Len(inbox) /\ Head(inbox) = inbox[1]
  BY DEF MailKnown
<1> QED BY <1>1 DEF MailKnown

LEMMA TakeSwitchKeepsCore == ASSUME Core, MailKnown, TakeSwitch PROVE Core'
<1>1. /\ thread \in Threads /\ thread.busy = "no" /\ None # Card
  BY OutputsAssumption DEF Core, ThreadAgrees, TakeSwitch, Free
<1> DEFINE sinks == Head(inbox).sinks
<1>2. sinks \in Factories /\ Known(sinks)
  BY FirstMessage DEF TakeSwitch, Messages
<1> HIDE DEF sinks
<1>3. /\ GiveBack
      /\ IF thread.state = "Playing"
           THEN thread' = Opening([[thread EXCEPT !.sinks = sinks, !.open = None] EXCEPT !.state = "Paused"], "switch")
           ELSE thread' = [thread EXCEPT !.sinks = sinks, !.open = None]
  BY DEF TakeSwitch, sinks
<1>4. thread' \in Threads /\ thread'.sinks = sinks /\ thread'.open = None
  BY ZenonT(60), <1>1, <1>2, <1>3 DEF Threads, Opening
<1>5. IF thread.state = "Playing"
        THEN thread'.busy = IF sinks.of = Card THEN "reserving" ELSE "streaming"
        ELSE thread'.busy = "no"
  BY <1>1, <1>2, <1>3 DEF Threads, Opening
<1>6. ThreadAgrees' /\ ClimbsBack'
  BY <1>1, <1>2, <1>4, <1>5 DEF ThreadAgrees, ClimbsBack, Free, Known
<1>7. thread'.busy # "opening"
  BY <1>5
<1> QED BY <1>1, <1>3, <1>4, <1>6, <1>7, GivenBack, CoreWithoutCard

---------------------------------------------------------------------------
(* The bus, and the rest.                                                  *)

(* Who asks, who stops asking, and who takes or leaves the name.           *)
LEMMA BusKeepsCore ==
  ASSUME Core, UNCHANGED <<thread, held, leftover>>,
         owner' \in Owners, asker' \in Askers,
         owner' = owner \/ owner # "phonia" \/ leftover,
         asker'.same => held # 0,
         asker'.step = "granted" /\ asker'.same => leftover
  PROVE  Core'
<1>1. ThreadAgrees' /\ ClimbsBack'
  BY DEF Core, ThreadAgrees, ClimbsBack, Free, Known
<1>2. ReservedAgrees'
  BY DEF Core, ReservedAgrees
<1>3. AskerAgrees'
  BY DEF AskerAgrees
<1> QED BY <1>1, <1>2, <1>3 DEF Core

LEMMA AskKeepsCore == ASSUME Core, Ask PROVE Core'
<1>1. /\ UNCHANGED <<thread, held, leftover, owner>> /\ held # 0
      /\ asker' = [step |-> "waiting", same |-> TRUE]
  BY DEF Ask
<1>2. asker' \in Askers /\ asker'.step = "waiting" /\ owner \in Owners
  BY <1>1 DEF Askers, Core, ReservedAgrees
<1> QED BY <1>1, <1>2, BusKeepsCore

LEMMA AskingEndsKeepsCore ==
  ASSUME Core, GiveUpAsking \/ AnswerAsker
  PROVE  Core'
<1>1. UNCHANGED <<thread, held, leftover>> /\ asker' = [step |-> "idle", same |-> FALSE]
  BY DEF GiveUpAsking, AnswerAsker
<1>2. asker' \in Askers /\ asker'.step = "idle" /\ asker'.same = FALSE
  BY <1>1 DEF Askers
<1>3. owner \in Owners
  BY DEF Core, ReservedAgrees
<1>4. owner' \in Owners /\ (owner' = owner \/ leftover)
  BY <1>3 DEF GiveUpAsking, AnswerAsker, Freed, Owners, Core, AskerAgrees
<1> QED BY <1>1, <1>2, <1>4, BusKeepsCore

LEMMA OthersKeepCore == ASSUME Core, OthersTake \/ OthersGiveBack PROVE Core'
<1>1. /\ UNCHANGED <<thread, held, leftover, asker>>
      /\ owner # "phonia" /\ owner' \in Owners
  BY DEF OthersTake, OthersGiveBack, Owners
<1>2. asker \in Askers /\ (asker.same => held # 0)
      /\ (asker.step = "granted" /\ asker.same => leftover)
  BY DEF Core, AskerAgrees
<1> QED BY <1>1, <1>2, BusKeepsCore

LEMMA CoreUnchanged == ASSUME Core, UNCHANGED <<thread, held, owner, asker, leftover>> PROVE Core'
<1>1. asker \in Askers /\ owner \in Owners /\ (asker.same => held # 0)
      /\ (asker.step = "granted" /\ asker.same => leftover)
  BY DEF Core, AskerAgrees, ReservedAgrees
<1> QED BY <1>1, BusKeepsCore

LEMMA CoreStep == ASSUME Core, MailKnown, Next PROVE Core'
<1>1. CASE Reserve            BY <1>1, ReserveKeepsCore
<1>2. CASE OpenCard           BY <1>2, OpenCardKeepsCore
<1>3. CASE OpenStream         BY <1>3, OpenStreamKeepsCore
<1>4. CASE TakeRelease        BY <1>4, TakeReleaseKeepsCore
<1>5. CASE TakeSwitch         BY <1>5, TakeSwitchKeepsCore
<1>6. CASE GiveUpAsking \/ AnswerAsker    BY <1>6, AskingEndsKeepsCore
<1>7. CASE HearLost \/ FallBack \/ Listed \/ Announce \/ SetOutput
           \/ NoteSwitch \/ NoteListed \/ NoteAnnounce
  BY <1>7, CoreUnchanged DEF HearLost, FallBack, Listed, Announce, SetOutput,
                             NoteSwitch, NoteListed, NoteAnnounce, bus
<1>8. CASE Start              BY <1>8, StartKeepsCore
<1>9. CASE Pause              BY <1>9, PauseKeepsCore
<1>10. CASE Resume            BY <1>10, ResumeKeepsCore
<1>11. CASE Stop              BY <1>11, StopKeepsCore
<1>12. CASE ReleaseAfterPause BY <1>12, ReleaseAfterPauseKeepsCore
<1>13. CASE LoseOutput        BY <1>13, LoseOutputKeepsCore
<1>14. CASE Ask               BY <1>14, AskKeepsCore
<1>15. CASE OthersTake \/ OthersGiveBack  BY <1>15, OthersKeepCore
<1> QED BY <1>1, <1>2, <1>3, <1>4, <1>5, <1>6, <1>7, <1>8, <1>9, <1>10,
           <1>11, <1>12, <1>13, <1>14, <1>15 DEF Next, Works

---------------------------------------------------------------------------
(* What is sent.                                                           *)

Counts == [switches : Nat, opens : Nat, failures : Nat, asks : Nat, fallbacks : Nat]

(* One more of anything is counted.                                        *)
LEMMA SpendCounts ==
  ASSUME spent \in Counts
  PROVE  /\ Spend("switches") => spent' \in Counts
         /\ Spend("opens") => spent' \in Counts
         /\ Spend("failures") => spent' \in Counts
         /\ Spend("asks") => spent' \in Counts
         /\ Spend("fallbacks") => spent' \in Counts
BY DEF Spend, Counts

(* Every step counts one thing, or nothing.                                *)
LEMMA CountsStep == ASSUME spent \in Counts, Next PROVE spent' \in Counts
<1>1. \/ UNCHANGED spent
      \/ Spend("switches") \/ Spend("opens") \/ Spend("failures") \/ Spend("asks")
      \/ Spend("fallbacks")
  BY DEF Next, Works, Reserve, OpenCard, OpenStream, TakeRelease, TakeSwitch, AnswerAsker,
         HearLost, FallBack, Listed, Announce, NoteSwitch, NoteListed, NoteAnnounce,
         Start, Pause, Resume, Stop, ReleaseAfterPause, LoseOutput, Ask, GiveUpAsking,
         OthersTake, OthersGiveBack, SetOutput, Fails, Opens
<1> QED BY <1>1, SpendCounts

(* A message put behind the others, and the first taken off.               *)
LEMMA Sent ==
  ASSUME MailKnown, NEW m \in Messages, Known(m.sinks), inbox' = Append(inbox, m)
  PROVE  inbox' \in Seq(Messages) /\ \A i \in 1 .. Len(inbox') : Known(inbox'[i].sinks)
<1>1. inbox \in Seq(Messages)
  BY DEF MailKnown
<1>2. /\ inbox' \in Seq(Messages) /\ Len(inbox') = Len(inbox) + 1
      /\ \A i \in 1 .. Len(inbox) : inbox'[i] = inbox[i]
      /\ inbox'[Len(inbox) + 1] = m
  BY <1>1
<1> QED BY <1>1, <1>2 DEF MailKnown

LEMMA TakenOff ==
  ASSUME MailKnown, inbox # <<>>, inbox' = Tail(inbox)
  PROVE  inbox' \in Seq(Messages) /\ \A i \in 1 .. Len(inbox') : Known(inbox'[i].sinks)
<1>1. inbox \in Seq(Messages)
  BY DEF MailKnown
<1>2. /\ inbox' \in Seq(Messages) /\ Len(inbox') = Len(inbox) - 1
      /\ \A i \in 1 .. Len(inbox') : inbox'[i] = inbox[i + 1]
  BY <1>1
<1> QED BY <1>1, <1>2 DEF MailKnown

LEMMA BegunSwitchIsKnown ==
  ASSUME MailKnown, NEW out \in Outs, BeginSwitch(out)
  PROVE  inbox' \in Seq(Messages) /\ \A i \in 1 .. Len(inbox') : Known(inbox'[i].sinks)
<1> DEFINE n == 2 + spent.switches + spent.fallbacks
<1> DEFINE m == [what |-> "switch", sinks |-> Plain(n, out)]
<1>1. n \in Nat /\ n # 0
  BY DEF MailKnown
<1> HIDE DEF n
<1>2. m \in Messages /\ Known(m.sinks)
  BY <1>1 DEF Messages, Plain, Factories, Outs, Known
<1>3. inbox' = Append(inbox, m)
  BY DEF BeginSwitch, n
<1> HIDE DEF m
<1> QED BY <1>2, <1>3, Sent

LEMMA MailStep == ASSUME MailKnown, Next PROVE MailKnown'
<1>1. spent' \in Counts
  BY CountsStep DEF MailKnown, Counts
<1>2. inbox' \in Seq(Messages) /\ \A i \in 1 .. Len(inbox') : Known(inbox'[i].sinks)
  <2>1. CASE TakeRelease \/ TakeSwitch
    BY <2>1, TakenOff DEF TakeRelease, TakeSwitch
  <2>2. CASE SetOutput
    BY <2>2, BegunSwitchIsKnown DEF SetOutput, Outs
  <2>3. CASE FallBack
    BY <2>3, BegunSwitchIsKnown, OutputsAssumption DEF FallBack, Outs
  <2>4. CASE Ask
    <3> DEFINE m == [what |-> "release", sinks |-> First]
    <3>1. m \in Messages /\ Known(m.sinks)
      BY DEF Messages, First, Factories, Known
    <3>2. inbox' = Append(inbox, m)
      BY <2>4 DEF Ask
    <3> HIDE DEF m
    <3> QED BY <3>1, <3>2, Sent
  <2>5. CASE UNCHANGED inbox
    BY <2>5 DEF MailKnown
  <2> QED BY <2>1, <2>2, <2>3, <2>4, <2>5
          DEF Next, Works, Reserve, OpenCard, OpenStream, AnswerAsker,
         HearLost, Listed, Announce, NoteSwitch, NoteListed, NoteAnnounce,
         Start, Pause, Resume, Stop, ReleaseAfterPause, LoseOutput, GiveUpAsking,
         OthersTake, OthersGiveBack
<1> QED BY <1>1, <1>2 DEF MailKnown, Counts

---------------------------------------------------------------------------
(* The daemon.                                                             *)

Requests == [step : Steps, to : Streams \cup {Card, None}]
RequestKnown == request \in Requests /\ (request.step # "idle" => request.to \in Outs)

LEMMA AnsweredSwitch ==
  ASSUME RequestKnown, NEW why, AnswerSwitch(why)
  PROVE  RequestKnown'
<1>1. CASE request' = [request EXCEPT !.step = "listing"] /\ request.step = "moving"
  <2>1. request' \in Requests /\ request'.to = request.to
    BY <1>1 DEF RequestKnown, Requests, Steps
  <2> QED BY <1>1, <2>1 DEF RequestKnown
<1>2. CASE request' = request
  BY <1>2 DEF RequestKnown
<1> QED BY <1>1, <1>2 DEF AnswerSwitch

LEMMA RequestStep == ASSUME RequestKnown, Next PROVE RequestKnown'
<1>1. \/ UNCHANGED request
      \/ \E why \in {thread.why, "switch"} : AnswerSwitch(why)
      \/ \E out \in Outs : request' = [step |-> "moving", to |-> out]
      \/ Listed
      \/ request' = NoRequest
  BY OutputsAssumption
     DEF Next, Works, Reserve, OpenCard, OpenStream, TakeRelease, TakeSwitch, AnswerAsker,
         HearLost, FallBack, Announce, NoteSwitch, NoteListed, NoteAnnounce, daemon,
         Start, Pause, Resume, Stop, ReleaseAfterPause, LoseOutput, Ask, GiveUpAsking,
         OthersTake, OthersGiveBack, SetOutput, BeginSwitch, OpenFailed, Opened, Outs
<1>2. CASE UNCHANGED request
  BY <1>2 DEF RequestKnown
<1>3. CASE \E why \in {thread.why, "switch"} : AnswerSwitch(why)
  BY <1>3, AnsweredSwitch
<1>4. CASE \E out \in Outs : request' = [step |-> "moving", to |-> out]
  BY <1>4 DEF RequestKnown, Requests, Steps, Outs
<1>5. CASE Listed
  <2>1. request' = [request EXCEPT !.step = "switched"] /\ request.step = "listing"
    BY <1>5 DEF Listed
  <2>2. request' \in Requests /\ request'.to = request.to
    BY <2>1 DEF RequestKnown, Requests, Steps
  <2> QED BY <2>1, <2>2 DEF RequestKnown
<1>6. CASE request' = NoRequest
  BY <1>6 DEF RequestKnown, Requests, NoRequest, Steps
<1> QED BY <1>1, <1>2, <1>3, <1>4, <1>5, <1>6

(* What the factory says is between outputs there are.                     *)
LEMMA SaidMoves ==
  ASSUME switches \in Seq(Moves), thread \in Threads, NEW shared \in BOOLEAN, MovedTo(shared)
  PROVE  switches' \in Seq(Moves)
<1> DEFINE m == [from |-> IF shared THEN Card ELSE Fallback,
                 to |-> IF shared THEN Fallback ELSE Card, number |-> thread.sinks.number]
<1>1. m \in Moves
  BY ThreadFields, OutputsAssumption DEF Moves, Outs
<1>2. switches' = Append(switches, m) \/ switches' = switches
  BY DEF MovedTo
<1> HIDE DEF m
<1> QED BY <1>1, <1>2

LEMMA SwitchesStep ==
  ASSUME switches \in Seq(Moves), thread \in Threads, Next
  PROVE  switches' \in Seq(Moves)
<1>1. \/ UNCHANGED switches
      \/ \E shared \in BOOLEAN : MovedTo(shared)
      \/ switches # <<>> /\ switches' = Tail(switches)
  BY DEF Next, Works, Reserve, OpenCard, OpenStream, TakeRelease, TakeSwitch, AnswerAsker,
         HearLost, FallBack, Listed, Announce, NoteSwitch, NoteListed, NoteAnnounce,
         Start, Pause, Resume, Stop, ReleaseAfterPause, LoseOutput, Ask, GiveUpAsking,
         OthersTake, OthersGiveBack, SetOutput, Opened
<1>2. CASE \E shared \in BOOLEAN : MovedTo(shared)
  BY <1>2, SaidMoves
<1> QED BY <1>1, <1>2

Notes == [step : Steps \ {"moving"}, to : Streams \cup {Card, None}]
NoteKnown == note \in Notes /\ (note.step # "idle" => note.to \in Outs)

LEMMA NoteStep == ASSUME NoteKnown, switches \in Seq(Moves), Next PROVE NoteKnown'
<1>1. \/ UNCHANGED note
      \/ NoteSwitch
      \/ NoteListed
      \/ note' = NoNote
  BY DEF Next, Works, Reserve, OpenCard, OpenStream, TakeRelease, TakeSwitch, AnswerAsker,
         HearLost, FallBack, Listed, Announce, NoteAnnounce, daemon,
         Start, Pause, Resume, Stop, ReleaseAfterPause, LoseOutput, Ask, GiveUpAsking,
         OthersTake, OthersGiveBack, SetOutput
<1>2. CASE UNCHANGED note
  BY <1>2 DEF NoteKnown
<1>3. CASE NoteSwitch
  <2>1. switches # <<>> /\ Head(switches) \in Moves
    BY <1>3 DEF NoteSwitch
  <2>2. Head(switches).to \in Outs
    BY <2>1 DEF Moves
  <2>3. UNCHANGED note \/ note' = [step |-> "listing", to |-> Head(switches).to]
    BY <1>3 DEF NoteSwitch
  <2> QED BY <2>2, <2>3 DEF NoteKnown, Notes, Steps, Outs
<1>4. CASE NoteListed
  <2>1. note' = [note EXCEPT !.step = "switched"] /\ note.step = "listing"
    BY <1>4 DEF NoteListed
  <2>2. note' \in Notes /\ note'.to = note.to
    BY <2>1 DEF NoteKnown, Notes, Steps
  <2> QED BY <2>1, <2>2 DEF NoteKnown
<1>5. CASE note' = NoNote
  BY <1>5 DEF NoteKnown, Notes, NoNote, Steps
<1> QED BY <1>1, <1>2, <1>3, <1>4, <1>5

LEMMA RouteStep ==
  ASSUME {route, shown} \subseteq Outs, RequestKnown, NoteKnown, Next
  PROVE  {route, shown}' \subseteq Outs
<1>1. \/ UNCHANGED <<route, shown>>
      \/ request.step = "listing" /\ route' = request.to /\ UNCHANGED shown
      \/ note.step = "listing" /\ route' = note.to /\ UNCHANGED shown
      \/ shown' = route /\ UNCHANGED route
  BY DEF Next, Works, Reserve, OpenCard, OpenStream, TakeRelease, TakeSwitch, AnswerAsker,
         HearLost, FallBack, Listed, Announce, NoteSwitch, NoteListed, NoteAnnounce, daemon,
         Start, Pause, Resume, Stop, ReleaseAfterPause, LoseOutput, Ask, GiveUpAsking,
         OthersTake, OthersGiveBack, SetOutput
<1> QED BY <1>1 DEF RequestKnown, NoteKnown

LEMMA DaemonStep == ASSUME Core, DaemonTypes, Next PROVE DaemonTypes'
<1>1. RequestKnown /\ NoteKnown /\ switches \in Seq(Moves) /\ {route, shown} \subseteq Outs
  BY DEF DaemonTypes, RequestKnown, NoteKnown, Requests, Notes
<1>2. thread \in Threads
  BY DEF Core, ThreadAgrees
<1>3. RequestKnown' /\ NoteKnown' /\ switches' \in Seq(Moves) /\ {route, shown}' \subseteq Outs
  BY <1>1, <1>2, RequestStep, NoteStep, SwitchesStep, RouteStep
<1> QED BY <1>3 DEF DaemonTypes, RequestKnown, NoteKnown, Requests, Notes

---------------------------------------------------------------------------
(* The theorems.                                                           *)

LEMMA InitInv == Init => Inv
<1> SUFFICES ASSUME Init PROVE Inv
  OBVIOUS
<1>1. /\ thread \in Threads /\ thread.state = "Stopped" /\ thread.busy = "no"
      /\ thread.open = None /\ thread.sinks = First
  BY DEF Init, Threads, First, Factories
<1>2. Known(First) /\ None # Card
  BY OutputsAssumption DEF First, Known
<1>3. ThreadAgrees /\ ClimbsBack
  BY <1>1, <1>2 DEF ThreadAgrees, ClimbsBack
<1>4. ReservedAgrees
  BY <1>1, <1>2 DEF Init, ReservedAgrees, Owners
<1>5. AskerAgrees
  BY DEF Init, AskerAgrees, Askers
<1>6. MailKnown
  BY DEF Init, MailKnown
<1>7. DaemonTypes
  BY DEF Init, DaemonTypes, NoRequest, NoNote, Steps, Outs
<1> QED BY <1>3, <1>4, <1>5, <1>6, <1>7 DEF Inv, Core

LEMMA StepInv == Inv /\ [Next]_vars => Inv'
<1> SUFFICES ASSUME Inv, [Next]_vars PROVE Inv'
  OBVIOUS
<1>1. CASE Next
  BY <1>1, CoreStep, MailStep, DaemonStep DEF Inv
<1>2. CASE UNCHANGED vars
  <2>1. Core'
    BY <1>2, CoreUnchanged DEF vars, Inv
  <2>2. MailKnown' /\ DaemonTypes'
    BY <1>2 DEF vars, Inv, MailKnown, DaemonTypes
  <2> QED BY <2>1, <2>2 DEF Inv
<1> QED BY <1>1, <1>2

(* Whatever the thread opens and gives back, whoever asks for the card and *)
(* whatever fails: what is reserved, what is open and what was granted     *)
(* agree, and so do the daemon's records of where the sound goes.          *)
THEOREM Invariance == Spec => []Inv
<1> QED BY InitInv, StepInv, PTL DEF Spec

(* The parts have their types, however many outputs and commands.          *)
THEOREM TypesHold == Spec => []TypeOK
<1>1. Inv => TypeOK
  <2> SUFFICES ASSUME Inv PROVE TypeOK
    OBVIOUS
  <2>1. thread \in Threads /\ held \in {0, thread.sinks.number} /\ owner \in Owners
        /\ asker \in Askers
    BY DEF Inv, Core, ThreadAgrees, ReservedAgrees, AskerAgrees
  <2>2. /\ request \in [step : Steps, to : Streams \cup {Card, None}]
        /\ note \in [step : Steps \ {"moving"}, to : Streams \cup {Card, None}]
        /\ {route, shown} \subseteq Outs
    BY DEF Inv, DaemonTypes
  <2>3. Steps \ {"moving"} = {"idle", "listing", "switched"}
    BY DEF Steps
  <2> QED BY <2>1, <2>2, <2>3 DEF TypeOK, Threads, Owners, Askers, Steps, Outs
<1> QED BY <1>1, Invariance, PTL

(* "Who asks gets the card once phonia has given it up, and the name is    *)
(* free": while a sink is open on the card, phonia has its name, unless it *)
(* was given away under a slot left over or there was no bus to ask on.    *)
THEOREM TheCardIsOurs == Spec => []OpenIsReserved
<1>1. Inv => OpenIsReserved
  BY DEF Inv, Core, ReservedAgrees, OpenIsReserved
<1> QED BY <1>1, Invariance, PTL

(* What is not wanted is not kept from the desktop: closed, only what a    *)
(* failed resume or switch left over is.                                   *)
THEOREM TheCardIsGivenBack == Spec => []CardIsGivenBack
<1>1. Inv => CardIsGivenBack
  <2> SUFFICES ASSUME Inv, held # 0 PROVE CardIsGivenBack
    BY DEF CardIsGivenBack
  <2>1. thread \in Threads /\ thread.busy # "streaming" /\ thread.open \notin Streams
    BY DEF Inv, Core, ThreadAgrees, ReservedAgrees
  <2>2. thread.busy = "no" /\ thread.open = None => leftover /\ thread.state = "Paused"
    BY DEF Inv, Core, ReservedAgrees
  <2>3. thread.sinks.of = Card
    BY DEF Inv, Core, ReservedAgrees
  <2> QED BY <2>1, <2>2, <2>3, ThreadFields DEF CardIsGivenBack
<1> QED BY <1>1, Invariance, PTL

(* A factory that fell back opens the card again as soon as a track fits.  *)
THEOREM TheFactoryClimbsBack == Spec => []ClimbsBack
<1>1. Inv => ClimbsBack
  BY DEF Inv, Core
<1> QED BY <1>1, Invariance, PTL
=============================================================================
