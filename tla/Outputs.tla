------------------------------ MODULE Outputs ------------------------------
(***************************************************************************)
(* Where the sound goes, and who has the card.                             *)
(*                                                                         *)
(*   crates/phonia-core/src/output/reserve.rs, dbus.rs   the reservation   *)
(*   crates/phonia-core/src/output/fallback.rs   to shared, and back       *)
(*   crates/phonia-core/src/engine/audio_thread.rs   opening, giving back  *)
(*   crates/phonia-core/src/engine/mod.rs   what others ask the thread     *)
(*   crates/phoniad/src/outputs.rs, daemon.rs   the route clients are told *)
(*                                                                         *)
(* The audio thread opens sinks of the factory it was given.  One that     *)
(* falls back opens the card when the track fits it and the sound server   *)
(* when it does not, and says afterwards which it was.  Other programs ask *)
(* for the card over D-Bus, clients move playback to another output, and   *)
(* the output can be lost.  The daemon follows with what it tells its      *)
(* clients: the route.  The volume is left out.                            *)
(***************************************************************************)
EXTENDS Naturals, Sequences

CONSTANTS
  Card,          \* the exclusive output
  Streams,       \* the shared outputs
  Fallback,      \* the one to fall back to
  None,          \* no output
  MaxSwitches,   \* bound: switches of the output asked for by clients
  MaxOpens,      \* bound: what makes the thread open a sink
  MaxFailures,   \* bound: opens that fail, outputs that are lost
  MaxAsks        \* bound: requests for the card

ASSUME OutputsAssumption ==
  /\ Fallback \in Streams
  /\ Card \notin Streams /\ None \notin Streams \cup {Card}
  /\ {MaxSwitches, MaxOpens, MaxFailures, MaxAsks} \subseteq Nat

VARIABLES
  thread,    \* the audio thread: [state, busy, why, fits, sinks, onShared, noBus, open]
  inbox,     \* what it was sent and has not looked at
  held,      \* the number of the factory whose slot holds a reservation, or 0
  owner,     \* who owns the card's name on the bus
  asker,     \* who asks for the card: [step, same]
  request,   \* the switch under way: [step, to]; its lock is held until it ends
  switches,  \* what the falling-back factory said and fan_in has not heard
  lost,      \* the event that the output was lost: "no", "said" or "heard"
  note,      \* fan_in, while it follows a factory that moved: [step, to]
  route,     \* what the daemon takes for the output
  shown,     \* what clients were told last
  crossed,   \* history: a move of the factory and a switch met
  leftover,  \* history: what is reserved was left by an open that failed
  spent      \* what was used of the bounds
vars == <<thread, inbox, held, owner, asker, request, switches, lost, note,
          route, shown, crossed, leftover, spent>>

bus == <<held, owner, asker, leftover>>
daemon == <<request, lost, note, route, shown, crossed>>

Spend(what) == spent' = [spent EXCEPT ![what] = @ + 1]

---------------------------------------------------------------------------
(* Factories: the first falls back, those of later switches do not.        *)

First == [number |-> 1, kind |-> "fallback", of |-> Card]
Plain(n, out) == [number |-> n, kind |-> "plain", of |-> out]

(* The output a factory's sinks are of: the side it is on.                 *)
EngineOutput ==
  IF thread.sinks.kind = "fallback" /\ thread.onShared THEN Fallback ELSE thread.sinks.of

(* ReservationSlot::release: the connection closes, which frees the name.  *)
Freed == IF owner = "phonia" THEN "nobody" ELSE owner
GiveBack ==
  /\ held' = 0
  /\ owner' = IF held = 0 THEN owner ELSE Freed
  /\ asker' = IF held = 0 THEN asker ELSE [asker EXCEPT !.same = FALSE]
  /\ leftover' = FALSE

(* moved_to: it says so when the side is another.                          *)
MovedTo(shared) ==
  switches' =
    IF thread.sinks.kind = "fallback" /\ thread.onShared # shared
      THEN Append(switches, [from |-> IF shared THEN Card ELSE Fallback,
                             to |-> IF shared THEN Fallback ELSE Card,
                             number |-> thread.sinks.number])
      ELSE switches

---------------------------------------------------------------------------
(* Opening a sink: reserve the card, open it, or the stream.               *)

\* Mutant: a factory that fell back stays on the stream.
OpeningThatStays(t, why) ==
  [t EXCEPT !.open = None, !.why = why,
            !.busy = IF t.sinks.of = Card /\ ~t.onShared THEN "reserving" ELSE "streaming"]

Opening(t, why) ==
  [t EXCEPT !.open = None, !.why = why,
            !.busy = IF t.sinks.of = Card THEN "reserving" ELSE "streaming"]

Rests(t, state) == [t EXCEPT !.busy = "no", !.why = "none", !.state = state]

(* The one who asked for the switch is answered, whatever came of it.      *)
AnswerSwitch(why) ==
  request' = IF why = "switch" /\ request.step = "moving"
               THEN [request EXCEPT !.step = "listing"] ELSE request

(* A start that fails stops the engine, which closes the output.  A resume *)
(* or a switch that fails keeps the track, and what was reserved for it.   *)
OpenFailed ==
  IF thread.why = "start"
    THEN /\ thread' = Rests(thread, "Stopped")
         /\ GiveBack
         /\ UNCHANGED request
    ELSE /\ thread' = Rests(thread, "Paused")
         /\ AnswerSwitch(thread.why)
         /\ leftover' = (held # 0)
         /\ UNCHANGED <<held, owner, asker>>

Opened(out, shared) ==
  /\ thread' = [Rests(thread, "Playing") EXCEPT !.open = out,
                  !.onShared = IF thread.sinks.kind = "fallback" THEN shared ELSE @]
  /\ MovedTo(shared)
  /\ AnswerSwitch(thread.why)

Fails == spent.failures < MaxFailures /\ Spend("failures")

\* Mutant: a slot that holds nothing takes the card without asking for it.
ReserveUnasked ==
  /\ thread.busy = "reserving"
  /\ held' = thread.sinks.number
  /\ thread' = [thread EXCEPT !.busy = "opening", !.noBus = FALSE]
  /\ UNCHANGED <<owner, asker, leftover, request, spent, inbox, switches, lost, note, route,
                 shown, crossed>>

(* ensure, acquire: nothing to do if the slot holds it; else the name is   *)
(* free, or its owner lets go of it, or refuses.  Without a bus the card   *)
(* is opened all the same, with nothing reserved.                          *)
Reserve ==
  /\ thread.busy = "reserving"
  /\ \/ /\ held = thread.sinks.number
        /\ thread' = [thread EXCEPT !.busy = "opening", !.noBus = FALSE]
        /\ UNCHANGED <<bus, request, spent>>
     \/ /\ held # thread.sinks.number
        /\ owner # "phonia"
        /\ owner' = "phonia" /\ held' = thread.sinks.number
        /\ thread' = [thread EXCEPT !.busy = "opening", !.noBus = FALSE]
        /\ UNCHANGED <<asker, leftover, request, spent>>
     \/ /\ held # thread.sinks.number
        /\ thread' = [thread EXCEPT !.busy = "opening", !.noBus = TRUE]
        /\ UNCHANGED <<bus, request, spent>>
     \/ /\ held # thread.sinks.number
        /\ owner = "another"
        /\ Fails
        /\ OpenFailed
  /\ UNCHANGED <<inbox, switches, lost, note, route, shown, crossed>>

(* The card opens, or is busy, or does not do the track's format: only     *)
(* then is it given back, and the stream tried.                            *)
OpenCard ==
  /\ thread.busy = "opening"
  /\ \/ thread.fits /\ Opened(Card, FALSE) /\ UNCHANGED <<bus, spent>>
     \/ thread.fits /\ Fails /\ OpenFailed /\ UNCHANGED switches
     \/ /\ ~thread.fits /\ thread.sinks.kind = "fallback"
        /\ thread' = [thread EXCEPT !.busy = "streaming"]
        /\ GiveBack
        /\ UNCHANGED <<request, switches, spent>>
     \/ ~thread.fits /\ thread.sinks.kind = "plain" /\ OpenFailed /\ UNCHANGED <<switches, spent>>
  /\ UNCHANGED <<inbox, lost, note, route, shown, crossed>>

OpenStream ==
  /\ thread.busy = "streaming"
  /\ \/ /\ Opened(IF thread.sinks.kind = "fallback" THEN Fallback ELSE thread.sinks.of, TRUE)
        /\ UNCHANGED <<bus, spent>>
     \/ Fails /\ OpenFailed /\ UNCHANGED switches
  /\ UNCHANGED <<inbox, lost, note, route, shown, crossed>>

---------------------------------------------------------------------------
(* What the thread does by itself or is told by the listener.              *)

Free == thread.busy = "no"
Opens == spent.opens < MaxOpens /\ Spend("opens")

(* start_track: a sink of the same format is kept.                         *)
Start ==
  /\ Free
  /\ Opens
  /\ \E fits \in BOOLEAN :
       \/ thread' = Opening([thread EXCEPT !.fits = fits], "start")
       \/ thread.open # None /\ fits = thread.fits /\ thread' = [thread EXCEPT !.state = "Playing"]
  /\ UNCHANGED <<inbox, bus, switches, daemon>>

Pause ==
  /\ Free /\ thread.state = "Playing"
  /\ thread' = [thread EXCEPT !.state = "Paused"]
  /\ UNCHANGED <<inbox, bus, switches, daemon, spent>>

Resume ==
  /\ Free /\ thread.state = "Paused"
  /\ IF thread.open = None
       THEN Opens /\ thread' = Opening(thread, "resume")
       ELSE thread' = [thread EXCEPT !.state = "Playing"] /\ UNCHANGED spent
  /\ UNCHANGED <<inbox, bus, switches, daemon>>

Stop ==
  /\ Free /\ thread.state # "Stopped"
  /\ thread' = [thread EXCEPT !.state = "Stopped", !.open = None]
  /\ GiveBack
  /\ UNCHANGED <<inbox, switches, daemon, spent>>

\* Mutant: the output is closed, and what it reserved is kept.
LetGoKeeping ==
  /\ thread' = [thread EXCEPT !.state = "Paused", !.open = None]
  /\ UNCHANGED bus

LetGo ==
  /\ thread' = [thread EXCEPT !.state = "Paused", !.open = None]
  /\ GiveBack

(* release_after_pause.                                                    *)
ReleaseAfterPause ==
  /\ Free /\ thread.state = "Paused" /\ thread.open # None
  /\ LetGo
  /\ UNCHANGED <<inbox, switches, daemon, spent>>

(* output_lost.                                                            *)
LoseOutput ==
  /\ Free /\ thread.open # None
  /\ Fails
  /\ LetGo
  /\ lost' = "said"
  /\ UNCHANGED <<inbox, switches, request, note, route, shown, crossed>>

(* release_output: an engine with no sink says yes at once.                *)
Granted(a) == IF a.step = "waiting" THEN [a EXCEPT !.step = "granted"] ELSE a

TakeRelease ==
  /\ Free /\ inbox # <<>> /\ Head(inbox).what = "release"
  /\ inbox' = Tail(inbox)
  /\ IF thread.state = "Stopped" \/ thread.open = None
       THEN asker' = Granted(asker) /\ UNCHANGED <<thread, held, owner, leftover>>
       ELSE /\ thread' = [thread EXCEPT !.state = "Paused", !.open = None]
            /\ held' = 0
            /\ owner' = IF held = 0 THEN owner ELSE Freed
            /\ leftover' = FALSE
            /\ asker' = Granted(IF held = 0 THEN asker ELSE [asker EXCEPT !.same = FALSE])
  /\ UNCHANGED <<switches, daemon, spent>>

\* Mutant: the sinks are replaced, and what they reserved is kept.
TakeSwitchKeeping ==
  /\ Free /\ inbox # <<>> /\ Head(inbox).what = "switch"
  /\ inbox' = Tail(inbox)
  /\ UNCHANGED bus
  /\ LET moved == [thread EXCEPT !.sinks = Head(inbox).sinks, !.open = None]
     IN IF thread.state = "Playing"
          THEN thread' = Opening([moved EXCEPT !.state = "Paused"], "switch") /\ UNCHANGED request
          ELSE thread' = moved /\ AnswerSwitch("switch")
  /\ UNCHANGED <<switches, lost, note, route, shown, crossed, spent>>

(* set_output: the old output is closed and given back, and the new one    *)
(* opened if it was playing.                                               *)
TakeSwitch ==
  /\ Free /\ inbox # <<>> /\ Head(inbox).what = "switch"
  /\ inbox' = Tail(inbox)
  /\ GiveBack
  /\ LET moved == [thread EXCEPT !.sinks = Head(inbox).sinks, !.open = None]
     IN IF thread.state = "Playing"
          THEN thread' = Opening([moved EXCEPT !.state = "Paused"], "switch") /\ UNCHANGED request
          ELSE thread' = moved /\ AnswerSwitch("switch")
  /\ UNCHANGED <<switches, lost, note, route, shown, crossed, spent>>

---------------------------------------------------------------------------
(* Other programs on the bus.  One that asks phonia for the card waits at  *)
(* most 3 s; when it is granted, phonia gives up the name as well, on the  *)
(* connection that was asked.                                              *)

Ask ==
  /\ owner = "phonia" /\ held # 0
  /\ asker.step = "idle"
  /\ spent.asks < MaxAsks /\ Spend("asks")
  /\ asker' = [step |-> "waiting", same |-> TRUE]
  /\ inbox' = Append(inbox, [what |-> "release", sinks |-> First])
  /\ UNCHANGED <<thread, held, owner, leftover, switches, daemon>>

GiveUpAsking ==
  /\ asker.step = "waiting"
  /\ asker' = [step |-> "idle", same |-> FALSE]
  /\ UNCHANGED <<thread, inbox, held, owner, leftover, switches, daemon, spent>>

AnswerAsker ==
  /\ asker.step = "granted"
  /\ asker' = [step |-> "idle", same |-> FALSE]
  /\ owner' = IF asker.same THEN Freed ELSE owner
  /\ UNCHANGED <<thread, inbox, held, leftover, switches, daemon, spent>>

OthersTake ==
  /\ owner = "nobody"
  /\ owner' = "another"
  /\ UNCHANGED <<thread, inbox, held, asker, leftover, switches, daemon, spent>>

OthersGiveBack ==
  /\ owner = "another"
  /\ owner' = "nobody"
  /\ UNCHANGED <<thread, inbox, held, asker, leftover, switches, daemon, spent>>

---------------------------------------------------------------------------
(* The daemon: set_output, under its lock, and fan_in, without it.         *)

NoNote == [step |-> "idle", to |-> None]
NoRequest == [step |-> "idle", to |-> None]

BeginSwitch(out) ==
  /\ request.step = "idle"
  /\ request' = [step |-> "moving", to |-> out]
  /\ inbox' = Append(inbox, [what |-> "switch",
                             sinks |-> Plain(2 + spent.switches + spent.fallbacks, out)])
  /\ crossed' = (crossed \/ note.step # "idle" \/ switches # <<>>)

SetOutput ==
  /\ spent.switches < MaxSwitches /\ Spend("switches")
  /\ \E out \in Streams \cup {Card} : BeginSwitch(out)
  /\ UNCHANGED <<thread, bus, switches, lost, note, route, shown>>

(* fan_in hears that the output was lost: only from the card does it go    *)
(* somewhere else.                                                         *)
HearLost ==
  /\ lost = "said" /\ note.step = "idle"
  /\ lost' = IF route = Card THEN "heard" ELSE "no"
  /\ UNCHANGED <<thread, inbox, bus, switches, request, note, route, shown, crossed, spent>>

FallBack ==
  /\ lost = "heard"
  /\ lost' = "no"
  /\ Spend("fallbacks")
  /\ BeginSwitch(Fallback)
  /\ UNCHANGED <<thread, bus, switches, note, route, shown>>

(* set_output waits 30 s for the thread, which takes less while it works.  *)
(* announce_output: the outputs are listed, then the route is changed, and *)
(* told.                                                                   *)
Listed ==
  /\ request.step = "listing"
  /\ route' = request.to
  /\ request' = [request EXCEPT !.step = "switched"]
  /\ UNCHANGED <<thread, inbox, bus, switches, lost, note, shown, crossed, spent>>

Announce ==
  /\ request.step = "switched"
  /\ shown' = route
  /\ request' = NoRequest
  /\ UNCHANGED <<thread, inbox, bus, switches, lost, note, route, crossed, spent>>

\* Mutant: the factory's moves back to the card are taken for stale.
NoteSwitchToStream ==
  /\ note.step = "idle"
  /\ switches # <<>>
  /\ switches' = Tail(switches)
  /\ LET said == Head(switches)
     IN IF route # said.from \/ said.to = Card
          THEN UNCHANGED <<note, crossed>>
          ELSE /\ note' = [step |-> "listing", to |-> said.to]
               /\ crossed' = (crossed \/ request.step # "idle"
                                      \/ said.number # thread.sinks.number)
  /\ UNCHANGED <<thread, inbox, bus, request, lost, route, shown, spent>>

(* note_fallback_switch: a move from an output that is not the route any   *)
(* more is stale.                                                          *)
NoteSwitch ==
  /\ note.step = "idle"
  /\ switches # <<>>
  /\ switches' = Tail(switches)
  /\ LET said == Head(switches)
     IN IF route # said.from
          THEN UNCHANGED <<note, crossed>>
          ELSE /\ note' = [step |-> "listing", to |-> said.to]
               /\ crossed' = (crossed \/ request.step # "idle"
                                      \/ said.number # thread.sinks.number)
  /\ UNCHANGED <<thread, inbox, bus, request, lost, route, shown, spent>>

NoteListed ==
  /\ note.step = "listing"
  /\ route' = note.to
  /\ note' = [note EXCEPT !.step = "switched"]
  /\ UNCHANGED <<thread, inbox, bus, switches, request, lost, shown, crossed, spent>>

NoteAnnounce ==
  /\ note.step = "switched"
  /\ shown' = route
  /\ note' = NoNote
  /\ UNCHANGED <<thread, inbox, bus, switches, request, lost, route, crossed, spent>>

---------------------------------------------------------------------------
Init ==
  /\ thread = [state |-> "Stopped", busy |-> "no", why |-> "none", fits |-> TRUE,
               sinks |-> First, onShared |-> FALSE, noBus |-> FALSE, open |-> None]
  /\ inbox = <<>>
  /\ held = 0
  /\ owner \in {"nobody", "another"}
  /\ asker = [step |-> "idle", same |-> FALSE]
  /\ request = NoRequest
  /\ switches = <<>>
  /\ lost = "no"
  /\ note = NoNote
  /\ route = Card
  /\ shown = Card
  /\ crossed = FALSE
  /\ leftover = FALSE
  /\ spent = [switches |-> 0, opens |-> 0, failures |-> 0, asks |-> 0, fallbacks |-> 0]

Works ==
  \/ Reserve \/ OpenCard \/ OpenStream \/ TakeRelease \/ TakeSwitch
  \/ AnswerAsker \/ HearLost \/ FallBack \/ Listed \/ Announce
  \/ NoteSwitch \/ NoteListed \/ NoteAnnounce

Next ==
  \/ Works
  \/ Start \/ Pause \/ Resume \/ Stop \/ ReleaseAfterPause \/ LoseOutput
  \/ Ask \/ GiveUpAsking \/ OthersTake \/ OthersGiveBack \/ SetOutput

Spec == Init /\ [][Next]_vars

(* The thread and the daemon do what is before them; nobody else has to.   *)
Fairness ==
  /\ WF_vars(Reserve) /\ WF_vars(OpenCard) /\ WF_vars(OpenStream)
  /\ WF_vars(TakeRelease) /\ WF_vars(TakeSwitch) /\ WF_vars(AnswerAsker)
  /\ WF_vars(HearLost) /\ WF_vars(FallBack) /\ WF_vars(Listed) /\ WF_vars(Announce)
  /\ WF_vars(NoteSwitch) /\ WF_vars(NoteListed) /\ WF_vars(NoteAnnounce)

FairSpec == Spec /\ Fairness
=============================================================================
