------------------------------ MODULE Autoplay ------------------------------
(***************************************************************************)
(* Autoplay, and the clients it has to get along with.                     *)
(*                                                                         *)
(*   crates/phoniad/src/autoplay.rs       which radio is under way         *)
(*   crates/phoniad/src/daemon.rs         when one is due, what it adds    *)
(*   crates/phonia-core/src/control.rs    what a request does to the queue *)
(*                                        and to the engine                *)
(*                                                                         *)
(* When nothing follows the entry that plays, the daemon fetches its radio *)
(* and appends it; if the queue ran dry before it arrived, it starts what  *)
(* it added.  The engine takes commands from a channel and what comes next *)
(* from the queue; the daemon hears of it later.  Module Queue has the     *)
(* whole queue, Engine the whole engine: here the queue keeps its order    *)
(* and does not repeat, and a track starts as it is loaded.                *)
(***************************************************************************)
EXTENDS Naturals, Sequences, SequencesExt

CONSTANTS
  Local,         \* entries that are files, and have no radio
  MaxEntries,    \* bound: entries there ever are
  MaxRequests,   \* bound: requests of clients
  MaxFetches     \* bound: radios asked for, those called off included

ASSUME AutoplayAssumption ==
  /\ MaxEntries \in Nat \ {0} /\ {MaxRequests, MaxFetches} \subseteq Nat
  /\ Local \subseteq 1 .. MaxEntries

VARIABLES
  queue,     \* [items, current, after, autoplay]; what comes next is items[after + 1]
  used,      \* entries there have been
  engine,    \* [state, track, load, starts]
  inbox,     \* its commands
  heard,     \* its events that fan_in has not heard
  changed,   \* the queue changed, and fan_in has not heard
  fan,       \* fan_in, considering autoplay: [step, entry, early]
  state,     \* autoplay's own: [generation, entry, fetching, resume, seeded]
  fetches,   \* radios under way: [entry, generation]
  landing,   \* the one that landed, under the control lock
  client,    \* the request under the control lock: [step, what, ids, ...]
  silent,    \* history: a listener asked for silence, and for nothing since
  early,     \* history: and what the engine did before it is being acted on
  empty,     \* history: radios that brought nothing
  requests   \* the requests so far
vars == <<queue, used, engine, inbox, heard, changed, fan, state, fetches, landing,
          client, silent, early, empty, requests>>

None == 0
player == <<queue, used, engine, heard, changed>>
history == <<silent, early>>

---------------------------------------------------------------------------
(* The queue.                                                              *)

(* autoplay_due: the entry nothing follows.                                *)
Due == IF queue.autoplay /\ queue.current # None /\ queue.after = Len(queue.items)
         THEN queue.current ELSE None

AtEntry(id) ==
  [queue EXCEPT !.current = id,
                !.after = CHOOSE i \in DOMAIN queue.items : queue.items[i] = id]

\* Mutant: the slot a removed entry left is not followed.
RemovedLeavingIt(id) ==
  LET at == CHOOSE i \in DOMAIN queue.items : queue.items[i] = id
  IN [queue EXCEPT !.items = RemoveAt(@, at), !.current = IF @ = id THEN None ELSE @]

Removed(id) ==
  LET at == CHOOSE i \in DOMAIN queue.items : queue.items[i] = id
  IN [queue EXCEPT !.items = RemoveAt(@, at),
                   !.current = IF @ = id THEN None ELSE @,
                   !.after = IF at <= @ THEN @ - 1 ELSE @]

Appended == [queue EXCEPT !.items = Append(@, used + 1)]

---------------------------------------------------------------------------
(* The engine.                                                             *)

Stopped == [engine EXCEPT !.state = "Stopped", !.track = None, !.load = "nothing",
                              !.wanted = None]
Loading(what, id) ==
  [engine EXCEPT !.state = "Loading", !.track = None, !.load = what, !.wanted = id]
Playing(id) == [engine EXCEPT !.state = "Playing", !.track = id, !.load = "nothing",
                              !.wanted = None, !.starts = @ + 1]

Take ==
  /\ inbox # <<>> /\ engine.load # "gone"
  /\ inbox' = Tail(inbox)
  /\ LET command == Head(inbox)
     IN engine' = CASE command.what = "stop" -> Stopped
                    [] command.what = "next" -> Loading("next", None)
                    [] command.what = "play" -> Loading("track", command.id)
                    [] command.what = "start" -> IF engine.state = "Stopped"
                                                   THEN Loading("next", None) ELSE engine
  /\ UNCHANGED <<queue, used, heard, changed, fan, state, fetches, landing, client, history,
                 empty, requests>>

Starts(id) ==
  /\ queue' = AtEntry(id)
  /\ engine' = Playing(id)
  /\ heard' = Append(heard, id)
  /\ changed' = TRUE
  /\ UNCHANGED <<used, inbox, fan, state, fetches, landing, client, history, empty, requests>>

Follows == queue.after < Len(queue.items)

(* The track asked for is opened, or the one that comes next.              *)
Load ==
  \/ /\ engine.load = "next" /\ Follows
     /\ Starts(queue.items[queue.after + 1])
  \/ /\ engine.load = "track" /\ engine.wanted \in ToSet(queue.items)
     /\ Starts(engine.wanted)
  \/ /\ engine.load = "track" /\ engine.wanted \notin ToSet(queue.items)
     /\ engine' = Stopped
     /\ UNCHANGED <<queue, used, inbox, heard, changed, fan, state, fetches, landing, client,
                    history, empty, requests>>

(* Nothing comes next: the answer is under way to the thread, which says   *)
(* so and stops, in that order.                                            *)
RunDry ==
  /\ engine.load = "next" /\ ~Follows
  /\ engine' = [engine EXCEPT !.load = "dry"]
  /\ UNCHANGED <<queue, used, inbox, heard, changed, fan, state, fetches, landing, client,
                 history, empty, requests>>

SayDry ==
  /\ engine.load = "dry"
  /\ engine' = [engine EXCEPT !.load = "gone"]
  /\ heard' = Append(heard, None)
  /\ UNCHANGED <<queue, used, inbox, changed, fan, state, fetches, landing, client, history,
                 empty, requests>>

StopDry ==
  /\ engine.load = "gone"
  /\ engine' = Stopped
  /\ UNCHANGED <<queue, used, inbox, heard, changed, fan, state, fetches, landing, client,
                 history, empty, requests>>

(* A track ends: what follows is joined on, or asked for.                  *)
Finish ==
  /\ engine.state = "Playing"
  /\ \/ Follows /\ Starts(queue.items[queue.after + 1])
     \/ /\ engine' = Loading("next", None)
        /\ UNCHANGED <<queue, used, inbox, heard, changed, fan, state, fetches, landing, client,
                       history, empty, requests>>

---------------------------------------------------------------------------
(* Autoplay's own state.                                                   *)

Begin(entry) == [state EXCEPT !.generation = @ + 1, !.entry = entry, !.fetching = TRUE,
                              !.resume = FALSE]

\* Mutant: cancelling leaves the radio under way be.
CancelLeavingIt == [state EXCEPT !.resume = FALSE]

Cancel == [state EXCEPT !.generation = @ + 1, !.entry = None, !.fetching = FALSE,
                        !.resume = FALSE]

\* Mutant: whether to resume is forgotten as the radio lands.
FinishedForgetting(fetch) ==
  [wanted |-> state.fetching /\ fetch.generation = state.generation, resume |-> FALSE]

Finished(fetch) ==
  [wanted |-> state.fetching /\ fetch.generation = state.generation, resume |-> state.resume]

---------------------------------------------------------------------------
(* fan_in hears of the engine and of the queue, in no order between them,  *)
(* and considers autoplay after most of it.                                *)

Idle == [step |-> "idle", entry |-> None, early |-> FALSE]
Considers == IF Due = None THEN Idle ELSE [Idle EXCEPT !.step = "due", !.entry = Due]

HearStarted ==
  /\ fan.step = "idle" /\ heard # <<>> /\ Head(heard) # None
  /\ heard' = Tail(heard)
  /\ state' = [state EXCEPT !.seeded = @ \/ Head(heard) \in ToSet(queue.items) \ Local]
  /\ fan' = Considers
  /\ UNCHANGED <<queue, used, engine, changed, inbox, fetches, landing, client, history, empty,
                 requests>>

HearDry ==
  /\ fan.step = "idle" /\ heard # <<>> /\ Head(heard) = None
  /\ heard' = Tail(heard)
  /\ state' = [state EXCEPT !.resume = @ \/ (state.fetching /\ state.entry = queue.current)]
  /\ UNCHANGED <<queue, used, engine, changed, inbox, fan, fetches, landing, client, history,
                 empty, requests>>

HearChange ==
  /\ fan.step = "idle" /\ changed
  /\ changed' = FALSE
  /\ fan' = Considers
  /\ UNCHANGED <<queue, used, engine, heard, inbox, state, fetches, landing, client, history,
                 empty, requests>>

StopPending == \E i \in DOMAIN inbox : inbox[i].what = "stop"
StopIsToCome == ~silent \/ client.step \in {"clearing", "commanding"} \/ StopPending

(* consider_autoplay: the engine's state is read after the queue's, and    *)
(* what it led to is begun after that.                                     *)
Consider ==
  /\ fan.step = "due"
  /\ fan' = IF engine.state = "Stopped" THEN Idle
            ELSE [fan EXCEPT !.step = "playing",
                             !.early = early \/ StopIsToCome]
  /\ UNCHANGED <<player, inbox, state, fetches, landing, client, history, empty, requests>>

BeginRadio ==
  /\ fan.step = "playing"
  /\ fan' = Idle
  /\ IF state.fetching /\ state.entry = fan.entry
       THEN UNCHANGED <<state, fetches, early>>
       ELSE /\ early' = (early \/ (silent /\ fan.early))
            /\ IF fan.entry \in ToSet(queue.items) \ Local \/ state.seeded
                 THEN /\ state.generation < MaxFetches
                      /\ state' = Begin(fan.entry)
                      /\ fetches' = fetches \cup
                           {[entry |-> fan.entry, generation |-> state.generation + 1]}
                 ELSE /\ state' = [Begin(fan.entry) EXCEPT !.fetching = FALSE]
                      /\ UNCHANGED fetches
  /\ UNCHANGED <<player, inbox, landing, client, silent, empty, requests>>

---------------------------------------------------------------------------
(* run_autoplay: what a radio brings is added under the control lock.      *)

NoLanding == [step |-> "none", entry |-> None, resume |-> FALSE]
LockFree == client.step = "idle" /\ landing.step = "none"

\* Mutant: a radio lands without the control lock.
LandUnlocked ==
  /\ landing.step = "none"
  /\ \E fetch \in fetches, brings \in BOOLEAN :
       /\ fetches' = fetches \ {fetch}
       /\ IF Finished(fetch).wanted
            THEN /\ state' = [state EXCEPT !.fetching = FALSE, !.resume = FALSE]
                 /\ landing' = IF brings
                      THEN [step |-> "landed", entry |-> fetch.entry, resume |-> Finished(fetch).resume]
                      ELSE NoLanding
                 /\ empty' = (empty \/ ~brings)
            ELSE UNCHANGED <<state, landing, empty>>
  /\ UNCHANGED <<player, inbox, fan, client, history, requests>>

(* The answer, or the 15 s it is given.                                    *)
Land ==
  /\ LockFree
  /\ \E fetch \in fetches, brings \in BOOLEAN :
       /\ fetches' = fetches \ {fetch}
       /\ IF Finished(fetch).wanted
            THEN /\ state' = [state EXCEPT !.fetching = FALSE, !.resume = FALSE]
                 /\ landing' = IF brings
                      THEN [step |-> "landed", entry |-> fetch.entry, resume |-> Finished(fetch).resume]
                      ELSE NoLanding
                 /\ empty' = (empty \/ ~brings)
            ELSE UNCHANGED <<state, landing, empty>>
  /\ UNCHANGED <<player, inbox, fan, client, history, requests>>

(* Is it still due, and is anything playing?                               *)
Recheck ==
  /\ landing.step = "landed"
  /\ landing' = IF Due = landing.entry THEN [landing EXCEPT !.step = "due"] ELSE NoLanding
  /\ UNCHANGED <<player, inbox, fan, state, fetches, client, history, empty, requests>>

RecheckState ==
  /\ landing.step = "due"
  /\ landing' = IF engine.state = "Stopped" /\ ~landing.resume THEN NoLanding
                ELSE [landing EXCEPT !.step = "wanted"]
  /\ UNCHANGED <<player, inbox, fan, state, fetches, client, history, empty, requests>>

AddRadio ==
  /\ landing.step = "wanted"
  /\ used < MaxEntries
  /\ used' = used + 1
  /\ queue' = Appended
  /\ changed' = TRUE
  /\ landing' = IF landing.resume THEN [landing EXCEPT !.step = "added", !.entry = used + 1]
                ELSE NoLanding
  /\ UNCHANGED <<engine, heard, inbox, fan, state, fetches, client, history, empty, requests>>

(* What it added is removed by nobody before it is played: the lock.       *)
PlayRadio ==
  /\ landing.step = "added"
  /\ landing' = NoLanding
  /\ inbox' = IF engine.state = "Stopped"
                THEN Append(inbox, [what |-> "play", id |-> landing.entry, starts |-> 0])
                ELSE inbox
  /\ UNCHANGED <<player, fan, state, fetches, client, history, empty, requests>>

---------------------------------------------------------------------------
(* Requests of clients, one at a time under the control lock.              *)

NoRequest == [step |-> "idle", what |-> "none", id |-> None, playing |-> None, starts |-> 0]
Asks == LockFree /\ requests < MaxRequests /\ requests' = requests + 1

Command(what, id, starts) == inbox' = Append(inbox, [what |-> what, id |-> id, starts |-> starts])

(* Music is asked for: Play, with an entry or without, and Next.           *)
AskToPlay ==
  /\ Asks
  /\ \/ \E id \in ToSet(queue.items) : Command("play", id, 0)
     \/ \E what \in {"start", "next"} : Command(what, None, 0)
  /\ silent' = FALSE /\ early' = FALSE
  /\ UNCHANGED <<player, fan, state, fetches, landing, client, empty>>

(* Stop, and clearing the queue: first autoplay is called off.             *)
AskForSilence ==
  /\ Asks
  /\ state' = Cancel
  /\ \E what \in {"stop", "clear"} :
       client' = [NoRequest EXCEPT !.step = IF what = "stop" THEN "commanding" ELSE "clearing",
                                   !.what = what]
  /\ silent' = TRUE /\ early' = FALSE
  /\ UNCHANGED <<player, inbox, fan, fetches, landing, empty>>

ClearQueue ==
  /\ client.step = "clearing"
  /\ queue' = [queue EXCEPT !.items = <<>>, !.current = None, !.after = 0]
  /\ changed' = TRUE
  /\ client' = [client EXCEPT !.step = "commanding"]
  /\ UNCHANGED <<used, engine, heard, inbox, fan, state, fetches, landing, history, empty,
                 requests>>

CommandStop ==
  /\ client.step = "commanding"
  /\ client' = NoRequest
  /\ Command("stop", None, 0)
  /\ UNCHANGED <<player, fan, state, fetches, landing, history, empty, requests>>

(* playing_entry: nothing plays in an engine that is stopped.              *)
PlayingEntry == IF engine.state = "Stopped" THEN None ELSE queue.current

AskToRemove ==
  /\ Asks
  /\ \E id \in ToSet(queue.items) :
       /\ client' = [NoRequest EXCEPT !.step = "removing", !.id = id, !.playing = PlayingEntry,
                                      !.starts = engine.starts]
       /\ early' = (early \/ (silent /\ StopPending /\ PlayingEntry = id))
  /\ UNCHANGED <<player, inbox, fan, state, fetches, landing, silent, empty>>

\* Mutant: whatever plays is skipped.
RemoveAndSkip ==
  /\ client.step = "removing"
  /\ queue' = Removed(client.id)
  /\ changed' = TRUE
  /\ client' = IF client.playing # None THEN [client EXCEPT !.step = "skipping"] ELSE NoRequest
  /\ UNCHANGED <<used, engine, heard, inbox, fan, state, fetches, landing, history, empty,
                 requests>>

RemoveEntry ==
  /\ client.step = "removing"
  /\ queue' = Removed(client.id)
  /\ changed' = TRUE
  /\ client' = IF client.playing = client.id THEN [client EXCEPT !.step = "skipping"] ELSE NoRequest
  /\ UNCHANGED <<used, engine, heard, inbox, fan, state, fetches, landing, history, empty,
                 requests>>

Skip ==
  /\ client.step = "skipping"
  /\ client' = NoRequest
  /\ Command("next", client.id, client.starts)
  /\ UNCHANGED <<player, fan, state, fetches, landing, history, empty, requests>>

AskToAdd ==
  /\ Asks
  /\ used < MaxEntries
  /\ used' = used + 1
  /\ queue' = Appended
  /\ changed' = TRUE
  /\ UNCHANGED <<engine, heard, inbox, fan, state, fetches, landing, client, history, empty>>

AskToSetAutoplay ==
  /\ Asks
  /\ queue' = [queue EXCEPT !.autoplay = ~@]
  /\ changed' = TRUE
  /\ UNCHANGED <<used, engine, heard, inbox, fan, state, fetches, landing, client, history,
                 empty>>

---------------------------------------------------------------------------
Init ==
  /\ queue = [items |-> <<1>>, current |-> None, after |-> 0, autoplay |-> TRUE]
  /\ used = 1
  /\ engine = [state |-> "Stopped", track |-> None, load |-> "nothing",
             wanted |-> None, starts |-> 0]
  /\ inbox = <<>>
  /\ heard = <<>>
  /\ changed = FALSE
  /\ fan = Idle
  /\ state = [generation |-> 0, entry |-> None, fetching |-> FALSE, resume |-> FALSE,
              seeded |-> FALSE]
  /\ fetches = {}
  /\ landing = NoLanding
  /\ client = NoRequest
  /\ silent = FALSE
  /\ early = FALSE
  /\ empty = FALSE
  /\ requests = 0

Working == Take \/ Load \/ RunDry \/ SayDry \/ StopDry
Daemon == HearStarted \/ HearDry \/ HearChange \/ Consider \/ BeginRadio
Radio == Land \/ Recheck \/ RecheckState \/ AddRadio \/ PlayRadio
Request == ClearQueue \/ CommandStop \/ RemoveEntry \/ Skip

Next ==
  \/ Working \/ Daemon \/ Radio \/ Request \/ Finish
  \/ AskToPlay \/ AskForSilence \/ AskToRemove \/ AskToAdd \/ AskToSetAutoplay

Spec == Init /\ [][Next]_vars

(* The thread and the tasks do what is before them; a radio is answered or *)
(* timed out.  Tracks need not end, and nobody has to ask.                 *)
FairSpec ==
  Spec /\ WF_vars(Working) /\ WF_vars(Daemon) /\ WF_vars(Radio) /\ WF_vars(Request)
=============================================================================
