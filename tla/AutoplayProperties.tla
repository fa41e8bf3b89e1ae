------------------------- MODULE AutoplayProperties -------------------------
(***************************************************************************)
(* What listeners may expect of autoplay and of their requests.            *)
(***************************************************************************)
EXTENDS Autoplay

Entries == 1 .. MaxEntries

(* The parts have their types; an entry is in the queue once, the cursor   *)
(* is at the current one, and one fetch at most may still matter.          *)
TypeOK ==
  /\ ToSet(queue.items) \subseteq 1 .. used /\ IsInjective(queue.items)
  /\ queue.after \in 0 .. Len(queue.items) /\ queue.autoplay \in BOOLEAN
  /\ queue.current # None => queue.after > 0 /\ queue.items[queue.after] = queue.current
  /\ used \in Entries
  /\ engine \in [state : {"Stopped", "Loading", "Playing"}, track : 0 .. MaxEntries,
                 load : {"nothing", "next", "track", "dry", "gone"},
                 wanted : 0 .. MaxEntries, starts : Nat]
  /\ Range(heard) \subseteq 0 .. MaxEntries /\ changed \in BOOLEAN
  /\ fan \in [step : {"idle", "due", "playing"}, entry : 0 .. MaxEntries, early : BOOLEAN]
  /\ state.generation \in Nat
  /\ \A f \in fetches : f.generation <= state.generation
  /\ landing.step \in {"none", "landed", "due", "wanted", "added"}
  /\ client.step \in {"idle", "clearing", "commanding", "removing", "skipping"}
  /\ client.step = "idle" \/ landing.step = "none"

(* "An explicit Stop: a fetch already in flight must not resume playback", *)
(* and "removing the last entry that played must not start playback": once *)
(* the engine has handled a Stop, or the one that goes with clearing the   *)
(* queue, it stays stopped until a listener asks for music.  Only a fetch  *)
(* begun or a skip sent while the Stop was still before the engine can     *)
(* break it, and what the music that starts then leads to.                 *)
StaysSilent ==
  silent /\ client.step \notin {"clearing", "commanding"} /\ ~StopPending /\ ~early =>
    engine.state = "Stopped" /\ inbox = <<>>

(* A queue that has run dry under a radio goes on with what it brings,     *)
(* unless it brings nothing or a client asks for something.  The radio is  *)
(* the only one: one that had landed and was being added does not start    *)
(* what it adds, and keeps the next one from adding anything.              *)
GoesOn ==
  \A n \in 0 .. MaxRequests :
    (/\ state.resume /\ engine.state = "Stopped" /\ Due = state.entry /\ LockFree
     /\ requests = n /\ used < MaxEntries)
      ~> (engine.state # "Stopped" \/ empty \/ requests > n)

(* What a radio brings follows the entry it was asked for, with nothing a  *)
(* client added in between, whatever happened while it was under way.      *)
RadioFollowsItsEntry ==
  [][landing.step = "wanted" /\ landing'.step # "wanted" => Last(queue.items) = landing.entry]_vars

(* Removing what plays skips it and nothing else, unless the engine moved  *)
(* on to another track by itself after it was looked at.                   *)
SkipsTheRemoved ==
  [][Take /\ Head(inbox).what = "next" /\ Head(inbox).id # None =>
       \/ engine.track = None
       \/ engine.track \notin ToSet(queue.items)
       \/ engine.starts # Head(inbox).starts]_vars
=============================================================================
