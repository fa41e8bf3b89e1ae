------------------------- MODULE OutputsProperties -------------------------
(***************************************************************************)
(* What the desktop, the other programs and the clients may rely on.       *)
(***************************************************************************)
EXTENDS Outputs

Factories == [number : Nat, kind : {"fallback", "plain"}, of : Streams \cup {Card}]

(* The parts have their types, and at most one reservation is held: by the *)
(* factory the thread has.                                                 *)
TypeOK ==
  /\ thread \in [state : {"Stopped", "Playing", "Paused"},
                 busy : {"no", "reserving", "opening", "streaming"},
                 why : {"none", "start", "resume", "switch"}, fits : BOOLEAN,
                 sinks : Factories, onShared : BOOLEAN, noBus : BOOLEAN,
                 open : Streams \cup {Card, None}]
  /\ held \in {0, thread.sinks.number}
  /\ owner \in {"nobody", "phonia", "another"}
  /\ asker \in [step : {"idle", "waiting", "granted"}, same : BOOLEAN]
  /\ request \in [step : {"idle", "moving", "listing", "switched"}, to : Streams \cup {Card, None}]
  /\ note \in [step : {"idle", "listing", "switched"}, to : Streams \cup {Card, None}]
  /\ {route, shown} \subseteq Streams \cup {Card}

(* "Who asks gets the card once phonia has given it up, and the name is    *)
(* free": nobody else has the card's name while a sink of phonia's is open *)
(* on it.  A reservation that a failed resume or switch left behind is     *)
(* given away under the slot, which takes it for held from then on; such a *)
(* name is one exception.  "A missing bus is not an error: ... the open    *)
(* goes ahead" is the other: then nothing is reserved, and nothing is      *)
(* taken for reserved either.                                              *)
OpenIsReserved ==
  thread.open = Card =>
    IF thread.noBus THEN held = 0 ELSE held # 0 /\ (owner = "phonia" \/ leftover)

(* The card is given back to the desktop whenever phonia does not want it: *)
(* stopped, playing on a stream, opening one, or paused with the output    *)
(* handed back; also when the factory tried the card first and fell back,  *)
(* and when the output was lost, released or replaced.  Nothing but a      *)
(* resume or a switch that failed keeps it, for the next try.              *)
CardIsGivenBack ==
  held # 0 =>
    \/ thread.open = Card
    \/ thread.busy \in {"reserving", "opening"}
    \/ leftover /\ thread.sinks.of = Card /\ thread.state = "Paused"

(* What phonia opens for a track that fits the card is never the stream,   *)
(* while the factory falls back: it climbs back with the next track.       *)
ClimbsBack ==
  Free /\ thread.sinks.kind = "fallback" /\ thread.open # None =>
    (thread.open = Card <=> thread.fits)

(* What clients are shown comes to be where the sound goes: after a switch *)
(* by hand, a fallback for a lost card, and every move of the factory,     *)
(* unless a move and a switch met.  A factory that opens nothing for good  *)
(* has said all it has to say.                                             *)
RouteCatchesUp == (shown # EngineOutput) ~> (shown = EngineOutput \/ crossed)
=============================================================================
