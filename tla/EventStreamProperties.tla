----------------------- MODULE EventStreamProperties -----------------------
(***************************************************************************)
(* What a client may rely on, however slow it is and however often it      *)
(* connects.                                                               *)
(***************************************************************************)
EXTENDS EventStream

Statuses == [state : {"Stopped", "Loading", "Playing", "Paused"},
             track : Tracks \cup {None}, output : {"Open", "Released", "Closed"}]
Whole == [status : Statuses, queue : Nat]
Ats == {"idle", "asked", "number", "numbered", "complete"}
ForwarderAts == {"off", "unborn", "receiving", "resyncing", "sending"}

Windowed(receiver, capacity) ==
  /\ DOMAIN receiver = {"unread", "missed"}
  /\ receiver.missed \in BOOLEAN
  /\ Len(receiver.unread) <= capacity

(* The parts have their types and every queue its bound: what a slow       *)
(* client or a slow connection leaves unread never grows past it.          *)
TypeOK ==
  /\ engine.status \in Statuses
  /\ queue.announced \in 0..queue.version
  /\ seq \in Nat
  /\ phase \in {"running", "stopping"}
  /\ desk.at \in Ats /\ desk.seq \in 0..seq /\ desk.state \in Whole
  /\ forwarder.at \in ForwarderAts /\ forwarder.seen \in 0..seq
  /\ client.phase \in {"away", "connecting", "reading", "asking"}
  /\ client.seen \in 0..seq
  /\ view \in Whole
  /\ Windowed(heard, EngineBacklog)
  /\ Windowed(forwarder.backlog, Backlog)
  /\ Windowed(client.inbox, ClientBacklog)
  /\ Len(outbox) <= Outbox

(* Nothing is lost unnoticed: what a client that reads applies next is the *)
(* event after the last it applied, or the whole state.  The engine's      *)
(* backlog, the subscriber's, the outbox and the client's own may each     *)
(* have overflowed, and the forwarder have been replaced, in between.      *)
NoSilentGap ==
  [][client.phase = "reading" /\ client'.phase = "reading" /\ client'.seen # client.seen
       => \/ client'.seen = client.seen + 1
          \/ Head(client.inbox.unread).event.kind = "Resync"]_vars

(* A client that has applied the last number shows a queue no older than   *)
(* the last one announced and, once the engine rests and fan_in has caught *)
(* up with it, whether something plays: however the number and the state   *)
(* of its snapshot, or of a Resync, were read apart.                       *)
AppliedIsShown ==
  client.phase = "reading" /\ client.seen = seq /\ ~client.inbox.missed =>
    /\ view.queue >= queue.announced
    /\ engine.doing = <<>> /\ heard = Listening =>
         view.status.state = engine.status.state

(* A client that stays connected, or keeps connecting, comes to show what  *)
(* plays and the queue as they are, unless the daemon stops: after the     *)
(* last change no loss is left that a later event would have to repair.    *)
CatchesUp ==
  \/ <>[](phase # "running")
  \/ <>[](view.status.state = engine.status.state /\ view.queue = queue.version)

=============================================================================
