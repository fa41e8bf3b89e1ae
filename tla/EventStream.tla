---------------------------- MODULE EventStream ----------------------------
(***************************************************************************)
(* How a client comes to know what the daemon is doing.                    *)
(*                                                                         *)
(*   crates/phoniad/src/daemon.rs      numbering and publishing events     *)
(*   crates/phoniad/src/server.rs      one connection: subscribe, forward  *)
(*   crates/phonia-ipc/src/client.rs   the client's stream of events       *)
(*   crates/phonia-tui/src/conn.rs     connecting, and connecting again    *)
(*                                                                         *)
(* The engine changes its status and emits events, in the order of its own *)
(* handlers.  fan_in gives each event its number and sends it to every     *)
(* subscriber.  A subscriber starts from a snapshot, whose number and      *)
(* state are read one after another while all this goes on, and applies    *)
(* the events after it.  Three bounded queues lie in between; each can     *)
(* overflow, and is followed by the whole state when it does.              *)
(*                                                                         *)
(* Of the state, the status (what plays, whether, and who has the output)  *)
(* and the version of the queue are kept.                                  *)
(***************************************************************************)
EXTENDS Broadcast, SequencesExt

CONSTANTS
  Tracks,
  None,             \* no track
  MaxMoves,         \* bound: what the engine does
  MaxEdits,         \* bound: changes of the queue
  MaxBreaks,        \* bound: connections that break
  EngineBacklog,    \* events the engine holds for fan_in
  Backlog,          \* EVENT_BACKLOG of the daemon, per subscriber
  Outbox,           \* OUTBOX: messages queued for one client
  ClientBacklog     \* EVENT_BACKLOG of the client

ASSUME EventStreamAssumption ==
  /\ Tracks # {} /\ None \notin Tracks
  /\ {MaxMoves, MaxEdits, MaxBreaks} \subseteq Nat
  /\ {EngineBacklog, Backlog, Outbox, ClientBacklog} \subseteq Nat \ {0}

VARIABLES
  engine,     \* [status, doing, moves]: what was published, what its handler still does
  heard,      \* fan_in's receiver of the engine's events
  queue,      \* [version, announced]: now, and as fan_in last published it
  seq,        \* the number of the last event
  phase,      \* of the daemon: "running" or "stopping"
  desk,       \* the connection's reader, while it answers a subscription
  forwarder,  \* forwards events to the client
  late,       \* what a forwarder that was aborted may still send
  outbox,     \* what is queued for the client
  client,     \* the client's end: [phase, inbox, answer, seen, breaks]
  view        \* what the client shows
vars == <<engine, heard, queue, seq, phase, desk, forwarder, late, outbox, client, view>>

daemon == <<engine, heard, queue, phase>>
connection == <<desk, forwarder, late, outbox>>

---------------------------------------------------------------------------
(* The engine: its handlers as sequences of what they publish and emit.    *)

Event(kind, of) == [kind |-> kind, of |-> of]
Emit(kind, of) == <<[do |-> "emit", event |-> Event(kind, of)]>>
Publish(status) == <<[do |-> "publish", status |-> status]>>

Ending(status) ==
  IF status.track = None THEN <<>> ELSE Emit("TrackEnded", status.track)

(* set_state: the status first, and the event only if the state changed.   *)
Become(from, to) ==
  Publish(to) \o (IF from.state = to.state THEN <<>> ELSE Emit("StateChanged", to.state))

(* open_sink, if the output had been handed over.                          *)
Acquire(status) ==
  IF status.output = "Released"
    THEN Publish([status EXCEPT !.output = "Open"]) \o Emit("OutputAcquired", None)
    ELSE <<>>

Idle == [state |-> "Stopped", track |-> None, output |-> "Closed"]

Load(status) ==
  Ending(status) \o Become(status, [status EXCEPT !.state = "Loading", !.track = None])

(* start_track says which track it is before the status does.              *)
Start(status, t) ==
  Acquire(status) \o Emit("TrackStarted", t)
    \o Become(status, [state |-> "Playing", track |-> t, output |-> "Open"])

Cross(status, t) ==
  Ending(status) \o Publish([status EXCEPT !.track = t]) \o Emit("TrackStarted", t)

Pause(status) == Become(status, [status EXCEPT !.state = "Paused"])

Resume(status) ==
  Acquire(status) \o Become(status, [status EXCEPT !.state = "Playing", !.output = "Open"])

Release(status) ==
  LET released == [status EXCEPT !.state = "Paused", !.output = "Released"]
  IN Become(status, [status EXCEPT !.state = "Paused"])
       \o Publish(released) \o Emit("OutputReleased", None)

Stop(status) == Ending(status) \o Become(status, Idle)

Handlers(status) ==
  {Load(status)}
  \cup (IF status.state = "Loading" THEN {Start(status, t) : t \in Tracks} ELSE {})
  \cup (IF status.state = "Playing" THEN {Cross(status, t) : t \in Tracks \ {status.track}}
                                          \cup {Pause(status)}
                                    ELSE {})
  \cup (IF status.state = "Paused" THEN {Resume(status)} ELSE {})
  \cup (IF status.output = "Open" /\ status.track # None THEN {Release(status)} ELSE {})
  \cup (IF status.state # "Stopped" THEN {Stop(status)} ELSE {})

EngineBegins ==
  /\ phase = "running"
  /\ engine.doing = <<>>
  /\ engine.moves < MaxMoves
  /\ \E doing \in Handlers(engine.status) :
       engine' = [engine EXCEPT !.doing = doing, !.moves = @ + 1]
  /\ UNCHANGED <<heard, queue, seq, phase, connection, client, view>>

EngineGoesOn ==
  /\ engine.doing # <<>>
  /\ LET step == Head(engine.doing)
         rest == [engine EXCEPT !.doing = Tail(@)]
     IN IF step.do = "publish"
          THEN /\ engine' = [rest EXCEPT !.status = step.status]
               /\ UNCHANGED heard
          ELSE /\ engine' = rest
               /\ heard' = Offered(heard, step.event, EngineBacklog)
  /\ UNCHANGED <<queue, seq, phase, connection, client, view>>

EditQueue ==
  /\ phase = "running"
  /\ queue.version < MaxEdits
  /\ queue' = [queue EXCEPT !.version = @ + 1]
  /\ UNCHANGED <<engine, heard, seq, phase, connection, client, view>>

---------------------------------------------------------------------------
(* The daemon: fan_in, publish and request_shutdown.  fan_in chooses at    *)
(* random among what is ready, the signal to stop included: it may publish *)
(* after the announcement of the end.                                      *)

Numbered(n, event) == [seq |-> n, event |-> event]

Reached(receiver, message) ==
  IF receiver.at = "off" THEN receiver
  ELSE [receiver EXCEPT !.backlog = Offered(@, message, Backlog)]

(* publish: numbered and sent under one lock.                              *)
PublishEvent(event) ==
  /\ seq' = seq + 1
  /\ forwarder' = Reached(forwarder, Numbered(seq + 1, event))
  /\ UNCHANGED <<desk, late, outbox, client, view>>

State == [status |-> engine.status, queue |-> queue.version]

\* Mutant: the queue that an event is converted with counts as announced.
FanInEventMarksQueue ==
  /\ ~heard.missed
  /\ heard.unread # <<>>
  /\ heard' = Taken(heard)
  /\ queue' = [queue EXCEPT !.announced = queue.version]
  /\ PublishEvent(Head(heard.unread))
  /\ UNCHANGED <<engine, phase>>

FanInEvent ==
  /\ ~heard.missed
  /\ heard.unread # <<>>
  /\ heard' = Taken(heard)
  /\ PublishEvent(Head(heard.unread))
  /\ UNCHANGED <<engine, queue, phase>>

FanInLagged ==
  /\ heard.missed
  /\ heard' = Told(heard)
  /\ PublishEvent(Event("Resync", State))
  /\ UNCHANGED <<engine, queue, phase>>

FanInQueue ==
  /\ queue.announced # queue.version
  /\ queue' = [queue EXCEPT !.announced = queue.version]
  /\ PublishEvent(Event("QueueChanged", queue.version))
  /\ UNCHANGED <<engine, heard, phase>>

(* request_shutdown: the announcement, then the signal everything waits    *)
(* for.                                                                    *)
RequestShutdown ==
  /\ phase = "running"
  /\ phase' = "stopping"
  /\ PublishEvent(Event("ShuttingDown", None))
  /\ UNCHANGED <<engine, heard, queue>>

---------------------------------------------------------------------------
(* One connection.  A snapshot is its number, and then the state; "at"     *)
(* says how far its taking has come.                                       *)

Taking(at) == [at |-> at, seq |-> 0, state |-> [status |-> Idle, queue |-> 0]]

NoMessage == Numbered(0, Event("none", None))
Off == [at |-> "off", seen |-> 0, backlog |-> Listening,
        held |-> NoMessage]

\* Mutant: the state is read before the number.
StateThenNumber(taken) ==
  IF taken.at = "number" THEN [taken EXCEPT !.at = "numbered", !.state = State]
  ELSE [taken EXCEPT !.at = "complete", !.seq = seq]

NextRead(taken) ==
  IF taken.at = "number" THEN [taken EXCEPT !.at = "numbered", !.seq = seq]
  ELSE [taken EXCEPT !.at = "complete", !.state = State]

HasRoom == Len(outbox) < Outbox
Send(message) == outbox' = Append(outbox, message)

(* subscribe: the receiver is made before the snapshot is taken.  An abort *)
(* ends a forwarder that waits at once; one that is running may still send *)
(* what it has just received.                                              *)
Listen ==
  /\ desk.at = "asked"
  /\ phase = "running"
  /\ desk' = Taking("number")
  /\ late' \in {NoMessage} \cup (IF forwarder.at = "receiving" /\ ~forwarder.backlog.missed
                                   THEN ToSet(forwarder.backlog.unread) ELSE {})
  /\ forwarder' = [Off EXCEPT !.at = "unborn"]
  /\ UNCHANGED <<daemon, seq, outbox, client, view>>

SendLate ==
  /\ late # NoMessage
  /\ late' = NoMessage
  /\ \/ HasRoom /\ Send(late)
     \/ UNCHANGED outbox
  /\ UNCHANGED <<daemon, seq, desk, forwarder, client, view>>

TakeSnapshot ==
  /\ desk.at \in {"number", "numbered"}
  /\ desk' = NextRead(desk)
  /\ UNCHANGED <<daemon, seq, forwarder, late, outbox, client, view>>

Answer ==
  /\ desk.at = "complete"
  /\ HasRoom
  /\ Send(Numbered(desk.seq, Event("Snapshot", desk.state)))
  /\ forwarder' = [forwarder EXCEPT !.at = "receiving", !.seen = desk.seq]
  /\ desk' = Taking("idle")
  /\ UNCHANGED <<daemon, seq, late, client, view>>

(* forward_events: a message is received, or the loss of some, which the   *)
(* state as it is now makes up for; and sent, once there is room.          *)
Deliver(f, message) ==
  IF HasRoom
    THEN /\ Send(message)
         /\ forwarder' = IF message.event.kind = "ShuttingDown" THEN Off ELSE f
    ELSE /\ forwarder' = [f EXCEPT !.at = "sending", !.held = message]
         /\ UNCHANGED outbox

Receive ==
  /\ forwarder.at = "receiving"
  /\ ~forwarder.backlog.missed
  /\ forwarder.backlog.unread # <<>>
  /\ LET message == Head(forwarder.backlog.unread)
         rest == [forwarder EXCEPT !.backlog = Taken(@)]
     IN IF message.seq <= forwarder.seen
          THEN forwarder' = rest /\ UNCHANGED outbox
          ELSE Deliver([rest EXCEPT !.seen = message.seq], message)
  /\ UNCHANGED <<daemon, seq, desk, late, client, view>>

\* Mutant: the loss is skipped over, and no state follows.
LagUnnoticed ==
  /\ forwarder.at = "receiving"
  /\ forwarder.backlog.missed
  /\ forwarder' = [forwarder EXCEPT !.backlog = Told(@)]
  /\ UNCHANGED <<daemon, seq, desk, late, outbox, client, view>>

Lag ==
  /\ forwarder.at = "receiving"
  /\ forwarder.backlog.missed
  /\ forwarder' = [forwarder EXCEPT !.backlog = Told(@), !.at = "resyncing", !.seen = seq]
  /\ UNCHANGED <<daemon, seq, desk, late, outbox, client, view>>

Resync ==
  /\ forwarder.at = "resyncing"
  /\ Deliver([forwarder EXCEPT !.at = "receiving"],
             Numbered(forwarder.seen, Event("Resync", State)))
  /\ UNCHANGED <<daemon, seq, desk, late, client, view>>

Forward ==
  /\ forwarder.at = "sending"
  /\ HasRoom
  /\ Deliver([forwarder EXCEPT !.at = "receiving", !.held = NoMessage], forwarder.held)
  /\ UNCHANGED <<daemon, seq, desk, late, client, view>>

---------------------------------------------------------------------------
(* The client: read_loop, EventStream::next_seq and what conn.rs makes of  *)
(* them.  "answer" is the snapshot that was answered and not yet taken.    *)

Away == [phase |-> "away", inbox |-> Listening, answer |-> NoMessage, seen |-> 0,
         breaks |-> 0]
NoConnection ==
  /\ desk' = Taking("idle")
  /\ forwarder' = Off
  /\ late' = NoMessage
  /\ outbox' = <<>>

Connect ==
  /\ phase = "running"
  /\ client.phase = "away"
  /\ client' = [client EXCEPT !.phase = "connecting"]
  /\ desk' = Taking("asked")
  /\ UNCHANGED <<daemon, seq, forwarder, late, outbox, view>>

ReadFrame ==
  /\ outbox # <<>>
  /\ outbox' = Tail(outbox)
  /\ client' = IF Head(outbox).event.kind = "Snapshot"
                 THEN [client EXCEPT !.answer = Head(outbox)]
                 ELSE [client EXCEPT !.inbox = Offered(@, Head(outbox), ClientBacklog)]
  /\ UNCHANGED <<daemon, seq, desk, forwarder, late, view>>

(* What the interface shows after an event.                                *)
Shown(shown, event) ==
  CASE event.kind \in {"Snapshot", "Resync"} ->
         [status |-> event.of.status, queue |-> event.of.queue]
    [] event.kind = "QueueChanged" -> [shown EXCEPT !.queue = event.of]
    [] event.kind = "StateChanged" ->
         IF event.of = "Stopped"
           THEN [shown EXCEPT !.status.state = "Stopped", !.status.output = "Closed"]
           ELSE [shown EXCEPT !.status.state = event.of]
    [] event.kind = "TrackStarted" ->
         [shown EXCEPT !.status.track = event.of, !.status.output = "Open"]
    [] event.kind = "TrackEnded" -> [shown EXCEPT !.status.track = None]
    [] event.kind = "OutputReleased" -> [shown EXCEPT !.status.output = "Released"]
    [] event.kind = "OutputAcquired" -> [shown EXCEPT !.status.output = "Open"]
    [] OTHER -> shown

(* The answer to subscribe: the first, or one asked for after losing       *)
(* events.                                                                 *)
TakeAnswer ==
  /\ client.phase \in {"connecting", "asking"}
  /\ client.answer # NoMessage
  /\ client' = [client EXCEPT !.phase = "reading", !.answer = NoMessage,
                              !.seen = client.answer.seq]
  /\ view' = Shown(view, client.answer.event)
  /\ UNCHANGED <<daemon, seq, connection>>

(* An event already seen is skipped; a Resync of the daemon is an event as *)
(* any other.                                                              *)
NextEvent ==
  /\ client.phase = "reading"
  /\ ~client.inbox.missed
  /\ client.inbox.unread # <<>>
  /\ LET message == Head(client.inbox.unread)
         rest == [client EXCEPT !.inbox = Taken(@)]
     IN IF message.seq <= client.seen
          THEN client' = rest /\ UNCHANGED view
          ELSE /\ client' = [rest EXCEPT !.seen = message.seq]
               /\ view' = Shown(view, message.event)
  /\ UNCHANGED <<daemon, seq, connection>>

AskAgain ==
  /\ client.phase = "reading"
  /\ client.inbox.missed
  /\ desk.at = "idle"
  /\ client' = [client EXCEPT !.phase = "asking", !.inbox = Told(@)]
  /\ desk' = Taking("asked")
  /\ UNCHANGED <<daemon, seq, forwarder, late, outbox, view>>

(* The connection breaks (a write that takes too long ends it as well), or *)
(* the stopping daemon closes it: once the forwarder has said the last, or *)
(* when it is no longer waited for, or because the process ends.           *)
Disconnect(broken) ==
  /\ client' = [Away EXCEPT !.breaks = client.breaks + broken]
  /\ NoConnection
  /\ UNCHANGED <<daemon, seq, view>>

Break ==
  /\ client.phase # "away"
  /\ client.breaks < MaxBreaks
  /\ Disconnect(1)

StopServing ==
  /\ phase = "stopping"
  /\ client.phase # "away"
  /\ Disconnect(0)

---------------------------------------------------------------------------
(* A client may come at any time: the daemon has just started, or has been *)
(* playing, and its engine rests.  Which track it plays makes no matter.   *)
ATrack == CHOOSE t \in Tracks : TRUE
Begun ==
  {Idle, [Idle EXCEPT !.state = "Loading"]}
         \cup [state : {"Playing"}, track : {ATrack}, output : {"Open"}]
         \cup [state : {"Paused"}, track : {ATrack}, output : {"Released"}]

Init ==
  /\ engine \in [status : Begun, doing : {<<>>}, moves : {0}]
  /\ heard = Listening
  /\ queue = [version |-> 0, announced |-> 0]
  /\ seq = 0
  /\ phase = "running"
  /\ desk = Taking("idle")
  /\ forwarder = Off
  /\ late = NoMessage
  /\ outbox = <<>>
  /\ client = Away
  /\ view = [status |-> Idle, queue |-> 0]

Works ==
  \/ EngineGoesOn \/ FanInEvent \/ FanInLagged \/ FanInQueue
  \/ Listen \/ TakeSnapshot \/ Answer \/ Receive \/ Lag \/ Resync \/ Forward
  \/ Connect \/ ReadFrame \/ TakeAnswer \/ NextEvent \/ AskAgain

Next ==
  \/ Works
  \/ EngineBegins \/ EditQueue
  \/ RequestShutdown \/ StopServing
  \/ SendLate \/ Break

Spec == Init /\ [][Next]_vars

(* Everything between the engine and the view keeps going: fan_in and the  *)
(* connection's tasks run whenever there is something for them.            *)
Fairness ==
  /\ WF_vars(EngineGoesOn)
  /\ WF_vars(FanInEvent) /\ WF_vars(FanInLagged) /\ WF_vars(FanInQueue)
  /\ WF_vars(Listen) /\ WF_vars(TakeSnapshot) /\ WF_vars(Answer)
  /\ WF_vars(Receive) /\ WF_vars(Lag) /\ WF_vars(Resync) /\ WF_vars(Forward)
  /\ WF_vars(Connect) /\ WF_vars(ReadFrame) /\ WF_vars(TakeAnswer)
  /\ WF_vars(NextEvent) /\ WF_vars(AskAgain)

FairSpec == Spec /\ Fairness
=============================================================================
